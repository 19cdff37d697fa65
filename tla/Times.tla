------------------------------- MODULE Times -------------------------------
(* Instants are integers; Never is the code's zero time. *)
EXTENDS Integers

Never == -1
Later(a, b) == IF a > b THEN a ELSE b
=============================================================================
