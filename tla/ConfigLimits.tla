---------------------------- MODULE ConfigLimits ----------------------------
(***************************************************************************)
(* The settings and what Normalize (internal/model/config.go) corrects in  *)
(* them.  A number is an integer or NaN, which stands for infinities too:  *)
(* fractions of a window in quarters, weights in halves, durations in half *)
(* minutes and of a width in which doubling can overflow.  A usage URL is  *)
(* "default", "trusted", "untrusted" or "unset".                           *)
(***************************************************************************)
EXTENDS Integers

CONSTANTS
  NaN,
  MaxDuration  \* bound: the largest duration, 2^w - 1

ASSUME LimitsAssumption == NaN \notin Int /\ MaxDuration \in Nat

Defaults ==
  [enabled |-> FALSE, providers |-> {"claude"}, models |-> {}, ttl |-> 120, maxSessions |-> 64,
   shape |-> "linear", exponent |-> 1, steepness |-> 8, landing |-> 5,
   weekly |-> 2, session |-> 0, scoped |-> 1,
   poll |-> 4, timeout |-> 1, staleness |-> 30, url |-> "default", limit |-> 5]

maxWeight == 200
maxRequestTimeout == 2
maxHistoryLimit == 100

\* A duration's width: doubling one past the middle wraps negative.
Wrapped(d) == ((d + MaxDuration + 1) % (2 * (MaxDuration + 1))) - (MaxDuration + 1)

Finite(v, default) == IF v = NaN THEN default ELSE v
Positive(v, default) == IF v <= 0 THEN default ELSE v
AtMost(v, bound) == IF v > bound THEN bound ELSE v

\* A mutation: a negative weight is kept.
WeightSigned(v, default) == AtMost(Finite(v, default), maxWeight)

Weight(v, default) ==
  LET w == Finite(v, default) IN IF w < 0 THEN 0 ELSE AtMost(w, maxWeight)

Landing(v, default) == LET l == Finite(v, default) IN IF l <= 0 \/ l > 16 THEN default ELSE l

\* An exponent set with no shape named names the power shape.
Shape(shape, exponent) ==
  IF shape \in {"linear", "power", "sigmoid"} THEN shape
  ELSE IF shape = "unset" /\ exponent # Defaults.exponent THEN "power" ELSE Defaults.shape

trustedUsageURL(url) == url \in {"default", "trusted"}

\* A reading outlives two polls, unless doubling the interval overflows.
Staleness(staleness, poll) ==
  LET set == Positive(staleness, Defaults.staleness)
  IN  IF Wrapped(2 * poll) > set THEN Wrapped(2 * poll) ELSE set

Normalize(c) ==
  LET d == Defaults
      exponent == Positive(Finite(c.exponent, d.exponent), d.exponent)
      poll == IF c.poll < 1 THEN d.poll ELSE c.poll
  IN  [c EXCEPT
         !.providers = IF @ = {} THEN d.providers ELSE @,
         !.ttl = Positive(@, d.ttl), !.maxSessions = Positive(@, d.maxSessions),
         !.exponent = exponent, !.shape = Shape(@, exponent),
         !.steepness = Positive(Finite(@, d.steepness), d.steepness),
         !.landing = Landing(@, d.landing),
         !.weekly = Weight(@, d.weekly), !.session = Weight(@, d.session), !.scoped = Weight(@, d.scoped),
         !.poll = poll, !.staleness = Staleness(@, poll),
         !.timeout = AtMost(Positive(@, d.timeout), maxRequestTimeout),
         !.url = IF trustedUsageURL(@) THEN @ ELSE d.url,
         !.limit = AtMost(Positive(@, d.limit), maxHistoryLimit)]

\* The settings Normalize warns of: those above a bound, a URL it refuses, and a
\* max-staleness the operator chose that it raises.
Clamped(c) ==
  {f \in {"weekly", "session", "scoped"} : Finite(c[f], Defaults[f]) > maxWeight}
  \cup {f \in {"timeout"} : c[f] > maxRequestTimeout} \cup {f \in {"limit"} : c[f] > maxHistoryLimit}
  \cup {f \in {"url"} : c[f] # "unset" /\ ~trustedUsageURL(c[f])}
  \cup {f \in {"staleness"} : LET set == Positive(c[f], Defaults[f])
                              IN  Normalize(c).staleness # set /\ set # Defaults[f]}
=============================================================================
