------------------------------- MODULE Cooldown -------------------------------
(***************************************************************************)
(* ComputeCooldown: how long a learner waits after the n-th wrong answer.  *)
(*                                                                         *)
(* The code computes in machine integers: int is 64 bits, a Duration is a  *)
(* 64-bit count of nanoseconds.  Word stands for 2^63 and Second for 10^9, *)
(* so that TLC reaches their limits with small numbers.  A float too large *)
(* for int converts to whatever the processor gives: the smallest int on   *)
(* amd64, the largest on arm64; both are outcomes.                         *)
(* A multiplier is a float that nothing validates: below 1, waits shrink,  *)
(* below 0, they alternate with none.  It is a multiple of 1/Unit here,    *)
(* and products are exact.                                                 *)
(***************************************************************************)
EXTENDS Integers

CONSTANTS
  Word,         \* integers run from -Word to Word - 1
  Second,       \* units of time in a second
  Unit          \* multipliers are counted in Unit-ths

ASSUME CooldownAssumption ==
  /\ Word \in Nat \ {0}
  /\ Second \in Nat \ {0}
  /\ Unit \in Nat \ {0}

CooldownSpec == [strategy : {"fixed", "linear", "exponential"},
                 base : Int, multiplier : Int, max : Int]

\* Two's-complement arithmetic.
Wrap(x) == ((x + Word) % (2 * Word)) - Word

\* A quotient without its fraction.
Truncated(num, den) == IF num >= 0 THEN num \div den ELSE -((-num) \div den)

\* Converting a whole float to int.
ToInt(x) ==
  CASE x >= Word -> {Word - 1, -Word}
    [] x < -Word -> {-Word}
    [] OTHER     -> {x}

Capped(secs, max) == IF max > 0 /\ secs > max THEN max ELSE secs

\* The multiplier, n times: multiplied in a loop.
Power(multiplier, n) ==
  LET power[i \in 0..n] == IF i = 0 THEN 1 ELSE multiplier * power[i - 1]
  IN  power[n]

\* base * multiplier^(n - 1), the fraction dropped.
Grown(n, spec) == Truncated(spec.base * Power(spec.multiplier, n - 1), Power(Unit, n - 1))

Exponential(n, spec) ==
  {Capped(secs, spec.max) : secs \in ToInt(Grown(n, spec))}

\* The seconds, before the final clamp at zero.
RawSeconds(n, spec) ==
  CASE spec.strategy = "fixed"  -> {spec.base}
    [] spec.strategy = "linear" -> {Wrap(spec.base * n)}
    [] OTHER                    -> Exponential(n, spec)

\* The possible cooldowns after n attempts.
ComputeCooldown(n, spec) ==
  {Wrap((IF secs < 0 THEN 0 ELSE secs) * Second) : secs \in RawSeconds(n, spec)}
=============================================================================
