------------------------------- MODULE Meter -------------------------------
(***************************************************************************)
(* The per-instance spend meter, src/enclave/relay/meter.py.  Money is     *)
(* counted in quanta (MONEY_QUANTUM), so a cost is a natural number: what  *)
(* price_tokens returned for the call.  Of the list of calls the relay's   *)
(* callers look at two things only: how many there are, and whether one of *)
(* them is a model call with output (crossed_relay).                       *)
(***************************************************************************)
EXTENDS Naturals

CONSTANT SpendCap      \* header.spend_cap, in quanta

ASSUME SpendCapAssumption == SpendCap \in Nat \ {0}

MeterType == [spent : Nat, sealed : BOOLEAN, calls : Nat, crossed : BOOLEAN]

FreshMeter == [spent |-> 0, sealed |-> FALSE, calls |-> 0, crossed |-> FALSE]

Remaining(m) == IF m.spent <= SpendCap THEN SpendCap - m.spent ELSE 0

\* quote <= remaining: a call quoted at exactly the rest of the cap may start.
Affordable(m, quote) == quote <= Remaining(m)

Seal(m) == [m EXCEPT !.sealed = TRUE]

NeverRefuses(m) == FALSE

\* _charge raises MeteringError on a sealed meter, before anything is recorded.
Refuses(m) == m.sealed

\* The call is recorded and added to the spend first, ...
SpendWith(m, cost) == m.spent + cost

\* ... and SpendCapExceeded is raised after that, with the meter sealed.
ReachesStrictlyAbove(m, cost) == SpendWith(m, cost) > SpendCap
ReachesCap(m, cost) == SpendWith(m, cost) >= SpendCap

\* What the meter holds after _charge: `output` says the call is a model call
\* that produced at least one token.
Charged(m, cost, output) ==
  [ spent   |-> SpendWith(m, cost),
    sealed  |-> m.sealed \/ ReachesCap(m, cost),
    calls   |-> m.calls + 1,
    crossed |-> m.crossed \/ output ]
=============================================================================
