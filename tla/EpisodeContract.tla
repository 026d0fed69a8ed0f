-------------------------- MODULE EpisodeContract --------------------------
(***************************************************************************)
(* What the relay and run_episode promise together about one instance of   *)
(* one submission, without connections, containers or handler tasks: an    *)
(* account that closes, one answer, one verdict; and when there may be no  *)
(* verdict at all.                                                         *)
(***************************************************************************)
EXTENDS Naturals

CONSTANTS SpendCap, MaxCost

VARIABLES
  spent,       \* metered spend
  open,        \* the account still takes charges
  inferred,    \* some charge was for model output
  answer,      \* "none", or one of Answers
  blamed,      \* the submission broke the protocol
  hostFailed,  \* the host raised where the instance needed it
  verdict      \* "none", the outcome recorded, or "failed": there is no record

vars == <<spent, open, inferred, answer, blamed, hostFailed, verdict>>

Answers == {"right", "wrong", "undigestible"}
Outcomes == {"solved", "unsolved", "cap_exhausted", "timeout", "crashed",
             "protocol_violation", "environment_fault"}

Init ==
  /\ spent = 0
  /\ open = TRUE
  /\ inferred = FALSE
  /\ answer = "none"
  /\ blamed = FALSE
  /\ hostFailed = FALSE
  /\ verdict = "none"

\* Any use of the relay may turn out to break the protocol, and that stays known.
MayBlame == blamed' \in {blamed, TRUE}

Blame ==
  /\ MayBlame
  /\ UNCHANGED <<spent, open, inferred, answer, hostFailed, verdict>>

\* A charge lands on an open account only, and the one that reaches the cap closes it.
Charge(cost) ==
  /\ open
  /\ spent' = spent + cost
  /\ open' = (spent + cost < SpendCap)
  /\ inferred' \in {inferred, TRUE}
  /\ MayBlame
  /\ UNCHANGED <<answer, hostFailed, verdict>>

\* A quote the rest of the cap cannot pay closes it too.
Close ==
  /\ open' = FALSE
  /\ MayBlame
  /\ UNCHANGED <<spent, inferred, answer, hostFailed, verdict>>

Answer(a) ==
  /\ verdict \in {"none", "failed"}
  /\ answer = "none"
  /\ answer' = a
  /\ MayBlame
  /\ UNCHANGED <<spent, open, inferred, hostFailed, verdict>>

\* The verdict closes the account.  Only a right answer, with inference and under the
\* cap, is solved; breaking the protocol outranks everything but an environment that
\* did not start, and nobody is charged with it who did not, short of answering without
\* inference.
Settle(o) ==
  /\ verdict = "none"
  /\ ~hostFailed /\ answer # "undigestible"
  /\ blamed => o \in {"protocol_violation", "environment_fault"}
  /\ o = "protocol_violation" => blamed \/ (answer # "none" /\ ~inferred)
  /\ o = "solved" => answer = "right" /\ inferred /\ spent < SpendCap
  /\ o = "cap_exhausted" => spent >= SpendCap
  /\ verdict' = o
  /\ open' = FALSE
  /\ UNCHANGED <<spent, inferred, answer, blamed, hostFailed>>

\* The host fails before there is a verdict, and with it perhaps the instance.
HostFails ==
  /\ verdict = "none"
  /\ hostFailed' = TRUE
  /\ verdict' \in {"none", "failed"}
  /\ UNCHANGED <<spent, open, inferred, answer, blamed>>

\* There is no verdict after a failure of the host, nor on an answer without a digest.
Fail ==
  /\ verdict = "none"
  /\ hostFailed \/ answer = "undigestible"
  /\ verdict' = "failed"
  /\ open' = FALSE
  /\ UNCHANGED <<spent, inferred, answer, blamed, hostFailed>>

Next ==
  \/ \E cost \in 0 .. MaxCost : Charge(cost)
  \/ Close
  \/ Blame
  \/ \E a \in Answers : Answer(a)
  \/ \E o \in Outcomes : Settle(o)
  \/ HostFails
  \/ Fail

Safe == Init /\ [][Next]_vars

\* Every instance is settled, or fails for one of the two reasons there are.
Spec == Safe /\ WF_vars((\E o \in Outcomes : Settle(o)) \/ Fail)
=============================================================================
