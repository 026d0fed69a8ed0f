--------------------------- MODULE VotingContract ---------------------------
(***************************************************************************)
(* What a validator promises the chain and the operator, without its two   *)
(* loops, its polls, its lock, its cache and its memory: rounds that are   *)
(* evaluated one at a time and once, and votes from scored rounds, between *)
(* rounds, by a revision that is in force.                                 *)
(***************************************************************************)
EXTENDS Naturals

CONSTANTS
  Rounds,       \* the rounds there may be, numbers from 1
  Submissions,
  Instances     \* records a submission may have in a round

VARIABLES
  block,      \* the chain's height
  published,  \* the newest revision, 0 before the first
  effective,  \* the block from which each is effective
  entrants,   \* per round, the submissions it was opened for; none before
  open,       \* the round under way, 0 if there is none
  overdue,    \* it is more than a day old
  records,    \* per round and submission, the records in the ledger
  inForce,    \* the revision adopted since the last start, 0 before the first
  vote        \* what the chain took last: by whose authority, from which round

operator == <<block, published, effective>>
rounds == <<entrants, open, overdue, records>>
vars == <<operator, rounds, inForce, vote>>

Init ==
  /\ block = 0
  /\ published = 0
  /\ entrants = [r \in Rounds |-> {}]
  /\ open = 0
  /\ overdue = FALSE
  /\ records = [r \in Rounds |-> [s \in Submissions |-> 0]]
  /\ inForce = 0
  /\ vote = [by |-> "nobody", round |-> 0, revision |-> 0]

-----------------------------------------------------------------------------
(* The chain grows; a revision once published stays what it is. *)

NextBlock ==
  /\ block' = block + 1
  /\ UNCHANGED <<published, effective, rounds, inForce, vote>>

PublishRevision ==
  /\ published' = published + 1
  /\ \A d \in 1 .. published : effective'[d] = effective[d]
  /\ UNCHANGED <<block, rounds, inForce, vote>>

\* A revision may govern from its block on.  An earlier one may again after a later one.
MayGovern(d) == effective[d] <= block

\* What is done in the name of d, which is adopted now or else remembered from before.
Under(d) == MayGovern(d) /\ inForce' \in {inForce, d}

Adopt(d) ==
  /\ Under(d)
  /\ UNCHANGED <<operator, rounds, vote>>

-----------------------------------------------------------------------------
(* Rounds. *)

\* A round is opened once, under a revision in force, and not beside another one.
Open(r, subs, d) ==
  /\ open = 0
  /\ entrants[r] = {} /\ subs # {}
  /\ Under(d)
  /\ entrants' = [entrants EXCEPT ![r] = subs]
  /\ open' = r
  /\ UNCHANGED <<operator, overdue, records, vote>>

\* Only the round under way takes records, of those it was opened for; this one may be
\* its last.
Score(s) ==
  /\ open # 0
  /\ s \in entrants[open]
  /\ records[open][s] < Instances
  /\ records' = [records EXCEPT ![open][s] = @ + 1]
  /\ \/ UNCHANGED <<open, overdue>>
     \/ open' = 0 /\ overdue' = FALSE
  /\ UNCHANGED <<operator, entrants, inForce, vote>>

DayPasses ==
  /\ open # 0
  /\ overdue' = TRUE
  /\ UNCHANGED <<operator, entrants, open, records, inForce, vote>>

\* A round ends, scored in whole, in part or not at all.  It is not taken up again.
Close ==
  /\ open' = 0 /\ overdue' = FALSE
  /\ UNCHANGED <<operator, entrants, records, inForce, vote>>

\* The validator ends, and the round under way with it; the next one remembers less.
Restart ==
  /\ open' = 0 /\ overdue' = FALSE
  /\ inForce' = 0
  /\ UNCHANGED <<operator, entrants, records, vote>>

-----------------------------------------------------------------------------
(* Votes. *)

Scored == {r \in Rounds : \E s \in Submissions : records[r][s] > 0}

\* The round a vote is made from depends on which rounds are scored and on nothing else.
Settled(r) ==
  IF Scored = {} THEN r = 0 ELSE r \in Scored /\ \A q \in Scored : q <= r

\* No vote falls into a round, but for one that takes longer than a day.
Quiet == open = 0 \/ overdue

Vote(d, r) ==
  /\ Quiet
  /\ Under(d)
  /\ Settled(r)
  /\ vote' = [by |-> "directive", round |-> r, revision |-> d]
  /\ UNCHANGED <<operator, rounds>>

\* The compiled in hotkey, for a validator that knows of no directive and has no score.
VoteUngoverned ==
  /\ Quiet
  /\ inForce = 0
  /\ Scored = {}
  /\ vote' = [by |-> "fallback", round |-> 0, revision |-> 0]
  /\ UNCHANGED <<operator, rounds, inForce>>

Next ==
  \/ NextBlock \/ PublishRevision
  \/ \E s \in Submissions : Score(s)
  \/ DayPasses \/ Close \/ Restart \/ VoteUngoverned
  \/ \E d \in 1 .. published :
       \/ Adopt(d)
       \/ \E r \in Rounds, subs \in SUBSET Submissions : Open(r, subs, d)
       \/ \E r \in Rounds \cup {0} : Vote(d, r)

Spec == Init /\ [][Next]_vars
=============================================================================
