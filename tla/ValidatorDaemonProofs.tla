----------------------- MODULE ValidatorDaemonProofs -----------------------
(***************************************************************************)
(* Safety of the validator daemon for every number of submissions,         *)
(* instances, rounds, revisions, blocks, signals, crashes and torn         *)
(* appends, whether or not pids are reused and rounds outlast their lock.  *)
(*                                                                         *)
(* The properties are about two tasks that only meet on disk.  What ties   *)
(* them together is LockTracksRound: the process's own lock is there       *)
(* whenever it evaluates a round, and afterwards where it is not removed.  *)
(*                                                                         *)
(* Then the contract: each step of the daemon is a step of VotingContract  *)
(* or changes nothing that it speaks of.                                   *)
(*                                                                         *)
(* Last the update in place: stopping and killing the container keeps the  *)
(* invariant, so the lock the hook reads stands for the round evaluated,   *)
(* and the contract is kept by an updated validator as well.               *)
(***************************************************************************)
EXTENDS Deployment, WellFoundedInduction, FiniteSetTheorems, TLAPS

-----------------------------------------------------------------------------
(* Sets of numbers. *)

\* A nonempty set of naturals has a least member.
LEMMA Least ==
  ASSUME NEW S \in SUBSET Nat, S # {}
  PROVE  \E m \in S : \A q \in S : m <= q
<1>1. \E R : IsWellFoundedOn(R, Nat) /\ \A x, y \in Nat : x < y => <<x, y>> \in R
  <2>1. \A x, y \in Nat : x < y => <<x, y>> \in OpToRel(<, Nat)
    BY DEF OpToRel
  <2>. WITNESS OpToRel(<, Nat)
  <2>. QED BY <2>1, NatLessThanWellFounded
<1>2. PICK R : IsWellFoundedOn(R, Nat) /\ \A x, y \in Nat : x < y => <<x, y>> \in R
  BY <1>1
<1>3. PICK m \in S : \A y \in S : ~(<<y, m>> \in R)
  <2>1. IsWellFoundedOn(R, Nat) /\ S \subseteq Nat
    BY <1>2
  <2>. QED BY <2>1, WFMin, Zenon
<1>4. \A y \in S : ~(y < m)
  BY <1>2, <1>3
<1>. QED BY <1>4

\* A nonempty set of numbers up to n has a greatest member.
LEMMA Greatest ==
  ASSUME NEW n \in Nat, NEW S \in SUBSET (1 .. n), S # {}
  PROVE  \E m \in S : \A q \in S : q <= m
<1>. DEFINE U == {n - q : q \in S}
<1>1. \A q \in S : q \in 1 .. n /\ n - q \in Nat
  OBVIOUS
<1>2. U \in SUBSET Nat /\ U # {}
  BY <1>1
<1>3. PICK m \in U : \A u \in U : m <= u
  BY <1>2, Least
<1>4. PICK s \in S : m = n - s
  OBVIOUS
<1>5. \A q \in S : n - s <= n - q
  BY <1>3, <1>4
<1>. QED BY <1>1, <1>5

\* _settled_round names one of the rounds with a record, if there is one.
LEMMA SettledRoundIsSettled ==
  ASSUME MaxRound \in Nat
  PROVE  /\ SettledRounds \subseteq RoundIds
         /\ SettledRounds # {} => SettledRound \in SettledRounds
         /\ SettledRounds = {} => SettledRound = 0
         /\ SettledRound \in 0 .. MaxRound
<1>1. SettledRounds \subseteq RoundIds
  BY DEF SettledRounds
<1>2. ASSUME SettledRounds # {}
      PROVE  \E r \in SettledRounds : \A q \in SettledRounds : q <= r
  BY <1>1, <1>2, Greatest DEF RoundIds
<1>3. SettledRounds # {} => SettledRound \in SettledRounds
  BY <1>2 DEF SettledRound
<1>4. SettledRounds = {} => SettledRound = 0
  BY DEF SettledRound
<1>5. CASE SettledRounds = {}
  BY <1>1, <1>3, <1>4, <1>5
<1>6. CASE SettledRounds # {}
  <2>1. SettledRound \in 1 .. MaxRound
    BY <1>1, <1>3, <1>6 DEF RoundIds
  <2>. QED BY <1>1, <1>3, <1>6, <2>1
<1>. QED BY <1>5, <1>6

\* While some round is still unopened, fewer than MaxRound rounds are opened.
LEMMA OpenedIsBounded ==
  ASSUME MaxRound \in Nat, NEW r \in RoundIds, born[r] = 0
  PROVE  Opened \in Nat /\ Opened + 1 \in 0 .. MaxRound
<1>. DEFINE B == {q \in RoundIds : born[q] # 0}
<1>1. IsFiniteSet(RoundIds) /\ Cardinality(RoundIds) = MaxRound
  BY FS_Interval DEF RoundIds
<1>2. /\ IsFiniteSet(RoundIds \ {r})
      /\ Cardinality(RoundIds \ {r}) = MaxRound - 1
  BY <1>1, FS_RemoveElement
<1>3. B \in SUBSET (RoundIds \ {r})
  OBVIOUS
<1>4. IsFiniteSet(B) /\ Cardinality(B) <= MaxRound - 1
  BY <1>2, <1>3, FS_Subset
<1>5. Cardinality(B) \in Nat
  BY <1>4, FS_CardinalityType
<1>. QED BY <1>4, <1>5 DEF Opened

-----------------------------------------------------------------------------
(* The inductive invariant. *)

\* A process that evaluates a round has its lock on disk.
LockTracksRound == score = "evaluating" => lock = "mine"

\* The round under way is an opened round; neither its current submission nor those
\* left have all their records.
RoundUnderWay ==
  score \in {"opened", "evaluating"} =>
    /\ up
    /\ cur # NoRound
    /\ born[cur.round] # 0
    /\ \A s \in cur.left \cup {cur.sub} : recs[cur.round][s] < Instances
    /\ cur.sub \notin cur.left

\* A round that was never opened has no record.
UnopenedIsEmpty == \A r \in RoundIds : born[r] = 0 => \A s \in Submissions : recs[r][s] = 0

\* A revision held, adopted or cached was published.
HeldWasPublished == latest <= revision /\ directive <= revision /\ cache <= revision

\* A revision is adopted at or after its block, by a process that holds a revision.
AdoptedInForce == directive # 0 => latest # 0 /\ EffectiveNow(directive)

\* The round voted for was opened, and is not the one being evaluated, unless that
\* one outlasted its lock.
VotedIsOver ==
  pub.round # 0 =>
    /\ born[pub.round] # 0
    /\ score = "opened" => cur.round # pub.round
    /\ score = "evaluating" /\ cur.round = pub.round => lockOld

IInv ==
  /\ TypeOK
  /\ LockTracksRound
  /\ RoundUnderWay
  /\ UnopenedIsEmpty
  /\ HeldWasPublished
  /\ AdoptedInForce
  /\ CachedWasInForce
  /\ VotedIsOver

-----------------------------------------------------------------------------
(* It holds initially and is preserved. *)

LEMMA InvariantHoldsAtFirst == Init => IInv
<1>. SUFFICES ASSUME Init PROVE IInv
  OBVIOUS
<1>1. TypeOK
  <2>1. pidReused \in BOOLEAN /\ payable \in BOOLEAN
    BY DaemonAssumption, Zenon DEF Init, DaemonAssumption
  <2>2. pub \in [by : {"nobody", "fallback", "directive"},
                round : 0 .. MaxRound, revision : 0 .. MaxRevision]
    BY DaemonAssumption DEF Init, DaemonAssumption, NoVector
  <2>3. 0 \in Blocks /\ 0 \in 0 .. Instances /\ 0 \in 0 .. MaxRound
    BY DaemonAssumption DEF DaemonAssumption, Blocks
  <2>4. [r \in RoundIds |-> [s \in Submissions |-> 0]]
          \in [RoundIds -> [Submissions -> 0 .. Instances]]
    BY <2>3
  <2>5. /\ torn \subseteq RoundIds
        /\ effective \in [Revisions -> Blocks]
        /\ paused \in [Revisions -> BOOLEAN]
        /\ born \in [RoundIds -> 0 .. MaxRound]
        /\ plan \in [RoundIds -> SUBSET Submissions]
    BY <2>3 DEF Init
  <2>6. /\ 0 \in 0 .. MaxRevision /\ 0 \in 0 .. MaxInterrupts
        /\ recs \in [RoundIds -> [Submissions -> 0 .. Instances]]
    BY DaemonAssumption, <2>4 DEF Init, DaemonAssumption
  <2>. QED BY <2>1, <2>2, <2>3, <2>5, <2>6 DEF Init, TypeOK
<1>2. LockTracksRound /\ RoundUnderWay /\ UnopenedIsEmpty
  BY DEF Init, LockTracksRound, RoundUnderWay, UnopenedIsEmpty
<1>3. HeldWasPublished /\ AdoptedInForce /\ CachedWasInForce /\ VotedIsOver
  BY DEF Init, HeldWasPublished, AdoptedInForce, CachedWasInForce, VotedIsOver, NoVector
<1>. QED BY <1>1, <1>2, <1>3 DEF IInv

\* The head of the loop over submissions keeps the type of the round under way.
LEMMA NextSubmissionTypes ==
  ASSUME TypeOK, RoundUnderWay, score = "evaluating", NextSubmission
  PROVE  /\ score' \in {"sleeping", "evaluating"}
         /\ cur' \in [round : RoundIds, sub : Submissions, left : SUBSET Submissions]
                    \cup {NoRound}
         /\ lock' \in {"none", lock}
         /\ lockOld' \in {FALSE, lockOld}
<1>1. cur \in [round : RoundIds, sub : Submissions, left : SUBSET Submissions]
  BY DEF TypeOK, RoundUnderWay
<1>2. CASE score' = "sleeping" /\ cur' = NoRound /\ ReleaseLock
  BY <1>2 DEF ReleaseLock, Unlock
<1>3. ASSUME NEW s \in cur.left, cur' = [cur EXCEPT !.sub = s, !.left = @ \ {s}]
      PROVE  cur' \in [round : RoundIds, sub : Submissions, left : SUBSET Submissions]
  BY <1>1, <1>3
<1>. QED BY <1>2, <1>3 DEF NextSubmission

\* _in_force names a revision, and adopting leaves a revision in force and cached.
LEMMA AdoptTypes ==
  ASSUME TypeOK, NEW l \in 0 .. MaxRevision
  PROVE  /\ InForce(l) \in 0 .. MaxRevision
         /\ Adopt(l) => directive' \in {l, directive} /\ cache' \in {l, cache, 0}
<1>1. InForce(l) \in {0, l, directive, cache}
  BY DEF InForce, Previous
<1>2. 0 \in 0 .. MaxRevision
  BY DaemonAssumption DEF DaemonAssumption
<1>3. Adopt(l) => directive' \in {l, directive} /\ cache' \in {l, cache, 0}
  BY DEF Adopt, CacheAdopted, Written
<1>. QED BY <1>1, <1>2, <1>3 DEF TypeOK

LEMMA TypesArePreserved == IInv /\ [Next]_vars => TypeOK'
<1>. SUFFICES ASSUME IInv, [Next]_vars PROVE TypeOK'
  OBVIOUS
<1>. USE DaemonAssumption DEF DaemonAssumption
<1>0. TypeOK /\ RoundUnderWay
  BY DEF IInv
<1>1. ASSUME NEW from \in Blocks, NEW isPaused \in PauseModes, Publish(from, isPaused)
      PROVE  TypeOK'
  BY <1>0, <1>1 DEF TypeOK, Publish, Revisions, memory, ledger, locks
<1>2. ASSUME NEW next \in Blocks, NEW isPayable \in PayableModes, ChainMoves(next, isPayable)
      PROVE  TypeOK'
  <2>1. payable' \in BOOLEAN
    BY <1>2 DEF ChainMoves
  <2>. QED BY <1>0, <1>2, <2>1 DEF TypeOK, ChainMoves, Blocks, memory, ledger, locks
<1>3. CASE LockAges
  BY <1>0, <1>3 DEF TypeOK, LockAges, world, memory, ledger
<1>4. CASE PollIdle
  BY <1>0, <1>4 DEF TypeOK, PollIdle, Polls, world, ledger, locks
<1>5. ASSUME NEW served \in Revisions, PollAdopts(served)
      PROVE  TypeOK'
  <2>1. served \in 0 .. MaxRevision
    BY DEF Revisions
  <2>. QED BY <1>0, <1>5, <2>1, AdoptTypes DEF TypeOK, PollAdopts, Polls, world, ledger, locks
<1>6. ASSUME NEW served \in Revisions, NEW r \in RoundIds,
             NEW subs \in SUBSET Submissions, NEW first \in Submissions,
             PollOpens(served, r, subs, first)
      PROVE  TypeOK'
  <2>1. Opened + 1 \in 0 .. MaxRound
    BY <1>6, OpenedIsBounded DEF PollOpens
  <2>2. born' \in [RoundIds -> 0 .. MaxRound] /\ plan' \in [RoundIds -> SUBSET Submissions]
    BY <1>0, <1>6, <2>1 DEF PollOpens, TypeOK
  <2>3. cur' \in [round : RoundIds, sub : Submissions, left : SUBSET Submissions]
    BY <1>6 DEF PollOpens
  <2>4. served \in 0 .. MaxRevision
    BY DEF Revisions
  <2>5. directive' \in {served, directive} /\ cache' \in {served, cache, 0}
    BY <1>0, <1>6, <2>4, AdoptTypes DEF PollOpens
  <2>. QED BY <1>0, <1>6, <2>2, <2>3, <2>4, <2>5 DEF TypeOK, PollOpens, Polls, world, locks
<1>7. CASE LockRefused
  BY <1>0, <1>7 DEF TypeOK, LockRefused, world, ledger, locks
<1>8. CASE StartRound
  BY <1>0, <1>8 DEF TypeOK, StartRound, world, ledger
<1>9. CASE EpisodeRecorded
  <2>1. /\ cur.round \in RoundIds /\ cur.sub \in Submissions
        /\ recs[cur.round][cur.sub] \in 0 .. Instances
        /\ recs[cur.round][cur.sub] < Instances
    BY <1>0, <1>9 DEF TypeOK, RoundUnderWay, EpisodeRecorded, Evaluates
  <2>2. recs' \in [RoundIds -> [Submissions -> 0 .. Instances]]
    BY <1>0, <1>9, <2>1 DEF TypeOK, EpisodeRecorded
  <2>3. CASE NextSubmission
    <3>1. /\ score' \in {"sleeping", "evaluating"}
          /\ cur' \in [round : RoundIds, sub : Submissions, left : SUBSET Submissions]
                     \cup {NoRound}
          /\ lock' \in {"none", lock} /\ lockOld' \in {FALSE, lockOld}
      BY <1>0, <1>9, <2>3, NextSubmissionTypes DEF EpisodeRecorded, Evaluates
    <3>. QED BY <1>0, <1>9, <2>2, <3>1 DEF TypeOK, EpisodeRecorded, Evaluates, world
  <2>4. CASE UNCHANGED <<score, cur, lock, lockOld>>
    BY <1>0, <1>9, <2>2, <2>4 DEF TypeOK, EpisodeRecorded, Evaluates, world
  <2>. QED BY <1>9, <2>3, <2>4 DEF EpisodeRecorded
<1>10. CASE EvaluationRaises
  BY <1>0, <1>10, NextSubmissionTypes DEF TypeOK, EvaluationRaises, Evaluates, world
<1>11. ASSUME NEW taken \in BOOLEAN, PublishWeights(taken)
       PROVE  TypeOK'
  <2>1. directive' \in {latest, directive} /\ cache' \in {latest, cache, 0}
        /\ InForce(latest) \in 0 .. MaxRevision
    BY <1>0, <1>11, AdoptTypes DEF PublishWeights, TypeOK
  <2>2. pub' \in [by : {"nobody", "fallback", "directive"},
                 round : 0 .. MaxRound, revision : 0 .. MaxRevision]
    BY <1>0, <1>11, <2>1, SettledRoundIsSettled DEF PublishWeights, TypeOK
  <2>. QED BY <1>0, <1>11, <2>1, <2>2 DEF TypeOK, PublishWeights, Wakes, world, ledger, locks
<1>12. CASE PublishFallback
  BY <1>0, <1>12 DEF TypeOK, PublishFallback, Wakes, world, ledger, locks
<1>13. CASE Signal
  BY <1>0, <1>13 DEF TypeOK, Signal, Interrupted, world, ledger, locks
<1>14. CASE ScoreLoopEnds
  BY <1>0, <1>14 DEF TypeOK, ScoreLoopEnds, world, ledger, locks
<1>15. CASE WeightLoopEnds
  BY <1>0, <1>15 DEF TypeOK, WeightLoopEnds, world, ledger, locks
<1>16. CASE Exit
  <2>1. lock' \in {lock, "past"} /\ interrupts' \in 0 .. MaxInterrupts
    BY <1>0, <1>16 DEF TypeOK, Exit, Dies
  <2>2. 0 \in 0 .. MaxRevision
    OBVIOUS
  <2>3. /\ up' \in BOOLEAN /\ stop' \in BOOLEAN
        /\ latest' \in 0 .. MaxRevision /\ directive' \in 0 .. MaxRevision
        /\ score' = "sleeping" /\ weights' = "sleeping" /\ cur' = NoRound
    BY <1>16, <2>2 DEF Exit, Dies
  <2>4. UNCHANGED <<world, ledger, lockOld, pidReused, cache, pub>>
    BY <1>16 DEF Exit, Dies, ledger
  <2>. QED BY <1>0, <2>1, <2>3, <2>4 DEF TypeOK, world, ledger
<1>17. CASE Crash
  <2>1. lock' \in {lock, "past"} /\ interrupts' \in 0 .. MaxInterrupts
    BY <1>0, <1>17 DEF TypeOK, Crash, Interrupted, Dies
  <2>2. 0 \in 0 .. MaxRevision
    OBVIOUS
  <2>3. /\ up' \in BOOLEAN /\ stop' \in BOOLEAN
        /\ latest' \in 0 .. MaxRevision /\ directive' \in 0 .. MaxRevision
        /\ score' = "sleeping" /\ weights' = "sleeping" /\ cur' = NoRound
    BY <1>17, <2>2 DEF Crash, Interrupted, Dies
  <2>4. UNCHANGED <<world, born, plan, recs, lockOld, pidReused, cache, pub>>
    BY <1>17 DEF Crash, Interrupted, Dies
  <2>5. torn' \subseteq RoundIds
    BY <1>0, <1>17 DEF TypeOK, RoundUnderWay, Crash
  <2>. QED BY <1>0, <2>1, <2>3, <2>4, <2>5 DEF TypeOK, world
<1>18. CASE Start
  BY <1>0, <1>18 DEF TypeOK, Start, world, ledger, locks
<1>19. CASE UNCHANGED vars
  BY <1>0, <1>19 DEF TypeOK, vars, world, memory, ledger, locks
<1>20. CASE OpeningFails
  BY <1>0, <1>20 DEF TypeOK, OpeningFails, Unlock, world, ledger
<1>21. CASE AppendTears
  <2>1. torn' \subseteq RoundIds
    BY <1>0, <1>21 DEF TypeOK, RoundUnderWay, AppendTears, Evaluates
  <2>2. interrupts' \in 0 .. MaxInterrupts
    BY <1>0, <1>21 DEF TypeOK, AppendTears
  <2>. QED BY <1>0, <1>21, <2>1, <2>2, NextSubmissionTypes
           DEF TypeOK, AppendTears, Evaluates, world
<1>. QED
  BY <1>1, <1>2, <1>3, <1>4, <1>5, <1>6, <1>7, <1>8, <1>9, <1>10, <1>11, <1>12, <1>13, <1>14, <1>15, <1>16, <1>17, <1>18, <1>19, <1>20, <1>21
  DEF Next, Polling, Evaluating, Voting, Stopping
\* The head of the loop over submissions, with no record yet for those left.
LEMMA NextSubmissionKeepsRound ==
  ASSUME TypeOK, RoundUnderWay, LockTracksRound, score = "evaluating", up' = up, born' = born,
         \A s \in cur.left : recs'[cur.round][s] < Instances, NextSubmission
  PROVE  LockTracksRound' /\ RoundUnderWay'
<1>1. CASE score' = "sleeping"
  BY <1>1 DEF LockTracksRound, RoundUnderWay
<1>2. ASSUME NEW s \in cur.left, cur' = [cur EXCEPT !.sub = s, !.left = @ \ {s}],
             UNCHANGED <<score, lock>>
      PROVE  LockTracksRound' /\ RoundUnderWay'
  <2>1. cur \in [round : RoundIds, sub : Submissions, left : SUBSET Submissions]
    BY DEF TypeOK, RoundUnderWay
  <2>2. /\ cur'.round = cur.round /\ cur'.sub = s /\ cur'.left = cur.left \ {s}
        /\ cur' # NoRound
    <3>1. cur.round # 0
      BY <2>1, DaemonAssumption DEF DaemonAssumption, RoundIds
    <3>. QED BY <1>2, <2>1, <3>1 DEF NoRound
  <2>3. \A t \in cur'.left \cup {cur'.sub} : recs'[cur'.round][t] < Instances
    BY <2>2
  <2>. QED BY <1>2, <2>2, <2>3 DEF LockTracksRound, RoundUnderWay
<1>. QED BY <1>1, <1>2 DEF NextSubmission

\* A step that leaves the scoring loop, its lock and the ledger alone.
LEMMA RoundsUntouched ==
  ASSUME IInv, UNCHANGED <<up, score, cur, lock, born, recs>>
  PROVE  LockTracksRound' /\ RoundUnderWay' /\ UnopenedIsEmpty'
BY DEF IInv, LockTracksRound, RoundUnderWay, UnopenedIsEmpty

LEMMA RoundsArePreserved ==
  IInv /\ [Next]_vars => LockTracksRound' /\ RoundUnderWay' /\ UnopenedIsEmpty'
<1>. SUFFICES ASSUME IInv, [Next]_vars
              PROVE  LockTracksRound' /\ RoundUnderWay' /\ UnopenedIsEmpty'
  OBVIOUS
<1>0. TypeOK /\ LockTracksRound /\ RoundUnderWay /\ UnopenedIsEmpty
  BY DEF IInv
<1>1. ASSUME NEW from \in Blocks, NEW isPaused \in PauseModes, Publish(from, isPaused)
      PROVE  LockTracksRound' /\ RoundUnderWay' /\ UnopenedIsEmpty'
  BY <1>1, RoundsUntouched DEF Publish, memory, ledger, locks
<1>2. ASSUME NEW next \in Blocks, NEW isPayable \in PayableModes, ChainMoves(next, isPayable)
      PROVE  LockTracksRound' /\ RoundUnderWay' /\ UnopenedIsEmpty'
  BY <1>2, RoundsUntouched DEF ChainMoves, memory, ledger, locks
<1>3. CASE LockAges
  BY <1>3, RoundsUntouched DEF LockAges, memory, ledger
<1>4. CASE PollIdle
  BY <1>4, RoundsUntouched DEF PollIdle, Polls, ledger, locks
<1>5. ASSUME NEW served \in Revisions, PollAdopts(served)
      PROVE  LockTracksRound' /\ RoundUnderWay' /\ UnopenedIsEmpty'
  BY <1>5, RoundsUntouched DEF PollAdopts, Polls, ledger, locks
<1>6. ASSUME NEW served \in Revisions, NEW r \in RoundIds,
             NEW subs \in SUBSET Submissions, NEW first \in Submissions,
             PollOpens(served, r, subs, first)
      PROVE  LockTracksRound' /\ RoundUnderWay' /\ UnopenedIsEmpty'
  <2>1. score' = "opened"
    BY <1>6 DEF PollOpens
  <2>2. \A s \in Submissions : recs[r][s] = 0
    BY <1>0, <1>6 DEF PollOpens, UnopenedIsEmpty
  <2>3. /\ cur' # NoRound /\ cur'.round = r /\ cur'.sub = first
        /\ cur'.left = subs \ {first}
    <3>1. cur' = [round |-> r, sub |-> first, left |-> subs \ {first}]
      BY <1>6 DEF PollOpens
    <3>2. r # 0
      BY DaemonAssumption DEF DaemonAssumption, RoundIds
    <3>. QED BY <3>1, <3>2 DEF NoRound
  <2>4. born'[r] # 0 /\ \A q \in RoundIds : q # r => born'[q] = born[q]
    <3>1. Opened + 1 \in 0 .. MaxRound /\ Opened \in Nat
      BY <1>6, OpenedIsBounded, DaemonAssumption DEF PollOpens, DaemonAssumption
    <3>. QED BY <1>0, <3>1, <1>6 DEF PollOpens, TypeOK
  <2>5. RoundUnderWay'
    <3>1. \A s \in cur'.left \cup {cur'.sub} : recs'[cur'.round][s] < Instances
      BY <2>2, <2>3, <1>6, DaemonAssumption DEF PollOpens, ledger, DaemonAssumption
    <3>. QED BY <2>3, <2>4, <3>1, <1>6 DEF PollOpens, Polls, RoundUnderWay
  <2>6. UnopenedIsEmpty'
    BY <1>0, <2>4, <1>6 DEF PollOpens, UnopenedIsEmpty
  <2>. QED BY <2>1, <2>5, <2>6, <1>6 DEF PollOpens, LockTracksRound, locks
<1>7. CASE LockRefused
  BY <1>0, <1>7 DEF LockRefused, ledger, locks, LockTracksRound, RoundUnderWay, UnopenedIsEmpty
<1>8. CASE StartRound
  BY <1>0, <1>8 DEF StartRound, ledger, LockTracksRound, RoundUnderWay, UnopenedIsEmpty
<1>9. CASE EpisodeRecorded
  <2>1. /\ cur.round \in RoundIds /\ cur.sub \in Submissions /\ cur.left \subseteq Submissions
        /\ born[cur.round] # 0 /\ cur.sub \notin cur.left
    BY <1>0, <1>9 DEF TypeOK, RoundUnderWay, EpisodeRecorded, Evaluates
  <2>2. \A q \in RoundIds, s \in Submissions :
          q # cur.round \/ s # cur.sub => recs'[q][s] = recs[q][s]
    BY <1>0, <2>1, <1>9 DEF TypeOK, EpisodeRecorded
  <2>3. UnopenedIsEmpty'
    BY <1>0, <2>1, <2>2, <1>9 DEF EpisodeRecorded, Evaluates, UnopenedIsEmpty
  <2>4. \A s \in cur.left : recs'[cur.round][s] < Instances
    BY <1>0, <2>1, <2>2, <1>9 DEF RoundUnderWay, EpisodeRecorded, Evaluates
  <2>5. CASE UNCHANGED <<score, cur, lock, lockOld>> /\ recs'[cur.round][cur.sub] < Instances
    BY <1>0, <2>3, <2>4, <2>5, <1>9 DEF EpisodeRecorded, Evaluates, LockTracksRound, RoundUnderWay
  <2>6. CASE NextSubmission
    BY <1>0, <2>1, <2>3, <2>4, <2>6, <1>9, NextSubmissionKeepsRound DEF EpisodeRecorded, Evaluates
  <2>. QED BY <2>5, <2>6, <1>9 DEF EpisodeRecorded
<1>10. CASE EvaluationRaises
  <2>1. \A s \in cur.left : recs'[cur.round][s] < Instances
    BY <1>0, <1>10 DEF RoundUnderWay, EvaluationRaises, Evaluates
  <2>2. UnopenedIsEmpty'
    BY <1>0, <1>10 DEF UnopenedIsEmpty, EvaluationRaises, Evaluates
  <2>. QED BY <1>0, <2>1, <2>2, <1>10, NextSubmissionKeepsRound DEF EvaluationRaises, Evaluates
<1>11. ASSUME NEW taken \in BOOLEAN, PublishWeights(taken)
      PROVE  LockTracksRound' /\ RoundUnderWay' /\ UnopenedIsEmpty'
  BY <1>11, RoundsUntouched DEF PublishWeights, Wakes, ledger, locks
<1>12. CASE PublishFallback
  BY <1>12, RoundsUntouched DEF PublishFallback, Wakes, ledger, locks
<1>13. CASE Signal
  BY <1>13, RoundsUntouched DEF Signal, ledger, locks
<1>14. CASE ScoreLoopEnds
  BY <1>0, <1>14 DEF ScoreLoopEnds, ledger, locks, LockTracksRound, RoundUnderWay, UnopenedIsEmpty
<1>15. CASE WeightLoopEnds
  BY <1>15, RoundsUntouched DEF WeightLoopEnds, ledger, locks
<1>16. CASE Exit
  BY <1>0, <1>16 DEF Exit, Dies, ledger, LockTracksRound, RoundUnderWay, UnopenedIsEmpty
<1>17. CASE Crash
  BY <1>0, <1>17 DEF Crash, Dies, ledger, LockTracksRound, RoundUnderWay, UnopenedIsEmpty
<1>18. CASE Start
  BY <1>0, <1>18 DEF Start, ledger, locks, LockTracksRound, RoundUnderWay, UnopenedIsEmpty
<1>19. CASE UNCHANGED vars
  BY <1>19, RoundsUntouched DEF vars, memory, ledger, locks
<1>20. CASE OpeningFails
  BY <1>0, <1>20 DEF OpeningFails, ledger, LockTracksRound, RoundUnderWay, UnopenedIsEmpty
<1>21. CASE AppendTears
  <2>1. \A s \in cur.left : recs'[cur.round][s] < Instances
    BY <1>0, <1>21 DEF RoundUnderWay, AppendTears, Evaluates
  <2>2. UnopenedIsEmpty'
    BY <1>0, <1>21 DEF UnopenedIsEmpty, AppendTears, Evaluates
  <2>. QED BY <1>0, <2>1, <2>2, <1>21, NextSubmissionKeepsRound DEF AppendTears, Evaluates
<1>. QED
  BY <1>1, <1>2, <1>3, <1>4, <1>5, <1>6, <1>7, <1>8, <1>9, <1>10, <1>11, <1>12, <1>13, <1>14, <1>15, <1>16, <1>17, <1>18, <1>19, <1>20, <1>21
  DEF Next, Polling, Evaluating, Voting, Stopping
-----------------------------------------------------------------------------
(* Governance: what is held, adopted and cached. *)

LEMMA GovernanceStays ==
  ASSUME IInv, UNCHANGED <<revision, effective, block, latest, directive, cache>>
  PROVE  HeldWasPublished' /\ AdoptedInForce' /\ CachedWasInForce'
BY DEF IInv, HeldWasPublished, AdoptedInForce, CachedWasInForce, EffectiveNow

\* Taking l as the newest revision and adopting it where it is effective.
LEMMA AdoptGoverns ==
  ASSUME IInv, NEW l \in 0 .. MaxRevision, l # 0, l <= revision, latest' = l, Adopt(l),
         UNCHANGED <<revision, effective, block>>
  PROVE  HeldWasPublished' /\ AdoptedInForce' /\ CachedWasInForce'
<1>. USE DEF IInv, HeldWasPublished, AdoptedInForce, CachedWasInForce, EffectiveNow
<1>0. 0 <= revision
  BY DEF TypeOK
<1>1. CASE effective[l] <= block
  <2>1. directive' = l /\ cache' \in {l, cache, 0}
    BY <1>1 DEF Adopt, CacheAdopted, Written
  <2>. QED BY <1>0, <1>1, <2>1
<1>2. CASE ~(effective[l] <= block)
  <2>1. directive' = directive /\ cache' = cache
    BY <1>2 DEF Adopt, CacheAdopted
  <2>. QED BY <2>1
<1>. QED BY <1>1, <1>2

LEMMA GovernanceIsPreserved ==
  IInv /\ [Next]_vars => HeldWasPublished' /\ AdoptedInForce' /\ CachedWasInForce'
<1>. SUFFICES ASSUME IInv, [Next]_vars
              PROVE  HeldWasPublished' /\ AdoptedInForce' /\ CachedWasInForce'
  OBVIOUS
<1>0. /\ TypeOK /\ HeldWasPublished /\ AdoptedInForce /\ CachedWasInForce
      /\ revision <= revision
  BY DEF IInv, TypeOK
<1>1. ASSUME NEW from \in Blocks, NEW isPaused \in PauseModes, Publish(from, isPaused)
      PROVE  HeldWasPublished' /\ AdoptedInForce' /\ CachedWasInForce'
  <2>1. \A r \in Revisions : r <= revision => effective'[r] = effective[r]
    BY <1>0, <1>1 DEF TypeOK, Publish, Revisions
  <2>2. /\ directive # 0 => directive \in Revisions
        /\ cache # 0 => cache \in Revisions
    BY <1>0, DaemonAssumption DEF TypeOK, Revisions, DaemonAssumption
  <2>3. revision' = revision + 1 /\ UNCHANGED <<block, latest, directive, cache>>
    BY <1>1 DEF Publish, memory
  <2>4. HeldWasPublished'
    BY <1>0, <2>3 DEF HeldWasPublished, TypeOK
  <2>. QED BY <1>0, <2>1, <2>2, <2>3, <2>4
           DEF HeldWasPublished, AdoptedInForce, CachedWasInForce, EffectiveNow
<1>2. ASSUME NEW next \in Blocks, NEW isPayable \in PayableModes, ChainMoves(next, isPayable)
      PROVE  HeldWasPublished' /\ AdoptedInForce' /\ CachedWasInForce'
  <2>1. /\ directive # 0 => effective[directive] \in Nat
        /\ cache # 0 => effective[cache] \in Nat
        /\ block \in Nat
    BY <1>0, DaemonAssumption DEF TypeOK, Revisions, Blocks, DaemonAssumption
  <2>. QED BY <1>0, <2>1, <1>2
           DEF ChainMoves, memory, HeldWasPublished, AdoptedInForce, CachedWasInForce, EffectiveNow
<1>3. CASE LockAges
  BY <1>3, GovernanceStays DEF LockAges, memory, world
<1>4. CASE PollIdle
  <2>1. revision \in Nat /\ UNCHANGED <<revision, effective, block, directive, cache>>
    BY <1>0, <1>4 DEF PollIdle, world, TypeOK
  <2>. QED BY <1>0, <2>1, <1>4
           DEF PollIdle, Polls, HeldWasPublished, AdoptedInForce, CachedWasInForce, EffectiveNow
<1>5. ASSUME NEW served \in Revisions, PollAdopts(served)
      PROVE  HeldWasPublished' /\ AdoptedInForce' /\ CachedWasInForce'
  <2>1. served \in 0 .. MaxRevision /\ served # 0 /\ served <= revision
    BY <1>0, <1>5 DEF PollAdopts, Polls, Revisions, TypeOK
  <2>. QED BY <1>5, <2>1, AdoptGoverns DEF PollAdopts, Polls, world
<1>6. ASSUME NEW served \in Revisions, NEW r \in RoundIds,
             NEW subs \in SUBSET Submissions, NEW first \in Submissions,
             PollOpens(served, r, subs, first)
      PROVE  HeldWasPublished' /\ AdoptedInForce' /\ CachedWasInForce'
  <2>1. served \in 0 .. MaxRevision /\ served # 0 /\ served <= revision
    BY <1>0, <1>6 DEF PollOpens, Polls, Revisions, TypeOK
  <2>. QED BY <1>6, <2>1, AdoptGoverns DEF PollOpens, Polls, world
<1>7. CASE LockRefused
  BY <1>7, GovernanceStays DEF LockRefused, world
<1>8. CASE StartRound
  BY <1>8, GovernanceStays DEF StartRound, world
<1>9. CASE EpisodeRecorded
  BY <1>9, GovernanceStays DEF EpisodeRecorded, Evaluates, world
<1>10. CASE EvaluationRaises
  BY <1>10, GovernanceStays DEF EvaluationRaises, Evaluates, world
<1>11. ASSUME NEW taken \in BOOLEAN, PublishWeights(taken)
      PROVE  HeldWasPublished' /\ AdoptedInForce' /\ CachedWasInForce'
  BY <1>11, <1>0, AdoptGoverns DEF PublishWeights, Wakes, Governed, HeldWasPublished, world, TypeOK
<1>12. CASE PublishFallback
  BY <1>12, GovernanceStays DEF PublishFallback, Wakes, world
<1>13. CASE Signal
  BY <1>13, GovernanceStays DEF Signal, world
<1>14. CASE ScoreLoopEnds
  BY <1>14, GovernanceStays DEF ScoreLoopEnds, world
<1>15. CASE WeightLoopEnds
  BY <1>15, GovernanceStays DEF WeightLoopEnds, world
<1>16. CASE Exit
  <2>1. latest' = 0 /\ directive' = 0 /\ UNCHANGED <<world, cache>>
    BY <1>16 DEF Exit, Dies
  <2>2. revision \in Nat
    BY <1>0 DEF TypeOK
  <2>. QED BY <1>0, <2>1, <2>2
           DEF world, HeldWasPublished, AdoptedInForce, CachedWasInForce, EffectiveNow
<1>17. CASE Crash
  <2>1. latest' = 0 /\ directive' = 0 /\ UNCHANGED <<world, cache>>
    BY <1>17 DEF Crash, Dies
  <2>2. revision \in Nat
    BY <1>0 DEF TypeOK
  <2>. QED BY <1>0, <2>1, <2>2
           DEF world, HeldWasPublished, AdoptedInForce, CachedWasInForce, EffectiveNow
<1>18. CASE Start
  BY <1>18, GovernanceStays DEF Start, world
<1>19. CASE UNCHANGED vars
  BY <1>19, GovernanceStays DEF vars, memory, world
<1>20. CASE OpeningFails
  BY <1>20, GovernanceStays DEF OpeningFails, world
<1>21. CASE AppendTears
  BY <1>21, GovernanceStays DEF AppendTears, Evaluates, world
<1>. QED
  BY <1>1, <1>2, <1>3, <1>4, <1>5, <1>6, <1>7, <1>8, <1>9, <1>10, <1>11, <1>12, <1>13, <1>14, <1>15, <1>16, <1>17, <1>18, <1>19, <1>20, <1>21
  DEF Next, Polling, Evaluating, Voting, Stopping

-----------------------------------------------------------------------------
(* The round voted for. *)

LEMMA VotedStays ==
  ASSUME IInv, UNCHANGED <<score, cur, born, pub>>, lockOld => lockOld'
  PROVE  VotedIsOver'
BY DEF IInv, VotedIsOver

\* The weight loop wakes during a round only where the round outlasted its lock.
LEMMA WakesOutsideRounds ==
  ASSUME IInv, Wakes
  PROVE  score # "opened" /\ (score = "evaluating" => lockOld)
BY DEF IInv, Wakes, LockTracksRound, RoundInFlight, HolderAlive

LEMMA VotedIsPreserved == IInv /\ [Next]_vars => VotedIsOver'
<1>. SUFFICES ASSUME IInv, [Next]_vars PROVE VotedIsOver'
  OBVIOUS
<1>0. TypeOK /\ RoundUnderWay /\ VotedIsOver
  BY DEF IInv
<1>1. ASSUME NEW from \in Blocks, NEW isPaused \in PauseModes, Publish(from, isPaused)
      PROVE  VotedIsOver'
  BY <1>1, VotedStays DEF Publish, memory, ledger, locks
<1>2. ASSUME NEW next \in Blocks, NEW isPayable \in PayableModes, ChainMoves(next, isPayable)
      PROVE  VotedIsOver'
  BY <1>2, VotedStays DEF ChainMoves, memory, ledger, locks
<1>3. CASE LockAges
  BY <1>3, VotedStays DEF LockAges, memory, ledger
<1>4. CASE PollIdle
  BY <1>4, VotedStays DEF PollIdle, Polls, ledger, locks
<1>5. ASSUME NEW served \in Revisions, PollAdopts(served)
      PROVE  VotedIsOver'
  BY <1>5, VotedStays DEF PollAdopts, Polls, ledger, locks
<1>6. ASSUME NEW served \in Revisions, NEW r \in RoundIds,
             NEW subs \in SUBSET Submissions, NEW first \in Submissions,
             PollOpens(served, r, subs, first)
      PROVE  VotedIsOver'
  <2>1. pub.round # 0 => pub.round # r /\ born'[pub.round] = born[pub.round]
    <3>1. pub.round \in 0 .. MaxRound
      BY <1>0 DEF TypeOK
    <3>2. pub.round # 0 => pub.round \in RoundIds
      BY <3>1, DaemonAssumption DEF RoundIds, DaemonAssumption
    <3>. QED BY <1>0, <3>2, <1>6 DEF PollOpens, VotedIsOver, TypeOK
  <2>2. cur'.round = r /\ score' = "opened" /\ pub' = pub
    BY <1>6 DEF PollOpens
  <2>. QED BY <1>0, <2>1, <2>2 DEF VotedIsOver
<1>7. CASE LockRefused
  BY <1>0, <1>7 DEF LockRefused, ledger, VotedIsOver
<1>8. CASE StartRound
  BY <1>0, <1>8 DEF StartRound, ledger, VotedIsOver
<1>9. CASE EpisodeRecorded
  <2>1. score = "evaluating" /\ UNCHANGED <<pub, born>>
    BY <1>9 DEF EpisodeRecorded, Evaluates
  <2>2. CASE NextSubmission
    <3>1. CASE score' = "sleeping"
      BY <1>0, <2>1, <3>1 DEF VotedIsOver
    <3>2. ASSUME NEW s \in cur.left, cur' = [cur EXCEPT !.sub = s, !.left = @ \ {s}],
                 UNCHANGED <<score, lock, lockOld>>
          PROVE  VotedIsOver'
      <4>1. cur'.round = cur.round
        BY <1>0, <2>1, <3>2 DEF TypeOK, RoundUnderWay
      <4>. QED BY <1>0, <2>1, <3>2, <4>1 DEF VotedIsOver
    <3>. QED BY <2>2, <3>1, <3>2 DEF NextSubmission
  <2>3. CASE UNCHANGED <<score, cur, lock, lockOld>>
    BY <2>1, <2>3, VotedStays
  <2>. QED BY <2>2, <2>3, <1>9 DEF EpisodeRecorded
<1>10. CASE EvaluationRaises
  <2>1. score = "evaluating" /\ UNCHANGED <<pub, born>>
    BY <1>10 DEF EvaluationRaises, Evaluates
  <2>2. CASE NextSubmission
    <3>1. CASE score' = "sleeping"
      BY <1>0, <2>1, <3>1 DEF VotedIsOver
    <3>2. ASSUME NEW s \in cur.left, cur' = [cur EXCEPT !.sub = s, !.left = @ \ {s}],
                 UNCHANGED <<score, lock, lockOld>>
          PROVE  VotedIsOver'
      <4>1. cur'.round = cur.round
        BY <1>0, <2>1, <3>2 DEF TypeOK, RoundUnderWay
      <4>. QED BY <1>0, <2>1, <3>2, <4>1 DEF VotedIsOver
    <3>. QED BY <2>2, <3>1, <3>2 DEF NextSubmission
  <2>. QED BY <2>2, <1>10 DEF EvaluationRaises
<1>11. ASSUME NEW taken \in BOOLEAN, PublishWeights(taken)
      PROVE  VotedIsOver'
  <2>1. score # "opened" /\ (score = "evaluating" => lockOld)
    BY <1>11, WakesOutsideRounds DEF PublishWeights
  <2>2. UNCHANGED <<score, cur, born, lockOld>>
    BY <1>11 DEF PublishWeights, Wakes, ledger, locks
  <2>3. CASE pub' = pub
    BY <2>2, <2>3, VotedStays
  <2>4. CASE pub'.round = SettledRound
    <3>1. SettledRound # 0 => born[SettledRound] # 0
      BY SettledRoundIsSettled, DaemonAssumption DEF SettledRounds, DaemonAssumption
    <3>. QED BY <2>1, <2>2, <2>4, <3>1 DEF VotedIsOver
  <2>. QED BY <2>3, <2>4, <1>11 DEF PublishWeights
<1>12. CASE PublishFallback
  BY <1>12 DEF PublishFallback, VotedIsOver
<1>13. CASE Signal
  BY <1>13, VotedStays DEF Signal, ledger, locks
<1>14. CASE ScoreLoopEnds
  BY <1>0, <1>14 DEF ScoreLoopEnds, ledger, VotedIsOver
<1>15. CASE WeightLoopEnds
  BY <1>15, VotedStays DEF WeightLoopEnds, ledger, locks
<1>16. CASE Exit
  BY <1>0, <1>16 DEF Exit, Dies, ledger, VotedIsOver
<1>17. CASE Crash
  BY <1>0, <1>17 DEF Crash, Dies, ledger, VotedIsOver
<1>18. CASE Start
  BY <1>18, VotedStays DEF Start, ledger, locks
<1>19. CASE UNCHANGED vars
  BY <1>19, VotedStays DEF vars, memory, ledger, locks
<1>20. CASE OpeningFails
  BY <1>0, <1>20 DEF OpeningFails, ledger, VotedIsOver
<1>21. CASE AppendTears
  <2>1. score = "evaluating" /\ UNCHANGED <<pub, born>> /\ NextSubmission
    BY <1>21 DEF AppendTears, Evaluates
  <2>2. CASE score' = "sleeping"
    BY <1>0, <2>1, <2>2 DEF VotedIsOver
  <2>3. ASSUME NEW s \in cur.left, cur' = [cur EXCEPT !.sub = s, !.left = @ \ {s}],
               UNCHANGED <<score, lock, lockOld>>
        PROVE  VotedIsOver'
    <3>1. cur'.round = cur.round
      BY <1>0, <2>1, <2>3 DEF TypeOK, RoundUnderWay
    <3>. QED BY <1>0, <2>1, <2>3, <3>1 DEF VotedIsOver
  <2>. QED BY <2>1, <2>2, <2>3 DEF NextSubmission
<1>. QED
  BY <1>1, <1>2, <1>3, <1>4, <1>5, <1>6, <1>7, <1>8, <1>9, <1>10, <1>11, <1>12, <1>13, <1>14, <1>15, <1>16, <1>17, <1>18, <1>19, <1>20, <1>21
  DEF Next, Polling, Evaluating, Voting, Stopping

-----------------------------------------------------------------------------
(* Who may change the chain's vector, and who the records. *)

\* Only the weight loop changes the chain's vector.
LEMMA VotesOnlyWhenAwake ==
  ASSUME [Next]_vars, pub' # pub
  PROVE  /\ Wakes
         /\ PublishFallback \/ \E taken \in BOOLEAN : PublishWeights(taken) /\ taken
<1>1. Voting
  BY DEF Next, Polling, Evaluating, Stopping, vars,
         Publish, ChainMoves, LockAges, PollIdle, PollAdopts, PollOpens,
         LockRefused, OpeningFails, StartRound,
         AppendTears, EpisodeRecorded, EvaluationRaises, Evaluates, Signal, ScoreLoopEnds, WeightLoopEnds,
         Exit, Crash, Dies, Start
<1>. QED BY <1>1 DEF Voting, PublishWeights, PublishFallback

\* Only the end of an episode adds a record.
LEMMA RecordsOnlyByEpisodes ==
  ASSUME [Next]_vars, recs' # recs
  PROVE  EpisodeRecorded
BY DEF Next, Polling, Evaluating, Voting, Stopping, vars, ledger,
       Publish, ChainMoves, LockAges, PollIdle, PollAdopts, PollOpens,
         LockRefused, OpeningFails, StartRound,
       AppendTears, EvaluationRaises, Evaluates, PublishWeights, PublishFallback, Wakes, Signal,
       ScoreLoopEnds, WeightLoopEnds, Exit, Crash, Dies, Start

-----------------------------------------------------------------------------
(* The theorems. *)

LEMMA InvariantIsInductive == IInv /\ [Next]_vars => IInv'
BY TypesArePreserved, RoundsArePreserved, GovernanceIsPreserved, VotedIsPreserved DEF IInv

\* The daemon's memory, its lock and its ledger stay in step, through every
\* interleaving of the two loops, signals and crashes.
THEOREM InvariantAlwaysHolds == Spec => []IInv
<1>1. Init => IInv
  BY InvariantHoldsAtFirst
<1>2. IInv /\ [Next]_vars => IInv'
  BY InvariantIsInductive
<1>. QED BY <1>1, <1>2, PTL DEF Spec

\* Every variable keeps its type.
THEOREM TypeCorrectness == Spec => []TypeOK
<1>1. IInv => TypeOK
  BY DEF IInv
<1>. QED BY <1>1, InvariantAlwaysHolds, PTL

\* The cache never runs ahead of the chain (daemon.py _adopt, _write_cache).
THEOREM CacheIsNeverEarly == Spec => []CachedWasInForce
<1>1. IInv => CachedWasInForce
  BY DEF IInv
<1>. QED BY <1>1, InvariantAlwaysHolds, PTL

\* A process that adopted a directive has one in force for good (daemon.py _in_force).
THEOREM AlwaysGoverned == Spec => []NeverUngoverned
<1>1. IInv => NeverUngoverned
  BY DEF IInv, AdoptedInForce, NeverUngoverned, InForce, Previous
<1>. QED BY <1>1, InvariantAlwaysHolds, PTL

\* No vector is taken while a round is evaluated within its lock's 24 hours: the weight
\* loop wakes during an evaluation only once the lock expired.
THEOREM NoVoteMidRoundHolds == Spec => NoVoteMidRound
<1>1. IInv /\ [Next]_vars => (pub' # pub /\ score = "evaluating" => lockOld)
  <2>. SUFFICES ASSUME IInv, [Next]_vars, pub' # pub PROVE score = "evaluating" => lockOld
    OBVIOUS
  <2>1. Wakes
    BY VotesOnlyWhenAwake
  <2>. QED BY <2>1, WakesOutsideRounds
<1>. QED BY <1>1, InvariantAlwaysHolds, PTL DEF Spec, NoVoteMidRound

\* The round a vector was made from takes no record afterwards.
THEOREM VotedRoundIsClosedHolds == Spec => VotedRoundIsClosed
<1>1. IInv /\ [Next]_vars
        => (pub.round # 0 /\ recs'[pub.round] # recs[pub.round] => lockOld)
  <2>. SUFFICES ASSUME IInv, [Next]_vars, pub.round # 0, recs'[pub.round] # recs[pub.round]
                PROVE  lockOld
    OBVIOUS
  <2>1. EpisodeRecorded
    BY RecordsOnlyByEpisodes
  <2>2. cur.round = pub.round /\ score = "evaluating"
    <3>1. pub.round \in RoundIds /\ cur.round \in RoundIds /\ cur.sub \in Submissions
      BY <2>1, DaemonAssumption
      DEF IInv, TypeOK, RoundUnderWay, EpisodeRecorded, Evaluates, RoundIds, DaemonAssumption
    <3>. QED BY <2>1, <3>1 DEF IInv, TypeOK, EpisodeRecorded, Evaluates
  <2>. QED BY <2>2 DEF IInv, VotedIsOver
<1>. QED BY <1>1, InvariantAlwaysHolds, PTL DEF Spec, VotedRoundIsClosed

\* Who sends the fallback vector has adopted nothing and scored nothing.
LEMMA UngovernedHasNothing ==
  ASSUME IInv, PublishFallback
  PROVE  directive = 0 /\ SettledRounds = {}
<1>1. directive = 0
  BY DEF PublishFallback, Governed, IInv, AdoptedInForce, InForce, Previous
<1>2. SettledRounds = {}
  BY SettledRoundIsSettled, DaemonAssumption
  DEF PublishFallback, Unconfigured, RoundIds, DaemonAssumption
<1>. QED BY <1>1, <1>2

\* The compiled in hotkey is paid by no process that adopted a directive, and by no
\* validator with a scored round.
THEOREM FallbackOnlyUngoverned == Spec => FallbackIsForTheUngoverned
<1>1. IInv /\ [Next]_vars
        => (pub' # pub /\ pub'.by = "fallback" => directive = 0 /\ SettledRounds = {})
  <2>. SUFFICES ASSUME IInv, [Next]_vars, pub' # pub, pub'.by = "fallback"
                PROVE  directive = 0 /\ SettledRounds = {}
    OBVIOUS
  <2>1. PublishFallback
    BY VotesOnlyWhenAwake DEF PublishWeights
  <2>. QED BY <2>1, UngovernedHasNothing
<1>. QED BY <1>1, InvariantAlwaysHolds, PTL DEF Spec, FallbackIsForTheUngoverned

-----------------------------------------------------------------------------
(* The contract. *)

\* A round is opened for somebody, evaluated for those only, and left behind when the
\* scoring loop goes back to sleep.
RoundIsPlanned ==
  /\ \A r \in RoundIds : born[r] = 0 => plan[r] = {}
  /\ score \in {"opened", "evaluating"} => cur.left \cup {cur.sub} \subseteq plan[cur.round]
  /\ score \in {"sleeping", "done"} => cur = NoRound

\* Steps that touch neither rounds nor the scoring loop.
LEMMA PlanStays ==
  ASSUME RoundIsPlanned, UNCHANGED <<score, cur, born, plan>>
  PROVE  RoundIsPlanned'
BY DEF RoundIsPlanned

\* What the head of the loop over submissions does to the round under way: it ends, or
\* goes on with one of those left.
LEMMA NextSubmissionGoesOn ==
  ASSUME IInv, score = "evaluating", NextSubmission
  PROVE  \/ score' = "sleeping" /\ cur' = NoRound
         \/ /\ score' = score /\ lockOld' = lockOld
            /\ cur'.round = cur.round /\ cur'.left \cup {cur'.sub} \subseteq cur.left
<1>1. ASSUME NEW s \in cur.left, cur' = [cur EXCEPT !.sub = s, !.left = @ \ {s}]
      PROVE  cur'.round = cur.round /\ cur'.left \cup {cur'.sub} \subseteq cur.left
  <2>1. cur \in [round : RoundIds, sub : Submissions, left : SUBSET Submissions]
    BY DEF IInv, TypeOK, RoundUnderWay
  <2>. QED BY <1>1, <2>1
<1>. QED BY <1>1 DEF NextSubmission

\* Whoever comes next is one of those the round was opened for.
LEMMA EvaluatingKeepsPlan ==
  ASSUME IInv, RoundIsPlanned, score = "evaluating", NextSubmission, UNCHANGED <<born, plan>>
  PROVE  RoundIsPlanned'
<1>1. CASE score' = "sleeping" /\ cur' = NoRound
  BY <1>1 DEF RoundIsPlanned
<1>2. CASE score' = score /\ cur'.round = cur.round /\ cur'.left \cup {cur'.sub} \subseteq cur.left
  BY <1>2 DEF RoundIsPlanned
<1>. QED BY <1>1, <1>2, NextSubmissionGoesOn

\* Only PollOpens plans a round, one that nobody was planned for.
LEMMA PlanIsPreserved == IInv /\ RoundIsPlanned /\ [Next]_vars => RoundIsPlanned'
<1>. SUFFICES ASSUME IInv, RoundIsPlanned, [Next]_vars PROVE RoundIsPlanned'
  OBVIOUS
<1>1. ASSUME NEW from \in Blocks, NEW isPaused \in PauseModes, Publish(from, isPaused)
      PROVE  RoundIsPlanned'
  BY <1>1, PlanStays DEF Publish, memory, ledger
<1>2. ASSUME NEW next \in Blocks, NEW isPayable \in PayableModes, ChainMoves(next, isPayable)
      PROVE  RoundIsPlanned'
  BY <1>2, PlanStays DEF ChainMoves, memory, ledger
<1>3. CASE PollIdle
  BY <1>3, PlanStays DEF PollIdle, Polls, ledger
<1>4. ASSUME NEW served \in Revisions, NEW r \in RoundIds,
             NEW subs \in SUBSET Submissions, NEW first \in Submissions,
             PollOpens(served, r, subs, first)
      PROVE  RoundIsPlanned'
  <2>1. /\ cur'.round = r /\ cur'.left \cup {cur'.sub} = subs /\ score' = "opened"
        /\ plan' = [plan EXCEPT ![r] = subs] /\ born' = [born EXCEPT ![r] = Opened + 1]
    BY <1>4 DEF PollOpens
  <2>2. Opened + 1 # 0
    BY <1>4, OpenedIsBounded, DaemonAssumption DEF PollOpens, DaemonAssumption
  <2>3. plan' [r] = subs /\ \A q \in RoundIds : q # r => plan'[q] = plan[q] /\ born'[q] = born[q]
    BY <2>1 DEF IInv, TypeOK
  <2>4. born'[r] # 0
    BY <2>1, <2>2 DEF IInv, TypeOK
  <2>. QED BY <2>1, <2>3, <2>4 DEF RoundIsPlanned
<1>5. CASE LockRefused \/ OpeningFails
  BY <1>5 DEF LockRefused, OpeningFails, ledger, RoundIsPlanned
<1>6. CASE StartRound
  BY <1>6 DEF StartRound, ledger, RoundIsPlanned
<1>7. CASE EpisodeRecorded
  <2>1. score = "evaluating" /\ UNCHANGED <<born, plan>>
    BY <1>7 DEF EpisodeRecorded, Evaluates
  <2>2. NextSubmission \/ UNCHANGED <<score, cur>>
    BY <1>7 DEF EpisodeRecorded
  <2>. QED BY <2>1, <2>2, EvaluatingKeepsPlan, PlanStays
<1>8. CASE EvaluationRaises \/ AppendTears
  BY <1>8, EvaluatingKeepsPlan DEF EvaluationRaises, AppendTears, Evaluates
<1>9. ASSUME NEW taken \in BOOLEAN, PublishWeights(taken)
      PROVE  RoundIsPlanned'
  BY <1>9, PlanStays DEF PublishWeights, Wakes, ledger
<1>10. CASE PublishFallback
  BY <1>10, PlanStays DEF PublishFallback, Wakes, ledger
<1>11. CASE Signal \/ WeightLoopEnds \/ Start
  BY <1>11, PlanStays DEF Signal, WeightLoopEnds, Start, ledger
<1>12. CASE ScoreLoopEnds
  BY <1>12 DEF ScoreLoopEnds, ledger, RoundIsPlanned
<1>13. CASE Exit \/ Crash
  BY <1>13 DEF Exit, Crash, Dies, RoundIsPlanned
<1>14. CASE UNCHANGED vars
  BY <1>14, PlanStays DEF vars, memory, ledger
<1>15. ASSUME NEW served \in Revisions, PollAdopts(served)
       PROVE  RoundIsPlanned'
  BY <1>15, PlanStays DEF PollAdopts, Polls, ledger
<1>16. CASE LockAges
  BY <1>16, PlanStays DEF LockAges, memory, ledger
<1>. QED
  BY <1>1, <1>2, <1>3, <1>4, <1>5, <1>6, <1>7, <1>8, <1>9, <1>10, <1>11, <1>12, <1>13, <1>14,
     <1>15, <1>16
  DEF Next, Polling, Evaluating, Voting, Stopping

\* What the contract needs besides the invariant.
ContractInv == IInv /\ RoundIsPlanned

\* The two are inductive together.
LEMMA ContractInvIsInductive == ContractInv /\ [Next]_vars => ContractInv'
BY InvariantIsInductive, PlanIsPreserved DEF ContractInv

\* No round is planned at first.
LEMMA ContractInvHoldsAtFirst == Init => ContractInv
<1>1. Init => RoundIsPlanned
  BY DEF Init, RoundIsPlanned
<1>. QED BY <1>1, InvariantHoldsAtFirst DEF ContractInv

\* A revision that governs may do so under the contract.
LEMMA GoverningIsAllowed ==
  ASSUME ContractInv, NEW l \in 1 .. revision, InForce(l) # 0, Adopt(l)
  PROVE  InForce(l) \in 1 .. revision /\ Contract!Under(InForce(l))
<1>. DEFINE d == InForce(l)
<1>1. /\ revision \in Nat /\ directive \in Nat /\ cache \in Nat
      /\ directive <= revision /\ cache <= revision
  BY DaemonAssumption DEF ContractInv, IInv, TypeOK, HeldWasPublished, DaemonAssumption
<1>2. CASE EffectiveNow(l)
  <2>1. d = l /\ directive' = l
    BY <1>2 DEF InForce, Adopt
  <2>. QED BY <1>1, <1>2, <2>1 DEF Contract!Under, Contract!MayGovern, EffectiveNow
<1>3. CASE ~EffectiveNow(l)
  <2>1. d = Previous /\ d # 0 /\ EffectiveNow(d) /\ directive' = directive
    BY <1>3 DEF InForce, Adopt
  <2>. QED BY <1>1, <2>1 DEF Previous, Contract!Under, Contract!MayGovern, EffectiveNow
<1>. QED BY <1>2, <1>3

\* A step that leaves everything the contract speaks of alone.
LEMMA Untouched ==
  ASSUME UNCHANGED <<world, plan, cur, recs, directive, pub, score, lockOld>>
  PROVE  UNCHANGED Contract!vars
BY DEF Contract!vars, Contract!operator, Contract!rounds, world

\* A poll adopts a revision, opens a round under one, or changes nothing.
LEMMA PollsAreAllowed ==
  ASSUME ContractInv, Polling
  PROVE  Contract!Next \/ UNCHANGED Contract!vars
<1>1. CASE PollIdle
  BY <1>1, Untouched DEF PollIdle, ledger, locks
<1>2. ASSUME NEW served \in Revisions, PollAdopts(served)
      PROVE  Contract!Next
  <2>1. InForce(served) \in 1 .. revision /\ Contract!Under(InForce(served))
    BY <1>2, GoverningIsAllowed DEF PollAdopts, Polls, MayOpen
  <2>2. UNCHANGED <<world, plan, cur, recs, pub, score, lockOld>>
    BY <1>2 DEF PollAdopts, ledger, locks
  <2>3. Contract!Adopt(InForce(served))
    BY <2>1, <2>2 DEF Contract!Adopt, Contract!operator, Contract!rounds, world
  <2>. QED BY <2>1, <2>3 DEF Contract!Next
<1>3. ASSUME NEW served \in Revisions, NEW r \in RoundIds,
             NEW subs \in SUBSET Submissions, NEW first \in Submissions,
             PollOpens(served, r, subs, first)
      PROVE  Contract!Next
  <2>1. InForce(served) \in 1 .. revision /\ Contract!Under(InForce(served))
    BY <1>3, GoverningIsAllowed DEF PollOpens, Polls, MayOpen
  <2>2. cur = NoRound /\ score = "sleeping" /\ score' = "opened" /\ plan[r] = {}
    BY <1>3 DEF PollOpens, Polls, ContractInv, RoundIsPlanned
  <2>3. /\ plan' = [plan EXCEPT ![r] = subs] /\ cur'.round = r /\ subs # {}
        /\ UNCHANGED <<world, recs, pub>>
    BY <1>3 DEF PollOpens
  <2>4. Contract!Open(r, subs, InForce(served))
    BY <2>1, <2>2, <2>3 DEF Contract!Open, Contract!operator, world, NoRound
  <2>. QED BY <2>1, <2>4 DEF Contract!Next
<1>. QED BY <1>1, <1>2, <1>3 DEF Polling

\* The end of a round.
LEMMA EndIsAllowed ==
  ASSUME cur' = NoRound, score' = "sleeping", UNCHANGED <<world, plan, recs, directive, pub>>
  PROVE  Contract!Next
<1>1. Contract!Close
  BY DEF Contract!Close, Contract!operator, world, NoRound
<1>. QED BY <1>1 DEF Contract!Next

\* A record, and the end of a round or its going on.
LEMMA EvaluatingIsAllowed ==
  ASSUME ContractInv, Evaluating
  PROVE  Contract!Next \/ UNCHANGED Contract!vars
<1>1. score = "evaluating" /\ UNCHANGED <<world, plan, directive, pub>>
  BY DEF Evaluating, EpisodeRecorded, EvaluationRaises, AppendTears, Evaluates
<1>2. /\ NextSubmission \/ UNCHANGED <<score, cur, lock, lockOld>>
      /\ EpisodeRecorded \/ recs' = recs
  BY DEF Evaluating, EpisodeRecorded, EvaluationRaises, AppendTears
<1>3. \/ score' = "sleeping" /\ cur' = NoRound
      \/ score' = score /\ lockOld' = lockOld /\ cur'.round = cur.round
  BY <1>1, <1>2, NextSubmissionGoesOn DEF ContractInv
<1>4. CASE recs' = recs
  BY <1>1, <1>3, <1>4, EndIsAllowed DEF Contract!vars, Contract!operator, Contract!rounds, world
<1>5. CASE EpisodeRecorded
  <2>1. /\ cur.round \in RoundIds /\ cur.sub \in Submissions
        /\ recs[cur.round][cur.sub] < Instances
    BY <1>1 DEF ContractInv, IInv, TypeOK, RoundUnderWay
  <2>2. cur.sub \in plan[cur.round]
    BY <1>1 DEF ContractInv, RoundIsPlanned
  <2>3. cur.round # 0
    BY <2>1, DaemonAssumption DEF RoundIds, DaemonAssumption
  <2>4. recs' = [recs EXCEPT ![cur.round][cur.sub] = @ + 1]
    BY <1>5 DEF EpisodeRecorded
  <2>5. Contract!Score(cur.sub)
    BY <1>1, <1>3, <2>1, <2>2, <2>3, <2>4
    DEF Contract!Score, Contract!operator, world, NoRound
  <2>. QED BY <2>1, <2>5 DEF Contract!Next
<1>. QED BY <1>2, <1>4, <1>5

\* _settled_round names the round the contract names.
LEMMA SettledAgrees ==
  ASSUME IInv
  PROVE  /\ Contract!Scored = SettledRounds
         /\ Contract!Settled(SettledRound)
         /\ SettledRound \in RoundIds \cup {0}
<1>1. MaxRound \in Nat
  BY DaemonAssumption DEF DaemonAssumption
<1>2. ASSUME NEW r \in RoundIds, NEW s \in Submissions, recs[r][s] > 0
      PROVE  born[r] # 0
  BY <1>2 DEF IInv, UnopenedIsEmpty
<1>3. Contract!Scored = SettledRounds
  BY <1>2 DEF Contract!Scored, SettledRounds
<1>4. CASE SettledRounds = {}
  BY <1>1, <1>3, <1>4, SettledRoundIsSettled DEF Contract!Settled
<1>5. CASE SettledRounds # {}
  <2>1. SettledRounds \in SUBSET (1 .. MaxRound)
    BY DEF SettledRounds, RoundIds
  <2>2. \E r \in SettledRounds : \A q \in SettledRounds : q <= r
    BY <1>1, <1>5, <2>1, Greatest
  <2>3. SettledRound \in SettledRounds /\ \A q \in SettledRounds : q <= SettledRound
    BY <1>5, <2>2 DEF SettledRound
  <2>. QED BY <1>3, <1>5, <2>1, <2>3 DEF Contract!Settled, RoundIds
<1>. QED BY <1>3, <1>4, <1>5

\* A vote, whoever governs.
LEMMA VotingIsAllowed ==
  ASSUME ContractInv, Voting
  PROVE  Contract!Next
<1>1. /\ Wakes /\ UNCHANGED <<world, plan, cur, recs, score, lockOld>>
  BY DEF Voting, PublishWeights, PublishFallback, Wakes, ledger, locks
<1>2. Contract!Quiet
  <2>1. score \in {"sleeping", "done"} \/ (score = "evaluating" /\ lockOld)
    BY <1>1, WakesOutsideRounds DEF ContractInv, Wakes
  <2>. QED BY <2>1 DEF Contract!Quiet, ContractInv, RoundIsPlanned, NoRound
<1>3. UNCHANGED <<Contract!operator, Contract!rounds>>
  BY <1>1 DEF Contract!operator, Contract!rounds, world
<1>4. ASSUME NEW taken \in BOOLEAN, PublishWeights(taken)
      PROVE  Contract!Next
  <2>0. latest \in 1 .. revision
    BY <1>4, DaemonAssumption
    DEF PublishWeights, Governed, ContractInv, IInv, TypeOK, HeldWasPublished, DaemonAssumption
  <2>1. InForce(latest) \in 1 .. revision /\ Contract!Under(InForce(latest))
    BY <1>4, <2>0, GoverningIsAllowed DEF PublishWeights, Governed
  <2>2. CASE pub' = pub
    <3>1. Contract!Adopt(InForce(latest))
      BY <1>3, <2>1, <2>2 DEF Contract!Adopt
    <3>. QED BY <2>1, <3>1 DEF Contract!Next
  <2>3. CASE pub' = [by |-> "directive", round |-> SettledRound, revision |-> InForce(latest)]
    <3>1. Contract!Vote(InForce(latest), SettledRound) /\ SettledRound \in RoundIds \cup {0}
      BY <1>2, <1>3, <2>1, <2>3, SettledAgrees DEF Contract!Vote, ContractInv
    <3>. QED BY <2>1, <3>1 DEF Contract!Next
  <2>. QED BY <1>4, <2>2, <2>3 DEF PublishWeights
<1>5. CASE PublishFallback
  <2>1. directive = 0 /\ SettledRounds = {}
    BY <1>5, UngovernedHasNothing DEF ContractInv
  <2>2. Contract!VoteUngoverned
    BY <1>2, <1>3, <1>5, <2>1, SettledAgrees DEF Contract!VoteUngoverned, PublishFallback, ContractInv
  <2>. QED BY <2>2 DEF Contract!Next
<1>. QED BY <1>4, <1>5 DEF Voting

\* The end of the process, whichever way it comes.
LEMMA DyingIsAllowed ==
  ASSUME Dies
  PROVE  Contract!Next
<1>1. Contract!Restart
  BY DEF Dies, Contract!Restart, Contract!operator, world, NoRound
<1>. QED BY <1>1 DEF Contract!Next

\* The steps of the world, the lock and the signals.
LEMMA OthersAreAllowed ==
  ASSUME ContractInv
  PROVE  /\ \A from \in Blocks, isPaused \in PauseModes : Publish(from, isPaused) => Contract!Next
         /\ \A next \in Blocks, isPayable \in PayableModes :
              ChainMoves(next, isPayable) => Contract!Next \/ UNCHANGED Contract!vars
         /\ LockAges \/ StartRound \/ LockRefused \/ OpeningFails \/ Signal
              \/ ScoreLoopEnds \/ WeightLoopEnds \/ Start
              => Contract!Next \/ UNCHANGED Contract!vars
<1>1. ASSUME NEW from \in Blocks, NEW isPaused \in PauseModes, Publish(from, isPaused)
      PROVE  Contract!Next
  <2>1. /\ revision' = revision + 1 /\ effective' = [effective EXCEPT ![revision + 1] = from]
        /\ UNCHANGED <<block, plan, cur, recs, directive, pub, score, lockOld>>
    BY <1>1 DEF Publish, memory, ledger, locks
  <2>2. \A d \in 1 .. revision : effective'[d] = effective[d]
    BY <1>1, <2>1, DaemonAssumption
    DEF ContractInv, IInv, TypeOK, Publish, Revisions, DaemonAssumption
  <2>3. Contract!PublishRevision
    BY <2>1, <2>2 DEF Contract!PublishRevision, Contract!rounds
  <2>. QED BY <2>3 DEF Contract!Next
<1>2. ASSUME NEW next \in Blocks, NEW isPayable \in PayableModes, ChainMoves(next, isPayable)
      PROVE  Contract!Next \/ UNCHANGED Contract!vars
  <2>1. CASE next = block + 1
    <3>1. Contract!NextBlock
      BY <1>2, <2>1 DEF ChainMoves, memory, ledger, locks, Contract!NextBlock, Contract!rounds
    <3>. QED BY <3>1 DEF Contract!Next
  <2>2. CASE next = block
    BY <1>2, <2>2 DEF ChainMoves, memory, ledger, locks, Contract!vars, Contract!operator,
                      Contract!rounds
  <2>. QED BY <1>2, <2>1, <2>2 DEF ChainMoves
<1>3. ASSUME LockAges PROVE Contract!Next \/ UNCHANGED Contract!vars
  <2>1. lockOld' /\ UNCHANGED <<world, plan, cur, recs, directive, pub, score>>
    BY <1>3 DEF LockAges, memory, ledger
  <2>2. CASE score # "evaluating"
    BY <2>1, <2>2 DEF Contract!vars, Contract!operator, Contract!rounds, world
  <2>3. CASE score = "evaluating"
    <3>1. cur.round # 0
      BY <2>3, DaemonAssumption DEF ContractInv, IInv, TypeOK, RoundUnderWay, RoundIds, DaemonAssumption
    <3>2. Contract!DayPasses
      BY <2>1, <2>3, <3>1 DEF Contract!DayPasses, Contract!operator, world
    <3>. QED BY <3>2 DEF Contract!Next
  <2>. QED BY <2>2, <2>3
<1>4. ASSUME StartRound PROVE UNCHANGED Contract!vars
  BY <1>4 DEF StartRound, ledger, Contract!vars, Contract!operator, Contract!rounds, world
<1>5. ASSUME LockRefused \/ OpeningFails PROVE Contract!Next
  BY <1>5, EndIsAllowed DEF LockRefused, OpeningFails, ledger
<1>6. ASSUME Signal \/ WeightLoopEnds \/ Start PROVE UNCHANGED Contract!vars
  BY <1>6, Untouched DEF Signal, WeightLoopEnds, Start, ledger, locks
<1>7. ASSUME ScoreLoopEnds PROVE UNCHANGED Contract!vars
  BY <1>7 DEF ScoreLoopEnds, ledger, locks, Contract!vars, Contract!operator, Contract!rounds, world
<1>. QED BY <1>1, <1>2, <1>3, <1>4, <1>5, <1>6, <1>7

\* Every step of the daemon is one of the contract, or none.
LEMMA StepsAreAllowed ==
  ASSUME ContractInv, [Next]_vars
  PROVE  Contract!Next \/ UNCHANGED Contract!vars
<1>1. CASE UNCHANGED vars
  BY <1>1, Untouched DEF vars, memory, ledger, locks
<1>2. CASE Exit \/ Crash
  BY <1>2, DyingIsAllowed DEF Exit, Crash
<1>. QED BY <1>1, <1>2, PollsAreAllowed, EvaluatingIsAllowed, VotingIsAllowed, OthersAreAllowed
         DEF Next, Stopping

\* Every behaviour of the daemon is one of the voting contract, whatever stops, dies, tears
\* or gets lost, for any number of rounds, submissions and revisions.
THEOREM DaemonImplementsContract == Spec => ImplementsContract
<1>1. Init => Contract!Init
  BY DEF Init, Contract!Init, NoRound, NoVector
<1>2. ContractInv /\ [Next]_vars => [Contract!Next]_(Contract!vars)
  BY StepsAreAllowed
<1>. QED BY <1>1, <1>2, ContractInvHoldsAtFirst, ContractInvIsInductive, PTL
         DEF Spec, ImplementsContract, Contract!Spec

-----------------------------------------------------------------------------
(* Updates in place, for every number of them. *)

\* The signal of an update is like any other.
LEMMA UpdateStopsKeeps ==
  ASSUME IInv, UpdateStops
  PROVE  IInv'
<1>1. stop' \in BOOLEAN
      /\ UNCHANGED <<world, latest, directive, score, weights, cur, up, ledger, locks, cache,
                     pub, interrupts>>
  BY DEF UpdateStops
<1>2. TypeOK'
  BY <1>1 DEF IInv, TypeOK, world, ledger, locks
<1>3. /\ UNCHANGED <<RoundUnderWay, UnopenedIsEmpty, VotedIsOver, LockTracksRound>>
      /\ UNCHANGED <<HeldWasPublished, AdoptedInForce, CachedWasInForce>>
  BY <1>1 DEF RoundUnderWay, UnopenedIsEmpty, VotedIsOver, LockTracksRound, HeldWasPublished,
              AdoptedInForce, CachedWasInForce, EffectiveNow, world, ledger, locks
<1>. QED BY <1>2, <1>3 DEF IInv

\* The kill of an update is like a crash.
LEMMA UpdateKillsKeeps ==
  ASSUME IInv, UpdateKills
  PROVE  IInv'
<1>. USE DaemonAssumption DEF DaemonAssumption
<1>1. /\ up' = FALSE /\ stop' = FALSE /\ latest' = 0 /\ directive' = 0
      /\ score' = "sleeping" /\ weights' = "sleeping" /\ cur' = NoRound
      /\ lock' = IF lock = "mine" THEN "past" ELSE lock
      /\ UNCHANGED <<world, born, plan, recs, lockOld, pidReused, cache, pub, interrupts>>
  BY DEF UpdateKills, Dies
<1>2. torn' \subseteq RoundIds
  BY DEF UpdateKills, IInv, TypeOK, RoundUnderWay
<1>3. lock' \in {"none", "past"}
  BY <1>1 DEF IInv, TypeOK
<1>4. TypeOK'
  <2>1. 0 \in 0 .. MaxRevision
    OBVIOUS
  <2>. QED BY <1>1, <1>2, <1>3, <2>1 DEF IInv, TypeOK, world
<1>5. LockTracksRound' /\ RoundUnderWay' /\ UnopenedIsEmpty'
  BY <1>1, <1>3 DEF IInv, LockTracksRound, RoundUnderWay, UnopenedIsEmpty
<1>6. HeldWasPublished' /\ AdoptedInForce' /\ CachedWasInForce'
  BY <1>1, <1>4 DEF IInv, TypeOK, HeldWasPublished, AdoptedInForce, CachedWasInForce,
                    EffectiveNow, world
<1>7. VotedIsOver'
  BY <1>1 DEF IInv, VotedIsOver
<1>. QED BY <1>4, <1>5, <1>6, <1>7 DEF IInv

LEMMA UpdatingKeeps == IInv /\ [DeployNext]_deployVars => IInv'
<1>. SUFFICES ASSUME IInv, [DeployNext]_deployVars PROVE IInv'
  OBVIOUS
<1>1. CASE [Next]_vars
  BY <1>1, InvariantIsInductive
<1>2. CASE UpdateStops
  BY <1>2, UpdateStopsKeeps
<1>3. CASE UpdateKills
  BY <1>3, UpdateKillsKeeps
<1>4. CASE UNCHANGED vars
  BY <1>1, <1>4
<1>5. CASE UpdateStarts
  BY <1>1, <1>5 DEF UpdateStarts, Next
<1>. QED BY <1>1, <1>2, <1>3, <1>4, <1>5 DEF DeployNext, Updating, Release, HookClears, StatusIsIdle,
            UpdateFindsItStopped, deployVars

\* The validator's invariant holds through any number of updates.
THEOREM UpdatesKeepInvariant == DeploySpec => []IInv
<1>1. DeployInit => IInv
  BY InvariantHoldsAtFirst DEF DeployInit
<1>. QED BY <1>1, UpdatingKeeps, PTL DEF DeploySpec

\* Types of the validator and of its updates.
THEOREM DeployTypeCorrectness == DeploySpec => []DeployTypeOK
<1>. DEFINE Own == /\ update \in {"none", "available", "cleared", "stopping", "replacing"}
                   /\ updates \in 0 .. MaxUpdates
<1>1. DeployInit => Own
  BY DeploymentAssumption DEF DeploymentAssumption, DeployInit
<1>2. Own /\ [DeployNext]_deployVars => Own'
  BY DeploymentAssumption DEF DeploymentAssumption, DeployNext, Updating, Release, HookClears, StatusIsIdle,
     UpdateStops, UpdateKills, UpdateFindsItStopped, UpdateStarts, deployVars
<1>3. IInv /\ Own => DeployTypeOK
  BY DEF IInv, DeployTypeOK
<1>. QED BY <1>1, <1>2, <1>3, UpdatesKeepInvariant, PTL DEF DeploySpec

\* The hook lets no update through while a round is evaluated, unless the round outlasted
\* its lock, through crashes, restarts and earlier updates (deploy/validator/pre-update.sh,
\* validator/state.py round_in_flight).
THEOREM HookNeverClearsARound == DeploySpec => HookClearsNoRound
<1>1. ASSUME IInv, [DeployNext]_deployVars, update = "available", update' = "cleared",
             score = "evaluating"
      PROVE  lockOld
  <2>1. HookClears
    BY <1>1 DEF DeployNext, Updating, Release, UpdateStops, UpdateKills,
       UpdateFindsItStopped, UpdateStarts, deployVars
  <2>2. lock = "mine"
    BY <1>1 DEF IInv, LockTracksRound
  <2>. QED BY <2>1, <2>2 DEF HookClears, StatusIsIdle, RoundInFlight, HolderAlive
<1>. QED BY <1>1, UpdatesKeepInvariant, PTL DEF DeploySpec, HookClearsNoRound

\* Updates leave the round under way alone, or end it with the process.
LEMMA UpdatesKeepContractInv == ContractInv /\ [DeployNext]_deployVars => ContractInv'
<1>. SUFFICES ASSUME ContractInv, [DeployNext]_deployVars PROVE ContractInv'
  OBVIOUS
<1>1. IInv'
  BY UpdatingKeeps DEF ContractInv
<1>2. CASE [Next]_vars
  BY <1>2, ContractInvIsInductive
<1>3. CASE UpdateStops
  <2>1. UNCHANGED <<score, cur, born, plan>>
    BY <1>3 DEF UpdateStops, ledger
  <2>. QED BY <1>1, <2>1, PlanStays DEF ContractInv
<1>4. CASE UpdateKills
  <2>1. score' = "sleeping" /\ cur' = NoRound /\ UNCHANGED <<born, plan>>
    BY <1>4 DEF UpdateKills, Dies
  <2>. QED BY <1>1, <2>1 DEF ContractInv, RoundIsPlanned
<1>5. CASE UpdateStarts
  BY <1>2, <1>5 DEF UpdateStarts, Next
<1>. QED BY <1>2, <1>3, <1>4, <1>5 DEF DeployNext, Updating, Release, HookClears, StatusIsIdle,
            UpdateFindsItStopped, deployVars

\* The updated validator keeps the contract as well: no update reopens a round, takes a
\* vote into one or has a revision govern before its block.
THEOREM UpdatesImplementContract == DeploySpec => ImplementsContract
<1>1. DeployInit => Contract!Init /\ ContractInv
  BY ContractInvHoldsAtFirst DEF DeployInit, Init, Contract!Init, NoRound, NoVector
<1>2. ASSUME ContractInv, [DeployNext]_deployVars
      PROVE  [Contract!Next]_(Contract!vars)
  <2>1. CASE [Next]_vars
    BY <1>2, <2>1, StepsAreAllowed
  <2>2. CASE UpdateStops
    BY <2>2, Untouched DEF UpdateStops, ledger, locks
  <2>3. CASE UpdateKills
    BY <2>3, DyingIsAllowed DEF UpdateKills
  <2>4. CASE UpdateStarts
    BY <2>1, <2>4 DEF UpdateStarts, Next
  <2>. QED BY <1>2, <2>1, <2>2, <2>3, <2>4 DEF DeployNext, Updating, Release, HookClears,
              StatusIsIdle, UpdateFindsItStopped, deployVars
<1>. QED BY <1>1, <1>2, UpdatesKeepContractInv, PTL DEF DeploySpec, ImplementsContract, Contract!Spec
=============================================================================
