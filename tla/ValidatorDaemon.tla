-------------------------- MODULE ValidatorDaemon --------------------------
(***************************************************************************)
(* The validator process (validator/daemon.py) with what it keeps on disk: *)
(* the round lock (validator/state.py), the directive cache and the ledger *)
(* of rounds (validator/round.py, ledger/store.py).                        *)
(*                                                                         *)
(* The scoring loop and the weight loop are tasks of one event loop.  They *)
(* alternate only where one of them awaits: between two polls, and while   *)
(* an episode runs.  The process may be stopped by a signal or die at any  *)
(* point, and is started again with nothing but the disk; a write may fail *)
(* part way.                                                               *)
(***************************************************************************)
EXTENDS Naturals, FiniteSets

CONSTANTS
  Submissions,    \* submissions that may be admitted to a round
  Instances,      \* instances of a round, per submission
  MaxRound,       \* bounds the rounds opened
  MaxRevision,    \* bounds the directives published
  MaxBlock,       \* bounds the chain's height
  MaxInterrupts,  \* bounds the signals, crashes and torn appends
  PidModes,       \* subset of BOOLEAN, the values `pidReused` may take
  PauseModes,     \* subset of BOOLEAN, the values emissions_paused may take
  PayableModes,   \* subset of BOOLEAN, the values `payable` may take
  LongRounds      \* whether a round may outlast the lock's 24 hours

ASSUME DaemonAssumption ==
  /\ Instances \in Nat \ {0}
  /\ MaxRound \in Nat /\ MaxRevision \in Nat /\ MaxBlock \in Nat /\ MaxInterrupts \in Nat
  /\ PidModes \subseteq BOOLEAN
  /\ PauseModes \subseteq BOOLEAN
  /\ PayableModes \subseteq BOOLEAN
  /\ LongRounds \in BOOLEAN

\* A round's identifier is a digest: the order of identifiers, which the code sorts
\* by, has nothing to do with the order in which rounds are opened.
RoundIds == 1 .. MaxRound
Revisions == 1 .. MaxRevision       \* 0 stands for no directive
Blocks == 0 .. MaxBlock

VARIABLES
  \* the control plane and the chain
  revision,    \* the newest revision published, 0 before the first
  effective,   \* its effective_from_block, per revision
  paused,      \* its emissions_paused, per revision
  block,       \* the chain's height
  payable,     \* nothing standing keeps a vector off the chain: there is something to
               \* pay, the reserved hotkey is registered if it is owed a share, somebody
               \* paid has a uid, and this validator has the stake or the permit to vote
  pub,         \* the last weight vector the chain took from this validator: by
               \* whose authority, from which round (0: reserved share only)
  \* the process
  up,          \* it runs
  stop,        \* Validator._stop
  latest,      \* Validator._latest
  directive,   \* Validator._directive
  score,       \* where the scoring loop is
  weights,     \* where the weight loop is
  cur,         \* the round being evaluated, its current submission, those left
  \* its disk
  cache,       \* directive.json
  lock,        \* round.lock: none, of this process, of a process now dead
  lockOld,     \* the lock is more than 24 hours old
  pidReused,   \* a restarted process has the pid of the one before (it is pid 1)
  born,        \* per round: 0, or how many rounds were opened up to it
  plan,        \* per round: the submissions it was opened for
  recs,        \* per round and submission: records in the ledger
  torn,        \* rounds whose records end in a line that is not whole
  interrupts   \* signals, crashes and torn appends so far, for the bound

world == <<revision, effective, paused, block, payable>>
memory == <<up, stop, latest, directive, score, weights, cur>>
ledger == <<born, plan, recs, torn>>
locks == <<lock, lockOld, pidReused>>
vars == <<world, memory, ledger, locks, cache, pub, interrupts>>

NoRound == [round |-> 0, sub |-> 0, left |-> {}]
NoVector == [by |-> "nobody", round |-> 0, revision |-> 0]

TypeOK ==
  /\ revision \in 0 .. MaxRevision
  /\ effective \in [Revisions -> Blocks]
  /\ paused \in [Revisions -> BOOLEAN]
  /\ block \in Blocks
  /\ payable \in BOOLEAN
  /\ pub \in [by : {"nobody", "fallback", "directive"},
              round : 0 .. MaxRound, revision : 0 .. MaxRevision]
  /\ up \in BOOLEAN
  /\ stop \in BOOLEAN
  /\ latest \in 0 .. MaxRevision
  /\ directive \in 0 .. MaxRevision
  /\ score \in {"sleeping", "opened", "evaluating", "done"}
  /\ weights \in {"sleeping", "done"}
  /\ cur \in [round : RoundIds, sub : Submissions, left : SUBSET Submissions] \cup {NoRound}
  /\ cache \in 0 .. MaxRevision
  /\ lock \in {"none", "mine", "past"}
  /\ lockOld \in BOOLEAN
  /\ pidReused \in BOOLEAN
  /\ born \in [RoundIds -> 0 .. MaxRound]
  /\ plan \in [RoundIds -> SUBSET Submissions]
  /\ recs \in [RoundIds -> [Submissions -> 0 .. Instances]]
  /\ torn \subseteq RoundIds
  /\ interrupts \in 0 .. MaxInterrupts

Init ==
  /\ revision = 0
  /\ effective = [r \in Revisions |-> 0]
  /\ paused = [r \in Revisions |-> FALSE]
  /\ block = 0
  /\ payable \in PayableModes
  /\ pub = NoVector
  /\ up = TRUE
  /\ stop = FALSE
  /\ latest = 0
  /\ directive = 0
  /\ score = "sleeping"
  /\ weights = "sleeping"
  /\ cur = NoRound
  /\ cache = 0
  /\ lock = "none"
  /\ lockOld = FALSE
  /\ pidReused \in PidModes
  /\ born = [r \in RoundIds |-> 0]
  /\ plan = [r \in RoundIds |-> {}]
  /\ recs = [r \in RoundIds |-> [s \in Submissions |-> 0]]
  /\ torn = {}
  /\ interrupts = 0

-----------------------------------------------------------------------------
(* The control plane and the chain. *)

\* The operator signs and publishes the next revision.
Publish(from, isPaused) ==
  /\ revision < MaxRevision
  /\ revision' = revision + 1
  /\ effective' = [effective EXCEPT ![revision + 1] = from]
  /\ paused' = [paused EXCEPT ![revision + 1] = isPaused]
  /\ UNCHANGED <<block, payable, memory, ledger, locks, cache, pub, interrupts>>

\* The chain grows, or what stands on it changes: a share is set or dropped, a hotkey
\* registered or not, a stake raised or withdrawn, a round settles in which nobody earned
\* anything.
ChainMoves(next, isPayable) ==
  /\ next \in {block, block + 1}
  /\ next # block \/ isPayable # payable
  /\ block' = next
  /\ payable' = isPayable
  /\ UNCHANGED <<revision, effective, paused, memory, ledger, locks, cache, pub, interrupts>>

NextBlock ==
  \E next \in Blocks, isPayable \in PayableModes : next > block /\ ChainMoves(next, isPayable)

-----------------------------------------------------------------------------
(* Which revision governs. *)

EffectiveNow(r) == effective[r] <= block

PreviousFromCache == cache

\* What _in_force falls back on: the revision adopted in this life, or the cache.
Previous == IF directive # 0 THEN directive ELSE cache

\* _in_force, for a newest revision l.
InForce(l) ==
  CASE l = 0 -> 0
    [] l # 0 /\ EffectiveNow(l) -> l
    [] l # 0 /\ ~EffectiveNow(l) ->
         IF Previous # 0 /\ EffectiveNow(Previous) THEN Previous ELSE 0

\* _write_cache truncates the file and writes it, and goes on when either fails: the
\* cache then holds the new revision, the old one, or nothing that can be read.
Written(l) == {l, cache, 0}

CacheNewest(l) == cache' \in Written(l)

\* _adopt writes the cache for the newest revision only, and once it is in force.
CacheAdopted(l) == cache' \in IF EffectiveNow(l) THEN Written(l) ELSE {cache}

\* _in_force's effect: a newest revision that is effective becomes the one in force.
Adopt(l) ==
  /\ directive' = IF EffectiveNow(l) THEN l ELSE directive
  /\ CacheAdopted(l)

-----------------------------------------------------------------------------
(* The round lock. *)

\* os.kill(pid, 0): the pid of this process, or one that this process inherited.
HolderAlive == lock = "mine" \/ (lock = "past" /\ pidReused)

LockIgnored == FALSE
LockNeverAges == lock # "none" /\ HolderAlive

\* round_in_flight, for the weight loop: neither expired nor of a dead process.
RoundInFlight == lock # "none" /\ ~lockOld /\ HolderAlive

\* round_lock, for the scoring loop, looks at the process alone.
LockRefuses == lock # "none" /\ HolderAlive

\* There is no lock, or none that can be read.
Unlock == lock' = "none" /\ lockOld' = FALSE

\* Leaving round_lock, however the round ended, removes the process's own lock, unless
\* the file cannot be removed: nothing is said, and the lock stays.
ReleaseLock == Unlock \/ UNCHANGED <<lock, lockOld>>

\* A day passes.
LockAges ==
  /\ lock # "none"
  /\ ~lockOld
  /\ score = "evaluating" => LongRounds
  /\ lockOld' = TRUE
  /\ UNCHANGED <<world, memory, ledger, lock, pidReused, cache, pub, interrupts>>

-----------------------------------------------------------------------------
(* The scoring loop. *)

\* A directive is fetched: a revision the operator published and the control plane
\* serves.  Nothing asks that it be the newest, nor one at least as new as the last.
Polls(served) ==
  /\ up
  /\ ~stop
  /\ score = "sleeping"
  /\ served \in 1 .. revision
  /\ latest' = served

\* A poll that fetches and opens nothing: emissions are paused, no round is due,
\* or no revision is in force.  A poll that fails changes nothing at all.
PollIdle ==
  /\ \E served \in 1 .. revision : Polls(served)
  /\ UNCHANGED <<world, up, stop, directive, score, weights, cur, ledger, locks, cache,
                 pub, interrupts>>

MayOpen(served) == ~paused[served] /\ InForce(served) # 0

\* A round is due and a revision in force, but nothing is opened: no submission is
\* admitted, or the discovery or the plan raises.  The revision is adopted.
PollAdopts(served) ==
  /\ Polls(served)
  /\ MayOpen(served)
  /\ Adopt(served)
  /\ UNCHANGED <<world, up, stop, score, weights, cur, ledger, locks, pub, interrupts>>

Opened == Cardinality({r \in RoundIds : born[r] # 0})

\* A round is opened for the submissions admitted: its header is on disk, its lock
\* is not.  The order of the submissions is the chain's.
PollOpens(served, r, subs, first) ==
  /\ Polls(served)
  /\ MayOpen(served)
  /\ born[r] = 0
  /\ first \in subs
  /\ Adopt(served)
  /\ born' = [born EXCEPT ![r] = Opened + 1]
  /\ plan' = [plan EXCEPT ![r] = subs]
  /\ cur' = [round |-> r, sub |-> first, left |-> subs \ {first}]
  /\ score' = "opened"
  /\ UNCHANGED <<world, up, stop, weights, recs, torn, locks, pub, interrupts>>

\* round_lock raises ConfigError: the round stays opened and empty.
LockRefused ==
  /\ up
  /\ score = "opened"
  /\ LockRefuses
  /\ score' = "sleeping"
  /\ cur' = NoRound
  /\ UNCHANGED <<world, up, stop, latest, directive, weights, ledger, locks, cache, pub, interrupts>>

\* The audit key or the lock cannot be written, the latter leaving nothing readable.
OpeningFails ==
  /\ up
  /\ score = "opened"
  /\ \/ UNCHANGED <<lock, lockOld>>
     \/ ~LockRefuses /\ Unlock
  /\ score' = "sleeping"
  /\ cur' = NoRound
  /\ UNCHANGED <<world, up, stop, latest, directive, weights, ledger, pidReused, cache,
                 pub, interrupts>>

StartsWithoutLock ==
  /\ up
  /\ score = "opened"
  /\ ~LockRefuses
  /\ score' = "evaluating"
  /\ UNCHANGED <<world, up, stop, latest, directive, weights, cur, ledger, locks, cache,
                 pub, interrupts>>

\* The lock is written, over whatever was there, and the first submission started.
StartRound ==
  /\ up
  /\ score = "opened"
  /\ ~LockRefuses
  /\ score' = "evaluating"
  /\ lock' = "mine"
  /\ lockOld' = FALSE
  /\ UNCHANGED <<world, up, stop, latest, directive, weights, cur, ledger, pidReused,
                 cache, pub, interrupts>>

\* After a submission, the heartbeat and the head of the loop.  The round ends when none
\* is left, when a stop was requested, or when the heartbeat is answered by a body that
\* is not JSON, an error nothing suppresses; or else the next submission follows.
NextSubmission ==
  \/ /\ score' = "sleeping"
     /\ cur' = NoRound
     /\ ReleaseLock
  \/ /\ ~stop
     /\ \E s \in cur.left : cur' = [cur EXCEPT !.sub = s, !.left = @ \ {s}]
     /\ UNCHANGED <<score, lock, lockOld>>

Evaluates ==
  /\ up
  /\ score = "evaluating"
  /\ UNCHANGED <<world, up, stop, latest, directive, weights, born, plan, pidReused,
                 cache, pub>>

OneInstanceTooMany ==
  /\ Evaluates
  /\ UNCHANGED <<torn, interrupts>>
  /\ recs' = [recs EXCEPT ![cur.round][cur.sub] = @ + 1]
  /\ IF recs[cur.round][cur.sub] <= Instances
       THEN UNCHANGED <<score, cur, lock, lockOld>>
       ELSE NextSubmission

\* An episode ends in a record, which is appended to the round's chain, whose tip is
\* read first; after the last instance comes the next submission.
EpisodeRecorded ==
  /\ Evaluates
  /\ cur.round \notin torn
  /\ UNCHANGED <<torn, interrupts>>
  /\ recs' = [recs EXCEPT ![cur.round][cur.sub] = @ + 1]
  /\ IF recs'[cur.round][cur.sub] < Instances
       THEN UNCHANGED <<score, cur, lock, lockOld>>
       ELSE NextSubmission

\* evaluate_submission raises part way: the round goes on without the rest of it.
EvaluationRaises ==
  /\ Evaluates
  /\ UNCHANGED <<recs, torn, interrupts>>
  /\ NextSubmission

\* It raises in the middle of an append, the disk being full: part of a line stays.
AppendTears ==
  /\ Evaluates
  /\ cur.round \notin torn
  /\ interrupts < MaxInterrupts
  /\ interrupts' = interrupts + 1
  /\ torn' = torn \cup {cur.round}
  /\ UNCHANGED recs
  /\ NextSubmission

-----------------------------------------------------------------------------
(* The weight loop. *)

SettledRounds == {r \in RoundIds : born[r] # 0 /\ \E s \in Submissions : recs[r][s] > 0}

LastOpenedRound ==
  LET rounds == {r \in RoundIds : born[r] # 0}
  IN  IF rounds = {} THEN 0 ELSE CHOOSE r \in rounds : \A q \in rounds : q <= r

\* _settled_round: the greatest identifier among the rounds with a record.
SettledRound == IF SettledRounds = {} THEN 0
                ELSE CHOOSE r \in SettledRounds : \A q \in SettledRounds : q <= r

\* The loop wakes where the scoring loop awaits, and finds no round in flight.
Wakes ==
  /\ up
  /\ ~stop
  /\ weights = "sleeping"
  /\ score \in {"sleeping", "evaluating", "done"}
  /\ ~RoundInFlight
  /\ UNCHANGED <<world, up, stop, latest, score, weights, cur, ledger, locks, interrupts>>

\* Looking for the settled round reads the records of every round; a line that is not
\* whole raises, and the loop waits for its next interval.
LedgerReads == torn = {}

Governed == latest # 0 /\ InForce(latest) # 0

\* A revision is in force.  The vector is built from the settled round and the
\* reserved share.  It may be refused, for a rate limit, an unreachable chain or an error
\* of the moment, and is where the ledger does not read or something standing is in the
\* way.
PublishWeights(taken) ==
  /\ Wakes
  /\ Governed
  /\ taken => LedgerReads /\ payable
  /\ Adopt(latest)
  /\ pub' = IF taken
              THEN [by |-> "directive", round |-> SettledRound,
                    revision |-> InForce(latest)]
              ELSE pub

UncachedOnly == cache = 0

\* _publish_unconfigured: only with nothing cached and nothing ever scored.
Unconfigured == cache = 0 /\ SettledRound = 0

\* No revision is in force: the fallback hotkey gets the whole vector.
PublishFallback ==
  /\ Wakes
  /\ ~Governed
  /\ Unconfigured
  /\ LedgerReads
  /\ payable
  /\ pub' = [by |-> "fallback", round |-> 0, revision |-> 0]
  /\ UNCHANGED <<directive, cache>>

-----------------------------------------------------------------------------
(* Stop, crash, start. *)

Interrupted ==
  /\ up
  /\ interrupts < MaxInterrupts
  /\ interrupts' = interrupts + 1

\* The event loop runs the handler of SIGINT and SIGTERM where a task awaits.
Signal ==
  /\ Interrupted
  /\ ~stop
  /\ score # "opened"
  /\ stop' = TRUE
  /\ UNCHANGED <<world, up, latest, directive, score, weights, cur, ledger, locks, cache,
                 pub>>

ScoreLoopEndsAfterAPoll ==
  /\ up /\ stop
  /\ score = "sleeping"
  /\ latest # 0
  /\ score' = "done"
  /\ UNCHANGED <<world, up, stop, latest, directive, weights, cur, ledger, locks, cache,
                 pub, interrupts>>

ScoreLoopEnds ==
  /\ up /\ stop
  /\ score = "sleeping"
  /\ score' = "done"
  /\ UNCHANGED <<world, up, stop, latest, directive, weights, cur, ledger, locks, cache,
                 pub, interrupts>>

WeightLoopEnds ==
  /\ up /\ stop
  /\ weights = "sleeping"
  /\ weights' = "done"
  /\ UNCHANGED <<world, up, stop, latest, directive, score, cur, ledger, locks, cache,
                 pub, interrupts>>

\* Memory is gone with the process; a lock it held is now a dead process's.
Dies ==
  /\ up' = FALSE
  /\ stop' = FALSE
  /\ latest' = 0
  /\ directive' = 0
  /\ score' = "sleeping"
  /\ weights' = "sleeping"
  /\ cur' = NoRound
  /\ lock' = IF lock = "mine" THEN "past" ELSE lock
  /\ UNCHANGED <<world, born, plan, recs, lockOld, pidReused, cache, pub>>

Exit ==
  /\ up
  /\ score = "done" /\ weights = "done"
  /\ Dies
  /\ UNCHANGED <<torn, interrupts>>

\* A crash during an evaluation may fall into an append.
Crash ==
  /\ Interrupted
  /\ Dies
  /\ \/ torn' = torn
     \/ score = "evaluating" /\ torn' = torn \cup {cur.round}

Start ==
  /\ ~up
  /\ up' = TRUE
  /\ UNCHANGED <<world, stop, latest, directive, score, weights, cur, ledger, locks,
                 cache, pub, interrupts>>

-----------------------------------------------------------------------------
Polling ==
  \/ PollIdle
  \/ \E served \in Revisions :
       \/ PollAdopts(served)
       \/ \E r \in RoundIds, subs \in SUBSET Submissions, first \in Submissions :
            PollOpens(served, r, subs, first)

Evaluating == EpisodeRecorded \/ EvaluationRaises \/ AppendTears

Voting == (\E taken \in BOOLEAN : PublishWeights(taken)) \/ PublishFallback

Stopping == ScoreLoopEnds \/ WeightLoopEnds \/ Exit

Next ==
  \/ \E from \in Blocks, isPaused \in PauseModes : Publish(from, isPaused)
  \/ \E next \in Blocks, isPayable \in PayableModes : ChainMoves(next, isPayable)
  \/ LockAges
  \/ Polling \/ LockRefused \/ OpeningFails \/ StartRound \/ Evaluating
  \/ Voting
  \/ Signal \/ Stopping \/ Crash \/ Start

\* The chain and the clock go on; the control plane can be reached again; an episode
\* ends (RelaySession's EpisodeEnds); a stopped validator is started again (restart:
\* unless-stopped).
\* Strong fairness: a vote that is possible again and again is taken some time.  It is not
\* where something standing is in the way or the ledger does not read, which the action
\* asks.  What is assumed is that a refusal for the moment does not come at every
\* retry, and that the weight loop, awake every twenty minutes, finds the two hours that
\* follow a round's completion.
Fairness ==
  /\ WF_vars(NextBlock) /\ WF_vars(LockAges)
  /\ WF_vars(PollIdle)
  /\ WF_vars(LockRefused) /\ WF_vars(StartRound) /\ WF_vars(Evaluating)
  /\ SF_vars(PublishWeights(TRUE))
  /\ WF_vars(ScoreLoopEnds) /\ WF_vars(WeightLoopEnds) /\ WF_vars(Exit)
  /\ WF_vars(Start)

Spec == Init /\ [][Next]_vars
FairSpec == Spec /\ Fairness

-----------------------------------------------------------------------------
(* Safety. *)

\* The chain never takes a vector while a round is being evaluated, except from a
\* round that outlasts its lock's 24 hours (daemon.py weight_loop asks the lock,
\* which score_loop writes and removes across awaits, stops and crashes).
NoVoteMidRound == [][pub' # pub /\ score = "evaluating" => lockOld]_vars

\* The round the chain's vector was made from is closed: no record is added to it
\* afterwards, not by a restarted validator either, unless it outlasted its lock.
VotedRoundIsClosed ==
  [][pub.round # 0 /\ recs'[pub.round] # recs[pub.round] => lockOld]_vars

\* Once a directive was in force in a process, one is in force there for good,
\* whatever revision is published next and whatever happens to the cache
\* (daemon.py _in_force).
NeverUngoverned == directive # 0 => InForce(latest) # 0

\* The cache never holds a revision before its block: a restart cannot adopt prices
\* early (daemon.py _adopt; directive.py effective_at).
CachedWasInForce == cache # 0 => EffectiveNow(cache)

\* No process that had a directive in force, and no validator with a scored round,
\* sends the whole vector to the compiled in hotkey (daemon.py _publish_unconfigured).
FallbackIsForTheUngoverned ==
  [][pub' # pub /\ pub'.by = "fallback" => directive = 0 /\ SettledRounds = {}]_vars

-----------------------------------------------------------------------------
(* Liveness. *)

\* Once nothing standing keeps a vector off the chain, the chain's vector comes to be made
\* from the round _settled_round names, and stays so, through stops, crashes, stale and
\* leftover locks, pending revisions and a lost cache, where the ledger can be read.
VoteFollowsSettledRound ==
  <>[]payable => <>[](LedgerReads /\ SettledRound # 0 => pub.round = SettledRound)

\* A stop request ends the process, whatever the two loops are doing.
StopEnds == stop ~> ~up

-----------------------------------------------------------------------------
(* Refinement. *)

Contract == INSTANCE VotingContract WITH
  Rounds    <- RoundIds,
  published <- revision,
  entrants  <- plan,
  open      <- cur.round,
  overdue   <- score = "evaluating" /\ lockOld,
  records   <- recs,
  inForce   <- directive,
  vote      <- pub

\* The two loops, the lock, the cache and the ledger keep the contract, through stops,
\* crashes, torn appends and lost or stale caches: rounds are evaluated one at a time
\* and once, no vote falls into one, each is under a revision published and in force.
ImplementsContract == Contract!Spec

-----------------------------------------------------------------------------
(* What the documents say and the code does not do. *)

\* validator-guide.md: "a half evaluated ledger never reaches the chain".
VotedRoundIsWhole ==
  [][pub' # pub /\ pub'.round # 0
       => \A s \in plan[pub'.round] : recs[pub'.round][s] = Instances]_vars

\* validator-guide.md: the weight loop "publishes from the most recent settled round".
VotesTheNewestRound ==
  [][pub' # pub /\ pub'.round # 0
       => \A r \in SettledRounds : born[r] <= born[pub'.round]]_vars

\* validator-guide.md: "Any directive overrides it, live or cached".
FallbackYieldsToAnyDirective ==
  [][pub' # pub /\ pub'.by = "fallback" => latest = 0]_vars

\* validator-guide.md: "A lock whose holding process has died is ignored".
DeadLockIsIgnored ==
  [][score = "opened" /\ lock = "past" /\ up' /\ score' # "opened"
       => score' = "evaluating"]_vars

\* daemon.py: "A validator that exits on an unforeseen error stops earning and stops
\* being counted.  Log it loudly and keep the loop alive."  Whatever happened,
\* the loop comes to vote for the settled round once nothing standing is in the way.
LoopKeepsVoting == <>[]payable => <>[](SettledRound # 0 => pub.round = SettledRound)
=============================================================================
