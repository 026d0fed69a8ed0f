# Formal verification of the Enclave subnet

TLA+ modules, TLC configurations and TLAPS proofs for the code under `src/enclave/`.
A validator of the subnet runs miners' submissions as containers against generated
instances, meters what they spend through a relay, records each episode in a
hash-chained ledger, folds records into yields and yields into a weight vector, and
publishes the vector on chain.

## 1. The system

| Component | State it keeps | Operations | Modelled by |
| --- | --- | --- | --- |
| relay (`relay/server.py`, `meter.py`, `protocol.py`, `pricing.py`, `providers.py`) | session state, answer, violations; the meter's spend, seal and calls; one task per connection | initialise, chat completions, env act, submit; connect and disconnect; stop | `Meter`, `RelaySession` |
| episode (`episode/runner.py`) | container, record | run the container beside the relay, stop, seal, grade, classify, record | `RelaySession`, `EpisodeContract` |
| sandbox (`sandbox/`) | the docker process | run, kill at the deadline | `RelaySession.ContainerEnds` |
| validator daemon (`validator/daemon.py`, `state.py`) | newest and current directive, stop flag; `directive.json`, `round.lock` | scoring loop, weight loop, stop, restart | `ValidatorDaemon` |
| round (`validator/round.py`) | none of its own | plan, evaluate, score, allocate, publish | `ValidatorDaemon`, `RoundLedger`, `Allocation` |
| control client (`control/`) | none | fetch and verify a directive | `ValidatorDaemon.Publish`, `Polls` |
| ledger (`ledger/`) | `header.json` and `records.jsonl` per round | open, append, read, verify | `RoundLedger` |
| scoring (`scoring/`) | none | charged cost, winsorising, round score; allocation, reserved share | `RoundLedger`, `Allocation` |
| chain client (`chain/client.py`) | none | metagraph, set weights | `ValidatorDaemon`, `Allocation` |
| admission (`validator/discovery.py`, `chain/payment.py`, `chain/commitment.py`) | proofs spent in one discovery | discover, verify a payment, verify a reveal | `Admission` |
| environments (`environments/`) | an instance's documents, facts and graded keys; what was read | generate, act, grade, select audits | `Archive` |
| miner SDK (`miner_sdk/`) | socket, read buffer, next identifier | connect, close, call | `MinerClient` |
| deployment (`deploy/validator/`) | the image to come | update hook, stop, start | `Deployment` |
| command lines (`validator/cli.py`, `scoring/cli.py`) | none | start and signal the daemon; status; manual commands | partly, in `ValidatorDaemon`, `Deployment` |

**How they interact.** The daemon is one process with one event loop. Its scoring loop
polls the control plane, opens a round in the ledger, takes the lock file and awaits
`evaluate_submission` for each submission in turn; that awaits `run_episode` for each
instance and appends its record. `run_episode` starts the relay on a Unix socket, awaits
the container, stops the relay and classifies. The weight loop wakes at its own interval,
asks the lock file whether a round is in flight, reads the ledger of the settled round and
calls the chain. The two loops share memory (the directives) and the disk (lock, cache,
ledger); the submission shares with the validator the sockets only. Before a round the
daemon calls `discover`, which asks the chain about each hotkey in turn. Beside the daemon, a
supervisor runs `status` in its container, which reads the lock file, and stops and
replaces the container when there is a new image.

**What is hard here**, each listed at its line under `hazards` in `PROJECT.json`:

- *await and then act*: a completion passes `affordable`, awaits the provider, and charges
  a meter that other connections, a submit or the end of the episode have moved;
- *handlers that outlive their server*: `Server.wait_closed` waits for open connections
  from Python 3.12.1 and does not before (`drains` is nondeterministic for that reason);
- *two loops that meet in a file*: only `round.lock` keeps the weight loop away from a
  half evaluated round, and it ages, is left by a crash, and may name a reused pid;
- *crash between two writes*: header and lock, record and newline, cache truncated;
- *revisions with an effective block*: the newest, the current and the cached one;
- *a chain that moves while it is asked*: a payment is verified against blocks that may be
  added, or replaced, between two hotkeys;
- *a late answer*: the SDK gives up on a call, and what it gave up on still arrives, for the
  next call or after a reconnect;
- *ask, then stop*: the update hook's answer is old when the container is stopped;
- *rounding*: three apportionments by largest remainder; winsorising against a ceiling
  that each record moves.

**What makes each component correct.** Relay: the spend passes the cap by less than one
call, what is served costs less than the cap, one answer. Episode: one record, true of the
meter, with violations before everything but an environment that did not start; and it
comes, unless the host fails or the answer has no digest. Daemon: no vote from a round that is still being evaluated or
that will get more records, always a directive once there was one, no fallback on a
running network, the vote follows the settled round wherever nothing standing keeps it off
the chain, a stop ends the process. Ledger: a
ledger that decodes verifies, and one that was rewritten does not. Scoring: yields bounded
and monotone, an audit that failed stays failed. Allocation: nothing lost to rounding, rank
and ties respected, the reserved share taken exactly once. Admission: one payment enters
one submission, the one it was made for. SDK: a call returns, with its own response or the refusal of its own frame unless
a call was given up, and who sent nothing wrong is not blamed. Environments: who reads solves, who remembers does not. Deployment: no
round is cleared by the hook, every image comes to run.

## 2. Plan

1. `Meter`, `RelaySession`, `EpisodeContract`: the instance and the money. *Done, proved.*
2. `ValidatorDaemon`, `VotingContract`: the rounds and the votes. *Done; safety proved.*
3. `Allocation`: from yields to the vector. *Done, proved.*
4. `RoundLedger`: the chain of records and the yield. *Done, proved.*
5. `Admission`, `MinerClient`, `Archive`: what enters a round, what a submission links
   against, what it is asked. *Done; safety proved.*
6. `Deployment`: the daemon composed with the update hook. *Done; the hook proved.*
7. More proofs: the daemon, also while it is updated, implements `VotingContract`. *Done.*
8. Extensions: two validators over one state directory; `RoundLedger` composed with the daemon, in the place of its counters `recs`; `MinerClient` against `RelaySession`.

## 3. The modules

**`Meter`** (`relay/meter.py`) holds the pure operators of the per-instance meter: money is
counted in quanta, a cost is what `price_tokens` returned.

**`RelaySession`** (`relay/server.py`, `episode/runner.py`, `sandbox/runner.py`). `conn[c]`
is where the handler task of a connection is (`completing`: awaiting the provider),
`peer[c]` the submission's end of the socket (`unread`: a response waits in it, so closing
it resets the connection). One action is one stretch of a handler between two awaits:
`StartCompletion` ends at the await of the provider, and `ProviderAnswers` does everything
from there to the reply. `Act` and `Submit` have no await inside. `Reply` is also what
happens when the end is gone: the write raises, a violation is noted, the handler ends; but
the refusal of an undecodable frame is written with everything suppressed, and the handler
reads on. An exception that is not caught is `Fault`: before anything is looked at a frame
that `decode` lets other errors through for, later a `max_tokens` that is no integer, a charge
on a sealed meter, a response that does not encode. `ContainerEnds`, `Stopped` and `Record`
are `run_episode`, which may also raise: the relay does not start (`ServerFails`), the runner
raises for want of a container (`ContainerEnds("host_failed")`), the socket cannot be unlinked
(`StopFails`), or, the one reason that is the submission's, its answer holds a lone surrogate
and `transcript_digest` cannot encode it (`RecordRaises`). Requests and replies are abstracted
to what control depends on: the method, decodable or not, the quote, the cost, banned fields
present or not, an answer that is right, wrong, or `undigestible`.

**`EpisodeContract`** is the abstract specification: an account that closes, one answer, one
verdict that the account supports and that puts violations first, or none where the host
failed or the answer has no digest, and one of the two always. `RelaySession!Contract`
instantiates it; `open` maps to `~meter.sealed`, `answer` to the recorded one once there is a
record, `blamed` to whether there are violations, `verdict` to the recorded outcome or to
`failed` where `run_episode` raised.

**`ValidatorDaemon`** (`validator/daemon.py`, `state.py`, the opening and evaluation part of
`round.py`). `score` and `weights` are where the loops are. A poll and the opening of a
round are one synchronous stretch, hence one action `PollOpens`; the state `opened` exists
only because a crash or a failed write may fall between the header and the lock. Signals
are handled by the event loop, so a stop cannot arrive there. A pass of the weight loop
has no await: `PublishWeights` and `PublishFallback` are atomic. `SettledRound` is the
greatest identifier with a record; identifiers are digests, so a round may be opened with
any unused one. `Written` is a cache file that holds the new revision, the old one or
nothing readable, as `_write_cache` swallows the error. `torn` are the rounds whose records
end in a line that does not decode; `LedgerReads` is false then, because the weight loop
reads every round to find the settled one. When a round is due (`_last_round_at`) is
abstracted: it may be due at any poll. A failed poll changes nothing and is a stutter. A poll
may be served any revision that was published (`served`), as nothing in `_fetch_directive`
compares revisions: an earlier one may replace a later one. `ReleaseLock` may leave the lock
where it is, as the code suppresses the error. `payable` stands for what may keep a vector
off the chain for good: nothing earned and nothing reserved, a reserved hotkey that is not
registered, nobody paid with a uid, too little stake or no permit; it changes at any time
(`ChainMoves`), and `PublishWeights(TRUE)` needs it, beside a ledger that reads. A
refusal of the moment (rate limit, unreachable chain) is `PublishWeights(FALSE)`.

**`VotingContract`** is its abstract specification: what a validator promises, without loops,
polls, lock file, cache and memory. A round is opened once, for some submissions, under a
revision that is in force, and not beside another (`Open`); it takes records of those
submissions only, up to their instances (`Score`); it ends, scored or not, and is never taken
up again (`Close`, `Restart`). A vote is made between rounds, from a round that is a function of
the rounds scored (`Settled`), by a revision that was published and is past its block
(`Under`); it may be an older one than before, as the control plane is not checked for that. A vote by the compiled in hotkey is made by who adopted nothing
and scored nothing. `ValidatorDaemon!Contract` instantiates it: `block`, `published` and
`effective` are the chain's height and the control plane's revisions, `entrants` is `plan`,
`records` is `recs`, `inForce` is `directive`, `vote` is `pub`; `open` is `cur.round`, the round
the scoring loop has opened or evaluates, and `overdue` says that it is evaluated past its
lock's day. The newest revision fetched,
the cached one, the lock file, the pid, torn lines and the weight loop's state are hidden.
The contract says nothing of a half evaluated round that is voted from, nor of which round
is the newest: there the code and its guide differ (runs `half_round`, `newest_round`).

**`RoundLedger`** (`ledger/store.py`, `header.py`, `scoring/yield_score.py`, `records.py`).
A link is the whole history it commits to, an ideal digest. An append either completes
(`AppendRecord`), fails part way (`AppendFails`), or lands on a line that lacks its newline
(`AppendJoins`). `ScoreRound` is `score_round`, with yields as fractions `solved / charged`;
quantising a yield is monotone, so every comparison stated survives it. The records of a
submission are a function from their places in the file, as a score does not depend on their
order; `Ceiling` is the charge at the quantile, which the code finds by sorting: the one that
fewer than `QuantileRank` charges are below and at least as many are up to. An audited record
passes its audit exactly when it is solved (`episode/runner.py:145`).

**`Allocation`** (`scoring/allocation.py`, `round.py` publish, the tail of `weight_loop`).
The code computes shares with 96 digits; the model has them exactly, as integers over a
common denominator. The stages are `Allocate`, `ApplyReservedShare`, then `Hold` or `Publish`.

**`Deployment`** (`deploy/validator/`, `status` of `validator/cli.py`) extends
`ValidatorDaemon` with a supervisor: `Release` makes an image available, `HookClears` is the
hook's reading of the lock between any two steps of the daemon, `UpdateStops` the signal
that follows at some later time, `UpdateKills` what docker does ten seconds after it,
`UpdateStarts` the new container over the same volume. That a hook which exits non-zero
makes the update wait is watchtower's doing, taken from the documents.

**`Admission`** (`validator/discovery.py`, `chain/payment.py`). `turn` goes through the
hotkeys in sorted order; `CheckHotkey` is one pass of discover's loop, with `verify_payment`
as `Pays`. Between two passes the chain may grow, lose its last block to another one
(`Reorganise`), and a hotkey may change hands. What a block of a given hash holds is fixed:
`body` and `owner` are functions of hashes, `chain` says which are canonical. `reader` is
the payment reader, which the daemon may lack. `DiscoveryRaises` ends a discovery at any
revealed hotkey's turn: its reveal holds a number that no integer is or a text that does not
encode, or the reader fails with anything but `PaymentRejected`. A transfer's call, success and destination are one flag,
`sound`, as each of them is turned away on its own. A proof also states a block number; one
that is not its hash's fails as a block that is not canonical does.

**`MinerClient`** (`miner_sdk/client.py`, and `_handle` of `relay/server.py` opposite). A
response crosses in two pieces, so that a read may end inside a line. `buffer`, `sock` and
`nextId` are the client's fields. A call is `Call`, any number of `Receive`, and one of
`TakeLine`, `EndOfStream`, `TimesOut`, `SendBreaks`; outside of a call the agent may `Close`
and connect anew. What the four methods ask and what a response says is left out. The
handler's end is `Answers` (which for a frame that does not decode is the refusal, by
`RefusesFrame`, after which it reads on), `Refuses` (a frame over the limit, after which it
does not), `Faults` (decode or dispatch raised), `PeerIsGone`. A refusal carries the identifier
0, whichever frame it is of; for the history the model numbers each response by the call it
belongs to and keeps what the wire says beside it. A frame that the SDK's interface lets
through and the relay does not decode (NaN, deep nesting, long keys) is of the kind
`undecodable`. A read has two ways to fail: the relay closed, or nothing came for the
socket's timeout.

**`Archive`** (`environments/families/archive.py`, `prf.py`). `draws` is the outcome of each
seeded stream for each of the two seeds, chosen arbitrarily; `Build` is `_build`, and says
which stream is taken from which seed. Search is by substring: `Within` says which names
contain which, `mentions` which attribute names stand in filler text. The agent reads
documents it may guess; `Answers` is what it can state from what it read, or else remembers
of the ordinary instance.

**`MCDaemon`, `MCRoundLedger`, `MCAdmission`, `MCArchive`** add symmetry and the values of the
runs. The modules whose names end in **`Proofs`** hold the theorems.
Definitions next to an operator that no other definition uses (`ReachesStrictlyAbove`,
`LockIgnored`, ...) are plausible mistakes in that operator: putting one in its place breaks
the property paired with it under `mutants` in `PROJECT.json`, which shows that the property
depends on the code being as it is.

## 4. The runs

| Run | Question | Bounds |
| --- | --- | --- |
| `relay` | Do interleaved calls keep spend, answers and record right, does the session implement the contract, does every episode end? | 2 connections, cap 3, costs 0..2, 4 frames, both `drains` |
| `daemon_safety` | Which revision governs, which rounds may be voted from, does the daemon implement the contract? | 2 submissions, 1 instance each, 2 rounds, 2 revisions served in any order, 2 heights, 1 interrupt, long rounds |
| `updates` | Does the hook clear no round, does every image come to run, does the vote follow the settled round, does a stop end the process? | 1 submission, 2 instances, 2 rounds, 1 revision, 1 height, 1 update, 1 interrupt, both pid modes, something standing in the way or not |
| `allocation` | Do three roundings lose, reorder or withhold too much? | 4 hotkeys, scores 0..2, 3 paid ranks, 10 parts, shares 0, 3, 8, 10 of 10, every registered set |
| `round_ledger` | Does a ledger that decodes verify; are yields bounded and monotone? | 2 submissions, 3 records, spends 0..2, 2 headers, quantile 3/5 |
| `admission` | Does each payment enter the submission it was made for and no other, on a chain that moves? | 2 hotkeys, 2 coldkeys, 2 heights, 2 transfers, 1 change of hands, 1 reorganisation, fees 0 and 1, 1 discovery |
| `miner_client` | Whose response does a call get, who is blamed, does a call return? | 4 calls over 3 connections |
| `archive` | Does reading solve, and remembering not? | 2 names, one within the other, 1 attribute, 2 values, 2 documents, 1 graded key |

*Why the bounds are enough.* Overlap needs two connections; with cap 3 and costs up to 2
the cap can be met exactly, passed, and missed by one. Two rounds are one to vote from and
one in flight, and let the identifiers disagree with the order of opening; two revisions
are one in force and one pending; one interrupt is a stop, a crash or a torn append at every
possible point, with a complete second life after it. Four hotkeys with three paid ranks give ties
inside and across the boundary; ten parts over those shares round at each of the three
stages. With quantile 3/5 the ceiling is the maximum of two charges and the second of three,
so a record arrives that lowers it, which at 0.95 takes twenty records. Two hotkeys are a payer
and one who names its payment, in either order; two heights with one reorganisation let the
block of a payment be replaced before, between and after the two looks at it. Four calls over
three connections are one given up, one that takes its response, and two to see whether the
client ever catches up, with a reconnect in any place. In `archive` a name within another
and an attribute in filler make each search return too much, and two values let a graded one
move or stay. In `updates` one interrupt and one update meet each other in every order; long
rounds, whose lock ages while they run, are in `daemon_safety`, which keeps the pids of dead
processes dead and emissions unpaused; `updates` has the other values of both, and the
theorems cover every combination.

*Bounds in guards.* `MaxFrames`, `MaxCost` (relay); `MaxRound`, `MaxRevision`, `MaxBlock`,
`MaxInterrupts` (daemon); `MaxUpdates` (deployment); `MaxSpend`, `MaxRecords` (ledger);
`MaxScore`, `PpmTotal` (allocation); `MaxBlock`, `MaxBody`, `MaxTransfers`, `MaxSwaps`,
`MaxReorgs`, `MaxRounds` (admission); `MaxCalls`, `MaxConnections` (client). Deadlock is checked
in the runs of the daemon, which runs for ever; an episode, a round, a vector, a bounded
number of discoveries or calls and a graded instance end, so those runs say
`CHECK_DEADLOCK FALSE`.

*Fairness.* Relay: the container ends (the deadline kills it; docker's kill is assumed to
work), a provider that was called answers or fails, a handler whose read is ready runs,
`run_episode` goes on, to a record or an exception. Nothing is assumed of the submission. Daemon: height and time go
on, the control plane can be reached again, an episode ends (the relay's `EpisodeEnds`),
loops whose wait is over run, a stopped validator is started again (`restart:
unless-stopped`). Publishing has strong fairness where it is possible, which is part of the
action: between rounds, under a directive, with a ledger that reads and with nothing
standing in the way (`payable`). A standing reason may hold for good, as when the settled
round earned nothing and nothing is reserved; then nothing is assumed, and
`VoteFollowsSettledRound` asks nothing (`<>[]payable => ...`). What is assumed is that a
refusal of the moment does not come at every retry, and that the loop, which wakes every twenty
minutes, meets the gap of two hours that follows a round's completion. That gap is the code's
(`_last_round_at`) after a round that completes; after one that ends early the next poll
may open another, which the bound on rounds cuts off.
No fairness is given to signals, crashes, failed writes, a change of what stands in the way
or a new round being due.
Deployment: strong fairness of `HookClears`, as watchtower looks every five minutes and
rounds are two hours apart, and weak fairness of the replacement once it has begun. Client:
the relay's handlers and the call under way go on; nothing is assumed of the agent, and no
timeout has to fire, so `CallReturns` does not rest on the timeout.

### What documents say and the code does not do

Four runs expect a violation; each trace is a behaviour of the code.

- `half_round`: a round cut short by a stop, a crash or an exception keeps its records and
  is voted from.
- `newest_round`: the settled round is the last by name, and names are digests.
- `torn_ledger`: one torn line, in any round, makes every weight pass raise; the vote never
  moves again although the loops are alive.
- `proof_reuse`: the set of spent payments lives for one discovery, so a coldkey's payment
  enters its second hotkey's submission in the next round.

Four more are stated in the modules and have a configuration beside the runs, which TLC
refutes in the same way:

- `MCRelayCapRefusal.cfg`: a completion refused by its quote is answered `cap_exhausted`,
  but the spend stays below the cap, the session accepts a submit after it, and the instance
  may be recorded as solved.
- `MCFallback.cfg`: with a first directive held back until its block, the whole vector goes
  to the compiled in hotkey.
- `MCDeadLock.cfg`: in the shipped container the validator has the same pid before and after
  a restart, so the dead process's lock looks held and no round is evaluated.
- `MCPenalty.cfg`: winsorising cuts the penalty of a failure down to the price of a solve
  where failures are fewer than the tail. It has the deployed floor, penalty and cap; with
  quantile 3/4 four records show what twenty show at 0.95. Further, with 18 solves at the
  floor and one failure at the cap (yield 18 / 2.34), one more failure that spends nothing
  lowers the ceiling and so raises the yield to 18 / 0.60.

`MCDaemonLiveness.cfg` is the daemon without the deployment, with two revisions served in any
order: its liveness properties hold there too.

The rest were found by reading and are under `findings` without a run: the single slot for
a pending revision; winsorising across families; a deadline with a completion in flight
recorded as a protocol violation; ties cut by name at the last paid rank; `run` never
passes a payment reader; the reveal is checked against itself; one failing look at the chain
loses the round for everybody; a heartbeat can abandon a round; an update can stop a round
that began after the hook looked, and an unreadable lock clears it; the SDK keeps its buffer
over a close and compares no identifiers; an audited instance grades other keys, too; nothing
is re-run to look for divergence; `reveal-audit` does not wait for the weights; an answer
that does not encode leaves its instance without a record (`RecordRaises`); the SDK sends
frames that the relay blames (`undecodable`).

## 5. What is proved

All theorems hold for every value of the constants under the named assumptions of their
module (`SpendCapAssumption`, `RelayAssumption`, `DaemonAssumption`, `LedgerAssumption`,
`DeploymentAssumption`, `AllocationAssumption`, `AdmissionAssumption`, `ClientAssumption`, `ArchiveAssumption`), which TLC evaluates in
every run of the module.

- **`RelaySessionProofs`**: type correctness, `SpendBounded`, `ServedWithinCap`,
  `RecordIsFinal`, `SealedForever`, `AnswerOnce`, and that each step of the session is a
  step or a stutter of `EpisodeContract`. The spend is bounded because the charge that
  reaches the cap seals the meter in the same step: before it the spend is below the cap,
  after it nothing is charged. For the contract's verdict, the phase, the host's failure and
  the record go together. `RecordIsFinal` needs `EpisodeOrder`: a record exists exactly
  in the last phase and the meter is sealed there, so a handler that outlives the server
  cannot charge.
- **`ValidatorDaemonProofs`**: type correctness, `CachedWasInForce`, `NeverUngoverned`,
  `NoVoteMidRound`, `VotedRoundIsClosed`, `FallbackIsForTheUngoverned`. The argument is
  `LockTracksRound`: while a process evaluates, its own lock is there (it may be there
  afterwards, too, where it could not be removed). So a vote
  finds no round in flight, or a lock older than a day; and the round of the last vote is
  never the current one, because a round is opened under a fresh identifier and its first
  record is written under the lock. That the settled round exists when some round has a
  record rests on `Greatest`, from well-foundedness of the naturals.
  Its last section proves the deployment: the daemon's invariant survives the hook, the stop,
  the kill and the new image, and `HookClearsNoRound`: by `LockTracksRound` a round being
  evaluated has its lock on disk with the pid of the live process, so the hook finds it in
  flight unless it is old.
  `DaemonImplementsContract` maps each step of the daemon to one of `VotingContract` or to a
  stutter, and `UpdatesImplementContract` those of the deployment. Besides `IInv` it needs
  `RoundIsPlanned`: a round never opened is planned for nobody, and the one under way is
  evaluated for those it was opened for. The steps that say something are the poll that opens a round, the episode that
  writes a record and may end its round (`EvaluatingIsAllowed`), the votes (`VotingIsAllowed`,
  which finds no round under way by `WakesOutsideRounds`) and the end of the process;
  `SettledAgrees` shows that the greatest identifier with a record is the round the contract
  names, and `GoverningIsAllowed` that of fetched, adopted and cached revision the one taken is
  published and past its block, whichever was fetched.
- **`RoundLedgerProofs`**: all the properties of the run.
  `ReadableIsIntact` is not inductive by itself, a torn ledger says nothing of its lines;
  `Intact` says that the whole lines always form one chain, and that a file whose last line
  lacks its newline has one. `RewritingIsDetected` follows from it: a link is longer than the
  one before, so a line that follows what it did not follow does not verify; which is where
  the ideal digest is used. The yields rest on what the ceiling is (`CeilingIs`): the least
  charge that a quantile of the charges does not exceed. So it is monotone
  (`CeilingIsMonotone`), the winsorised bill is too (`BillIsMonotone`), and worse records score
  no better. One more charge below all the others never raises the ceiling, as the rank grows
  by at most one (`CeilingOfOneMore`), so a cheap solution adds at most its own charge to
  the bill, and that is at most what each solution is billed already. Of the
  quantile they need only that it is above 0 and at most 1; the assumption has the range
  `ScoringParams` accepts.
- **`AllocationProofs`**: type correctness (proved, and in no run), `NothingIsLost`,
  `TiesShareAlike`, `ShareIsWithheld`, `FieldKeepsTheRest`, `RankIsRespected`. The heart is `LargestRemainder`: rounding down
  loses fewer units than there are keys, the rests add up to those units times the
  denominator, so there are enough keys to hand them to, and the ones handed are exactly that
  many (the order by rest and name is total, and so the places in it are the numbers from 1).
  `IInv` adds to the properties which keys have a share (`KeysAreReceivers`), where the
  withheld part is before the vector is made (`ShareIsIn`) and what it leaves (`RestIsIn`);
  TLC checked it before. For the order of scores: every slot of a tie is worth more than every
  slot of a worse tie (`SlotsDecrease`), so are the means (`TieUnit` is a multiple of both
  sizes), and so a better score earns strictly more before anything is rounded
  (`BetterEarnsMore`). An apportionment never turns a larger share into a smaller weight
  (`LargerShareGetsNoLess`), and one of equal shares parts them by a unit at most
  (`CloseSharesStayClose`); an apportionment of the whole changes nothing (`WholeStays`).
  Where a share is withheld the allocated weights are diluted and rounded again, and equal
  ones may part in favour of the worse score, hence the unit of tolerance in
  `RankIsRespected`. Its last clause is about the vector and has none: who is `ClearlyAhead`
  before the share is withheld, by more than a unit of what is left, is never paid less. It
  rests on `MuchLargerShareGetsMore` and on `WeightsFollow`, which ties the weights of each
  stage to those allocated. Without that condition the clause is false: with as few parts as
  paid ranks distinct scores get equal weights, the next rounding hands units out by name, and a
  worse score may end one unit above a better one.
- **`Sums`** has the facts these two rest on: what a sum or a product of a function over a finite
  set is, unfolded one member at a time, is bounded by, and adds up to. The community modules
  define both by a fold that removes a chosen member; `FoldExists` shows that the recursive
  function behind it exists, by induction on the size of the set, as each of the facts.
- **`AdmissionProofs`**: type correctness, `EachPaymentEntersOne`, `AdmittedHasPaid` and
  `NobodyIsCrowdedOut`. `Entered` says that under a fee the keys spent are those of the
  admitted, each its own, and that each of these has paid; what is paid stays paid, as no
  mined block changes and a new one gets a hash of its own (`Fresh`). `FirstCome` adds the
  other direction for a discovery without a reorganisation: who owns its payment and had its
  turn was admitted, or somebody before it was by the same payment.
- **`MinerClientProofs`**: type correctness, `OwnAnswer`, `TakenInOrder`, `BehindByTimeouts`,
  `Blameless`. The invariant is about the pipe, the client's buffer followed by what is in the
  socket. `Ordered`: what was taken, what is in the pipe and what is still requested follow each
  other in the order of the calls, whatever was given up. `Lined`: where the buffer starts with
  a whole response (nothing given up, or still the first connection), the pipe and the requests
  are the calls from `Due` on without a gap, and `Due` lags by the calls given up. `Tidy`: who gave
  nothing up leaves nothing behind, so no write of the relay can fail, and what it is blamed for
  is a frame of its own that is too long, does not decode or faults.
- **`ArchiveProofs`**: type correctness, `ReadersSolve`, `MemoryDoesNotSolve` and
  `TwinsLookAlike`, for every outcome of the streams. Grading is one step, so the argument is
  about it: each way of looking finds the document of every fact (a name contains itself),
  and an answer states of a key what was read of it, or else the ordinary value.

**Only model-checked.** Liveness (`EpisodeEnds`, `VoteFollowsSettledRound`, `StopEnds`,
`UpdatesLand`, `CallReturns`, and the part of `RelaySession`'s `ImplementsContract` that says an
episode is decided): fairness is out of the prover's reach. Every invariant, every action
property and every refinement of the passing runs is proved in its safety part. The induction
over data that some of these proofs need (sums, least members) is done by hand, from a least
counterexample, as the provers cannot instantiate the library's induction theorems.

## 6. What is not modelled

- *Parsing and wording*: a reveal parses or not, a document is its facts; the text of a
  briefing is the entities and attributes it names. (No code sends the briefing; a
  submission is told the environment's name.)
- *The same extrinsic in two forks* has two keys, as its block's hash is part of the key.
- *Partial sends*: a frame within the limit is sent at once; a timeout inside `sendall` is
  left out.
- *Watchtower and docker*: that a failing hook defers the update is taken from the documents.
- *Cryptography*: signatures verify, digests do not collide.
- *Wire format*: a frame decodes or not, is oversized or not, carries banned fields or not.
- *Two validators over one state directory*: the documents rule it out; the lock's
  check-then-write race between processes is listed as a hazard.
- *A line whole but for its newline* is in `RoundLedger` and left out of `ValidatorDaemon`,
  where a torn append is always one that does not decode.
- *Functions without a caller* (`settled_yield`, `reference_multiple`, `mcnemar_counts`,
  `Ledger.history`), printing commands, preflight, heartbeats and logging.
- What documents describe and the code does not have: the rate limit per coldkey, paired
  reference runs, a provider other than the deterministic one.
