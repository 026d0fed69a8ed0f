---------------------------- MODULE RelaySession ----------------------------
(***************************************************************************)
(* One instance of one submission: the relay (relay/server.py), its meter, *)
(* the container the submission runs in, and run_episode                   *)
(* (episode/runner.py), which turns all of it into one record.             *)
(*                                                                         *)
(* Every connection to the relay's socket has a handler task of its own.   *)
(* The tasks share the session and the meter and run on one event loop, so *)
(* a step below is what one task does between two awaits.  The only await  *)
(* inside a request is the provider call of a completion, hence a request  *)
(* is one step, and a completion is two.                                   *)
(***************************************************************************)
EXTENDS Meter

CONSTANTS
  Conns,          \* connections the submission may open
  MaxCost,        \* largest cost of one call: bounds the inputs
  MaxFrames,      \* frames the submission sends: bounds the run
  DrainModes      \* subset of BOOLEAN, the values `drains` may take

ASSUME RelayAssumption ==
  /\ MaxCost \in Nat
  /\ MaxFrames \in Nat
  /\ DrainModes \subseteq BOOLEAN

Costs == 0 .. MaxCost
\* What environment.grade says of the answer, or the answer holds a lone surrogate,
\* which a frame may spell as an escape and transcript_digest cannot encode.
Answers == {"right", "wrong", "undigestible"}
ContainerOutcomes == {"completed", "timeout", "crashed", "start_failed"}
Violations == {"malformed", "oversized", "banned_field", "mid_frame", "fault"}
Outcomes == {"solved", "unsolved", "cap_exhausted", "timeout", "crashed",
             "protocol_violation", "environment_fault"}

VARIABLES
  state,       \* RelaySession.state
  answer,      \* RelaySession.answer, "none" before a submit
  violations,  \* RelaySession.violations, as a set of kinds
  meter,       \* RelaySession.meter
  conn,        \* per connection: where its handler task is
  peer,        \* per connection: the submission's end of the socket
  container,   \* "running", how it ended, or "host_failed": an exception of the host's
  phase,       \* run_episode: "serving", "stopping" (in server.stop), then it returned
               \* ("recorded") or raised ("raised")
  record,      \* the InstanceRecord, NoRecord before there is one
  drains,      \* whether Server.wait_closed waits for open connections
  frames,      \* frames read so far, for the bound
  served,      \* history: cost of the results written to the submission
  told         \* history: some response carried the code cap_exhausted

relay == <<state, answer, violations, meter>>
sockets == <<conn, peer>>
episode == <<container, phase, record, drains>>
vars == <<relay, sockets, episode, frames, served, told>>

NoRecord == [outcome |-> "none", spend |-> 0, answer |-> "none", crossed |-> FALSE]

TypeOK ==
  /\ state \in {"created", "ready", "submitted", "terminated"}
  /\ answer \in Answers \cup {"none"}
  /\ violations \subseteq Violations
  /\ meter \in MeterType
  /\ conn \in [Conns -> {"unused", "idle", "completing", "closed"}]
  /\ peer \in [Conns -> {"open", "unread", "closed", "reset"}]
  /\ container \in ContainerOutcomes \cup {"running", "host_failed"}
  /\ phase \in {"serving", "stopping", "recorded", "raised"}
  /\ record \in [outcome : Outcomes \cup {"none"}, spend : Nat,
                 answer : Answers \cup {"none"}, crossed : BOOLEAN]
  /\ drains \in BOOLEAN
  /\ frames \in 0 .. MaxFrames
  /\ served \in Nat
  /\ told \in BOOLEAN

Init ==
  /\ state = "created"
  /\ answer = "none"
  /\ violations = {}
  /\ meter = FreshMeter
  /\ conn = [c \in Conns |-> "unused"]
  /\ peer = [c \in Conns |-> "closed"]
  /\ container = "running"
  /\ phase = "serving"
  /\ record = NoRecord
  /\ drains \in DrainModes
  /\ frames = 0
  /\ served = 0
  /\ told = FALSE

-----------------------------------------------------------------------------
(* The sockets. *)

\* The submission still holds its end, so a response can be written to it.
Listening(c) == peer[c] \in {"open", "unread"}

Connect(c) ==
  /\ phase = "serving"
  /\ conn[c] = "unused"
  /\ conn' = [conn EXCEPT ![c] = "idle"]
  /\ peer' = [peer EXCEPT ![c] = "open"]
  /\ UNCHANGED <<relay, episode, frames, served, told>>

\* What the submission's end may be once its process closed it.  An end closed
\* with a response still unread resets the connection: the relay's next read
\* raises ConnectionResetError where a clean close reads end of file.
Gone(p) == CASE p = "open"   -> {"closed"}
             [] p = "unread" -> {"closed", "reset"}
             [] OTHER        -> {p}

Disconnect(c) ==
  /\ conn[c] \in {"idle", "completing"}
  /\ Listening(c)
  /\ \E p \in Gone(peer[c]) : peer' = [peer EXCEPT ![c] = p]
  /\ UNCHANGED <<relay, conn, episode, frames, served, told>>

\* The handler writes a response and reads on.  A write to an end that is gone
\* raises BrokenPipeError or ConnectionResetError and ends the handler.
Reply(c, blame) ==
  /\ conn' = [conn EXCEPT ![c] = IF Listening(c) THEN "idle" ELSE "closed"]
  /\ peer' = [peer EXCEPT ![c] = IF Listening(c) THEN "unread" ELSE @]
  /\ violations' = violations \cup blame \cup (IF Listening(c) THEN {} ELSE {"mid_frame"})

\* Any other exception in dispatch is recorded as a violation and ends the handler.
Fault(c, blame) ==
  /\ conn' = [conn EXCEPT ![c] = "closed"]
  /\ violations' = violations \cup blame \cup {"fault"}
  /\ UNCHANGED peer

EndsOnResetOnly(c) ==
  /\ conn[c] = "idle"
  /\ peer[c] = "reset"
  /\ conn' = [conn EXCEPT ![c] = "closed"]
  /\ violations' = violations \cup {"mid_frame"}
  /\ UNCHANGED <<state, answer, meter, peer, episode, frames, served, told>>

\* The handler reads end of file, or the reset.
HandlerEnds(c) ==
  /\ conn[c] = "idle"
  /\ ~Listening(c)
  /\ conn' = [conn EXCEPT ![c] = "closed"]
  /\ violations' = violations \cup (IF peer[c] = "reset" THEN {"mid_frame"} ELSE {})
  /\ UNCHANGED <<state, answer, meter, peer, episode, frames, served, told>>

-----------------------------------------------------------------------------
(* Requests.  A frame may still be read after the submission closed its end: *)
(* it was in the socket's buffer.                                            *)

Reads(c) ==
  /\ conn[c] = "idle"
  /\ frames < MaxFrames
  /\ frames' = frames + 1

\* A stripped field is noted before anything else looks at the request.
Blames == {{}, {"banned_field"}}

\* The refusal is written with every exception suppressed, and the handler reads on.
UndecodableFrame(c) ==
  /\ Reads(c)
  /\ violations' = violations \cup {"malformed"}
  /\ peer' = [peer EXCEPT ![c] = IF Listening(c) THEN "unread" ELSE @]
  /\ UNCHANGED <<state, answer, meter, conn, episode, served, told>>

\* readline raises: the handler refuses and returns, whatever the other end does.
OversizedFrame(c) ==
  /\ Reads(c)
  /\ conn' = [conn EXCEPT ![c] = "closed"]
  /\ violations' = violations \cup {"oversized"}
  /\ UNCHANGED <<state, answer, meter, peer, episode, served, told>>

\* initialise is answered in every state, and makes every state "ready".
Initialise(c, blame) ==
  /\ Reads(c)
  /\ state' = "ready"
  /\ Reply(c, blame)
  /\ UNCHANGED <<answer, meter, episode, served, told>>

SubmittedByState == state = "submitted"
Submitted == answer # "none"

\* The order of dispatch: not before initialise, not after an answer.
Serves == state # "created" /\ ~Submitted

\* An error response and nothing else: out of sequence, already submitted,
\* malformed parameters, an unpriced model, an action the environment refuses.
RefusedRequest(c, blame) ==
  /\ Reads(c)
  /\ Reply(c, blame)
  /\ UNCHANGED <<state, answer, meter, episode, served, told>>

\* An exception nothing catches.  Once the session serves: a max_tokens that is no
\* integer, or negative, or a text that does not encode.  In every state: a frame decode
\* lets other ValueErrors through for (not UTF-8, an integer of too many digits), before
\* any field is stripped.
FaultingRequest(c, blame) ==
  /\ Reads(c)
  /\ Serves \/ blame = {}
  /\ Fault(c, blame)
  /\ UNCHANGED <<state, answer, meter, episode, served, told>>

\* _exhaust: after a refused quote, or after a charge that reached the cap.
Exhaust(m) ==
  /\ state' = "terminated"
  /\ meter' = Seal(m)
  /\ told' = TRUE
  /\ UNCHANGED <<answer, served>>

UnaffordableCompletion(c, quote, blame) ==
  /\ Reads(c)
  /\ Serves
  /\ ~Affordable(meter, quote)
  /\ Exhaust(meter)
  /\ Reply(c, blame)
  /\ UNCHANGED episode

StartCompletion(c, quote, blame) ==
  /\ Reads(c)
  /\ Serves
  /\ Affordable(meter, quote)
  /\ conn' = [conn EXCEPT ![c] = "completing"]
  /\ violations' = violations \cup blame
  /\ UNCHANGED <<state, answer, meter, peer, episode, served, told>>

\* Or the provider's text cannot be counted, or its error message not encoded.
ProviderFails(c) ==
  /\ conn[c] = "completing"
  /\ Reply(c, {}) \/ Fault(c, {})
  /\ UNCHANGED <<state, answer, meter, episode, frames, served, told>>

\* A result is written only to an end that is still there.
Serve(c, cost) == served' = IF Listening(c) THEN served + cost ELSE served

\* The charge of a call and what follows from it.  Only SpendCapExceeded is caught
\* around it, so the MeteringError of a sealed meter is a fault.
ChargeAndReply(c, cost, output, blame) ==
  \/ /\ Refuses(meter)
     /\ Fault(c, blame)
     /\ UNCHANGED <<state, answer, meter, served, told>>
  \/ /\ ~Refuses(meter)
     /\ ReachesCap(meter, cost)
     /\ Exhaust(Charged(meter, cost, output))
     /\ Reply(c, blame)
  \/ /\ ~Refuses(meter)
     /\ ~ReachesCap(meter, cost)
     /\ meter' = Charged(meter, cost, output)
     /\ Serve(c, cost)
     /\ Reply(c, blame)
     /\ UNCHANGED <<state, answer, told>>
  \/ /\ ~Refuses(meter)                         \* charged, and encode raises
     /\ ~ReachesCap(meter, cost)
     /\ meter' = Charged(meter, cost, output)
     /\ Fault(c, blame)
     /\ UNCHANGED <<state, answer, served, told>>

\* The provider's answer, which finds the session and the meter as they are now.
\* Its cost is not bounded by the quote: the provider's own token counts are
\* billed when they are larger.
ProviderAnswers(c, cost, output) ==
  /\ conn[c] = "completing"
  /\ ChargeAndReply(c, cost, output, {})
  /\ UNCHANGED <<episode, frames>>

\* env.act: the environment acts first, the observation is charged after.
Act(c, cost, blame) ==
  /\ Reads(c)
  /\ Serves
  /\ ChargeAndReply(c, cost, FALSE, blame)
  /\ UNCHANGED episode

Submit(c, a, blame) ==
  /\ Reads(c)
  /\ Serves
  /\ answer' = a
  /\ state' = "submitted"
  /\ Reply(c, blame)
  /\ UNCHANGED <<meter, episode, served, told>>

-----------------------------------------------------------------------------
(* The runner and run_episode. *)

\* server.start raises, outside run_episode's try: nothing ran, nothing is sealed.
ServerFails ==
  /\ phase = "serving"
  /\ \A c \in Conns : conn[c] = "unused"
  /\ container' = "host_failed"
  /\ phase' = "raised"
  /\ UNCHANGED <<relay, sockets, record, drains, frames, served, told>>

\* runner.run returns, or raises for want of a container: the container is gone, and
\* with it its ends of the sockets.  One that did not start opened none.
ContainerEnds(o) ==
  /\ container = "running"
  /\ o \in {"start_failed", "host_failed"} => \A c \in Conns : conn[c] = "unused"
  /\ container' = o
  /\ phase' = "stopping"
  /\ peer' \in [Conns -> {"open", "unread", "closed", "reset"}]
  /\ \A c \in Conns : peer'[c] \in Gone(peer[c])
  /\ UNCHANGED <<relay, conn, record, drains, frames, served, told>>

ClassifyDeadlineFirst ==
  IF container = "start_failed" THEN "environment_fault"
  ELSE IF container = "timeout" THEN "timeout"
  ELSE IF violations # {} THEN "protocol_violation"
  ELSE IF meter.spent >= SpendCap THEN "cap_exhausted"
  ELSE IF container = "crashed" THEN "crashed"
  ELSE IF answer = "none" THEN "unsolved"
  ELSE IF ~meter.crossed THEN "protocol_violation"
  ELSE IF answer = "right" THEN "solved" ELSE "unsolved"

ClassifyByContainer == IF answer = "right" THEN "solved" ELSE container

\* _classify, in its order.
Classify ==
  IF container = "start_failed" THEN "environment_fault"
  ELSE IF violations # {} THEN "protocol_violation"
  ELSE IF container = "timeout" THEN "timeout"
  ELSE IF meter.spent >= SpendCap THEN "cap_exhausted"
  ELSE IF container = "crashed" THEN "crashed"
  ELSE IF answer = "none" THEN "unsolved"
  ELSE IF ~meter.crossed THEN "protocol_violation"
  ELSE IF answer = "right" THEN "solved" ELSE "unsolved"

\* server.stop returned.  Where wait_closed waits, every handler has ended first;
\* where it does not, handlers may still run after the record is made.
Stopped == drains => \A c \in Conns : conn[c] \in {"unused", "closed"}

RecordOf(m) == [outcome |-> Classify, spend |-> m.spent, answer |-> answer,
                crossed |-> m.crossed]

RecordWithoutSealing ==
  /\ phase = "stopping"
  /\ Stopped
  /\ container # "host_failed" /\ answer # "undigestible"
  /\ phase' = "recorded"
  /\ record' = RecordOf(meter)
  /\ UNCHANGED <<relay, sockets, container, drains, frames, served, told>>

\* Nothing raises on the way to the record: runner.run returned, and the digest of the
\* transcript can encode the answer.
Recordable == container # "host_failed" /\ answer # "undigestible"

\* The rest of run_episode has no await: seal the meter, grade, classify, record.
Record ==
  /\ phase = "stopping"
  /\ Stopped
  /\ Recordable
  /\ phase' = "recorded"
  /\ meter' = Seal(meter)
  /\ record' = RecordOf(meter)
  /\ UNCHANGED <<state, answer, violations, sockets, container, drains, frames,
                 served, told>>

\* run_episode seals the meter and then raises, with no record.
RecordRaises ==
  /\ phase = "stopping"
  /\ Stopped
  /\ ~Recordable
  /\ phase' = "raised"
  /\ meter' = Seal(meter)
  /\ UNCHANGED <<state, answer, violations, sockets, container, record, drains, frames,
                 served, told>>

\* server.stop raises where it unlinks the socket, before the meter is sealed.
StopFails ==
  /\ phase = "stopping"
  /\ Stopped
  /\ phase' = "raised"
  /\ container' = "host_failed"
  /\ UNCHANGED <<relay, sockets, record, drains, frames, served, told>>

-----------------------------------------------------------------------------
ProviderStep(c) ==
  \/ ProviderFails(c)
  \/ \E cost \in Costs, output \in BOOLEAN : ProviderAnswers(c, cost, output)

Request(c) ==
  \/ UndecodableFrame(c)
  \/ OversizedFrame(c)
  \/ \E blame \in Blames :
       \/ Initialise(c, blame)
       \/ RefusedRequest(c, blame)
       \/ FaultingRequest(c, blame)
       \/ \E quote \in Costs : UnaffordableCompletion(c, quote, blame)
       \/ \E quote \in Costs : StartCompletion(c, quote, blame)
       \/ \E cost \in Costs : Act(c, cost, blame)
       \/ \E a \in Answers : Submit(c, a, blame)

Next ==
  \/ \E c \in Conns :
       Connect(c) \/ Disconnect(c) \/ HandlerEnds(c) \/ Request(c) \/ ProviderStep(c)
  \/ \E o \in ContainerOutcomes \cup {"host_failed"} : ContainerEnds(o)
  \/ ServerFails
  \/ Record
  \/ RecordRaises
  \/ StopFails

\* The wall clock limit ends every container, by docker kill; a provider, which the relay awaits
\* without a timeout of its own, answers or fails; the event loop runs a handler
\* whose read is ready.  Nothing obliges the submission to send, read or close.
Fairness ==
  /\ WF_vars(\E o \in ContainerOutcomes \cup {"host_failed"} : ContainerEnds(o))
  /\ \A c \in Conns : WF_vars(ProviderStep(c)) /\ WF_vars(HandlerEnds(c))
  /\ WF_vars(Record \/ RecordRaises)

Spec == Init /\ [][Next]_vars
FairSpec == Spec /\ Fairness

-----------------------------------------------------------------------------
(* Safety. *)

\* Concurrent completions pass `affordable` against the same remainder, yet the
\* spend a record carries exceeds the cap by less than one call: the charge that
\* reaches the cap seals the meter, and every later one is refused
\* (meter.py _charge, against the await in server.py _completions).
SpendBounded ==
  /\ meter.spent >= SpendCap => meter.sealed
  /\ meter.spent < SpendCap + MaxCost

\* A submission receives nothing it was not charged for, and what it receives
\* costs less than the cap, however its calls interleave (server.py _completions
\* and _act write a result only after a charge that stayed below the cap).
ServedWithinCap ==
  /\ served <= meter.spent
  /\ served < SpendCap

\* A record stays true of its instance: nothing a handler still does after
\* run_episode has built the record is charged (runner.py seals the meter; on
\* interpreters where wait_closed returns at once a provider call may be out).
RecordIsFinal ==
  phase = "recorded" => record.spend = meter.spent /\ record.crossed = meter.crossed

\* An instance takes one answer, the first: a second submit, on this or another
\* connection, before or after another initialise, changes nothing
\* (server.py dispatch looks at the answer, not at the state).
AnswerOnce == [][answer # "none" => answer' = answer]_vars

\* Once sealed, by the cap, a refused quote or the end of the episode, a meter
\* never moves again (meter.py seal, _charge).
SealedForever == [][meter.sealed => meter' = meter]_vars

-----------------------------------------------------------------------------
(* Liveness. *)

\* Every instance comes to an end, whatever the submission does with its connections,
\* and ends without a record only where the host failed or the answer has no digest
\* (runner.py: deadline, server.stop, transcript_digest).
EpisodeEnds ==
  <>(\/ phase = "recorded"
     \/ phase = "raised" /\ (container = "host_failed" \/ answer = "undigestible"))

-----------------------------------------------------------------------------
(* Refinement. *)

Contract == INSTANCE EpisodeContract WITH
  spent      <- meter.spent,
  open       <- ~meter.sealed,
  inferred   <- meter.crossed,
  answer     <- IF phase = "recorded" THEN record.answer ELSE answer,
  blamed     <- violations # {},
  hostFailed <- container = "host_failed",
  verdict    <- IF phase = "raised" THEN "failed" ELSE record.outcome

\* The relay, its meter and run_episode implement the contract: an account that closes
\* for good at the cap, one answer, one verdict the account supports, the violations
\* first (_classify); and a verdict comes unless the host fails or the answer has no digest.
ImplementsContract == Contract!Spec

-----------------------------------------------------------------------------
(* What a document says and the code does not do. *)

\* docs/miner-contract.md, resource limits: "Relay refuses calls beyond it; instance
\* terminates as `cap_exhausted`".  A submission that was told cap_exhausted and did
\* nothing wrong is not recorded as solved.
CapRefusalIsTerminal ==
  phase = "recorded" /\ told => record.outcome # "solved"

=============================================================================
