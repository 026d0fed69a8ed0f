------------------------- MODULE RelaySessionProofs -------------------------
(***************************************************************************)
(* Theorems about RelaySession, for every number of connections, every cap *)
(* and every cost of a call.  The inductive invariant adds to the          *)
(* properties what they rest on: a record exists from the moment run_episode *)
(* leaves server.stop, and the meter is sealed by then.                    *)
(***************************************************************************)
EXTENDS RelaySession, TLAPS

\* Where run_episode is, by what it has produced so far.
EpisodeOrder ==
  /\ phase = "serving" <=> container = "running"
  /\ phase = "recorded" <=> record.outcome # "none"
  /\ phase # "recorded" => record = NoRecord
  /\ phase = "recorded" => meter.sealed

IInv == TypeOK /\ SpendBounded /\ ServedWithinCap /\ EpisodeOrder /\ RecordIsFinal

-----------------------------------------------------------------------------
(* The meter. *)

\* What _charge does to an open meter: the spend grows by the cost, one call is
\* added, and the meter is sealed exactly when the cap is reached.
LEMMA ChargedMeter ==
  ASSUME NEW m \in MeterType, ~m.sealed, NEW cost \in Nat, NEW output \in BOOLEAN
  PROVE  /\ Charged(m, cost, output) \in MeterType
         /\ Charged(m, cost, output).spent = m.spent + cost
         /\ Charged(m, cost, output).sealed <=> m.spent + cost >= SpendCap
         /\ Charged(m, cost, output).crossed <=> m.crossed \/ output
<1>1. Charged(m, cost, output) \in MeterType
  <2>1. SpendWith(m, cost) \in Nat /\ m.calls + 1 \in Nat
    BY DEF MeterType, SpendWith
  <2>2. (m.sealed \/ ReachesCap(m, cost)) \in BOOLEAN /\ (m.crossed \/ output) \in BOOLEAN
    OBVIOUS
  <2>3. QED
    BY <2>1, <2>2 DEF Charged, MeterType
<1>2. Charged(m, cost, output).spent = m.spent + cost
  BY DEF Charged, SpendWith
<1>3. Charged(m, cost, output).sealed <=> m.spent + cost >= SpendCap
  BY SpendCapAssumption DEF Charged, MeterType, SpendWith, ReachesCap
<1>4. Charged(m, cost, output).crossed <=> m.crossed \/ output
  BY DEF Charged, MeterType
<1>5. QED
  BY <1>1, <1>2, <1>3, <1>4

\* Sealing changes nothing but the seal.
LEMMA SealedMeter ==
  ASSUME NEW m \in MeterType
  PROVE  /\ Seal(m) \in MeterType
         /\ Seal(m).sealed
         /\ Seal(m).spent = m.spent
         /\ Seal(m).crossed = m.crossed
         /\ m.sealed => Seal(m) = m
BY DEF Seal, MeterType

\* An affordable quote leaves the spend within the cap, were it charged as quoted.
LEMMA AffordableQuote ==
  ASSUME NEW m \in MeterType, m.spent < SpendCap, NEW quote \in Nat, Affordable(m, quote)
  PROVE  m.spent + quote <= SpendCap
BY SpendCapAssumption DEF Affordable, Remaining, MeterType

-----------------------------------------------------------------------------
(* The handler's two endings of a request. *)

\* Reply keeps the types of what it writes.
LEMMA ReplyTypes ==
  ASSUME TypeOK, NEW c \in Conns, NEW blame \in SUBSET Violations, Reply(c, blame)
  PROVE  /\ conn' \in [Conns -> {"unused", "idle", "completing", "closed"}]
         /\ peer' \in [Conns -> {"open", "unread", "closed", "reset"}]
         /\ violations' \subseteq Violations
BY DEF TypeOK, Reply, Violations

\* So does Fault.
LEMMA FaultTypes ==
  ASSUME TypeOK, NEW c \in Conns, NEW blame \in SUBSET Violations, Fault(c, blame)
  PROVE  /\ conn' \in [Conns -> {"unused", "idle", "completing", "closed"}]
         /\ peer' \in [Conns -> {"open", "unread", "closed", "reset"}]
         /\ violations' \subseteq Violations
BY DEF TypeOK, Fault, Violations

\* What a request may be blamed for is a violation.
LEMMA BlamesAreViolations == Blames \subseteq SUBSET Violations
BY DEF Blames, Violations

\* A step that touches neither the meter, the episode nor what was served keeps
\* every part of the invariant but the types.
LEMMA QuietStep ==
  ASSUME IInv, TypeOK', UNCHANGED <<meter, container, phase, record, served>>
  PROVE  IInv'
BY DEF IInv, SpendBounded, ServedWithinCap, EpisodeOrder, RecordIsFinal

\* A step that ends run_episode with an exception, whether or not it seals the meter,
\* keeps every part of the invariant but the types.
LEMMA EndedStep ==
  ASSUME IInv, TypeOK', phase # "recorded", phase' = "raised", container' # "running",
         meter'.spent = meter.spent, meter' = meter \/ meter'.sealed,
         UNCHANGED <<record, served>>
  PROVE  IInv'
<1>1. SpendBounded'
  BY DEF IInv, SpendBounded
<1>2. ServedWithinCap'
  BY DEF IInv, ServedWithinCap
<1>3. EpisodeOrder' /\ RecordIsFinal'
  BY DEF IInv, EpisodeOrder, RecordIsFinal
<1>4. QED
  BY <1>1, <1>2, <1>3 DEF IInv

\* The charge of a call, and whatever follows from it, keeps the invariant.
LEMMA ChargeStep ==
  ASSUME IInv, NEW c \in Conns, NEW cost \in Costs, NEW output \in BOOLEAN,
         NEW blame \in SUBSET Violations,
         ChargeAndReply(c, cost, output, blame), frames' \in 0 .. MaxFrames,
         UNCHANGED episode
  PROVE  IInv'
<1> USE SpendCapAssumption, RelayAssumption
<1>0. TypeOK /\ meter \in MeterType /\ cost \in Nat /\ served \in Nat
  BY DEF IInv, TypeOK, Costs
<1>1. CASE Refuses(meter) /\ Fault(c, blame) /\ UNCHANGED <<state, answer, meter, served, told>>
  <2>1. TypeOK'
    BY <1>0, <1>1, FaultTypes DEF TypeOK, episode
  <2>2. QED
    BY <1>1, <2>1, QuietStep DEF episode
<1>2. CASE /\ ~Refuses(meter) /\ ReachesCap(meter, cost)
           /\ Exhaust(Charged(meter, cost, output)) /\ Reply(c, blame)
  <2> DEFINE charged == Charged(meter, cost, output)
  <2>1. /\ ~meter.sealed
        /\ charged \in MeterType
        /\ charged.spent = meter.spent + cost
    BY <1>0, <1>2, ChargedMeter DEF Refuses
  <2>2. /\ meter' \in MeterType
        /\ meter'.sealed
        /\ meter'.spent = meter.spent + cost
    BY <1>2, <2>1, SealedMeter DEF Exhaust
  <2>3. TypeOK'
    BY <1>0, <1>2, <2>2, ReplyTypes DEF TypeOK, episode, Exhaust
  <2>4. meter.spent < SpendCap /\ meter.spent \in Nat
    BY <1>0, <2>1 DEF IInv, SpendBounded, MeterType
  <2>5. SpendBounded'
    BY <2>2, <2>4 DEF SpendBounded, Costs
  <2>6. ServedWithinCap'
    BY <1>0, <1>2, <2>2, <2>4 DEF ServedWithinCap, Exhaust, IInv
  <2>7. EpisodeOrder'
    BY <2>1, <2>2 DEF EpisodeOrder, episode, IInv
  <2>8. RecordIsFinal'
    BY <2>1 DEF EpisodeOrder, RecordIsFinal, episode, IInv
  <2>9. QED
    BY <2>3, <2>5, <2>6, <2>7, <2>8 DEF IInv
<1>3. CASE /\ ~Refuses(meter) /\ ~ReachesCap(meter, cost)
           /\ meter' = Charged(meter, cost, output) /\ Serve(c, cost)
           /\ Reply(c, blame) /\ UNCHANGED <<state, answer, told>>
  <2>1. /\ ~meter.sealed
        /\ meter' \in MeterType
        /\ meter'.spent = meter.spent + cost
        /\ meter.spent \in Nat
    BY <1>0, <1>3, ChargedMeter DEF Refuses, MeterType
  <2>2. meter'.spent < SpendCap
    BY <1>0, <1>3, <2>1 DEF ReachesCap, SpendWith
  <2>3. served' \in Nat /\ served' <= meter'.spent
    BY <1>0, <1>3, <2>1 DEF Serve, ServedWithinCap, IInv
  <2>4. TypeOK'
    BY <1>0, <1>3, <2>1, <2>3, ReplyTypes DEF TypeOK, episode
  <2>5. SpendBounded'
    BY <2>1, <2>2 DEF SpendBounded, MeterType
  <2>6. ServedWithinCap'
    BY <2>1, <2>2, <2>3 DEF ServedWithinCap, MeterType
  <2>7. EpisodeOrder' /\ RecordIsFinal'
    BY <2>1 DEF EpisodeOrder, RecordIsFinal, episode, IInv
  <2>8. QED
    BY <2>4, <2>5, <2>6, <2>7 DEF IInv
<1>4. CASE /\ ~Refuses(meter) /\ ~ReachesCap(meter, cost)
           /\ meter' = Charged(meter, cost, output)
           /\ Fault(c, blame) /\ UNCHANGED <<state, answer, served, told>>
  <2>1. /\ ~meter.sealed
        /\ meter' \in MeterType
        /\ meter'.spent = meter.spent + cost
        /\ meter.spent \in Nat
    BY <1>0, <1>4, ChargedMeter DEF Refuses, MeterType
  <2>2. meter'.spent < SpendCap
    BY <1>0, <1>4, <2>1 DEF ReachesCap, SpendWith
  <2>3. served' = served /\ served' <= meter'.spent
    BY <1>0, <1>4, <2>1 DEF ServedWithinCap, IInv
  <2>4. TypeOK'
    BY <1>0, <1>4, <2>1, <2>3, FaultTypes DEF TypeOK, episode
  <2>5. SpendBounded'
    BY <2>1, <2>2 DEF SpendBounded, MeterType
  <2>6. ServedWithinCap'
    BY <2>1, <2>2, <2>3 DEF ServedWithinCap, MeterType, IInv
  <2>7. EpisodeOrder' /\ RecordIsFinal'
    BY <2>1 DEF EpisodeOrder, RecordIsFinal, episode, IInv
  <2>8. QED
    BY <2>4, <2>5, <2>6, <2>7 DEF IInv
<1>5. QED
  BY <1>1, <1>2, <1>3, <1>4 DEF ChargeAndReply

\* A refused quote keeps the invariant: nothing is charged, the meter is sealed.
LEMMA UnaffordableStep ==
  ASSUME IInv, NEW c \in Conns, NEW quote \in Costs, NEW blame \in SUBSET Violations,
         UnaffordableCompletion(c, quote, blame)
  PROVE  IInv'
<1>1. /\ TypeOK
      /\ meter' \in MeterType
      /\ meter'.sealed
      /\ meter'.spent = meter.spent
      /\ meter'.crossed = meter.crossed
      /\ UNCHANGED <<episode, served>>
  BY SealedMeter DEF IInv, TypeOK, UnaffordableCompletion, Exhaust
<1>2. TypeOK'
  BY <1>1, ReplyTypes, RelayAssumption DEF TypeOK, UnaffordableCompletion, Exhaust, Reads, episode
<1>3. QED
  BY <1>1, <1>2 DEF IInv, SpendBounded, ServedWithinCap, EpisodeOrder, RecordIsFinal, episode

\* Every request keeps the invariant.
LEMMA RequestStep ==
  ASSUME IInv, NEW c \in Conns, Request(c)
  PROVE  IInv'
<1>0. TypeOK /\ frames' \in 0 .. MaxFrames
  <2>1. TypeOK /\ MaxFrames \in Nat
    BY RelayAssumption DEF IInv
  <2>2. Reads(c)
    BY DEF Request, UndecodableFrame, OversizedFrame, Initialise, RefusedRequest,
           FaultingRequest, UnaffordableCompletion, StartCompletion, Act, Submit
  <2>3. QED
    BY <2>1, <2>2 DEF TypeOK, Reads
<1>1. CASE UndecodableFrame(c)
  <2>1. TypeOK'
    BY <1>0, <1>1 DEF TypeOK, UndecodableFrame, Violations, episode
  <2>2. QED
    BY <1>1, <2>1, QuietStep DEF UndecodableFrame, episode
<1>2. CASE OversizedFrame(c)
  <2>1. TypeOK'
    BY <1>0, <1>2 DEF TypeOK, OversizedFrame, Violations, episode
  <2>2. QED
    BY <1>2, <2>1, QuietStep DEF OversizedFrame, episode
<1>3. ASSUME NEW blame \in Blames, Initialise(c, blame) PROVE IInv'
  <2>1. TypeOK'
    BY <1>0, <1>3, BlamesAreViolations, ReplyTypes DEF TypeOK, Initialise, episode
  <2>2. QED
    BY <1>3, <2>1, QuietStep DEF Initialise, episode
<1>4. ASSUME NEW blame \in Blames, RefusedRequest(c, blame) PROVE IInv'
  <2>1. TypeOK'
    BY <1>0, <1>4, BlamesAreViolations, ReplyTypes DEF TypeOK, RefusedRequest, episode
  <2>2. QED
    BY <1>4, <2>1, QuietStep DEF RefusedRequest, episode
<1>5. ASSUME NEW blame \in Blames, FaultingRequest(c, blame) PROVE IInv'
  <2>1. TypeOK'
    BY <1>0, <1>5, BlamesAreViolations, FaultTypes DEF TypeOK, FaultingRequest, episode
  <2>2. QED
    BY <1>5, <2>1, QuietStep DEF FaultingRequest, episode
<1>6. ASSUME NEW blame \in Blames, NEW quote \in Costs, UnaffordableCompletion(c, quote, blame)
      PROVE  IInv'
  BY <1>6, BlamesAreViolations, UnaffordableStep
<1>7. ASSUME NEW blame \in Blames, NEW quote \in Costs, StartCompletion(c, quote, blame)
      PROVE  IInv'
  <2>1. TypeOK'
    BY <1>0, <1>7, BlamesAreViolations DEF TypeOK, StartCompletion, episode
  <2>2. QED
    BY <1>7, <2>1, QuietStep DEF StartCompletion, episode
<1>8. ASSUME NEW blame \in Blames, NEW cost \in Costs, Act(c, cost, blame)
      PROVE  IInv'
  BY <1>0, <1>8, BlamesAreViolations, ChargeStep DEF Act
<1>9. ASSUME NEW blame \in Blames, NEW a \in Answers, Submit(c, a, blame)
      PROVE  IInv'
  <2>1. TypeOK'
    BY <1>0, <1>9, BlamesAreViolations, ReplyTypes DEF TypeOK, Submit, episode
  <2>2. QED
    BY <1>9, <2>1, QuietStep DEF Submit, episode
<1>10. QED
  BY <1>1, <1>2, <1>3, <1>4, <1>5, <1>6, <1>7, <1>8, <1>9 DEF Request

-----------------------------------------------------------------------------
(* The invariant. *)

LEMMA InvariantHoldsAtFirst == Init => IInv
<1> SUFFICES ASSUME Init PROVE IInv
  OBVIOUS
<1>1. FreshMeter \in MeterType
  BY DEF FreshMeter, MeterType
<1>2. NoRecord \in [outcome : Outcomes \cup {"none"}, spend : Nat,
                    answer : Answers \cup {"none"}, crossed : BOOLEAN]
  BY DEF NoRecord
<1>3. TypeOK
  <2>1. /\ conn \in [Conns -> {"unused", "idle", "completing", "closed"}]
        /\ peer \in [Conns -> {"open", "unread", "closed", "reset"}]
    BY DEF Init
  <2>2. drains \in BOOLEAN
    BY RelayAssumption, Zenon DEF Init
  <2>3. frames \in 0 .. MaxFrames
    BY RelayAssumption DEF Init
  <2>4. QED
    BY <1>1, <1>2, <2>1, <2>2, <2>3 DEF Init, TypeOK
<1>4. SpendBounded /\ ServedWithinCap
  BY SpendCapAssumption, RelayAssumption DEF Init, SpendBounded, ServedWithinCap, FreshMeter
<1>5. EpisodeOrder /\ RecordIsFinal
  BY DEF Init, EpisodeOrder, RecordIsFinal, NoRecord
<1>6. QED
  BY <1>3, <1>4, <1>5 DEF IInv

LEMMA InvariantIsInductive == IInv /\ [Next]_vars => IInv'
<1> SUFFICES ASSUME IInv, [Next]_vars PROVE IInv'
  OBVIOUS
<1>0. TypeOK
  BY DEF IInv
<1>1. ASSUME NEW c \in Conns, Connect(c) PROVE IInv'
  <2>1. TypeOK'
    BY <1>0, <1>1 DEF TypeOK, Connect, relay, episode
  <2>2. QED
    BY <1>1, <2>1, QuietStep DEF Connect, relay, episode
<1>2. ASSUME NEW c \in Conns, Disconnect(c) PROVE IInv'
  <2>1. TypeOK'
    BY <1>0, <1>2 DEF TypeOK, Disconnect, Listening, Gone, relay, episode
  <2>2. QED
    BY <1>2, <2>1, QuietStep DEF Disconnect, relay, episode
<1>3. ASSUME NEW c \in Conns, HandlerEnds(c) PROVE IInv'
  <2>1. TypeOK'
    BY <1>0, <1>3 DEF TypeOK, HandlerEnds, Violations, episode
  <2>2. QED
    BY <1>3, <2>1, QuietStep DEF HandlerEnds, episode
<1>4. ASSUME NEW c \in Conns, Request(c) PROVE IInv'
  BY <1>4, RequestStep
<1>5. ASSUME NEW c \in Conns, ProviderStep(c) PROVE IInv'
  <2>0. {} \in SUBSET Violations
    OBVIOUS
  <2>1. CASE ProviderFails(c)
    <3>1. TypeOK'
      BY <1>0, <2>0, <2>1, ReplyTypes, FaultTypes DEF TypeOK, ProviderFails, episode
    <3>2. QED
      BY <2>1, <3>1, QuietStep DEF ProviderFails, episode
  <2>2. ASSUME NEW cost \in Costs, NEW output \in BOOLEAN, ProviderAnswers(c, cost, output)
        PROVE  IInv'
    <3>1. frames' \in 0 .. MaxFrames
      BY <1>0, <2>2 DEF TypeOK, ProviderAnswers
    <3>2. QED
      BY <2>0, <2>2, <3>1, ChargeStep DEF ProviderAnswers
  <2>3. QED
    BY <1>5, <2>1, <2>2 DEF ProviderStep
<1>6. ASSUME NEW o \in ContainerOutcomes \cup {"host_failed"}, ContainerEnds(o) PROVE IInv'
  <2>1. TypeOK' /\ UNCHANGED <<meter, record, served>> /\ container = "running"
        /\ container' = o /\ phase' = "stopping"
    BY <1>0, <1>6 DEF TypeOK, ContainerEnds, relay
  <2>2. o # "running" /\ phase = "serving" /\ record = NoRecord
    BY <1>6, <2>1 DEF ContainerOutcomes, IInv, EpisodeOrder
  <2>3. QED
    BY <2>1, <2>2 DEF IInv, SpendBounded, ServedWithinCap, EpisodeOrder, RecordIsFinal, NoRecord
<1>7. CASE Record
  <2>1. /\ meter' \in MeterType
        /\ meter'.sealed
        /\ meter'.spent = meter.spent
        /\ meter'.crossed = meter.crossed
        /\ UNCHANGED <<container, served>>
        /\ phase = "stopping" /\ phase' = "recorded"
    BY <1>0, <1>7, SealedMeter DEF Record, TypeOK
  <2>2. Classify \in Outcomes
    BY DEF Classify, Outcomes
  <2>3. record' = [outcome |-> Classify, spend |-> meter.spent, answer |-> answer,
                   crossed |-> meter.crossed]
    BY <1>7 DEF Record, RecordOf
  <2>4. meter.spent \in Nat /\ meter.crossed \in BOOLEAN /\ answer \in Answers \cup {"none"}
    BY <1>0 DEF TypeOK, MeterType
  <2>5. record' \in [outcome : Outcomes \cup {"none"}, spend : Nat,
                     answer : Answers \cup {"none"}, crossed : BOOLEAN]
    BY <2>2, <2>3, <2>4
  <2>6. TypeOK'
    BY <1>0, <1>7, <2>1, <2>5 DEF TypeOK, Record, sockets
  <2>7. EpisodeOrder'
    BY <2>1, <2>2, <2>3 DEF IInv, EpisodeOrder, Outcomes
  <2>8. RecordIsFinal'
    BY <2>1, <2>3 DEF RecordIsFinal
  <2>9. QED
    BY <2>1, <2>6, <2>7, <2>8 DEF IInv, SpendBounded, ServedWithinCap
<1>8. CASE RecordRaises
  <2>1. /\ meter' \in MeterType
        /\ meter'.spent = meter.spent
        /\ meter'.sealed
        /\ UNCHANGED <<container, record, served>>
        /\ phase = "stopping" /\ phase' = "raised"
    BY <1>0, <1>8, SealedMeter DEF RecordRaises, TypeOK
  <2>2. TypeOK'
    BY <1>0, <1>8, <2>1 DEF TypeOK, RecordRaises, sockets
  <2>3. container' # "running"
    BY <2>1 DEF IInv, EpisodeOrder
  <2>4. QED
    BY <2>1, <2>2, <2>3, EndedStep
<1>9. CASE StopFails
  <2>1. TypeOK'
    BY <1>0, <1>9 DEF TypeOK, StopFails, relay, sockets
  <2>2. QED
    BY <1>9, <2>1, EndedStep DEF StopFails, relay
<1>10. CASE ServerFails
  <2>1. TypeOK'
    BY <1>0, <1>10 DEF TypeOK, ServerFails, relay, sockets
  <2>2. QED
    BY <1>10, <2>1, EndedStep DEF ServerFails, relay
<1>11. CASE UNCHANGED vars
  <2>1. TypeOK'
    BY <1>0, <1>11 DEF TypeOK, vars, relay, sockets, episode
  <2>2. QED
    BY <1>11, <2>1, QuietStep DEF vars, relay, episode
<1>12. QED
  BY <1>1, <1>2, <1>3, <1>4, <1>5, <1>6, <1>7, <1>8, <1>9, <1>10, <1>11 DEF Next

\* The invariant, at every moment of every behaviour.
THEOREM InvariantAlwaysHolds == Spec => []IInv
BY InvariantHoldsAtFirst, InvariantIsInductive, PTL DEF Spec

\* Every variable keeps its type, whatever the submission sends and whenever its
\* container and its provider calls end.
THEOREM TypeCorrectness == Spec => []TypeOK
<1>1. IInv => TypeOK
  BY DEF IInv
<1>2. QED
  BY <1>1, InvariantAlwaysHolds, PTL

\* However many completions are in flight together, the spend a record carries
\* exceeds the cap by less than the cost of one call (meter.py _charge).
THEOREM SpendIsBounded == Spec => []SpendBounded
<1>1. IInv => SpendBounded
  BY DEF IInv
<1>2. QED
  BY <1>1, InvariantAlwaysHolds, PTL

\* Results worth the whole cap are never handed out, and none for free
\* (server.py _completions, _act).
THEOREM ServiceIsWithinCap == Spec => []ServedWithinCap
<1>1. IInv => ServedWithinCap
  BY DEF IInv
<1>2. QED
  BY <1>1, InvariantAlwaysHolds, PTL

\* No handler task that outlives run_episode makes its record untrue.
THEOREM RecordsAreFinal == Spec => []RecordIsFinal
<1>1. IInv => RecordIsFinal
  BY DEF IInv
<1>2. QED
  BY <1>1, InvariantAlwaysHolds, PTL

-----------------------------------------------------------------------------
(* Action properties. *)

\* The meter changes only by a charge, which an open meter takes, or by sealing.
LEMMA MeterSteps ==
  ASSUME IInv, [Next]_vars, meter.sealed
  PROVE  meter' = meter
<1>0. meter \in MeterType
  BY DEF IInv, TypeOK
<1>1. Seal(meter) = meter
  BY <1>0, SealedMeter
<1>2. ASSUME NEW c \in Conns, NEW cost \in Costs, NEW output \in BOOLEAN, NEW blame,
             ChargeAndReply(c, cost, output, blame)
      PROVE  meter' = meter
  BY <1>2 DEF ChargeAndReply, Refuses
<1>3. ASSUME NEW c \in Conns, Request(c) PROVE meter' = meter
  <2>1. ASSUME NEW blame, NEW quote \in Costs, UnaffordableCompletion(c, quote, blame)
        PROVE  meter' = meter
    BY <1>1, <2>1 DEF UnaffordableCompletion, Exhaust
  <2>2. ASSUME NEW blame, NEW cost \in Costs, Act(c, cost, blame)
        PROVE  meter' = meter
    BY <1>2, <2>2 DEF Act
  <2>3. QED
    BY <1>3, <2>1, <2>2 DEF Request, UndecodableFrame, OversizedFrame, Initialise,
       RefusedRequest, FaultingRequest, StartCompletion, Submit
<1>4. ASSUME NEW c \in Conns, ProviderStep(c) PROVE meter' = meter
  BY <1>2, <1>4 DEF ProviderStep, ProviderFails, ProviderAnswers
<1>5. CASE Record \/ RecordRaises
  BY <1>1, <1>5 DEF Record, RecordRaises
<1>6. QED
  BY <1>3, <1>4, <1>5 DEF Next, Connect, Disconnect, HandlerEnds, ContainerEnds, ServerFails,
     StopFails, vars, relay

\* A sealed meter never moves again: not by a late provider answer, not by another
\* connection's call, not by another initialise.
THEOREM SealIsForever == Spec => SealedForever
<1>1. IInv /\ [Next]_vars => [meter.sealed => meter' = meter]_vars
  BY MeterSteps
<1>2. QED
  BY <1>1, InvariantAlwaysHolds, PTL DEF Spec, SealedForever

\* The first answer stays the answer.
LEMMA AnswerSteps ==
  ASSUME [Next]_vars, answer # "none"
  PROVE  answer' = answer
<1>1. ASSUME NEW c \in Conns, Request(c) PROVE answer' = answer
  <2>1. ASSUME NEW blame, NEW a \in Answers, Submit(c, a, blame) PROVE FALSE
    BY <2>1 DEF Submit, Serves, Submitted
  <2>2. QED
    BY <1>1, <2>1 DEF Request, UndecodableFrame, OversizedFrame, Initialise,
       RefusedRequest, FaultingRequest, StartCompletion, UnaffordableCompletion,
       Exhaust, Act, ChargeAndReply
<1>2. ASSUME NEW c \in Conns, ProviderStep(c) PROVE answer' = answer
  BY <1>2 DEF ProviderStep, ProviderFails, ProviderAnswers, ChargeAndReply, Exhaust
<1>3. QED
  BY <1>1, <1>2 DEF Next, Connect, Disconnect, HandlerEnds, ContainerEnds, ServerFails,
     Record, RecordRaises, StopFails, vars, relay

\* An instance takes one answer, across connections and repeated initialises.
THEOREM OneAnswer == Spec => AnswerOnce
<1>1. [Next]_vars => [answer # "none" => answer' = answer]_vars
  BY AnswerSteps
<1>2. QED
  BY <1>1, PTL DEF Spec, AnswerOnce

-----------------------------------------------------------------------------
(* The contract. *)

\* Nothing the submission did wrong is forgotten: every step keeps the violations.
LEMMA ViolationsGrow ==
  ASSUME [Next]_vars
  PROVE  violations \subseteq violations'
<1>1. ASSUME NEW c \in Conns, Request(c) PROVE violations \subseteq violations'
  BY <1>1 DEF Request, UndecodableFrame, OversizedFrame, Initialise, RefusedRequest,
     FaultingRequest, UnaffordableCompletion, StartCompletion, Act, ChargeAndReply, Submit,
     Reply, Fault
<1>2. ASSUME NEW c \in Conns, ProviderStep(c) PROVE violations \subseteq violations'
  BY <1>2 DEF ProviderStep, ProviderFails, ProviderAnswers, ChargeAndReply, Reply, Fault
<1>3. QED
  BY <1>1, <1>2 DEF Next, Connect, Disconnect, HandlerEnds, ContainerEnds, ServerFails,
     Record, RecordRaises, StopFails, vars, relay

\* A step that leaves everything else of the contract alone may add to the blame.
LEMMA OnlyBlame ==
  ASSUME UNCHANGED <<meter, answer, container, phase, record>>,
         violations \subseteq violations'
  PROVE  Contract!Blame
BY DEF Contract!Blame, Contract!MayBlame

\* A charge is the contract's Charge, whether or not it reaches the cap.
LEMMA ChargeImplementsCharge ==
  ASSUME IInv, NEW c \in Conns, NEW cost \in Costs, NEW output \in BOOLEAN, NEW blame,
         ChargeAndReply(c, cost, output, blame), UNCHANGED episode,
         violations \subseteq violations'
  PROVE  Contract!Next
<1>0. meter \in MeterType /\ cost \in Nat /\ meter.sealed \in BOOLEAN /\ meter.crossed \in BOOLEAN
  BY RelayAssumption DEF IInv, TypeOK, Costs, MeterType
<1>1. CASE Refuses(meter)
  BY <1>1, OnlyBlame DEF ChargeAndReply, episode, Contract!Next
<1>2. CASE ~Refuses(meter)
  <2>1. /\ ~meter.sealed
        /\ meter'.spent = meter.spent + cost
        /\ meter'.sealed <=> meter.spent + cost >= SpendCap
        /\ meter'.crossed <=> meter.crossed \/ output
        /\ meter' \in MeterType
        /\ UNCHANGED <<answer, container, phase, record>>
    <3>1. ~meter.sealed /\ Charged(meter, cost, output) \in MeterType
      BY <1>0, <1>2, ChargedMeter DEF Refuses
    <3>2. CASE ReachesCap(meter, cost)
      <4>1. meter' = Seal(Charged(meter, cost, output)) /\ UNCHANGED <<answer, container, phase, record>>
        BY <1>2, <3>2 DEF ChargeAndReply, Exhaust, episode
      <4>2. QED
        BY <1>0, <3>1, <3>2, <4>1, ChargedMeter, SealedMeter DEF ReachesCap, SpendWith
    <3>3. CASE ~ReachesCap(meter, cost)
      <4>1. meter' = Charged(meter, cost, output) /\ UNCHANGED <<answer, container, phase, record>>
        BY <1>2, <3>3 DEF ChargeAndReply, episode
      <4>2. QED
        BY <1>0, <3>1, <4>1, ChargedMeter
    <3>4. QED
      BY <3>2, <3>3
  <2>2. meter.spent \in Nat /\ SpendCap \in Nat
    BY <1>0, SpendCapAssumption DEF MeterType
  <2>3. (~meter'.sealed) = (meter.spent + cost < SpendCap)
    BY <1>0, <2>1, <2>2
  <2>4. meter'.crossed \in {meter.crossed, TRUE}
    BY <1>0, <2>1 DEF MeterType
  <2>5. Contract!Charge(cost)
    BY <2>1, <2>3, <2>4 DEF Contract!Charge, Contract!MayBlame
  <2>6. QED
    BY <2>5 DEF Contract!Next, Costs
<1>3. QED
  BY <1>1, <1>2

\* Every request is a charge, an answer, the closing of the account, or more blame.
LEMMA RequestImplementsContract ==
  ASSUME IInv, NEW c \in Conns, Request(c), violations \subseteq violations'
  PROVE  Contract!Next
<1>1. ASSUME NEW blame, NEW quote \in Costs, UnaffordableCompletion(c, quote, blame)
      PROVE  Contract!Next
  <2>1. /\ meter'.sealed
        /\ meter'.spent = meter.spent
        /\ meter'.crossed = meter.crossed
        /\ UNCHANGED <<answer, container, phase, record>>
    BY <1>1, SealedMeter DEF UnaffordableCompletion, Exhaust, episode, IInv, TypeOK
  <2>2. Contract!Close
    BY <2>1 DEF Contract!Close, Contract!MayBlame
  <2>3. QED
    BY <2>2 DEF Contract!Next
<1>2. ASSUME NEW blame, NEW cost \in Costs, Act(c, cost, blame)
      PROVE  Contract!Next
  BY <1>2, ChargeImplementsCharge DEF Act
<1>3. ASSUME NEW blame, NEW a \in Answers, Submit(c, a, blame)
      PROVE  Contract!Next
  <2>1. answer = "none" /\ answer' = a /\ UNCHANGED <<meter, container, phase, record>>
    BY <1>3 DEF Submit, Serves, Submitted, episode
  <2>2. CASE phase = "recorded"
    <3>1. Contract!Blame
      BY <2>1, <2>2 DEF Contract!Blame, Contract!MayBlame
    <3>2. QED
      BY <3>1 DEF Contract!Next
  <2>3. CASE phase # "recorded"
    <3>1. record.outcome = "none"
      BY <2>3 DEF IInv, EpisodeOrder
    <3>2. Contract!Answer(a)
      BY <2>1, <2>3, <3>1 DEF Contract!Answer, Contract!MayBlame
    <3>3. QED
      BY <3>2 DEF Contract!Next, Contract!Answers, Answers
  <2>4. QED
    BY <2>2, <2>3
<1>4. CASE UNCHANGED <<meter, answer, container, phase, record>>
  BY <1>4, OnlyBlame DEF Contract!Next
<1>5. QED
  BY <1>1, <1>2, <1>3, <1>4 DEF Request, UndecodableFrame, OversizedFrame, Initialise,
     RefusedRequest, FaultingRequest, StartCompletion, episode

\* Building the record is the contract's verdict, and the account supports it.
LEMMA RecordImplementsSettle ==
  ASSUME IInv, Record
  PROVE  Contract!Next
<1>0. meter \in MeterType /\ meter.spent \in Nat /\ SpendCap \in Nat
  BY SpendCapAssumption DEF IInv, TypeOK, MeterType
<1>1. /\ record.outcome = "none"
      /\ record'.outcome = Classify
      /\ record'.answer = answer
      /\ phase = "stopping" /\ phase' = "recorded"
      /\ container # "host_failed" /\ answer # "undigestible"
      /\ UNCHANGED <<container, violations>>
  BY DEF Record, RecordOf, Recordable, IInv, EpisodeOrder
<1>2. meter'.sealed /\ meter'.spent = meter.spent /\ meter'.crossed = meter.crossed
  BY <1>0, SealedMeter DEF Record
<1>3. Classify \in Outcomes
  BY DEF Classify, Outcomes
<1>4. Classify = "solved" => answer = "right" /\ meter.crossed /\ meter.spent < SpendCap
  BY <1>0 DEF Classify
<1>5. Classify = "cap_exhausted" => meter.spent >= SpendCap
  BY DEF Classify
<1>6. violations # {} => Classify \in {"protocol_violation", "environment_fault"}
  BY DEF Classify
<1>7. Classify = "protocol_violation" => violations # {} \/ (answer # "none" /\ ~meter.crossed)
  BY DEF Classify
<1>8. Contract!Settle(Classify)
  BY <1>1, <1>2, <1>4, <1>5, <1>6, <1>7 DEF Contract!Settle
<1>9. QED
  BY <1>3, <1>8 DEF Contract!Next, Contract!Outcomes, Outcomes

\* Raising for want of a digest, or of what the host owed, is the contract's Fail.
LEMMA RaisingImplementsFail ==
  ASSUME IInv, RecordRaises
  PROVE  Contract!Next
<1>1. /\ record.outcome = "none"
      /\ phase = "stopping" /\ phase' = "raised"
      /\ container = "host_failed" \/ answer = "undigestible"
      /\ UNCHANGED <<container, violations, answer, record>>
  BY DEF RecordRaises, Recordable, IInv, EpisodeOrder
<1>2. meter'.sealed /\ meter'.spent = meter.spent /\ meter'.crossed = meter.crossed
  BY SealedMeter DEF RecordRaises, IInv, TypeOK
<1>3. Contract!Fail
  BY <1>1, <1>2 DEF Contract!Fail
<1>4. QED
  BY <1>3 DEF Contract!Next

\* A failure of the host, before, during or after the container, is the contract's.
LEMMA HostFailureImplementsHostFails ==
  ASSUME IInv, ServerFails \/ StopFails \/ ContainerEnds("host_failed")
  PROVE  Contract!Next
<1>1. /\ record.outcome = "none"
      /\ phase \in {"serving", "stopping"} /\ phase' \in {"stopping", "raised"}
      /\ container' = "host_failed"
      /\ UNCHANGED <<meter, answer, violations, record>>
  BY DEF ServerFails, StopFails, ContainerEnds, relay, IInv, EpisodeOrder
<1>2. Contract!HostFails
  BY <1>1 DEF Contract!HostFails
<1>3. QED
  BY <1>2 DEF Contract!Next

\* The relay, its meter and run_episode implement the safety part of the contract:
\* an account that closes for good at the cap, one answer, one supported verdict, and
\* no verdict lost but to the host or to an answer without a digest.
THEOREM RelayImplementsContract == Spec => Contract!Safe
<1>1. Init => Contract!Init
  BY DEF Init, Contract!Init, FreshMeter, NoRecord
<1>2. IInv /\ [Next]_vars => [Contract!Next]_(Contract!vars)
  <2> SUFFICES ASSUME IInv, [Next]_vars
               PROVE  Contract!Next \/ UNCHANGED Contract!vars
    OBVIOUS
  <2>0. violations \subseteq violations'
    BY ViolationsGrow
  <2>1. ASSUME NEW c \in Conns, Request(c) PROVE Contract!Next
    BY <2>0, <2>1, RequestImplementsContract
  <2>2. ASSUME NEW c \in Conns, ProviderStep(c) PROVE Contract!Next
    <3>1. CASE ProviderFails(c)
      BY <2>0, <3>1, OnlyBlame DEF ProviderFails, episode, Contract!Next
    <3>2. ASSUME NEW cost \in Costs, NEW output \in BOOLEAN, ProviderAnswers(c, cost, output)
          PROVE  Contract!Next
      BY <2>0, <3>2, ChargeImplementsCharge DEF ProviderAnswers
    <3>3. QED
      BY <2>2, <3>1, <3>2 DEF ProviderStep
  <2>3. CASE Record
    BY <2>3, RecordImplementsSettle
  <2>4. CASE RecordRaises
    BY <2>4, RaisingImplementsFail
  <2>5. CASE ServerFails \/ StopFails
    BY <2>5, HostFailureImplementsHostFails
  <2>6. ASSUME NEW o \in ContainerOutcomes \cup {"host_failed"}, ContainerEnds(o)
        PROVE  Contract!Next \/ UNCHANGED Contract!vars
    <3>1. CASE o = "host_failed"
      BY <2>6, <3>1, HostFailureImplementsHostFails
    <3>2. CASE o # "host_failed"
      <4>1. /\ phase = "serving" /\ phase' = "stopping"
            /\ container # "host_failed" /\ container' # "host_failed"
            /\ UNCHANGED <<meter, answer, violations, record>>
        BY <2>6, <3>2 DEF ContainerEnds, relay, IInv, EpisodeOrder
      <4>2. QED
        BY <4>1 DEF Contract!vars
    <3>3. QED
      BY <3>1, <3>2
  <2>7. ASSUME NEW c \in Conns, Connect(c) \/ Disconnect(c) \/ HandlerEnds(c)
        PROVE  Contract!Next
    <3>1. UNCHANGED <<meter, answer, container, phase, record>>
      BY <2>7 DEF Connect, Disconnect, HandlerEnds, relay, episode
    <3>2. QED
      BY <2>0, <3>1, OnlyBlame DEF Contract!Next
  <2>8. CASE UNCHANGED vars
    BY <2>8 DEF vars, relay, episode, Contract!vars
  <2>9. QED
    BY <2>1, <2>2, <2>3, <2>4, <2>5, <2>6, <2>7, <2>8 DEF Next
<1>3. QED
  BY <1>1, <1>2, InvariantAlwaysHolds, PTL DEF Spec, Contract!Safe

=============================================================================
