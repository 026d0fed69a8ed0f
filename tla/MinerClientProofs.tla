-------------------------- MODULE MinerClientProofs --------------------------
(***************************************************************************)
(* The SDK's client and the relay's handlers, for every number of calls    *)
(* and connections.                                                        *)
(*                                                                         *)
(* The safety properties follow from where the client's buffer and the     *)
(* responses it has not read stand, taken as one pipe: always in the order *)
(* of the calls, and, as long as no connection was left with a response    *)
(* owed, the responses to the calls from a known one on.                   *)
(***************************************************************************)
EXTENDS MinerClient, SequenceTheorems, FiniteSetTheorems, WellFoundedInduction, TLAPS

\* What the client has still to take, in the order it takes it.
Pipe == IF sock = 0 THEN buffer ELSE buffer \o responses[sock]

\* Only the connection in use carries anything; one that is not opened yet is untouched.
Quiet ==
  /\ \A c \in Connections : c > opened => end[c] = "open" /\ ~handler[c] /\ requests[c] = <<>>
  /\ \A c \in Connections : c # sock => responses[c] = <<>>
  /\ \A c \in Connections : c <= opened /\ c # sock => end[c] # "open"

\* A call has a result when it has ended, and there is none without a connection.
Written ==
  /\ opened = 0 => nextId = 0
  /\ \A k \in Calls : k > nextId \/ k = waiting => result[k].how = "none"

\* The call whose response the first line of the pipe is, where every line is whole.
Due == nextId + (IF waiting = 0 THEN 1 ELSE 0) - Cardinality(GaveUp)

\* The pipe is the responses to the calls from the first on, m of them.
InLine(first, m) ==
  /\ Len(Pipe) = 2 * m
  /\ \A i \in 0 .. m - 1 :
       /\ Pipe[2 * i + 1] = [id |-> first + i, part |-> "head"]
       /\ Pipe[2 * i + 2] = [id |-> first + i, part |-> "tail"]

\* The client's buffer starts where a response does, on the first connection and as long
\* as no call was given up.
Clean == opened <= 1 \/ GaveUp = {}

\* Then the pipe and the requests not read yet are the calls from Due on, one after the other.
Lined ==
  /\ GaveUp = {} /\ (waiting = 0 \/ sending) => buffer = <<>>
  /\ Clean /\ sock # 0 /\ (handler[sock] \/ waiting # 0) =>
       \E m \in 0 .. Len(Pipe) :
         /\ InLine(Due, m)
         /\ \A q \in DOMAIN requests[sock] : requests[sock][q] = Due + m + q - 1
         /\ Due + m + Len(requests[sock]) <= nextId + 1
         /\ handler[sock] => Due + m + Len(requests[sock]) = nextId + 1

Taken == {k \in Calls : result[k].how = "answer"}

\* Where a piece stands among the responses.
Weight(piece) == 2 * piece.id + (IF piece.part = "head" THEN 0 ELSE 1)

\* Whatever was given up, what is taken, in the pipe and still requested is in the order of
\* the calls.
Ordered ==
  /\ \A i, j \in DOMAIN Pipe :
       i < j => Weight(Pipe[i]) < Weight(Pipe[j])
  /\ \A k \in Taken : \A i \in DOMAIN Pipe : result[k].id < Pipe[i].id
  /\ \A k \in Taken : result[k].id <= nextId
  /\ \A i \in DOMAIN Pipe : Pipe[i].id <= nextId
  /\ sock # 0 =>
       /\ \A q \in DOMAIN requests[sock] : requests[sock][q] <= nextId
       /\ \A q, r \in DOMAIN requests[sock] : q < r => requests[sock][q] < requests[sock][r]
       /\ \A q \in DOMAIN requests[sock], i \in DOMAIN Pipe : Pipe[i].id < requests[sock][q]
       /\ \A q \in DOMAIN requests[sock], k \in Taken : result[k].id < requests[sock][q]

\* Who gave nothing up leaves nothing behind.
Tidy ==
  GaveUp = {} /\ oversized = {} /\ undecodable = {} /\ ~faulted =>
    /\ ~blamed
    /\ \A c \in Connections : handler[c] /\ end[c] # "open" => end[c] = "closed" /\ requests[c] = <<>>

IInv ==
  /\ TypeOK /\ Quiet /\ Written /\ Lined /\ Ordered /\ Tidy
  /\ OwnAnswer /\ TakenInOrder /\ BehindByTimeouts

-----------------------------------------------------------------------------
(* Sequences of pieces. *)

\* A nonempty set of naturals has a least member.
LEMMA LeastMember ==
  ASSUME NEW S \in SUBSET Nat, S # {}
  PROVE  \E m \in S : \A q \in S : m <= q
<1>1. \E R : IsWellFoundedOn(R, Nat) /\ \A x, y \in Nat : x < y => <<x, y>> \in R
  <2>1. \A x, y \in Nat : x < y => <<x, y>> \in OpToRel(<, Nat)
    BY DEF OpToRel
  <2>. WITNESS OpToRel(<, Nat)
  <2>. QED BY <2>1, NatLessThanWellFounded
<1>2. PICK R : IsWellFoundedOn(R, Nat) /\ \A x, y \in Nat : x < y => <<x, y>> \in R
  BY <1>1
<1>3. IsWellFoundedOn(R, Nat) /\ S \subseteq Nat
  BY <1>2
<1>4. PICK m \in S : \A y \in S : ~(<<y, m>> \in R)
  BY <1>3, WFMin, Zenon
<1>5. \A y \in S : ~(y < m)
  BY <1>2, <1>4
<1>. QED BY <1>5

\* Where a buffer holds a line, its first one ends within the buffer.
LEMMA LineEndsInBuffer ==
  ASSUME buffer \in Seq(Pieces), HasLine
  PROVE  /\ LineEnd \in 1 .. Len(buffer)
         /\ buffer[LineEnd].part = "tail"
         /\ \A j \in 1 .. LineEnd - 1 : buffer[j].part # "tail"
<1>. DEFINE S == {i \in DOMAIN buffer : buffer[i].part = "tail"}
<1>1. DOMAIN buffer = 1 .. Len(buffer) /\ Len(buffer) \in Nat
  BY LenProperties
<1>2. S \in SUBSET Nat /\ S # {}
  BY <1>1 DEF HasLine
<1>3. PICK m \in S : \A q \in S : m <= q
  BY <1>2, LeastMember
<1>4. ASSUME NEW j \in 1 .. m - 1 PROVE buffer[j].part # "tail"
  BY <1>1, <1>3, <1>4
<1>5. \E i \in DOMAIN buffer : /\ buffer[i].part = "tail"
                               /\ \A j \in 1 .. i - 1 : buffer[j].part # "tail"
  BY <1>3, <1>4
<1>6. /\ LineEnd \in DOMAIN buffer
      /\ buffer[LineEnd].part = "tail"
      /\ \A j \in 1 .. LineEnd - 1 : buffer[j].part # "tail"
  BY <1>5 DEF LineEnd
<1>. QED BY <1>1, <1>6

\* A part of a sequence is a sequence of the same things.
LEMMA PartOfSequence ==
  ASSUME NEW T, NEW s \in Seq(T), NEW m \in 1 .. Len(s) + 1, NEW n \in 0 .. Len(s)
  PROVE  SubSeq(s, m, n) \in Seq(T)
<1>1. \A i \in m .. n : s[i] \in T
  BY ElementOfSeq
<1>. QED BY <1>1, SubSeqProperties

\* A response is two pieces.
LEMMA FrameIsPieces ==
  ASSUME NEW id \in Calls
  PROVE  /\ Frame(id) \in Seq(Pieces) /\ Len(Frame(id)) = 2
         /\ Frame(id)[1] = [id |-> id, part |-> "head"]
         /\ Frame(id)[2] = [id |-> id, part |-> "tail"]
BY DEF Frame, Pieces

\* What a line is parsed to is an ending, with the identifier of a response.
LEMMA ParsedLine ==
  ASSUME buffer \in Seq(Pieces), HasLine
  PROVE  /\ Parse(SubSeq(buffer, 1, LineEnd)).how \in Endings
         /\ Parse(SubSeq(buffer, 1, LineEnd)).id \in 0 .. MaxCalls
<1>. DEFINE line == SubSeq(buffer, 1, LineEnd)
<1>1. LineEnd \in 1 .. Len(buffer) /\ Len(buffer) \in Nat
  BY LineEndsInBuffer, LenProperties
<1>2. \A i \in 1 .. LineEnd : buffer[i] \in Pieces
  BY <1>1, ElementOfSeq
<1>3. line[1] = buffer[1] /\ buffer[1] \in Pieces
  BY <1>1, <1>2, SubSeqProperties
<1>4. line[1].id \in 0 .. MaxCalls
  <2>1. line[1].id \in Calls
    BY <1>3 DEF Pieces
  <2>2. \A x \in Calls : x \in 0 .. MaxCalls
    BY ClientAssumption DEF Calls, ClientAssumption
  <2>. QED BY <2>1, <2>2
<1>5. 0 \in 0 .. MaxCalls
  BY ClientAssumption DEF ClientAssumption
<1>. HIDE DEF line
<1>6. Parse(line).how \in Endings /\ Parse(line).id \in 0 .. MaxCalls
  BY <1>4, <1>5 DEF Parse, Endings
<1>. QED BY <1>6 DEF line

-----------------------------------------------------------------------------
(* Types. *)

\* How a call returns keeps the types of what it writes.
LEMMA ReturnsTypes ==
  ASSUME TypeOK, NEW call \in Calls, NEW how \in Endings, NEW id \in 0 .. MaxCalls,
         Returns(call, how, id)
  PROVE  /\ waiting' = 0
         /\ sending' = FALSE
         /\ result' \in [Calls -> [how : Endings, id : 0 .. MaxCalls]]
BY DEF Returns, TypeOK

LEMMA TypesHoldAtFirst == Init => TypeOK
<1>. SUFFICES ASSUME Init PROVE TypeOK
  OBVIOUS
<1>1. MaxCalls \in Nat /\ MaxConnections \in Nat
  BY ClientAssumption DEF ClientAssumption
<1>2. <<>> \in Seq(Pieces) /\ <<>> \in Seq(Calls)
  BY EmptySeq
<1>3. /\ requests \in [Connections -> Seq(Calls)]
      /\ responses \in [Connections -> Seq(Pieces)]
      /\ buffer \in Seq(Pieces)
  BY <1>2 DEF Init
<1>4. result \in [Calls -> [how : Endings, id : 0 .. MaxCalls]]
  BY <1>1 DEF Init, Endings
<1>5. /\ end \in [Connections -> {"open", "closed", "reset"}]
      /\ handler \in [Connections -> BOOLEAN]
      /\ \A c \in Connections : end[c] = "open"
  BY DEF Init
<1>6. /\ sock \in 0 .. opened /\ nextId \in 0 .. MaxCalls /\ opened \in 0 .. MaxConnections
      /\ blamed \in BOOLEAN /\ faulted \in BOOLEAN /\ sending \in BOOLEAN
      /\ oversized \subseteq Calls /\ undecodable \subseteq Calls
  <2>1. /\ sock = 0 /\ nextId = 0 /\ opened = 0
        /\ faulted = FALSE /\ sending = FALSE /\ blamed = FALSE
        /\ oversized = {} /\ undecodable = {}
    BY Zenon DEF Init
  <2>2. /\ faulted \in BOOLEAN /\ sending \in BOOLEAN /\ blamed \in BOOLEAN
        /\ oversized \subseteq Calls /\ undecodable \subseteq Calls
    BY <2>1, Zenon
  <2>. QED BY <1>1, <2>1, <2>2
<1>. QED BY <1>3, <1>4, <1>5, <1>6 DEF Init, TypeOK

LEMMA TypesArePreserved ==
  ASSUME TypeOK, Quiet, [Next]_vars
  PROVE  TypeOK'
<1>0. MaxCalls \in Nat /\ MaxConnections \in Nat /\ 0 \in 0 .. MaxCalls
  BY ClientAssumption DEF ClientAssumption
<1>1. CASE Connect
  <2>1. /\ opened + 1 \in Connections /\ opened + 1 > opened
        /\ opened' = opened + 1 /\ opened + 1 \in 0 .. MaxConnections
    BY <1>0, <1>1 DEF Connect, TypeOK, Connections
  <2>2. end[opened + 1] = "open"
    BY <2>1 DEF Quiet
  <2>3. handler' \in [Connections -> BOOLEAN]
    BY <1>1 DEF Connect, TypeOK
  <2>. QED BY <1>1, <2>1, <2>2, <2>3 DEF Connect, TypeOK
<1>2. CASE SendFails
  <2>1. nextId + 1 \in Calls /\ "closed" \in Endings
    BY <1>0, <1>2 DEF SendFails, TypeOK, Calls, Endings
  <2>2. /\ waiting' = 0 /\ sending' = FALSE
        /\ result' \in [Calls -> [how : Endings, id : 0 .. MaxCalls]]
    BY <1>0, <1>2, <2>1, ReturnsTypes DEF SendFails
  <2>3. nextId' \in 0 .. MaxCalls
    BY <1>0, <1>2, <2>1 DEF SendFails, Calls
  <2>. QED BY <1>2, <2>2, <2>3 DEF SendFails, TypeOK, wire, relay
<1>3. CASE Close
  <2>1. responses' \in [Connections -> Seq(Pieces)]
    BY <1>3, EmptySeq DEF Close, TypeOK
  <2>2. end' \in [Connections -> {"open", "closed", "reset"}]
    BY <1>3 DEF Close, TypeOK
  <2>. QED BY <1>0, <1>3, <2>1, <2>2 DEF Close, TypeOK, relay
<1>4. CASE TimesOut
  <2>1. nextId \in Calls /\ "timeout" \in Endings
    BY <1>0, <1>4 DEF TimesOut, TypeOK, Calls, Endings
  <2>. QED BY <1>0, <1>4, <2>1, ReturnsTypes DEF TimesOut, TypeOK, wire, relay
<1>5. ASSUME NEW kind \in Kinds, Call(kind) PROVE TypeOK'
  <2>1. /\ sock # 0 /\ nextId < MaxCalls /\ nextId' = nextId + 1 /\ waiting' = nextId + 1
        /\ requests' = [requests EXCEPT ![sock] = Append(@, nextId + 1)]
        /\ UNCHANGED <<sock, buffer, result, opened, end, responses, handler, blamed, faulted>>
    BY <1>5, Zenon DEF Call, relay
  <2>2. nextId + 1 \in Calls /\ sock \in Connections
    BY <1>0, <2>1 DEF TypeOK, Calls, Connections
  <2>3. requests' \in [Connections -> Seq(Calls)]
    BY <2>1, <2>2 DEF TypeOK
  <2>4. /\ sending' = (kind = "too long")
        /\ oversized' = IF kind = "too long" THEN oversized \cup {nextId + 1} ELSE oversized
        /\ undecodable' = IF kind = "undecodable" THEN undecodable \cup {nextId + 1} ELSE undecodable
    BY <1>5, Zenon DEF Call
  <2>5. sending' \in BOOLEAN
    BY <2>4, Zenon
  <2>6. oversized \subseteq Calls /\ undecodable \subseteq Calls
    BY Zenon DEF TypeOK
  <2>7. oversized' \subseteq Calls
    BY <2>2, <2>4, <2>6, Zenon
  <2>8. undecodable' \subseteq Calls
    BY <2>2, <2>4, <2>6, Zenon
  <2>9. sending' => waiting' \in oversized'
    BY <2>1, <2>4, Zenon
  <2>. QED BY <1>0, <2>1, <2>2, <2>3, <2>5, <2>7, <2>8, <2>9 DEF TypeOK, Calls
<1>6. ASSUME NEW n \in 1 .. 2 * MaxCalls, Receive(n) PROVE TypeOK'
  <2>1. sock \in Connections
    BY <1>0, <1>6 DEF Receive, TypeOK, Connections
  <2>2. /\ responses[sock] \in Seq(Pieces)
        /\ Len(responses[sock]) \in Nat
        /\ n \in 1 .. Len(responses[sock])
    BY <1>0, <1>6, <2>1, LenProperties DEF Receive, TypeOK
  <2>3. /\ SubSeq(responses[sock], 1, n) \in Seq(Pieces)
        /\ SubSeq(responses[sock], n + 1, Len(responses[sock])) \in Seq(Pieces)
    BY <2>2, PartOfSequence
  <2>4. buffer' \in Seq(Pieces)
    BY <1>6, <2>3, ConcatProperties DEF Receive, TypeOK
  <2>5. responses' \in [Connections -> Seq(Pieces)]
    BY <1>6, <2>3 DEF Receive, TypeOK
  <2>. QED BY <1>6, <2>4, <2>5 DEF Receive, TypeOK, relay
<1>7. CASE TakeLine
  <2>1. nextId \in Calls /\ buffer \in Seq(Pieces) /\ HasLine
    BY <1>0, <1>7 DEF TakeLine, TypeOK, Calls
  <2>2. LineEnd \in 1 .. Len(buffer) /\ Len(buffer) \in Nat
    BY <2>1, LineEndsInBuffer, LenProperties
  <2>3. buffer' \in Seq(Pieces)
    BY <1>7, <2>1, <2>2, PartOfSequence DEF TakeLine
  <2>4. /\ waiting' = 0 /\ sending' = FALSE
        /\ result' \in [Calls -> [how : Endings, id : 0 .. MaxCalls]]
    BY <1>7, <2>1, ParsedLine, ReturnsTypes DEF TakeLine
  <2>. QED BY <1>7, <2>3, <2>4 DEF TakeLine, TypeOK, wire, relay
<1>8. CASE EndOfStream
  <2>1. nextId \in Calls /\ "closed" \in Endings
    BY <1>0, <1>8 DEF EndOfStream, TypeOK, Calls, Endings
  <2>. QED BY <1>0, <1>8, <2>1, ReturnsTypes DEF EndOfStream, TypeOK, wire, relay
<1>9. CASE Sent
  BY <1>9 DEF Sent, TypeOK, wire, relay
<1>10. CASE SendBreaks
  <2>1. nextId \in Calls /\ "closed" \in Endings
    BY <1>0, <1>10 DEF SendBreaks, TypeOK, Calls, Endings
  <2>. QED BY <1>0, <1>10, <2>1, ReturnsTypes DEF SendBreaks, TypeOK, wire, relay
<1>11. ASSUME NEW c \in Connections, Answers(c) PROVE TypeOK'
  <2>1. requests[c] \in Seq(Calls) /\ requests[c] # <<>>
    BY <1>11 DEF Answers, TypeOK
  <2>2. Head(requests[c]) \in Calls /\ Tail(requests[c]) \in Seq(Calls)
    BY <2>1, HeadTailProperties
  <2>3. Frame(Head(requests[c])) \in Seq(Pieces)
    BY <2>2, FrameIsPieces
  <2>4. responses[c] \o Frame(Head(requests[c])) \in Seq(Pieces)
    BY <2>3, ConcatProperties DEF TypeOK
  <2>. QED BY <1>11, <2>2, <2>4 DEF Answers, TypeOK, client, relay
<1>12. ASSUME NEW c \in Connections, Refuses(c) PROVE TypeOK'
  <2>1. responses[c] \o Frame(Head(requests[c])) \in Seq(Pieces)
    <3>1. requests[c] \in Seq(Calls) /\ requests[c] # <<>>
      BY <1>12 DEF Refuses, TypeOK
    <3>2. Head(requests[c]) \in Calls
      BY <3>1, HeadTailProperties
    <3>. QED BY <3>2, FrameIsPieces, ConcatProperties DEF TypeOK
  <2>. QED BY <1>12, <2>1, EmptySeq DEF Refuses, HandlerEnds, Blames, TypeOK, client
<1>13. ASSUME NEW c \in Connections, Faults(c) PROVE TypeOK'
  BY <1>13, EmptySeq DEF Faults, HandlerEnds, Blames, TypeOK, client
<1>14. ASSUME NEW c \in Connections, PeerIsGone(c) PROVE TypeOK'
  BY <1>14, EmptySeq DEF PeerIsGone, HandlerEnds, Blames, TypeOK, client
<1>15. ASSUME NEW c \in Connections, RefusesFrame(c) PROVE TypeOK'
  <2>1. requests[c] \in Seq(Calls) /\ requests[c] # <<>>
    BY <1>15 DEF RefusesFrame, TypeOK
  <2>2. Head(requests[c]) \in Calls /\ Tail(requests[c]) \in Seq(Calls)
    BY <2>1, HeadTailProperties
  <2>3. responses[c] \o Frame(Head(requests[c])) \in Seq(Pieces)
    BY <2>2, FrameIsPieces, ConcatProperties DEF TypeOK
  <2>. QED BY <1>15, <2>2, <2>3 DEF RefusesFrame, Blames, TypeOK, client
<1>16. CASE UNCHANGED vars
  BY <1>16 DEF vars, client, wire, relay, TypeOK
<1>. QED BY <1>1, <1>2, <1>3, <1>4, <1>5, <1>6, <1>7, <1>8, <1>9, <1>10, <1>11, <1>12, <1>13,
            <1>14, <1>16, <1>15 DEF Next, Reading, Handling

-----------------------------------------------------------------------------
(* The pipe. *)

\* What the types say of the client, the socket in use and the pipe.
LEMMA Basics ==
  ASSUME TypeOK
  PROVE  /\ MaxCalls \in Nat /\ MaxConnections \in Nat /\ nextId \in Nat /\ nextId <= MaxCalls
         /\ opened \in Nat /\ sock \in Nat
         /\ sock # 0 => /\ sock \in Connections
                        /\ requests[sock] \in Seq(Calls)
                        /\ DOMAIN requests[sock] = 1 .. Len(requests[sock])
                        /\ Len(requests[sock]) \in Nat
                        /\ responses[sock] \in Seq(Pieces)
         /\ buffer \in Seq(Pieces) /\ Pipe \in Seq(Pieces)
         /\ Len(Pipe) \in Nat /\ DOMAIN Pipe = 1 .. Len(Pipe)
         /\ \A i \in 1 .. Len(Pipe) : Pipe[i] \in Pieces
<1>1. /\ MaxCalls \in Nat /\ MaxConnections \in Nat /\ nextId \in Nat /\ nextId <= MaxCalls
      /\ opened \in Nat /\ sock \in Nat
  BY ClientAssumption DEF ClientAssumption, TypeOK
<1>2. ASSUME sock # 0
      PROVE  /\ sock \in Connections
             /\ requests[sock] \in Seq(Calls)
             /\ DOMAIN requests[sock] = 1 .. Len(requests[sock])
             /\ Len(requests[sock]) \in Nat
             /\ responses[sock] \in Seq(Pieces)
  <2>1. sock \in Connections
    BY <1>1, <1>2 DEF TypeOK, Connections
  <2>. QED BY <2>1, LenProperties DEF TypeOK
<1>3. buffer \in Seq(Pieces)
  BY DEF TypeOK
<1>4. Pipe \in Seq(Pieces)
  BY <1>2, <1>3, ConcatProperties DEF Pipe
<1>5. /\ Len(Pipe) \in Nat /\ DOMAIN Pipe = 1 .. Len(Pipe)
      /\ \A i \in 1 .. Len(Pipe) : Pipe[i] \in Pieces
  BY <1>4, LenProperties, ElementOfSeq
<1>. QED BY <1>1, <1>2, <1>3, <1>4, <1>5

\* The calls given up can be counted.
LEMMA GaveUpIsFinite ==
  ASSUME TypeOK
  PROVE  /\ IsFiniteSet(GaveUp) /\ GaveUp \subseteq Calls
         /\ Cardinality(GaveUp) \in Nat
         /\ GaveUp = {} => Cardinality(GaveUp) = 0
<1>1. IsFiniteSet(Calls)
  BY Basics, FS_Interval DEF Calls
<1>2. GaveUp \in SUBSET Calls
  BY DEF GaveUp
<1>. QED BY <1>1, <1>2, FS_Subset, FS_CardinalityType, FS_EmptySet

\* The buffer comes first in the pipe.
LEMMA BufferIsFirst ==
  ASSUME TypeOK
  PROVE  /\ Len(buffer) \in Nat /\ Len(buffer) <= Len(Pipe)
         /\ \A i \in 1 .. Len(buffer) : Pipe[i] = buffer[i]
         /\ sock # 0 => /\ Len(Pipe) = Len(buffer) + Len(responses[sock])
                        /\ Len(responses[sock]) \in Nat
                        /\ \A i \in 1 .. Len(responses[sock]) :
                             Pipe[Len(buffer) + i] = responses[sock][i]
<1>1. Len(buffer) \in Nat
  BY Basics, LenProperties
<1>2. CASE sock = 0
  BY <1>1, <1>2 DEF Pipe
<1>3. CASE sock # 0
  <2>1. /\ buffer \in Seq(Pieces) /\ responses[sock] \in Seq(Pieces)
        /\ Len(responses[sock]) \in Nat
    BY <1>3, Basics, LenProperties
  <2>2. /\ Len(Pipe) = Len(buffer) + Len(responses[sock])
        /\ \A i \in 1 .. Len(buffer) + Len(responses[sock]) :
             Pipe[i] = IF i <= Len(buffer) THEN buffer[i] ELSE responses[sock][i - Len(buffer)]
    BY <1>3, <2>1, ConcatProperties DEF Pipe
  <2>. QED BY <1>1, <2>1, <2>2
<1>. QED BY <1>2, <1>3

\* Where the lines of the pipe are whole, the one taken is the response that is due.
LEMMA LineIsDue ==
  ASSUME TypeOK, Lined, Clean, waiting # 0, HasLine
  PROVE  /\ LineEnd = 2 /\ Len(Pipe) >= 2 /\ Due \in Calls
         /\ SubSeq(buffer, 1, LineEnd) = Frame(Due)
<1>1. sock # 0
  BY DEF TypeOK
<1>2. PICK m \in 0 .. Len(Pipe) : InLine(Due, m)
  BY <1>1 DEF Lined
<1>3. /\ LineEnd \in 1 .. Len(buffer) /\ buffer[LineEnd].part = "tail"
      /\ \A j \in 1 .. LineEnd - 1 : buffer[j].part # "tail"
  BY LineEndsInBuffer DEF TypeOK
<1>4. /\ Len(buffer) \in Nat /\ Len(buffer) <= Len(Pipe) /\ Len(Pipe) \in Nat
      /\ \A i \in 1 .. Len(buffer) : Pipe[i] = buffer[i]
      /\ Len(Pipe) = 2 * m
  BY <1>2, BufferIsFirst, Basics DEF InLine
<1>5. m >= 1 /\ 0 \in 0 .. m - 1
  BY <1>3, <1>4
<1>6. Due \in Int
  BY Basics, GaveUpIsFinite DEF Due
<1>7. /\ Pipe[1] = [id |-> Due, part |-> "head"]
      /\ Pipe[2] = [id |-> Due, part |-> "tail"]
  BY <1>2, <1>5, <1>6 DEF InLine
<1>8. LineEnd # 1
  BY <1>3, <1>4, <1>7
<1>9. LineEnd = 2 /\ Len(buffer) >= 2
  BY <1>3, <1>4, <1>7, <1>8
<1>10. /\ SubSeq(buffer, 1, 2) \in Seq(Pieces) /\ Len(SubSeq(buffer, 1, 2)) = 2
       /\ SubSeq(buffer, 1, 2)[1] = buffer[1] /\ SubSeq(buffer, 1, 2)[2] = buffer[2]
  <2>1. \A i \in 1 .. 2 : buffer[i] \in Pieces
    BY <1>9, ElementOfSeq DEF TypeOK
  <2>. QED BY <2>1, SubSeqProperties
<1>11. Due \in Calls
  <2>1. Pipe[1] \in Pieces
    BY <1>4, <1>9, Basics
  <2>. QED BY <1>7, <2>1 DEF Pieces
<1>12. SubSeq(buffer, 1, 2) = Frame(Due)
  <2>. DEFINE line == SubSeq(buffer, 1, 2)
              frame == Frame(Due)
  <2>3. /\ frame \in Seq(Pieces) /\ Len(frame) = 2
        /\ frame[1] = Pipe[1] /\ frame[2] = Pipe[2]
    BY <1>7, <1>11, FrameIsPieces
  <2>4. line[1] = Pipe[1] /\ line[2] = Pipe[2]
    BY <1>4, <1>9, <1>10
  <2>. HIDE DEF line, frame
  <2>5. line \in Seq(Pieces) /\ Len(line) = 2
    BY <1>10 DEF line
  <2>6. \A i \in 1 .. 2 : line[i] = frame[i]
    BY <2>3, <2>4
  <2>7. line = frame
    BY <2>3, <2>5, <2>6, SeqEqual
  <2>. QED BY <2>7 DEF line, frame
<1>. QED BY <1>4, <1>9, <1>11, <1>12

\* In an ordered pipe a line that is one response whole is the first two pieces.
LEMMA LineIsFirst ==
  ASSUME TypeOK, HasLine, Parse(SubSeq(buffer, 1, LineEnd)).how = "answer"
  PROVE  /\ LineEnd = 2 /\ Len(Pipe) >= 2
         /\ Pipe[1] = [id |-> Parse(SubSeq(buffer, 1, LineEnd)).id, part |-> "head"]
         /\ Pipe[2] = [id |-> Parse(SubSeq(buffer, 1, LineEnd)).id, part |-> "tail"]
<1>. DEFINE line == SubSeq(buffer, 1, LineEnd)
<1>1. LineEnd \in 1 .. Len(buffer)
  BY LineEndsInBuffer DEF TypeOK
<1>2. /\ Len(buffer) \in Nat /\ Len(buffer) <= Len(Pipe) /\ Len(Pipe) \in Nat
      /\ \A i \in 1 .. Len(buffer) : Pipe[i] = buffer[i]
  BY BufferIsFirst, Basics
<1>3. Len(line) = LineEnd /\ \A i \in 1 .. LineEnd : line[i] = buffer[i]
  <2>1. \A i \in 1 .. LineEnd : buffer[i] \in Pieces
    BY <1>1, <1>2, ElementOfSeq DEF TypeOK
  <2>. QED BY <1>1, <1>2, <2>1, SubSeqProperties
<1>. HIDE DEF line
<1>4. line = Frame(line[1].id) /\ Parse(line).id = line[1].id
  BY DEF Parse, line
<1>5. Len(line) = 2 /\ line[1] = [id |-> line[1].id, part |-> "head"]
      /\ line[2] = [id |-> line[1].id, part |-> "tail"]
  BY <1>4 DEF Frame
<1>6. LineEnd = 2 /\ Pipe[1] = line[1] /\ Pipe[2] = line[2] /\ Len(Pipe) >= 2
  BY <1>1, <1>2, <1>3, <1>5
<1>. QED BY <1>4, <1>5, <1>6 DEF line

-----------------------------------------------------------------------------
(* The end of a call. *)

\* How a call that has no result yet ends changes its own result.
LEMMA ResultAfter ==
  ASSUME TypeOK, NEW k \in Calls, NEW how \in Endings, NEW id \in 0 .. MaxCalls,
         Returns(k, how, id), result[k].how = "none"
  PROVE  /\ \A j \in Calls : result'[j] = IF j = k THEN [how |-> how, id |-> id] ELSE result[j]
         /\ GaveUp' = IF how = "timeout" THEN GaveUp \cup {k} ELSE GaveUp
         /\ Cardinality(GaveUp') = Cardinality(GaveUp) + (IF how = "timeout" THEN 1 ELSE 0)
         /\ Taken' = IF how = "answer" THEN Taken \cup {k} ELSE Taken
<1>1. \A j \in Calls : result'[j] = IF j = k THEN [how |-> how, id |-> id] ELSE result[j]
  BY DEF Returns, TypeOK
<1>2. GaveUp' = IF how = "timeout" THEN GaveUp \cup {k} ELSE GaveUp
  BY <1>1 DEF GaveUp
<1>3. k \notin GaveUp
  BY DEF GaveUp
<1>4. Cardinality(GaveUp') = Cardinality(GaveUp) + (IF how = "timeout" THEN 1 ELSE 0)
  <2>1. IsFiniteSet(GaveUp) /\ Cardinality(GaveUp) \in Nat
    BY GaveUpIsFinite
  <2>2. Cardinality(GaveUp \cup {k}) = Cardinality(GaveUp) + 1
    BY <1>3, <2>1, FS_AddElement
  <2>. QED BY <1>2, <2>1, <2>2
<1>5. Taken' = IF how = "answer" THEN Taken \cup {k} ELSE Taken
  BY <1>1 DEF Taken
<1>. QED BY <1>1, <1>2, <1>4, <1>5

\* A call that ends without a response, in a timeout or because the relay has closed.
LEMMA EndsEmptyHanded ==
  ASSUME IInv, sock # 0, NEW k \in Calls, NEW how \in {"timeout", "closed"},
         Returns(k, how, 0), nextId' = k,
         (waiting = k /\ nextId = k) \/ (waiting = 0 /\ k = nextId + 1),
         UNCHANGED <<sock, buffer, oversized, undecodable, wire, relay>>,
         how = "closed" => ~handler[sock] /\ (GaveUp = {} => buffer = <<>>),
         how = "timeout" => waiting = k
  PROVE  /\ Quiet' /\ Written' /\ Lined' /\ Ordered' /\ Tidy'
         /\ OwnAnswer' /\ TakenInOrder' /\ BehindByTimeouts'
<1>0. /\ TypeOK /\ Quiet /\ Written /\ Lined /\ Ordered /\ Tidy
      /\ OwnAnswer /\ TakenInOrder /\ BehindByTimeouts
  BY DEF IInv
<1>1. /\ waiting' = 0 /\ sending' = FALSE
      /\ UNCHANGED <<sock, buffer, oversized, undecodable, opened, end, requests, responses, handler,
                     blamed, faulted>>
  BY DEF Returns, wire, relay
<1>2. /\ nextId \in Nat /\ k \in Nat /\ k >= 1 /\ nextId <= k /\ Len(Pipe) \in Nat
      /\ 0 \in 0 .. MaxCalls /\ how \in Endings
  BY <1>0, Basics DEF Calls, Endings
<1>3. result[k].how = "none"
  BY <1>0, <1>2 DEF Written
<1>4. /\ \A j \in Calls : result'[j] = IF j = k THEN [how |-> how, id |-> 0] ELSE result[j]
      /\ GaveUp' = IF how = "timeout" THEN GaveUp \cup {k} ELSE GaveUp
      /\ Cardinality(GaveUp') = Cardinality(GaveUp) + (IF how = "timeout" THEN 1 ELSE 0)
      /\ Taken' = Taken
  BY <1>0, <1>2, <1>3, ResultAfter
<1>5. Pipe' = Pipe
  BY <1>1 DEF Pipe
<1>6. Quiet'
  BY <1>0, <1>1 DEF Quiet
<1>7. Written'
  <2>1. \A j \in Calls : j > k => result'[j].how = "none"
    BY <1>0, <1>2, <1>4 DEF Written, Calls
  <2>2. \A j \in Calls : j # 0
    BY DEF Calls
  <2>4. opened' # 0
    BY <1>0, <1>1 DEF TypeOK
  <2>. QED BY <1>1, <2>1, <2>2, <2>4 DEF Written
<1>8. Lined'
  <2>1. CASE how = "closed"
    <3>1. GaveUp' = GaveUp /\ ~handler'[sock'] /\ (GaveUp' = {} => buffer' = <<>>)
      BY <1>1, <1>4, <2>1
    <3>. QED BY <1>1, <3>1 DEF Lined
  <2>2. CASE how = "timeout"
    <3>1. k \in GaveUp' /\ (Clean' => Clean)
      BY <1>1, <1>4, <2>2 DEF Clean
    <3>2. Due' = Due /\ waiting # 0 /\ nextId' = nextId
      BY <1>0, <1>1, <1>2, <1>4, <2>2, GaveUpIsFinite DEF Due
    <3>3. \A m \in 0 .. Len(Pipe) : InLine(Due, m) => InLine(Due, m)'
      BY <1>1, <1>5, <3>2 DEF InLine
    <3>. QED BY <1>0, <1>1, <1>5, <3>1, <3>2, <3>3 DEF Lined
  <2>. QED BY <2>1, <2>2
<1>9. Ordered'
  <2>1. \A j \in Taken : j \in Calls /\ j # k /\ result'[j] = result[j]
    BY <1>3, <1>4 DEF Taken
  <2>2. \A j \in Taken : result[j].id \in Nat
    BY <1>0, <2>1 DEF TypeOK
  <2>3. \A i \in DOMAIN Pipe : Pipe[i].id \in Nat
    BY <1>0, Basics DEF Pieces, Calls
  <2>4. sock # 0 => \A q \in DOMAIN requests[sock] : requests[sock][q] \in Nat
    BY <1>0, Basics, ElementOfSeq DEF Calls
  <2>. QED BY <1>0, <1>1, <1>2, <1>4, <1>5, <2>1, <2>2, <2>3, <2>4 DEF Ordered
<1>10. Tidy'
  BY <1>0, <1>1, <1>4 DEF Tidy
<1>11. OwnAnswer'
  BY <1>0, <1>1, <1>4 DEF OwnAnswer
<1>12. TakenInOrder'
  BY <1>0, <1>4 DEF TakenInOrder
<1>13. BehindByTimeouts'
  <2>1. SUFFICES ASSUME opened = 1, NEW j \in Calls, result'[j].how = "answer"
                 PROVE  result'[j].id + Cardinality({i \in GaveUp' : i < j}) = j
    BY <1>1 DEF BehindByTimeouts
  <2>2. j # k /\ result'[j] = result[j] /\ j < k
    BY <1>0, <1>2, <1>4, <2>1 DEF Written, Calls
  <2>3. {i \in GaveUp' : i < j} = {i \in GaveUp : i < j}
    BY <1>2, <1>4, <2>2 DEF Calls
  <2>. QED BY <1>0, <2>1, <2>2, <2>3 DEF BehindByTimeouts
<1>. QED BY <1>6, <1>7, <1>8, <1>9, <1>10, <1>11, <1>12, <1>13

\* What the types say of the members of the pipe, the requests and the results, as numbers.
LEMMA IdsAreNumbers ==
  ASSUME TypeOK
  PROVE  /\ \A i \in DOMAIN Pipe : Pipe[i].id \in Nat /\ Weight(Pipe[i]) \in Nat
         /\ \A i \in DOMAIN Pipe : /\ Weight(Pipe[i]) <= 2 * Pipe[i].id + 1
                                    /\ Weight(Pipe[i]) >= 2 * Pipe[i].id
         /\ \A k \in Calls : result[k].id \in Nat
         /\ sock # 0 => \A q \in DOMAIN requests[sock] : requests[sock][q] \in Calls
         /\ Calls \subseteq Nat /\ 0 \notin Calls /\ Taken \subseteq Calls
<1>1. ASSUME NEW i \in DOMAIN Pipe
      PROVE  /\ Pipe[i].id \in Nat /\ Weight(Pipe[i]) \in Nat
             /\ Weight(Pipe[i]) <= 2 * Pipe[i].id + 1
             /\ Weight(Pipe[i]) >= 2 * Pipe[i].id
  <2>1. Pipe[i] \in Pieces /\ MaxCalls \in Nat
    BY <1>1, Basics
  <2>2. Pipe[i].id \in Nat
    BY <2>1 DEF Pieces, Calls
  <2>. QED BY <2>2 DEF Weight
<1>2. \A k \in Calls : result[k].id \in Nat
  BY Basics DEF TypeOK
<1>3. sock # 0 => \A q \in DOMAIN requests[sock] : requests[sock][q] \in Calls
  BY Basics, ElementOfSeq
<1>4. Calls \subseteq Nat /\ 0 \notin Calls /\ Taken \subseteq Calls
  BY Basics DEF Calls, Taken
<1>. QED BY <1>1, <1>2, <1>3, <1>4

\* What is left of an ordered pipe when its first n pieces are taken.
LEMMA PipeAfterLine ==
  ASSUME TypeOK, TakeLine
  PROVE  /\ LineEnd \in 1 .. Len(buffer) /\ Len(buffer) \in Nat /\ Len(Pipe) \in Nat
         /\ LineEnd <= Len(Pipe)
         /\ Len(Pipe') = Len(Pipe) - LineEnd /\ DOMAIN Pipe' = 1 .. Len(Pipe')
         /\ \A i \in 1 .. Len(Pipe') : Pipe'[i] = Pipe[i + LineEnd]
         /\ buffer' \in Seq(Pieces) /\ Len(buffer') = Len(buffer) - LineEnd
<1>1. /\ waiting # 0 /\ HasLine /\ sock # 0
      /\ buffer' = SubSeq(buffer, LineEnd + 1, Len(buffer))
      /\ UNCHANGED <<sock, responses>>
  BY DEF TakeLine, TypeOK, wire
<1>2. LineEnd \in 1 .. Len(buffer) /\ buffer \in Seq(Pieces)
  BY <1>1, LineEndsInBuffer DEF TypeOK
<1>3. /\ Len(buffer) \in Nat /\ Len(buffer) <= Len(Pipe) /\ Len(Pipe) \in Nat
      /\ responses[sock] \in Seq(Pieces) /\ Len(responses[sock]) \in Nat
      /\ Len(Pipe) = Len(buffer) + Len(responses[sock])
      /\ \A i \in 1 .. Len(buffer) : Pipe[i] = buffer[i]
      /\ \A i \in 1 .. Len(responses[sock]) : Pipe[Len(buffer) + i] = responses[sock][i]
  BY <1>1, BufferIsFirst, Basics
<1>. DEFINE rest == SubSeq(buffer, LineEnd + 1, Len(buffer))
<1>4. /\ rest \in Seq(Pieces) /\ Len(rest) = Len(buffer) - LineEnd
      /\ \A i \in 1 .. Len(buffer) - LineEnd : rest[i] = buffer[i + LineEnd]
  <2>1. \A i \in LineEnd + 1 .. Len(buffer) : buffer[i] \in Pieces
    BY <1>2, <1>3, ElementOfSeq
  <2>2. LineEnd + 1 \in Int /\ Len(buffer) \in Int
    BY <1>2, <1>3
  <2>3. /\ rest \in Seq(Pieces)
        /\ Len(rest) = IF LineEnd + 1 <= Len(buffer) THEN Len(buffer) - (LineEnd + 1) + 1 ELSE 0
        /\ \A i \in 1 .. Len(buffer) - (LineEnd + 1) + 1 : rest[i] = buffer[LineEnd + 1 + i - 1]
    BY <2>1, <2>2, SubSeqProperties
  <2>. QED BY <1>2, <1>3, <2>3
<1>. HIDE DEF rest
<1>5. Pipe' = rest \o responses[sock]
  BY <1>1 DEF Pipe, rest
<1>6. /\ Len(Pipe') = Len(rest) + Len(responses[sock])
      /\ Pipe' \in Seq(Pieces)
      /\ \A i \in 1 .. Len(rest) + Len(responses[sock]) :
           Pipe'[i] = IF i <= Len(rest) THEN rest[i] ELSE responses[sock][i - Len(rest)]
  BY <1>3, <1>4, <1>5, ConcatProperties
<1>7. ASSUME NEW i \in 1 .. Len(Pipe') PROVE Pipe'[i] = Pipe[i + LineEnd]
  <2>1. CASE i <= Len(rest)
    BY <1>2, <1>3, <1>4, <1>6, <1>7, <2>1
  <2>2. CASE i > Len(rest)
    <3>. DEFINE j == i - Len(rest)
    <3>1. j \in 1 .. Len(responses[sock]) /\ Pipe'[i] = responses[sock][j]
      <4>1. Len(rest) \in Nat /\ Len(responses[sock]) \in Nat
        BY <1>2, <1>3, <1>4
      <4>2. i \in 1 .. Len(rest) + Len(responses[sock])
        BY <1>6, <1>7
      <4>3. Pipe'[i] = responses[sock][j]
        BY <1>6, <2>2, <4>1, <4>2
      <4>. QED BY <2>2, <4>1, <4>2, <4>3
    <3>2. Len(buffer) + j = i + LineEnd
      BY <1>2, <1>3, <1>4, <1>6, <1>7
    <3>3. Pipe[Len(buffer) + j] = responses[sock][j]
      BY <1>3, <3>1
    <3>. QED BY <3>1, <3>2, <3>3
  <2>. QED BY <1>2, <1>3, <1>4, <1>6, <1>7, <2>1, <2>2
<1>8. DOMAIN Pipe' = 1 .. Len(Pipe')
  BY <1>6, LenProperties
<1>9. buffer' = rest
  BY <1>1 DEF rest
<1>10. LineEnd <= Len(Pipe) /\ Len(Pipe') = Len(Pipe) - LineEnd
  BY <1>2, <1>3, <1>4, <1>6
<1>. QED BY <1>2, <1>3, <1>4, <1>7, <1>8, <1>9, <1>10

\* A line that is due is parsed to the response it is.
LEMMA DueIsParsed ==
  ASSUME TypeOK, Lined, Clean, waiting # 0, HasLine
  PROVE  Parse(SubSeq(buffer, 1, LineEnd)) = [how |-> "answer", id |-> Due]
<1>. DEFINE line == SubSeq(buffer, 1, LineEnd)
<1>1. line = Frame(Due) /\ Due \in Calls
  BY LineIsDue
<1>. HIDE DEF line
<1>2. line[1].id = Due
  <2>1. line[1] = [id |-> Due, part |-> "head"]
    BY <1>1, FrameIsPieces
  <2>. QED BY <2>1
<1>3. Parse(line) = [how |-> "answer", id |-> Due]
  BY <1>1, <1>2 DEF Parse
<1>. QED BY <1>3 DEF line

LEMMA TakeLinePreserves ==
  ASSUME IInv, TakeLine
  PROVE  /\ Quiet' /\ Written' /\ Lined' /\ Ordered' /\ Tidy'
         /\ OwnAnswer' /\ TakenInOrder' /\ BehindByTimeouts'
<1>. DEFINE parsed == Parse(SubSeq(buffer, 1, LineEnd))
<1>0. /\ TypeOK /\ Quiet /\ Written /\ Lined /\ Ordered /\ Tidy
      /\ OwnAnswer /\ TakenInOrder /\ BehindByTimeouts
  BY DEF IInv
<1>1. /\ waiting # 0 /\ waiting = nextId /\ ~sending /\ HasLine /\ sock # 0
      /\ Returns(nextId, parsed.how, parsed.id)
      /\ waiting' = 0 /\ sending' = FALSE
      /\ UNCHANGED <<sock, nextId, oversized, undecodable, opened, end, requests, responses, handler,
                     blamed, faulted>>
  BY <1>0 DEF TakeLine, TypeOK, Returns, wire, relay
<1>2. /\ nextId \in Calls /\ nextId \in Nat /\ result[nextId].how = "none"
      /\ parsed.how \in Endings /\ parsed.id \in 0 .. MaxCalls /\ parsed.how \in {"answer", "garbled"}
  <2>1. nextId \in Calls /\ nextId \in Nat
    BY <1>0, <1>1, Basics DEF Calls
  <2>2. parsed.how \in Endings /\ parsed.id \in 0 .. MaxCalls
    BY <1>0, <1>1, ParsedLine DEF TypeOK
  <2>3. parsed.how \in {"answer", "garbled"}
    BY DEF Parse
  <2>. QED BY <1>0, <1>1, <2>1, <2>2, <2>3 DEF Written
<1>. HIDE DEF parsed
<1>3. /\ \A j \in Calls : result'[j] = IF j = nextId THEN [how |-> parsed.how, id |-> parsed.id]
                                       ELSE result[j]
      /\ GaveUp' = GaveUp /\ Cardinality(GaveUp) \in Nat
      /\ Taken' = IF parsed.how = "answer" THEN Taken \cup {nextId} ELSE Taken
  BY <1>0, <1>1, <1>2, ResultAfter, GaveUpIsFinite
<1>4. /\ LineEnd \in 1 .. Len(buffer) /\ Len(buffer) \in Nat /\ Len(Pipe) \in Nat
      /\ LineEnd <= Len(Pipe)
      /\ Len(Pipe') = Len(Pipe) - LineEnd /\ DOMAIN Pipe' = 1 .. Len(Pipe')
      /\ \A i \in 1 .. Len(Pipe') : Pipe'[i] = Pipe[i + LineEnd]
      /\ buffer' \in Seq(Pieces) /\ Len(buffer') = Len(buffer) - LineEnd
  BY <1>0, PipeAfterLine
<1>5. Quiet' /\ Written' /\ Tidy'
  BY <1>0, <1>1, <1>2, <1>3 DEF Quiet, Written, Tidy, Calls
<1>6. ASSUME Clean
      PROVE  /\ LineEnd = 2 /\ parsed = [how |-> "answer", id |-> Due]
             /\ Due = nextId - Cardinality(GaveUp)
  BY <1>0, <1>1, <1>2, <1>3, <1>6, LineIsDue, DueIsParsed DEF Due, parsed
<1>7. Lined'
  <2>1. ASSUME Clean
        PROVE  \E m \in 0 .. Len(Pipe) :
                 /\ InLine(Due, m) /\ m >= 1 /\ Len(Pipe) = 2 * m
                 /\ \A q \in DOMAIN requests[sock] : requests[sock][q] = Due + m + q - 1
                 /\ Due + m + Len(requests[sock]) <= nextId + 1
                 /\ handler[sock] => Due + m + Len(requests[sock]) = nextId + 1
    <3>1. PICK m \in 0 .. Len(Pipe) :
                 /\ InLine(Due, m)
                 /\ \A q \in DOMAIN requests[sock] : requests[sock][q] = Due + m + q - 1
                 /\ Due + m + Len(requests[sock]) <= nextId + 1
                 /\ handler[sock] => Due + m + Len(requests[sock]) = nextId + 1
      BY <1>0, <1>1, <2>1 DEF Lined
    <3>2. Len(Pipe) = 2 * m /\ m >= 1
      BY <1>4, <1>6, <2>1, <3>1 DEF InLine
    <3>. QED BY <3>1, <3>2
  <2>2. ASSUME GaveUp' = {} PROVE buffer' = <<>>
    <3>1. Clean /\ Cardinality(GaveUp) = 0
      BY <1>0, <1>3, <2>2, GaveUpIsFinite DEF Clean
    <3>2. PICK m \in 0 .. Len(Pipe) : /\ m >= 1 /\ Len(Pipe) = 2 * m
                                      /\ Due + m + Len(requests[sock]) <= nextId + 1
      BY <2>1, <3>1
    <3>3. Len(requests[sock]) \in Nat /\ Due = nextId /\ LineEnd = 2
      BY <1>0, <1>1, <1>2, <1>6, <3>1, Basics
    <3>4. Len(buffer) <= Len(Pipe)
      BY <1>0, BufferIsFirst
    <3>5. m = 1
      <4>1. nextId \in Nat /\ Len(Pipe) \in Nat
        BY <1>2, <1>4
      <4>2. nextId + m + Len(requests[sock]) <= nextId + 1
        BY <3>2, <3>3
      <4>3. m \in Nat /\ m >= 1
        BY <3>2, <4>1
      <4>4. \A x, y, z \in Nat : x + y + z <= x + 1 /\ y >= 1 => y = 1
        OBVIOUS
      <4>. QED BY <3>3, <4>1, <4>2, <4>3, <4>4
    <3>6. Len(buffer') = 0
      BY <1>4, <3>2, <3>3, <3>4, <3>5
    <3>. QED BY <1>4, <3>6, EmptySeq
  <2>3. ASSUME Clean', sock' # 0, handler'[sock'] \/ waiting' # 0
        PROVE  \E m \in 0 .. Len(Pipe') :
                 /\ InLine(Due, m)'
                 /\ \A q \in DOMAIN requests'[sock'] : requests'[sock'][q] = Due' + m + q - 1
                 /\ Due' + m + Len(requests'[sock']) <= nextId' + 1
                 /\ handler'[sock'] => Due' + m + Len(requests'[sock']) = nextId' + 1
    <3>1. Clean /\ handler[sock]
      BY <1>1, <1>3, <2>3 DEF Clean
    <3>2. PICK m \in 0 .. Len(Pipe) :
                 /\ InLine(Due, m) /\ m >= 1 /\ Len(Pipe) = 2 * m
                 /\ \A q \in DOMAIN requests[sock] : requests[sock][q] = Due + m + q - 1
                 /\ Due + m + Len(requests[sock]) <= nextId + 1
                 /\ handler[sock] => Due + m + Len(requests[sock]) = nextId + 1
      BY <2>1, <3>1
    <3>3. /\ Due' = Due + 1 /\ Due \in Int /\ Len(requests[sock]) \in Nat
          /\ DOMAIN requests[sock] = 1 .. Len(requests[sock])
      BY <1>0, <1>1, <1>2, <1>3, Basics DEF Due
    <3>4. Len(Pipe') = 2 * (m - 1) /\ m - 1 \in 0 .. Len(Pipe')
      BY <1>4, <1>6, <3>1, <3>2
    <3>5. ASSUME NEW i \in 0 .. (m - 1) - 1
          PROVE  /\ Pipe'[2 * i + 1] = [id |-> Due + 1 + i, part |-> "head"]
                 /\ Pipe'[2 * i + 2] = [id |-> Due + 1 + i, part |-> "tail"]
      <4>1. i + 1 \in 0 .. m - 1 /\ i \in Int
        BY <3>2, <3>5
      <4>2. 2 * i + 1 \in 1 .. Len(Pipe') /\ 2 * i + 2 \in 1 .. Len(Pipe')
        BY <3>2, <3>4, <3>5
      <4>3. Pipe'[2 * i + 1] = Pipe[2 * (i + 1) + 1] /\ Pipe'[2 * i + 2] = Pipe[2 * (i + 1) + 2]
        <5>1. Pipe'[2 * i + 1] = Pipe[(2 * i + 1) + 2] /\ Pipe'[2 * i + 2] = Pipe[(2 * i + 2) + 2]
          BY <1>4, <1>6, <3>1, <4>2
        <5>2. (2 * i + 1) + 2 = 2 * (i + 1) + 1 /\ (2 * i + 2) + 2 = 2 * (i + 1) + 2
          BY <4>1
        <5>. QED BY <5>1, <5>2
      <4>4. /\ Pipe[2 * (i + 1) + 1] = [id |-> Due + (i + 1), part |-> "head"]
            /\ Pipe[2 * (i + 1) + 2] = [id |-> Due + (i + 1), part |-> "tail"]
        BY <3>2, <4>1 DEF InLine
      <4>5. Due + (i + 1) = Due + 1 + i
        BY <3>3, <4>1
      <4>. QED BY <4>3, <4>4, <4>5
    <3>6. InLine(Due, m - 1)'
      BY <1>1, <3>3, <3>4, <3>5 DEF InLine
    <3>7. /\ \A q \in DOMAIN requests'[sock'] : requests'[sock'][q] = Due' + (m - 1) + q - 1
          /\ Due' + (m - 1) + Len(requests'[sock']) <= nextId' + 1
          /\ handler'[sock'] => Due' + (m - 1) + Len(requests'[sock']) = nextId' + 1
      <4>1. /\ \A x \in Int : \A y, z \in Nat : (x + 1) + (y - 1) + z = x + y + z
            /\ \A x \in Int : \A y, z \in Nat : (x + 1) + (y - 1) + z - 1 = x + y + z - 1
        OBVIOUS
      <4>2. /\ m \in Nat /\ \A q \in DOMAIN requests[sock] : q \in Nat
            /\ requests' = requests /\ sock' = sock /\ nextId' = nextId /\ handler' = handler
        BY <1>1, <1>4, <3>2, <3>3
      <4>. QED BY <3>2, <3>3, <4>1, <4>2
    <3>. QED BY <3>4, <3>6, <3>7
  <2>. QED BY <2>2, <2>3 DEF Lined
<1>8. parsed.how = "answer" =>
        /\ LineEnd = 2 /\ Len(Pipe) >= 2
        /\ Pipe[1] = [id |-> parsed.id, part |-> "head"]
        /\ Pipe[2] = [id |-> parsed.id, part |-> "tail"]
  BY <1>0, <1>1, LineIsFirst DEF parsed
<1>9. /\ \A i \in DOMAIN Pipe : Pipe[i].id \in Nat /\ Weight(Pipe[i]) \in Nat
      /\ \A i \in DOMAIN Pipe : Weight(Pipe[i]) <= 2 * Pipe[i].id + 1
      /\ \A j \in Calls : result[j].id \in Nat
      /\ Calls \subseteq Nat /\ Taken \subseteq Calls /\ nextId \notin Taken
      /\ DOMAIN Pipe = 1 .. Len(Pipe)
      /\ parsed.id \in Nat
  BY <1>0, <1>2, IdsAreNumbers, Basics DEF Taken
<1>10. ASSUME parsed.how = "answer"
       PROVE  /\ \A i \in DOMAIN Pipe' : parsed.id < Pipe'[i].id
              /\ parsed.id <= nextId
              /\ \A q \in DOMAIN requests[sock] : parsed.id < requests[sock][q]
              /\ \A j \in Taken : result[j].id < parsed.id
  <2>1. /\ Pipe[1].id = parsed.id /\ Pipe[2].id = parsed.id /\ Pipe[2].part = "tail"
        /\ 1 \in DOMAIN Pipe /\ 2 \in DOMAIN Pipe /\ LineEnd = 2
    BY <1>4, <1>8, <1>9, <1>10
  <2>2. Weight(Pipe[2]) = 2 * parsed.id + 1
    BY <2>1 DEF Weight
  <2>3. ASSUME NEW i \in DOMAIN Pipe'
        PROVE  parsed.id < Pipe'[i].id
    <3>1. i + 2 \in DOMAIN Pipe /\ 2 < i + 2 /\ Pipe'[i] = Pipe[i + 2]
      BY <1>4, <1>9, <2>1, <2>3
    <3>2. Weight(Pipe[2]) < Weight(Pipe[i + 2])
      BY <1>0, <1>10, <2>1, <2>3, <3>1 DEF Ordered
    <3>3. Weight(Pipe[i + 2]) <= 2 * Pipe[i + 2].id + 1 /\ Pipe[i + 2].id \in Nat
          /\ Weight(Pipe[i + 2]) \in Nat
      BY <1>9, <3>1
    <3>. QED BY <1>9, <2>2, <3>1, <3>2, <3>3
  <2>. QED BY <1>0, <1>1, <1>10, <2>1, <2>3 DEF Ordered
<1>11. \A j \in Taken : result'[j] = result[j]
  BY <1>3, <1>9
<1>12. Ordered'
  <2>1. ASSUME NEW i \in DOMAIN Pipe', NEW j \in DOMAIN Pipe', i < j
        PROVE  Weight(Pipe'[i]) < Weight(Pipe'[j])
    <3>1. /\ i \in 1 .. Len(Pipe') /\ j \in 1 .. Len(Pipe')
          /\ Pipe'[i] = Pipe[i + LineEnd] /\ Pipe'[j] = Pipe[j + LineEnd]
      BY <1>4
    <3>2. /\ i + LineEnd \in DOMAIN Pipe /\ j + LineEnd \in DOMAIN Pipe
          /\ i + LineEnd < j + LineEnd
      BY <1>4, <1>9, <2>1, <3>1
    <3>. QED BY <1>0, <2>1, <3>1, <3>2 DEF Ordered
  <2>2. \A i \in DOMAIN Pipe' : \E j \in DOMAIN Pipe : Pipe'[i] = Pipe[j]
    <3>1. ASSUME NEW i \in DOMAIN Pipe' PROVE i + LineEnd \in DOMAIN Pipe /\ Pipe'[i] = Pipe[i + LineEnd]
      BY <1>4, <1>9, <3>1
    <3>. QED BY <3>1
  <2>3. ASSUME NEW k \in Taken', NEW i \in DOMAIN Pipe'
        PROVE  result'[k].id < Pipe'[i].id
    <3>1. CASE k \in Taken
      BY <1>0, <1>11, <2>2, <2>3, <3>1 DEF Ordered
    <3>2. CASE k \notin Taken
      BY <1>2, <1>3, <1>10, <2>3, <3>2
    <3>. QED BY <3>1, <3>2
  <2>4. ASSUME NEW k \in Taken'
        PROVE  /\ result'[k].id <= nextId
               /\ \A q \in DOMAIN requests[sock] : result'[k].id < requests[sock][q]
    <3>1. CASE k \in Taken
      BY <1>0, <1>1, <1>11, <3>1 DEF Ordered
    <3>2. CASE k \notin Taken
      BY <1>2, <1>3, <1>10, <2>4, <3>2
    <3>. QED BY <3>1, <3>2
  <2>5. \A i \in DOMAIN Pipe' : /\ Pipe'[i].id <= nextId
                                /\ \A q \in DOMAIN requests[sock] : Pipe'[i].id < requests[sock][q]
    BY <1>0, <1>1, <2>2 DEF Ordered
  <2>. QED BY <1>0, <1>1, <2>1, <2>3, <2>4, <2>5 DEF Ordered, Weight
<1>13. OwnAnswer'
  <2>1. SUFFICES ASSUME GaveUp' = {}, NEW k \in Calls
                 PROVE  /\ result'[k].how # "garbled"
                        /\ result'[k].how = "answer" =>
                             result'[k].id = k
    BY DEF OwnAnswer
  <2>2. Clean /\ Cardinality(GaveUp) = 0
    BY <1>0, <1>3, <2>1, GaveUpIsFinite DEF Clean
  <2>3. CASE k = nextId
    <3>1. parsed = [how |-> "answer", id |-> nextId]
      BY <1>2, <1>6, <2>2
    <3>. QED BY <1>1, <1>3, <2>3, <3>1
  <2>4. CASE k # nextId
    BY <1>0, <1>1, <1>3, <2>1, <2>4 DEF OwnAnswer
  <2>. QED BY <2>3, <2>4
<1>14. TakenInOrder'
  <2>1. SUFFICES ASSUME NEW j \in Taken', NEW k \in Taken', j < k
                 PROVE  result'[j].id < result'[k].id
    BY DEF TakenInOrder, Taken
  <2>2. ASSUME NEW i \in Taken PROVE i < nextId
    <3>1. ~(i > nextId)
      BY <1>0 DEF Written, Taken
    <3>2. i \in Nat /\ i # nextId /\ nextId \in Nat
      BY <1>2, <1>9
    <3>. QED BY <3>1, <3>2
  <2>3. CASE k \in Taken
    <3>1. j \in Taken
      BY <1>2, <1>3, <1>9, <2>1, <2>2, <2>3
    <3>. QED BY <1>0, <1>9, <1>11, <2>1, <2>3, <3>1 DEF TakenInOrder, Taken
  <2>4. CASE k \notin Taken
    <3>1. k = nextId /\ j \in Taken /\ parsed.how = "answer"
      BY <1>2, <1>3, <2>1, <2>4
    <3>2. result'[j] = result[j] /\ result[j].id < parsed.id
      BY <1>10, <1>11, <3>1
    <3>3. result'[k].id = parsed.id
      <4>1. result'[nextId] = [how |-> parsed.how, id |-> parsed.id]
        BY <1>2, <1>3
      <4>. QED BY <3>1, <4>1
    <3>. QED BY <3>2, <3>3
  <2>. QED BY <2>3, <2>4
<1>15. BehindByTimeouts'
  <2>1. SUFFICES ASSUME opened = 1, NEW k \in Calls, result'[k].how = "answer"
                 PROVE  result'[k].id + Cardinality({j \in GaveUp : j < k}) = k
    BY <1>1, <1>3 DEF BehindByTimeouts
  <2>2. CASE k = nextId
    <3>1. Clean
      BY <2>1 DEF Clean
    <3>2. parsed.id = Due /\ Due = nextId - Cardinality(GaveUp)
      BY <1>6, <3>1
    <3>3. {j \in GaveUp : j < nextId} = GaveUp
      <4>1. ASSUME NEW j \in GaveUp PROVE j < nextId
        BY <1>0, <1>1, <1>2, <1>9 DEF GaveUp, Written
      <4>. QED BY <4>1
    <3>. QED BY <1>2, <1>3, <2>2, <3>2, <3>3
  <2>3. CASE k # nextId
    BY <1>0, <1>3, <2>1, <2>3 DEF BehindByTimeouts
  <2>. QED BY <2>2, <2>3
<1>. QED BY <1>5, <1>7, <1>12, <1>13, <1>14, <1>15

-----------------------------------------------------------------------------
(* The other steps of the client. *)

\* What is read goes from the socket to the buffer: the pipe is the same.
LEMMA ReceivePreserves ==
  ASSUME IInv, NEW n \in 1 .. 2 * MaxCalls, Receive(n)
  PROVE  /\ Quiet' /\ Written' /\ Lined' /\ Ordered' /\ Tidy'
         /\ OwnAnswer' /\ TakenInOrder' /\ BehindByTimeouts'
<1>0. /\ TypeOK /\ Quiet /\ Written /\ Lined /\ Ordered /\ Tidy
      /\ OwnAnswer /\ TakenInOrder /\ BehindByTimeouts
  BY DEF IInv
<1>1. /\ waiting # 0 /\ ~sending /\ sock # 0
      /\ buffer' = buffer \o SubSeq(responses[sock], 1, n)
      /\ responses' = [responses EXCEPT ![sock] = SubSeq(@, n + 1, Len(@))]
      /\ n <= Len(responses[sock]) /\ n \in Nat /\ n >= 1
      /\ UNCHANGED <<sock, nextId, waiting, sending, result, oversized, undecodable, opened, end, requests,
                     handler, blamed, faulted>>
  BY <1>0, Basics DEF Receive, TypeOK, relay
<1>2. Pipe' = Pipe
  <2>. DEFINE r == responses[sock]
  <2>1. r \in Seq(Pieces) /\ Len(r) \in Nat /\ buffer \in Seq(Pieces)
    BY <1>0, <1>1, Basics, BufferIsFirst
  <2>2. responses'[sock] = SubSeq(r, n + 1, Len(r))
    BY <1>0, <1>1, Basics DEF TypeOK
  <2>. HIDE DEF r
  <2>3. SubSeq(r, 1, n) \in Seq(Pieces) /\ SubSeq(r, n + 1, Len(r)) \in Seq(Pieces)
    BY <1>1, <2>1, PartOfSequence DEF r
  <2>4. SubSeq(r, 1, n) \o SubSeq(r, n + 1, Len(r)) = SubSeq(r, 1, Len(r))
    BY <1>1, <2>1, ConcatAdjacentSubSeq DEF r
  <2>5. SubSeq(r, 1, Len(r)) = r
    BY <2>1, SubSeqFull
  <2>6. (buffer \o SubSeq(r, 1, n)) \o SubSeq(r, n + 1, Len(r)) = buffer \o r
    <3>1. \A s, t, u \in Seq(Pieces) : (s \o t) \o u = s \o (t \o u)
      BY ConcatAssociative
    <3>2. (buffer \o SubSeq(r, 1, n)) \o SubSeq(r, n + 1, Len(r))
            = buffer \o (SubSeq(r, 1, n) \o SubSeq(r, n + 1, Len(r)))
      BY <2>1, <2>3, <3>1, Zenon
    <3>. QED BY <2>4, <2>5, <3>2, Zenon
  <2>7. Pipe' = buffer' \o responses'[sock]
    BY <1>1 DEF Pipe
  <2>. QED BY <1>1, <2>2, <2>6, <2>7 DEF Pipe, r
<1>3. GaveUp' = GaveUp /\ Taken' = Taken /\ Due' = Due
  BY <1>1 DEF GaveUp, Taken, Due
<1>4. \A c \in Connections : c # sock => responses'[c] = responses[c]
  BY <1>0, <1>1 DEF TypeOK
<1>5. Quiet' /\ Written' /\ Tidy' /\ OwnAnswer' /\ TakenInOrder' /\ BehindByTimeouts'
  BY <1>0, <1>1, <1>3, <1>4
     DEF Quiet, Written, Tidy, OwnAnswer, TakenInOrder, BehindByTimeouts
<1>6. Ordered'
  BY <1>0, <1>1, <1>2, <1>3 DEF Ordered, Weight
<1>7. Lined'
  <2>1. \A m \in 0 .. Len(Pipe) : InLine(Due, m) => InLine(Due, m)'
    BY <1>1, <1>2, <1>3 DEF InLine
  <2>. QED BY <1>0, <1>1, <1>2, <1>3, <2>1 DEF Lined, Clean
<1>. QED BY <1>5, <1>6, <1>7

\* A connection begins with nothing in the pipe but what the client kept.
LEMMA ConnectPreserves ==
  ASSUME IInv, Connect
  PROVE  /\ Quiet' /\ Written' /\ Lined' /\ Ordered' /\ Tidy'
         /\ OwnAnswer' /\ TakenInOrder' /\ BehindByTimeouts'
<1>0. /\ TypeOK /\ Quiet /\ Written /\ Lined /\ Ordered /\ Tidy
      /\ OwnAnswer /\ TakenInOrder /\ BehindByTimeouts
  BY DEF IInv
<1>. DEFINE c == opened + 1
<1>1. /\ sock = 0 /\ waiting = 0 /\ opened \in Nat
      /\ c \in Connections /\ c # 0 /\ opened' = c /\ sock' = c
      /\ handler' = [handler EXCEPT ![c] = TRUE]
      /\ UNCHANGED <<nextId, waiting, sending, buffer, result, oversized, undecodable, end, requests, responses,
                     blamed, faulted>>
  BY <1>0, Basics DEF Connect, Connections, TypeOK
<1>2. /\ end[c] = "open" /\ requests[c] = <<>> /\ responses[c] = <<>>
      /\ \A d \in Connections : handler'[d] = IF d = c THEN TRUE ELSE handler[d]
      /\ \A d \in Connections : d \in Nat
  <2>1. \A d \in Connections : d \in Nat
    BY Basics DEF Connections
  <2>2. c > opened /\ c # sock
    BY <1>1
  <2>3. end[c] = "open" /\ requests[c] = <<>> /\ responses[c] = <<>>
    BY <1>0, <1>1, <2>2 DEF Quiet
  <2>. QED BY <1>0, <1>1, <2>1, <2>3 DEF TypeOK
<1>3. Pipe' = Pipe
  <2>1. buffer \in Seq(Pieces) /\ Pipe = buffer /\ Pipe' = buffer \o <<>>
    BY <1>0, <1>1, <1>2, Basics DEF Pipe
  <2>. QED BY <2>1, ConcatEmptySeq
<1>4. GaveUp' = GaveUp /\ Taken' = Taken /\ Due' = Due
  BY <1>1 DEF GaveUp, Taken, Due
<1>. HIDE DEF c
<1>5. Quiet'
  <2>1. ASSUME NEW d \in Connections
        PROVE  /\ d > opened' => end'[d] = "open" /\ ~handler'[d] /\ requests'[d] = <<>>
               /\ d # sock' => responses'[d] = <<>>
               /\ d <= opened' /\ d # sock' => end'[d] # "open"
    <3>1. d \in Nat /\ (d > c => d > opened /\ d # c) /\ (d <= c /\ d # c => d <= opened)
      BY <1>1, <1>2 DEF c
    <3>2. d # sock
      BY <1>1 DEF Connections
    <3>. QED BY <1>0, <1>1, <1>2, <3>1, <3>2 DEF Quiet
  <2>. QED BY <2>1 DEF Quiet
<1>6. Written' /\ Tidy' /\ OwnAnswer' /\ TakenInOrder'
  BY <1>0, <1>1, <1>2, <1>4 DEF Written, Tidy, OwnAnswer, TakenInOrder
<1>7. Ordered'
  <2>1. DOMAIN requests'[sock'] = {}
    BY <1>1, <1>2
  <2>. QED BY <1>0, <1>1, <1>3, <1>4, <2>1 DEF Ordered, Weight
<1>8. ASSUME opened = 0 PROVE GaveUp = {} /\ nextId = 0 /\ \A k \in Calls : result[k].how = "none"
  <2>1. nextId = 0
    BY <1>0, <1>8 DEF Written
  <2>2. \A k \in Calls : result[k].how = "none"
    BY <1>0, <2>1, Basics DEF Written, Calls
  <2>. QED BY <2>1, <2>2 DEF GaveUp
<1>9. ASSUME Clean' PROVE GaveUp = {}
  BY <1>1, <1>4, <1>8, <1>9 DEF Clean, c
<1>10. Lined'
  <2>1. (GaveUp = {} => buffer = <<>>) /\ (GaveUp' = {} => buffer' = <<>>)
    BY <1>0, <1>1, <1>4 DEF Lined
  <2>2. ASSUME Clean'
        PROVE  /\ 0 \in 0 .. Len(Pipe') /\ InLine(Due, 0)'
               /\ \A q \in DOMAIN requests'[sock'] : requests'[sock'][q] = Due' + 0 + q - 1
               /\ Due' + 0 + Len(requests'[sock']) = nextId' + 1
    <3>1. Pipe' = <<>> /\ Len(Pipe') = 0
      BY <1>1, <1>3, <1>9, <2>1, <2>2 DEF Pipe
    <3>2. Due' = nextId + 1 /\ nextId \in Nat
      BY <1>0, <1>1, <1>4, <1>9, <2>2, Basics, GaveUpIsFinite DEF Due
    <3>3. InLine(Due, 0)'
      BY <3>1 DEF InLine
    <3>4. DOMAIN requests'[sock'] = {} /\ Len(requests'[sock']) = 0
      BY <1>1, <1>2
    <3>. QED BY <1>1, <3>1, <3>2, <3>3, <3>4
  <2>. QED BY <1>0, <1>1, <2>1, <2>2, Basics DEF Lined
<1>11. BehindByTimeouts'
  <2>1. ASSUME opened' = 1 PROVE \A k \in Calls : result'[k].how # "answer"
    BY <1>1, <1>8, <2>1 DEF c
  <2>. QED BY <2>1 DEF BehindByTimeouts
<1>. QED BY <1>5, <1>6, <1>7, <1>10, <1>11

\* Closing drops what is left in the socket; who gave nothing up leaves nothing there.
LEMMA ClosePreserves ==
  ASSUME IInv, Close
  PROVE  /\ Quiet' /\ Written' /\ Lined' /\ Ordered' /\ Tidy'
         /\ OwnAnswer' /\ TakenInOrder' /\ BehindByTimeouts'
<1>0. /\ TypeOK /\ Quiet /\ Written /\ Lined /\ Ordered /\ Tidy
      /\ OwnAnswer /\ TakenInOrder /\ BehindByTimeouts
  BY DEF IInv
<1>1. /\ sock # 0 /\ sock \in Connections /\ waiting = 0 /\ sock' = 0
      /\ end' = [end EXCEPT ![sock] = IF responses[sock] = <<>> THEN "closed" ELSE "reset"]
      /\ responses' = [responses EXCEPT ![sock] = <<>>]
      /\ UNCHANGED <<nextId, waiting, sending, buffer, result, oversized, undecodable, opened, requests,
                     handler, blamed, faulted>>
  BY <1>0, Basics DEF Close, relay
<1>2. /\ \A c \in Connections : c # sock => end'[c] = end[c] /\ responses'[c] = responses[c]
      /\ end'[sock] = IF responses[sock] = <<>> THEN "closed" ELSE "reset"
      /\ responses'[sock] = <<>>
  BY <1>0, <1>1 DEF TypeOK
<1>3. /\ Pipe' = buffer /\ DOMAIN buffer \subseteq DOMAIN Pipe
      /\ \A i \in DOMAIN buffer : Pipe[i] = buffer[i]
  <2>1. DOMAIN buffer = 1 .. Len(buffer) /\ DOMAIN Pipe = 1 .. Len(Pipe) /\ Len(Pipe) \in Nat
    BY <1>0, Basics, LenProperties
  <2>. QED BY <1>0, <1>1, <2>1, BufferIsFirst DEF Pipe
<1>4. GaveUp' = GaveUp /\ Taken' = Taken
  BY <1>1 DEF GaveUp, Taken
<1>5. Quiet'
  <2>1. ASSUME NEW c \in Connections
        PROVE  /\ c > opened' => end'[c] = "open" /\ ~handler'[c] /\ requests'[c] = <<>>
               /\ responses'[c] = <<>>
               /\ c <= opened' => end'[c] # "open"
    <3>1. c > opened => c # sock
      BY <1>0, <1>1, Basics DEF TypeOK
    <3>. QED BY <1>0, <1>1, <1>2, <3>1 DEF Quiet
  <2>. QED BY <1>1, <2>1 DEF Quiet
<1>6. Written' /\ Lined' /\ OwnAnswer' /\ TakenInOrder' /\ BehindByTimeouts'
  BY <1>0, <1>1, <1>4 DEF Written, Lined, OwnAnswer, TakenInOrder, BehindByTimeouts
<1>7. Ordered'
  BY <1>0, <1>1, <1>3, <1>4 DEF Ordered, Weight
<1>8. Tidy'
  <2>1. SUFFICES ASSUME GaveUp = {}, oversized = {}, undecodable = {}, ~faulted, NEW c \in Connections,
                        handler[c], end'[c] # "open"
                 PROVE  ~blamed /\ end'[c] = "closed" /\ requests[c] = <<>>
    <3>1. GaveUp = {} /\ oversized = {} /\ undecodable = {} /\ ~faulted => ~blamed
      BY <1>0 DEF Tidy
    <3>. QED BY <1>1, <1>4, <3>1 DEF Tidy
  <2>2. CASE c # sock
    BY <1>0, <1>2, <2>1, <2>2 DEF Tidy
  <2>3. CASE c = sock
    <3>1. Clean /\ Cardinality(GaveUp) = 0
      BY <1>0, <2>1, GaveUpIsFinite DEF Clean
    <3>2. PICK m \in 0 .. Len(Pipe) :
                 InLine(Due, m) /\ Due + m + Len(requests[sock]) = nextId + 1
      BY <1>0, <1>1, <2>1, <2>3, <3>1 DEF Lined
    <3>3. /\ nextId \in Nat /\ Len(requests[sock]) \in Nat /\ Due = nextId + 1 /\ Len(Pipe) \in Nat
          /\ requests[sock] \in Seq(Calls)
      BY <1>0, <1>1, <3>1, Basics DEF Due
    <3>4. m = 0 /\ Len(requests[sock]) = 0
      <4>1. nextId + 1 + m + Len(requests[sock]) = nextId + 1
        BY <3>2, <3>3
      <4>2. m \in Nat
        BY <3>3
      <4>3. \A x, y, z \in Nat : x + 1 + y + z = x + 1 => y = 0 /\ z = 0
        OBVIOUS
      <4>. QED BY <3>3, <4>1, <4>2, <4>3
    <3>5. Len(Pipe) = 0
      BY <3>2, <3>4 DEF InLine
    <3>6. Len(responses[sock]) = 0 /\ responses[sock] \in Seq(Pieces)
      BY <1>0, <1>1, <3>5, BufferIsFirst, Basics
    <3>7. responses[sock] = <<>> /\ requests[sock] = <<>>
      BY <3>3, <3>4, <3>6, EmptySeq
    <3>. QED BY <1>0, <1>2, <2>1, <2>3, <3>7 DEF Tidy
  <2>. QED BY <2>2, <2>3
<1>. QED BY <1>5, <1>6, <1>7, <1>8
\* A call asks for the response that follows all those owed.
LEMMA CallPreserves ==
  ASSUME IInv, NEW kind \in Kinds, Call(kind)
  PROVE  /\ Quiet' /\ Written' /\ Lined' /\ Ordered' /\ Tidy'
         /\ OwnAnswer' /\ TakenInOrder' /\ BehindByTimeouts'
<1>0. /\ TypeOK /\ Quiet /\ Written /\ Lined /\ Ordered /\ Tidy
      /\ OwnAnswer /\ TakenInOrder /\ BehindByTimeouts
  BY DEF IInv
<1>. DEFINE k == nextId + 1
            owed == requests[sock]
<1>1. /\ sock # 0 /\ sock \in Connections /\ waiting = 0 /\ handler[sock]
      /\ nextId \in Nat /\ k \in Calls /\ opened # 0
      /\ nextId' = k /\ waiting' = k
      /\ oversized \subseteq oversized' /\ undecodable \subseteq undecodable'
      /\ requests' = [requests EXCEPT ![sock] = Append(@, k)]
      /\ UNCHANGED <<sock, buffer, result, opened, end, responses, handler, blamed, faulted>>
  <2>1. /\ sock # 0 /\ waiting = 0 /\ handler[sock] /\ nextId < MaxCalls
        /\ nextId' = k /\ waiting' = k
        /\ oversized' \in {oversized, oversized \cup {k}}
        /\ undecodable' \in {undecodable, undecodable \cup {k}}
        /\ requests' = [requests EXCEPT ![sock] = Append(@, k)]
        /\ UNCHANGED <<sock, buffer, result, opened, end, responses, handler, blamed, faulted>>
    BY Zenon DEF Call, relay
  <2>2. /\ sock \in Connections /\ nextId \in Nat /\ MaxCalls \in Nat
        /\ oversized \subseteq Calls /\ undecodable \subseteq Calls
    BY <1>0, <2>1, Basics DEF TypeOK
  <2>3. k \in Calls
    BY <2>1, <2>2 DEF Calls
  <2>4. opened # 0
    BY <1>0, <2>1 DEF TypeOK
  <2>5. oversized \subseteq oversized' /\ undecodable \subseteq undecodable'
    BY <2>1
  <2>. QED BY <2>1, <2>2, <2>3, <2>4, <2>5
<1>2. /\ owed \in Seq(Calls) /\ Len(owed) \in Nat /\ DOMAIN owed = 1 .. Len(owed)
      /\ \A q \in 1 .. Len(owed) : owed[q] \in Nat
  <2>1. owed \in Seq(Calls) /\ Len(owed) \in Nat /\ DOMAIN owed = 1 .. Len(owed)
    BY <1>0, <1>1, Basics
  <2>2. \A q \in 1 .. Len(owed) : owed[q] \in Calls
    BY <2>1, ElementOfSeq
  <2>. QED BY <2>1, <2>2 DEF Calls
<1>3. /\ \A c \in Connections : c # sock => requests'[c] = requests[c]
      /\ requests'[sock] = Append(owed, k)
  BY <1>0, <1>1 DEF TypeOK
<1>4. /\ Len(requests'[sock]) = Len(owed) + 1 /\ DOMAIN requests'[sock] = 1 .. Len(owed) + 1
      /\ \A q \in 1 .. Len(owed) : requests'[sock][q] = owed[q]
      /\ requests'[sock][Len(owed) + 1] = k
  BY <1>1, <1>2, <1>3, AppendProperties, LenProperties
<1>5. result[k].how = "none" /\ k \in Nat
  BY <1>0, <1>1 DEF Written
<1>6. Pipe' = Pipe /\ GaveUp' = GaveUp /\ Taken' = Taken
  BY <1>1 DEF Pipe, GaveUp, Taken
<1>. HIDE DEF owed
<1>7. Quiet'
  <2>1. \A c \in Connections : c > opened => c # sock
    BY <1>0, <1>1, Basics DEF TypeOK
  <2>. QED BY <1>0, <1>1, <1>3, <2>1 DEF Quiet
<1>8. Written'
  <2>1. \A j \in Calls : j > k => j > nextId
    BY <1>1 DEF Calls
  <2>3. \A j \in Calls : j > k \/ j = k => result[j].how = "none"
    BY <1>0, <1>5, <2>1 DEF Written
  <2>. QED BY <1>1, <2>3 DEF Written
<1>9. Lined'
  <2>1. GaveUp' = {} => buffer' = <<>>
    BY <1>0, <1>1, <1>6 DEF Lined
  <2>2. Due' = Due /\ Due \in Int
    BY <1>0, <1>1, <1>6, GaveUpIsFinite DEF Due
  <2>3. ASSUME Clean'
        PROVE  \E m \in 0 .. Len(Pipe') :
                 /\ InLine(Due, m)'
                 /\ \A q \in DOMAIN requests'[sock'] : requests'[sock'][q] = Due' + m + q - 1
                 /\ Due' + m + Len(requests'[sock']) = nextId' + 1
    <3>1. PICK m \in 0 .. Len(Pipe) : /\ InLine(Due, m)
                                      /\ \A q \in DOMAIN owed : owed[q] = Due + m + q - 1
                                      /\ Due + m + Len(owed) = nextId + 1
      BY <1>0, <1>1, <1>6, <2>3 DEF Lined, Clean, owed
    <3>2. Len(Pipe) \in Nat /\ m \in Nat
      BY <1>0, <3>1, Basics
    <3>4. InLine(Due, m)'
      BY <1>6, <2>2, <3>1 DEF InLine
    <3>5. ASSUME NEW q \in DOMAIN requests'[sock'] PROVE requests'[sock'][q] = Due' + m + q - 1
      <4>1. CASE q \in 1 .. Len(owed)
        BY <1>1, <1>2, <1>4, <2>2, <3>1, <4>1
      <4>2. CASE q = Len(owed) + 1
        <5>1. k = Due + m + q - 1
          BY <1>1, <1>2, <2>2, <3>1, <3>2, <4>2
        <5>. QED BY <1>1, <1>4, <2>2, <4>2, <5>1
      <4>3. q \in 1 .. Len(owed) \/ q = Len(owed) + 1
        BY <1>1, <1>2, <1>4, <3>5
      <4>. QED BY <4>1, <4>2, <4>3
    <3>6. Due' + m + Len(requests'[sock']) = nextId' + 1
      <4>1. Len(requests'[sock']) = Len(owed) + 1 /\ nextId' = nextId + 1 /\ Due' = Due
        BY <1>1, <1>4, <2>2
      <4>2. \A x \in Int : \A y, z, w \in Nat : x + y + z = w + 1 => x + y + (z + 1) = (w + 1) + 1
        OBVIOUS
      <4>3. Due + m + Len(owed) = nextId + 1
        BY <3>1, Zenon
      <4>4. nextId \in Nat /\ Len(owed) \in Nat /\ Due \in Int /\ m \in Nat
        BY <1>1, <1>2, <2>2, <3>2
      <4>5. Due + m + (Len(owed) + 1) = (nextId + 1) + 1
        BY <4>2, <4>3, <4>4
      <4>. QED BY <4>1, <4>5, Zenon
    <3>. QED BY <1>6, <3>1, <3>4, <3>5, <3>6
  <2>4. nextId' + 1 <= nextId' + 1
    BY <1>1
  <2>5. ASSUME Clean'
        PROVE  \E m \in 0 .. Len(Pipe') :
                 /\ InLine(Due, m)'
                 /\ \A q \in DOMAIN requests'[sock'] : requests'[sock'][q] = Due' + m + q - 1
                 /\ Due' + m + Len(requests'[sock']) <= nextId' + 1
                 /\ handler'[sock'] => Due' + m + Len(requests'[sock']) = nextId' + 1
    BY <2>3, <2>4, <2>5, Zenon
  <2>. QED BY <2>1, <2>5, Zenon DEF Lined
<1>10. Ordered'
  <2>1. /\ \A i \in DOMAIN Pipe : Pipe[i].id \in Nat
        /\ \A j \in Calls : result[j].id \in Nat
        /\ Taken \subseteq Calls
    BY <1>0, IdsAreNumbers
  <2>2. /\ \A j \in Taken : result[j].id <= nextId /\ result[j].id < k
        /\ \A i \in DOMAIN Pipe : Pipe[i].id <= nextId /\ Pipe[i].id < k
        /\ \A q \in 1 .. Len(owed) : owed[q] <= nextId /\ owed[q] < k
    BY <1>0, <1>1, <1>2, <2>1 DEF Ordered, owed
  <2>3. \A j \in Taken : result[j].id <= k
    BY <1>1, <2>1, <2>2
  <2>4. \A i \in DOMAIN Pipe : Pipe[i].id <= k
    BY <1>1, <2>1, <2>2
  <2>5. \A q \in DOMAIN requests'[sock] :
          \/ q \in 1 .. Len(owed) /\ requests'[sock][q] = owed[q]
          \/ q = Len(owed) + 1 /\ requests'[sock][q] = k
    BY <1>2, <1>4
  <2>6. \A q \in DOMAIN requests'[sock] : requests'[sock][q] <= k
    BY <1>1, <1>2, <2>2, <2>5
  <2>7. ASSUME NEW q \in DOMAIN requests'[sock], NEW r \in DOMAIN requests'[sock], q < r
        PROVE  requests'[sock][q] < requests'[sock][r]
    <3>1. q \in 1 .. Len(owed)
      BY <1>2, <1>4, <2>7
    <3>. QED BY <1>0, <1>1, <1>2, <1>4, <2>2, <2>5, <2>7, <3>1 DEF Ordered, owed
  <2>8. \A q \in DOMAIN requests'[sock] :
          /\ \A i \in DOMAIN Pipe : Pipe[i].id < requests'[sock][q]
          /\ \A j \in Taken : result[j].id < requests'[sock][q]
    BY <1>0, <1>1, <1>2, <2>2, <2>5 DEF Ordered, owed
  <2>. QED BY <1>0, <1>1, <1>6, <2>3, <2>4, <2>6, <2>7, <2>8 DEF Ordered, Weight
<1>11. Tidy'
  <2>1. \A c \in Connections : end[c] # "open" => requests'[c] = requests[c]
    BY <1>0, <1>1, <1>3 DEF TypeOK
  <2>. QED BY <1>0, <1>1, <1>6, <2>1 DEF Tidy
<1>12. OwnAnswer'
  BY <1>0, <1>1, <1>6 DEF OwnAnswer
<1>13. TakenInOrder' /\ BehindByTimeouts'
  BY <1>0, <1>1, <1>6 DEF TakenInOrder, BehindByTimeouts
<1>. QED BY <1>7, <1>8, <1>9, <1>10, <1>11, <1>12, <1>13

\* That all of a frame is sent changes nothing of what is owed.
LEMMA SentPreserves ==
  ASSUME IInv, Sent
  PROVE  /\ Quiet' /\ Written' /\ Lined' /\ Ordered' /\ Tidy'
         /\ OwnAnswer' /\ TakenInOrder' /\ BehindByTimeouts'
<1>0. /\ TypeOK /\ Quiet /\ Written /\ Lined /\ Ordered /\ Tidy
      /\ OwnAnswer /\ TakenInOrder /\ BehindByTimeouts
  BY DEF IInv
<1>1. /\ waiting # 0 /\ sending' = FALSE
      /\ UNCHANGED <<sock, nextId, waiting, buffer, result, oversized, undecodable, opened, end, requests,
                     responses, handler, blamed, faulted>>
  BY <1>0, Basics DEF Sent, TypeOK, Calls, wire, relay
<1>2. Pipe' = Pipe /\ GaveUp' = GaveUp /\ Taken' = Taken /\ Due' = Due
  BY <1>1 DEF Pipe, GaveUp, Taken, Due
<1>3. Quiet' /\ Written' /\ Tidy' /\ OwnAnswer' /\ TakenInOrder' /\ BehindByTimeouts'
  BY <1>0, <1>1, <1>2 DEF Quiet, Written, Tidy, OwnAnswer, TakenInOrder, BehindByTimeouts
<1>4. Ordered'
  BY <1>0, <1>1, <1>2 DEF Ordered, Weight
<1>5. Lined'
  <2>1. \A m \in 0 .. Len(Pipe) : InLine(Due, m) => InLine(Due, m)'
    BY <1>1, <1>2 DEF InLine
  <2>. QED BY <1>0, <1>1, <1>2, <2>1 DEF Lined, Clean
<1>. QED BY <1>3, <1>4, <1>5

-----------------------------------------------------------------------------
(* The steps of the relay. *)

\* A handler whose client is there is the one of the connection in use.
LEMMA OpenIsInUse ==
  ASSUME TypeOK, Quiet, NEW c \in Connections, handler[c], end[c] = "open"
  PROVE  c = sock /\ sock # 0
<1>1. c \in Nat /\ c # 0
  BY Basics DEF Connections
<1>2. opened \in Nat
  BY Basics
<1>3. c <= opened
  BY <1>1, <1>2 DEF Quiet
<1>. QED BY <1>1, <1>3 DEF Quiet

\* A response written goes to the end of the pipe.
LEMMA PipeAfterFrame ==
  ASSUME TypeOK, sock # 0, NEW id \in Calls,
         responses' = [responses EXCEPT ![sock] = @ \o Frame(id)],
         UNCHANGED <<sock, buffer>>
  PROVE  /\ Len(Pipe') = Len(Pipe) + 2 /\ DOMAIN Pipe' = 1 .. Len(Pipe) + 2
         /\ \A i \in 1 .. Len(Pipe) : Pipe'[i] = Pipe[i]
         /\ Pipe'[Len(Pipe) + 1] = [id |-> id, part |-> "head"]
         /\ Pipe'[Len(Pipe) + 2] = [id |-> id, part |-> "tail"]
<1>. DEFINE r == responses[sock]
            f == Frame(id)
<1>1. r \in Seq(Pieces) /\ buffer \in Seq(Pieces) /\ Pipe \in Seq(Pieces) /\ Len(Pipe) \in Nat
  BY Basics
<1>2. /\ f \in Seq(Pieces) /\ Len(f) = 2
      /\ f[1] = [id |-> id, part |-> "head"] /\ f[2] = [id |-> id, part |-> "tail"]
  BY FrameIsPieces
<1>3. responses'[sock] = r \o f
  BY Basics DEF TypeOK
<1>. HIDE DEF f, r
<1>4. Pipe' = Pipe \o f
  <2>1. \A s, t, u \in Seq(Pieces) : (s \o t) \o u = s \o (t \o u)
    BY ConcatAssociative
  <2>2. (buffer \o r) \o f = buffer \o (r \o f)
    BY <1>1, <1>2, <2>1, Zenon
  <2>3. Pipe' = buffer' \o responses'[sock'] /\ Pipe = buffer \o r
    BY DEF Pipe, r
  <2>. QED BY <1>3, <2>2, <2>3
<1>5. /\ Pipe' \in Seq(Pieces) /\ Len(Pipe') = Len(Pipe) + 2
      /\ \A i \in 1 .. Len(Pipe) + 2 :
           Pipe'[i] = IF i <= Len(Pipe) THEN Pipe[i] ELSE f[i - Len(Pipe)]
  <2>1. /\ Pipe \o f \in Seq(Pieces) /\ Len(Pipe \o f) = Len(Pipe) + Len(f)
        /\ \A i \in 1 .. Len(Pipe) + Len(f) :
             (Pipe \o f)[i] = IF i <= Len(Pipe) THEN Pipe[i] ELSE f[i - Len(Pipe)]
    BY <1>1, <1>2, ConcatProperties, Zenon
  <2>. QED BY <1>2, <1>4, <2>1
<1>6. DOMAIN Pipe' = 1 .. Len(Pipe')
  BY <1>5, LenProperties
<1>7. \A i \in 1 .. Len(Pipe) : Pipe'[i] = Pipe[i]
  BY <1>1, <1>5
<1>8. Pipe'[Len(Pipe) + 1] = f[1] /\ Pipe'[Len(Pipe) + 2] = f[2]
  <2>1. /\ Len(Pipe) + 1 \in 1 .. Len(Pipe) + 2 /\ Len(Pipe) + 2 \in 1 .. Len(Pipe) + 2
        /\ (Len(Pipe) + 1) - Len(Pipe) = 1 /\ (Len(Pipe) + 2) - Len(Pipe) = 2
        /\ ~(Len(Pipe) + 1 <= Len(Pipe)) /\ ~(Len(Pipe) + 2 <= Len(Pipe))
    BY <1>1
  <2>. QED BY <1>5, <2>1
<1>. QED BY <1>2, <1>5, <1>6, <1>7, <1>8

\* In a pipe that is in line, the response to the first request is the one that follows.
LEMMA LineGrows ==
  ASSUME TypeOK, sock # 0, NEW id \in Calls, NEW m \in 0 .. Len(Pipe),
         responses' = [responses EXCEPT ![sock] = @ \o Frame(id)],
         UNCHANGED <<sock, nextId, waiting, buffer, result, oversized, undecodable>>,
         InLine(Due, m), id = Due + m
  PROVE  /\ InLine(Due, m + 1)' /\ m + 1 \in 0 .. Len(Pipe')
         /\ Due' = Due /\ Due \in Int /\ m \in Nat
<1>1. /\ Len(Pipe') = Len(Pipe) + 2 /\ Len(Pipe) \in Nat
      /\ \A i \in 1 .. Len(Pipe) : Pipe'[i] = Pipe[i]
      /\ Pipe'[Len(Pipe) + 1] = [id |-> id, part |-> "head"]
      /\ Pipe'[Len(Pipe) + 2] = [id |-> id, part |-> "tail"]
  BY PipeAfterFrame, Basics
<1>2. Len(Pipe) = 2 * m /\ m \in Nat
  BY <1>1 DEF InLine
<1>3. Due' = Due /\ Due \in Int
  BY Basics, GaveUpIsFinite DEF Due, GaveUp
<1>5. ASSUME NEW i \in 0 .. (m + 1) - 1
      PROVE  /\ Pipe'[2 * i + 1] = [id |-> Due + i, part |-> "head"]
             /\ Pipe'[2 * i + 2] = [id |-> Due + i, part |-> "tail"]
  <2>1. CASE i \in 0 .. m - 1
    <3>1. 2 * i + 1 \in 1 .. Len(Pipe) /\ 2 * i + 2 \in 1 .. Len(Pipe)
      BY <1>2, <2>1
    <3>. QED BY <1>1, <2>1, <3>1 DEF InLine
  <2>2. CASE i = m
    <3>1. 2 * i + 1 = Len(Pipe) + 1 /\ 2 * i + 2 = Len(Pipe) + 2
      BY <1>2, <2>2
    <3>. QED BY <1>1, <2>2, <3>1
  <2>3. i \in 0 .. m - 1 \/ i = m
    BY <1>2, <1>5
  <2>. QED BY <2>1, <2>2, <2>3
<1>6. Len(Pipe') = 2 * (m + 1)
  BY <1>1, <1>2
<1>7. InLine(Due, m + 1)'
  BY <1>3, <1>5, <1>6 DEF InLine
<1>8. m + 1 \in 0 .. Len(Pipe')
  BY <1>2, <1>6
<1>. QED BY <1>2, <1>3, <1>7, <1>8

\* The first request of the connection in use, and what follows it.
LEMMA FirstRequest ==
  ASSUME TypeOK, sock # 0, requests[sock] # <<>>
  PROVE  /\ requests[sock] \in Seq(Calls) /\ Len(requests[sock]) \in Nat /\ Len(requests[sock]) >= 1
         /\ DOMAIN requests[sock] = 1 .. Len(requests[sock]) /\ 1 \in DOMAIN requests[sock]
         /\ Head(requests[sock]) = requests[sock][1]
         /\ Head(requests[sock]) \in Calls /\ Head(requests[sock]) \in 0 .. MaxCalls
         /\ Len(Tail(requests[sock])) = Len(requests[sock]) - 1
         /\ DOMAIN Tail(requests[sock]) = 1 .. Len(requests[sock]) - 1
         /\ \A q \in 1 .. Len(requests[sock]) - 1 :
              Tail(requests[sock])[q] = requests[sock][q + 1] /\ q + 1 \in DOMAIN requests[sock]
<1>. DEFINE owed == requests[sock]
<1>1. owed \in Seq(Calls) /\ Len(owed) \in Nat /\ DOMAIN owed = 1 .. Len(owed) /\ owed # <<>>
  BY Basics
<1>. HIDE DEF owed
<1>2. Len(owed) >= 1
  BY <1>1, EmptySeq
<1>3. /\ Head(owed) \in Calls /\ Tail(owed) \in Seq(Calls) /\ Len(Tail(owed)) = Len(owed) - 1
      /\ \A q \in 1 .. Len(Tail(owed)) : Tail(owed)[q] = owed[q + 1]
  BY <1>1, HeadTailProperties
<1>4. Head(owed) = owed[1]
  BY <1>1
<1>5. Head(owed) \in 0 .. MaxCalls
  BY <1>3 DEF Calls
<1>6. DOMAIN Tail(owed) = 1 .. Len(owed) - 1
  BY <1>3, LenProperties
<1>7. \A q \in 1 .. Len(owed) - 1 : q + 1 \in DOMAIN owed
  BY <1>1
<1>8. 1 \in DOMAIN owed
  BY <1>1, <1>2
<1>. QED BY <1>1, <1>2, <1>3, <1>4, <1>5, <1>6, <1>7, <1>8 DEF owed

\* Where nothing the client knows of changes, neither do its results.
LEMMA ResultsStay ==
  ASSUME IInv, UNCHANGED <<client, opened, end>>
  PROVE  /\ GaveUp' = GaveUp /\ Taken' = Taken /\ Due' = Due /\ (Clean' <=> Clean)
         /\ Written' /\ OwnAnswer' /\ TakenInOrder' /\ BehindByTimeouts'
<1>0. /\ Written /\ OwnAnswer /\ TakenInOrder /\ BehindByTimeouts
      /\ UNCHANGED <<sock, nextId, waiting, sending, buffer, result, oversized, undecodable>>
  BY DEF IInv, client
<1>1. GaveUp' = GaveUp /\ Taken' = Taken /\ Due' = Due
  BY <1>0 DEF GaveUp, Taken, Due
<1>2. Clean' <=> Clean
  BY <1>1 DEF Clean
<1>. QED BY <1>0, <1>1, <1>2 DEF Written, OwnAnswer, TakenInOrder, BehindByTimeouts

\* The response to the first request goes in order, whatever is left of the other requests.
LEMMA OrderedAfterFrame ==
  ASSUME IInv, sock # 0, requests[sock] # <<>>,
         NEW rest \in {Tail(requests[sock]), <<>>},
         requests' = [requests EXCEPT ![sock] = rest],
         responses' = [responses EXCEPT ![sock] = @ \o Frame(Head(requests[sock]))],
         UNCHANGED <<client, opened, end>>
  PROVE  Ordered'
<1>. DEFINE owed == requests[sock]
            h == Head(requests[sock])
<1>0. TypeOK /\ Ordered
  BY DEF IInv
<1>1. sock # 0 /\ sock \in Connections
  BY <1>0, Basics
<1>2. UNCHANGED <<sock, nextId, waiting, sending, buffer, result, oversized, undecodable, opened, end>>
  BY DEF client
<1>3. /\ owed \in Seq(Calls) /\ Len(owed) \in Nat /\ Len(owed) >= 1
      /\ DOMAIN owed = 1 .. Len(owed) /\ 1 \in DOMAIN owed
      /\ h = owed[1] /\ h \in Calls
      /\ DOMAIN Tail(owed) = 1 .. Len(owed) - 1
      /\ \A q \in 1 .. Len(owed) - 1 : Tail(owed)[q] = owed[q + 1] /\ q + 1 \in DOMAIN owed
  BY <1>0, <1>1, FirstRequest
<1>4. requests'[sock] = rest /\ (rest = Tail(owed) \/ DOMAIN rest = {})
  BY <1>0, <1>1 DEF TypeOK
<1>5. GaveUp' = GaveUp /\ Taken' = Taken
  BY ResultsStay
<1>6. /\ Len(Pipe') = Len(Pipe) + 2 /\ DOMAIN Pipe' = 1 .. Len(Pipe) + 2
      /\ \A i \in 1 .. Len(Pipe) : Pipe'[i] = Pipe[i]
      /\ Pipe'[Len(Pipe) + 1] = [id |-> h, part |-> "head"]
      /\ Pipe'[Len(Pipe) + 2] = [id |-> h, part |-> "tail"]
      /\ Len(Pipe) \in Nat /\ DOMAIN Pipe = 1 .. Len(Pipe)
  BY <1>0, <1>1, <1>2, <1>3, PipeAfterFrame, Basics
<1>. HIDE DEF owed, h
<1>10. Ordered'
  <2>1. /\ \A i \in DOMAIN Pipe : /\ Pipe[i].id \in Nat /\ Weight(Pipe[i]) \in Nat
                                  /\ Weight(Pipe[i]) <= 2 * Pipe[i].id + 1
        /\ \A k \in Calls : result[k].id \in Nat
        /\ \A q \in DOMAIN owed : owed[q] \in Nat
        /\ Taken \subseteq Calls /\ h \in Nat /\ nextId \in Nat
    BY <1>0, <1>1, <1>3, IdsAreNumbers, Basics DEF owed
  <2>2. /\ \A i \in DOMAIN Pipe : Pipe[i].id < h
        /\ \A k \in Taken : result[k].id < h
        /\ h <= nextId
    BY <1>0, <1>1, <1>3 DEF Ordered, owed
  <2>3. ASSUME NEW i \in DOMAIN Pipe'
        PROVE  \/ i \in DOMAIN Pipe /\ Pipe'[i] = Pipe[i]
               \/ i = Len(Pipe) + 1 /\ Pipe'[i] = [id |-> h, part |-> "head"]
               \/ i = Len(Pipe) + 2 /\ Pipe'[i] = [id |-> h, part |-> "tail"]
    BY <1>6, <2>3
  <2>4. /\ Weight([id |-> h, part |-> "head"]) = 2 * h
        /\ Weight([id |-> h, part |-> "tail"]) = 2 * h + 1
    BY <2>1 DEF Weight
  <2>5. \A i \in DOMAIN Pipe : Weight(Pipe[i]) < 2 * h /\ Weight(Pipe[i]) < 2 * h + 1
    <3>1. \A w, x, y \in Nat : x < y /\ w <= 2 * x + 1 => w < 2 * y /\ w < 2 * y + 1
      OBVIOUS
    <3>. QED BY <2>1, <2>2, <3>1
  <2>6. ASSUME NEW i \in DOMAIN Pipe', NEW j \in DOMAIN Pipe', i < j
        PROVE  Weight(Pipe'[i]) < Weight(Pipe'[j])
    <3>1. CASE j \in DOMAIN Pipe
      <4>1. i \in DOMAIN Pipe
        BY <1>6, <2>6, <3>1
      <4>. QED BY <1>0, <1>6, <2>6, <3>1, <4>1 DEF Ordered
    <3>2. CASE j = Len(Pipe) + 1
      <4>1. i \in DOMAIN Pipe
        BY <1>6, <2>6, <3>2
      <4>. QED BY <1>6, <2>4, <2>5, <3>2, <4>1
    <3>3. CASE j = Len(Pipe) + 2
      <4>1. CASE i \in DOMAIN Pipe
        BY <1>6, <2>4, <2>5, <3>3, <4>1
      <4>2. CASE i = Len(Pipe) + 1
        <5>1. 2 * h < 2 * h + 1
          BY <2>1
        <5>. QED BY <1>6, <2>4, <3>3, <4>2, <5>1
      <4>3. i \in DOMAIN Pipe \/ i = Len(Pipe) + 1
        BY <1>6, <2>6, <3>3
      <4>. QED BY <4>1, <4>2, <4>3
    <3>. QED BY <2>3, <3>1, <3>2, <3>3
  <2>7. \A i \in DOMAIN Pipe' : Pipe'[i].id = h \/ \E j \in DOMAIN Pipe : Pipe'[i] = Pipe[j]
    BY <2>3
  <2>8. \A q \in DOMAIN requests'[sock] :
          \E r \in DOMAIN owed : /\ r = q + 1 /\ requests'[sock][q] = owed[r]
                                 /\ r \in Nat /\ q \in Nat /\ r # 1
    <3>1. CASE rest = Tail(owed)
      BY <1>3, <1>4, <3>1
    <3>2. CASE DOMAIN rest = {}
      BY <1>4, <3>2
    <3>. QED BY <1>4, <3>1, <3>2
  <2>9. \A r \in DOMAIN owed : r # 1 => h < owed[r]
    <3>1. \A r \in DOMAIN owed : r # 1 => 1 < r
      BY <1>3
    <3>. QED BY <1>0, <1>1, <1>3, <3>1 DEF Ordered, owed
  <2>10. /\ \A k \in Taken : \A i \in DOMAIN Pipe' : result[k].id < Pipe'[i].id
         /\ \A i \in DOMAIN Pipe' : Pipe'[i].id <= nextId
    BY <1>0, <2>2, <2>7 DEF Ordered
  <2>11. \A q \in DOMAIN requests'[sock] :
           /\ requests'[sock][q] <= nextId
           /\ \A i \in DOMAIN Pipe' : Pipe'[i].id < requests'[sock][q]
           /\ \A k \in Taken : result[k].id < requests'[sock][q]
    BY <1>0, <1>1, <2>7, <2>8, <2>9 DEF Ordered, owed
  <2>12. ASSUME NEW q \in DOMAIN requests'[sock], NEW r \in DOMAIN requests'[sock], q < r
         PROVE  requests'[sock][q] < requests'[sock][r]
    <3>1. PICK s \in DOMAIN owed : s = q + 1 /\ requests'[sock][q] = owed[s] /\ s \in Nat /\ q \in Nat
      BY <2>8
    <3>2. PICK t \in DOMAIN owed : t = r + 1 /\ requests'[sock][r] = owed[t] /\ t \in Nat /\ r \in Nat
      BY <2>8
    <3>3. s < t
      BY <2>12, <3>1, <3>2
    <3>. QED BY <1>0, <1>1, <3>1, <3>2, <3>3 DEF Ordered, owed
  <2>13. \A k \in Taken : result[k].id <= nextId
    BY <1>0 DEF Ordered
  <2>. QED BY <1>2, <1>5, <2>6, <2>10, <2>11, <2>12, <2>13 DEF Ordered, Weight
<1>. QED BY <1>10

\* A response moves the first call requested to the end of the pipe.
LEMMA FrameIsAnswered ==
  ASSUME IInv, NEW c \in Connections, handler[c], end[c] = "open", requests[c] # <<>>,
         requests' = [requests EXCEPT ![c] = Tail(@)],
         responses' = [responses EXCEPT ![c] = @ \o Frame(Head(requests[c]))],
         UNCHANGED <<client, opened, end, handler>>
  PROVE  /\ Quiet' /\ Written' /\ Lined' /\ Ordered'
         /\ OwnAnswer' /\ TakenInOrder' /\ BehindByTimeouts'
<1>0. TypeOK /\ Quiet /\ Written /\ Lined /\ Ordered /\ Tidy
  BY DEF IInv
<1>1. c = sock /\ sock # 0 /\ sock \in Connections /\ handler[sock] /\ end[sock] = "open"
  BY <1>0, OpenIsInUse
<1>. DEFINE owed == requests[sock]
            h == Head(requests[sock])
<1>2. /\ owed # <<>>
      /\ requests' = [requests EXCEPT ![sock] = Tail(@)]
      /\ responses' = [responses EXCEPT ![sock] = @ \o Frame(h)]
      /\ UNCHANGED <<sock, nextId, waiting, sending, buffer, result, oversized, undecodable, opened, end,
                     handler>>
      /\ UNCHANGED <<client, opened, end>>
  BY <1>1 DEF client
<1>3. /\ owed \in Seq(Calls) /\ Len(owed) \in Nat /\ Len(owed) >= 1
      /\ DOMAIN owed = 1 .. Len(owed) /\ 1 \in DOMAIN owed
      /\ h = owed[1] /\ h \in Calls /\ h \in 0 .. MaxCalls
      /\ Len(Tail(owed)) = Len(owed) - 1
      /\ DOMAIN Tail(owed) = 1 .. Len(owed) - 1
      /\ \A q \in 1 .. Len(owed) - 1 : Tail(owed)[q] = owed[q + 1] /\ q + 1 \in DOMAIN owed
  BY <1>0, <1>1, <1>2, FirstRequest
<1>4. /\ requests'[sock] = Tail(owed)
      /\ \A d \in Connections : d # sock => requests'[d] = requests[d] /\ responses'[d] = responses[d]
  BY <1>0, <1>1, <1>2 DEF TypeOK
<1>5. /\ GaveUp' = GaveUp /\ Taken' = Taken /\ Due' = Due /\ (Clean' <=> Clean)
      /\ Written' /\ OwnAnswer' /\ TakenInOrder' /\ BehindByTimeouts'
  BY <1>2, ResultsStay
<1>6. /\ Len(Pipe') = Len(Pipe) + 2 /\ DOMAIN Pipe' = 1 .. Len(Pipe) + 2
      /\ \A i \in 1 .. Len(Pipe) : Pipe'[i] = Pipe[i]
      /\ Pipe'[Len(Pipe) + 1] = [id |-> h, part |-> "head"]
      /\ Pipe'[Len(Pipe) + 2] = [id |-> h, part |-> "tail"]
      /\ Len(Pipe) \in Nat /\ DOMAIN Pipe = 1 .. Len(Pipe)
  BY <1>0, <1>1, <1>2, <1>3, PipeAfterFrame, Basics
<1>. HIDE DEF owed, h
<1>7. Quiet'
  <2>1. \A d \in Connections : d > opened => d # sock
    BY <1>0, <1>1, Basics DEF TypeOK
  <2>. QED BY <1>0, <1>2, <1>4, <2>1 DEF Quiet
<1>8. Ordered'
  BY <1>1, <1>2, OrderedAfterFrame DEF owed, h
<1>9. Lined'
  <2>1. GaveUp' = {} /\ (waiting' = 0 \/ sending') => buffer' = <<>>
    BY <1>0, <1>2, <1>5 DEF Lined
  <2>2. ASSUME Clean
        PROVE  \E m \in 0 .. Len(Pipe') :
                 /\ InLine(Due, m)'
                 /\ \A q \in DOMAIN requests'[sock'] : requests'[sock'][q] = Due' + m + q - 1
                 /\ Due' + m + Len(requests'[sock']) <= nextId' + 1
                 /\ handler'[sock'] => Due' + m + Len(requests'[sock']) = nextId' + 1
    <3>1. PICK m \in 0 .. Len(Pipe) : /\ InLine(Due, m)
                                      /\ \A q \in DOMAIN owed : owed[q] = Due + m + q - 1
                                      /\ Due + m + Len(owed) <= nextId + 1
                                      /\ handler[sock] => Due + m + Len(owed) = nextId + 1
      BY <1>0, <1>1, <2>2 DEF Lined, owed
    <3>2. Due \in Int /\ m \in Nat /\ nextId \in Nat
      BY <1>0, <1>6, <3>1, Basics, GaveUpIsFinite DEF Due
    <3>3. h = Due + m
      BY <1>3, <3>1, <3>2
    <3>5. InLine(Due, m + 1)' /\ m + 1 \in 0 .. Len(Pipe')
      BY <1>0, <1>1, <1>2, <1>3, <3>1, <3>3, LineGrows
    <3>6. ASSUME NEW q \in DOMAIN requests'[sock'] PROVE requests'[sock'][q] = Due' + (m + 1) + q - 1
      <4>1. q \in 1 .. Len(owed) - 1 /\ requests'[sock'][q] = owed[q + 1] /\ q + 1 \in DOMAIN owed
        BY <1>2, <1>3, <1>4, <3>6
      <4>2. owed[q + 1] = Due + m + (q + 1) - 1
        BY <3>1, <4>1
      <4>3. Due + m + (q + 1) - 1 = Due + (m + 1) + q - 1
        BY <1>3, <3>2, <4>1
      <4>. QED BY <1>5, <4>1, <4>2, <4>3
    <3>7. Due' + (m + 1) + Len(requests'[sock']) = Due + m + Len(owed)
      <4>1. Len(requests'[sock']) = Len(owed) - 1 /\ Due' = Due
        BY <1>2, <1>3, <1>4, <1>5
      <4>2. Len(owed) \in Nat
        BY <1>3
      <4>3. \A x \in Int : \A y, z \in Nat : x + (y + 1) + (z - 1) = x + y + z
        OBVIOUS
      <4>. QED BY <3>2, <4>1, <4>2, <4>3
    <3>. QED BY <1>2, <3>1, <3>5, <3>6, <3>7
  <2>. QED BY <1>5, <2>1, <2>2 DEF Lined
<1>. QED BY <1>5, <1>7, <1>8, <1>9

LEMMA AnswersPreserves ==
  ASSUME IInv, NEW c \in Connections, Answers(c)
  PROVE  /\ Quiet' /\ Written' /\ Lined' /\ Ordered' /\ Tidy'
         /\ OwnAnswer' /\ TakenInOrder' /\ BehindByTimeouts'
<1>1. /\ handler[c] /\ end[c] = "open" /\ requests[c] # <<>>
      /\ requests' = [requests EXCEPT ![c] = Tail(@)]
      /\ responses' = [responses EXCEPT ![c] = @ \o Frame(Head(requests[c]))]
      /\ UNCHANGED <<client, opened, end, handler, blamed, faulted>>
  BY DEF Answers, relay
<1>2. Tidy'
  <2>1. \A d \in Connections : end[d] # "open" => requests'[d] = requests[d]
    BY <1>1 DEF IInv, TypeOK
  <2>2. GaveUp' = GaveUp
    BY <1>1 DEF client, GaveUp
  <2>. QED BY <1>1, <2>1, <2>2 DEF IInv, Tidy, client
<1>. QED BY <1>1, <1>2, FrameIsAnswered

\* The refusal of a frame that does not decode is a response like another, and a violation.
LEMMA RefusesFramePreserves ==
  ASSUME IInv, NEW c \in Connections, RefusesFrame(c)
  PROVE  /\ Quiet' /\ Written' /\ Lined' /\ Ordered' /\ Tidy'
         /\ OwnAnswer' /\ TakenInOrder' /\ BehindByTimeouts'
<1>1. /\ handler[c] /\ end[c] = "open" /\ requests[c] # <<>> /\ undecodable # {}
      /\ requests' = [requests EXCEPT ![c] = Tail(@)]
      /\ responses' = [responses EXCEPT ![c] = @ \o Frame(Head(requests[c]))]
      /\ UNCHANGED <<client, opened, end, handler>>
  BY DEF RefusesFrame
<1>2. Tidy'
  BY <1>1 DEF Tidy, client
<1>. QED BY <1>1, <1>2, FrameIsAnswered

\* The refusal of a frame that is too long is the last thing the client reads there.
LEMMA RefusesPreserves ==
  ASSUME IInv, NEW c \in Connections, Refuses(c)
  PROVE  /\ Quiet' /\ Written' /\ Lined' /\ Ordered' /\ Tidy'
         /\ OwnAnswer' /\ TakenInOrder' /\ BehindByTimeouts'
<1>0. TypeOK /\ Quiet /\ Written /\ Lined /\ Ordered /\ Tidy
  BY DEF IInv
<1>1. c = sock /\ sock # 0 /\ sock \in Connections /\ handler[sock] /\ end[sock] = "open"
  BY <1>0, OpenIsInUse DEF Refuses
<1>. DEFINE owed == requests[sock]
            h == Head(requests[sock])
<1>2. /\ owed # <<>> /\ h \in oversized
      /\ requests' = [requests EXCEPT ![sock] = <<>>]
      /\ responses' = [responses EXCEPT ![sock] = @ \o Frame(h)]
      /\ handler' = [handler EXCEPT ![sock] = FALSE]
      /\ UNCHANGED <<sock, nextId, waiting, sending, buffer, result, oversized, undecodable, opened, end, faulted>>
      /\ UNCHANGED <<client, opened, end>>
  BY <1>1 DEF Refuses, HandlerEnds, client
<1>3. /\ Len(owed) \in Nat /\ Len(owed) >= 1 /\ 1 \in DOMAIN owed
      /\ h = owed[1] /\ h \in Calls
  BY <1>0, <1>1, <1>2, FirstRequest, Basics
<1>4. /\ requests'[sock] = <<>> /\ ~handler'[sock]
      /\ \A d \in Connections :
           d # sock => /\ requests'[d] = requests[d] /\ responses'[d] = responses[d]
                       /\ handler'[d] = handler[d]
  BY <1>0, <1>1, <1>2 DEF TypeOK
<1>5. /\ GaveUp' = GaveUp /\ Taken' = Taken /\ Due' = Due /\ (Clean' <=> Clean)
      /\ Written' /\ OwnAnswer' /\ TakenInOrder' /\ BehindByTimeouts'
  BY <1>2, ResultsStay
<1>6. /\ Len(Pipe') = Len(Pipe) + 2 /\ DOMAIN Pipe' = 1 .. Len(Pipe) + 2
      /\ \A i \in 1 .. Len(Pipe) : Pipe'[i] = Pipe[i]
      /\ Pipe'[Len(Pipe) + 1] = [id |-> h, part |-> "head"]
      /\ Pipe'[Len(Pipe) + 2] = [id |-> h, part |-> "tail"]
      /\ Len(Pipe) \in Nat /\ DOMAIN Pipe = 1 .. Len(Pipe)
  BY <1>0, <1>1, <1>2, <1>3, PipeAfterFrame, Basics
<1>. HIDE DEF owed, h
<1>7. Quiet'
  <2>1. \A d \in Connections : d > opened => d # sock
    BY <1>0, <1>1, Basics DEF TypeOK
  <2>. QED BY <1>0, <1>2, <1>4, <2>1 DEF Quiet
<1>8. Tidy'
  BY <1>2 DEF Tidy
<1>9. Lined'
  <2>1. GaveUp' = {} /\ (waiting' = 0 \/ sending') => buffer' = <<>>
    BY <1>0, <1>2, <1>5 DEF Lined
  <2>2. DOMAIN requests'[sock'] = {} /\ Len(requests'[sock']) = 0 /\ ~handler'[sock']
    BY <1>2, <1>4
  <2>3. ASSUME Clean
        PROVE  \E m \in 0 .. Len(Pipe') : InLine(Due, m)' /\ Due' + m + 0 <= nextId' + 1
    <3>1. PICK m \in 0 .. Len(Pipe) : /\ InLine(Due, m)
                                      /\ \A q \in DOMAIN owed : owed[q] = Due + m + q - 1
                                      /\ Due + m + Len(owed) <= nextId + 1
      BY <1>0, <1>1, <2>3 DEF Lined, owed
    <3>2. Due \in Int /\ m \in Nat /\ nextId \in Nat
      BY <1>0, <1>6, <3>1, Basics, GaveUpIsFinite DEF Due
    <3>3. h = Due + m
      BY <1>3, <3>1, <3>2
    <3>5. InLine(Due, m + 1)' /\ m + 1 \in 0 .. Len(Pipe')
      BY <1>0, <1>1, <1>2, <1>3, <3>1, <3>3, LineGrows
    <3>6. Due' + (m + 1) + 0 <= nextId' + 1
      <4>1. Due' = Due /\ nextId' = nextId /\ Due + m + Len(owed) <= nextId + 1
        BY <1>2, <1>5, <3>1
      <4>2. Len(owed) \in Nat /\ Len(owed) >= 1
        BY <1>3
      <4>3. \A x \in Int : \A y, z, w \in Nat :
              x + y + z <= w + 1 /\ z >= 1 => x + (y + 1) + 0 <= w + 1
        OBVIOUS
      <4>. QED BY <3>2, <4>1, <4>2, <4>3
    <3>. QED BY <3>5, <3>6
  <2>. QED BY <1>5, <2>1, <2>2, <2>3 DEF Lined
<1>10. Ordered'
  BY <1>1, <1>2, OrderedAfterFrame DEF owed, h
<1>. QED BY <1>5, <1>7, <1>8, <1>9, <1>10

\* A handler that ends without an answer owes no more.
LEMMA FaultsPreserves ==
  ASSUME IInv, NEW c \in Connections, Faults(c)
  PROVE  /\ Quiet' /\ Written' /\ Lined' /\ Ordered' /\ Tidy'
         /\ OwnAnswer' /\ TakenInOrder' /\ BehindByTimeouts'
<1>0. TypeOK /\ Quiet /\ Written /\ Lined /\ Ordered /\ Tidy
  BY DEF IInv
<1>1. c = sock /\ sock # 0 /\ sock \in Connections /\ handler[sock] /\ end[sock] = "open"
  BY <1>0, OpenIsInUse DEF Faults
<1>2. /\ requests' = [requests EXCEPT ![sock] = <<>>]
      /\ handler' = [handler EXCEPT ![sock] = FALSE]
      /\ faulted' = TRUE
      /\ UNCHANGED <<sock, nextId, waiting, sending, buffer, result, oversized, undecodable, opened, end, responses>>
      /\ UNCHANGED <<client, opened, end>>
  BY <1>1 DEF Faults, HandlerEnds, client
<1>3. /\ requests'[sock] = <<>> /\ ~handler'[sock]
      /\ \A d \in Connections :
           d # sock => requests'[d] = requests[d] /\ handler'[d] = handler[d]
  BY <1>0, <1>1, <1>2 DEF TypeOK
<1>4. /\ GaveUp' = GaveUp /\ Taken' = Taken /\ Due' = Due /\ (Clean' <=> Clean)
      /\ Written' /\ OwnAnswer' /\ TakenInOrder' /\ BehindByTimeouts'
  BY <1>2, ResultsStay
<1>5. Pipe' = Pipe
  BY <1>2 DEF Pipe
<1>6. Quiet'
  <2>1. \A d \in Connections : d > opened => d # sock
    BY <1>0, <1>1, Basics DEF TypeOK
  <2>. QED BY <1>0, <1>2, <1>3, <2>1 DEF Quiet
<1>7. Tidy'
  BY <1>2 DEF Tidy
<1>8. DOMAIN requests'[sock'] = {} /\ Len(requests'[sock']) = 0 /\ ~handler'[sock']
  BY <1>2, <1>3
<1>9. Lined'
  <2>1. GaveUp' = {} /\ (waiting' = 0 \/ sending') => buffer' = <<>>
    BY <1>0, <1>2, <1>4 DEF Lined
  <2>2. ASSUME Clean
        PROVE  \E m \in 0 .. Len(Pipe') : InLine(Due, m)' /\ Due' + m + 0 <= nextId' + 1
    <3>1. PICK m \in 0 .. Len(Pipe) : InLine(Due, m) /\ Due + m + Len(requests[sock]) <= nextId + 1
      BY <1>0, <1>1, <2>2 DEF Lined
    <3>2. InLine(Due, m)'
      BY <1>2, <1>4, <1>5, <3>1 DEF InLine
    <3>3. Due \in Int /\ m \in Nat /\ nextId \in Nat /\ Len(requests[sock]) \in Nat
      BY <1>0, <1>1, <3>1, Basics, GaveUpIsFinite DEF Due
    <3>4. \A x \in Int : \A y, z, w \in Nat : x + y + z <= w + 1 => x + y + 0 <= w + 1
      OBVIOUS
    <3>5. Due + m + 0 <= nextId + 1
      BY <3>1, <3>3, <3>4
    <3>. QED BY <1>2, <1>4, <1>5, <3>2, <3>5
  <2>. QED BY <1>4, <1>8, <2>1, <2>2 DEF Lined
<1>10. Ordered'
  BY <1>0, <1>2, <1>4, <1>5, <1>8 DEF Ordered, Weight
<1>. QED BY <1>4, <1>6, <1>7, <1>9, <1>10

\* The handler of a connection the client has closed has nothing to do with the pipe.
LEMMA PeerIsGonePreserves ==
  ASSUME IInv, NEW c \in Connections, PeerIsGone(c)
  PROVE  /\ Quiet' /\ Written' /\ Lined' /\ Ordered' /\ Tidy'
         /\ OwnAnswer' /\ TakenInOrder' /\ BehindByTimeouts'
<1>0. TypeOK /\ Quiet /\ Written /\ Lined /\ Ordered /\ Tidy
  BY DEF IInv
<1>1. /\ handler[c] /\ end[c] # "open"
      /\ requests' = [requests EXCEPT ![c] = <<>>]
      /\ handler' = [handler EXCEPT ![c] = FALSE]
      /\ ~(end[c] = "reset" \/ requests[c] # <<>>) => blamed' = blamed
      /\ UNCHANGED <<sock, nextId, waiting, sending, buffer, result, oversized, undecodable, opened, end, responses,
                     faulted>>
      /\ UNCHANGED <<client, opened, end>>
  BY DEF PeerIsGone, HandlerEnds, client
<1>2. sock # 0 => sock # c
  BY <1>0, <1>1 DEF TypeOK
<1>3. /\ requests'[c] = <<>> /\ ~handler'[c]
      /\ \A d \in Connections : d # c => requests'[d] = requests[d] /\ handler'[d] = handler[d]
  BY <1>0, <1>1 DEF TypeOK
<1>4. /\ GaveUp' = GaveUp /\ Taken' = Taken /\ Due' = Due /\ (Clean' <=> Clean)
      /\ Written' /\ OwnAnswer' /\ TakenInOrder' /\ BehindByTimeouts'
  BY <1>1, ResultsStay
<1>5. Pipe' = Pipe /\ (sock # 0 => requests'[sock] = requests[sock] /\ handler'[sock] = handler[sock])
  BY <1>0, <1>1, <1>2, <1>3, Basics DEF Pipe
<1>6. Quiet'
  BY <1>0, <1>1, <1>3 DEF Quiet
<1>7. Tidy'
  <2>1. SUFFICES ASSUME GaveUp = {}, oversized = {}, undecodable = {}, ~faulted
                 PROVE  /\ ~blamed'
                        /\ \A d \in Connections :
                             handler'[d] /\ end[d] # "open" => end[d] = "closed" /\ requests'[d] = <<>>
    BY <1>1, <1>4 DEF Tidy
  <2>2. ~blamed /\ end[c] = "closed" /\ requests[c] = <<>>
    BY <1>0, <1>1, <2>1 DEF Tidy
  <2>. QED BY <1>0, <1>1, <1>3, <2>1, <2>2 DEF Tidy
<1>8. Ordered'
  BY <1>0, <1>1, <1>4, <1>5 DEF Ordered, Weight
<1>9. Lined'
  <2>1. \A m \in 0 .. Len(Pipe) : InLine(Due, m) => InLine(Due, m)'
    BY <1>1, <1>4, <1>5 DEF InLine
  <2>. QED BY <1>0, <1>1, <1>4, <1>5, <2>1 DEF Lined
<1>. QED BY <1>4, <1>6, <1>7, <1>8, <1>9

-----------------------------------------------------------------------------
(* The ends of a call without a response. *)

LEMMA SendFailsPreserves ==
  ASSUME IInv, SendFails
  PROVE  /\ Quiet' /\ Written' /\ Lined' /\ Ordered' /\ Tidy'
         /\ OwnAnswer' /\ TakenInOrder' /\ BehindByTimeouts'
<1>1. /\ sock # 0 /\ waiting = 0 /\ ~handler[sock] /\ nextId' = nextId + 1
      /\ nextId + 1 \in Calls
      /\ Returns(nextId + 1, "closed", 0)
      /\ UNCHANGED <<sock, buffer, oversized, undecodable, wire, relay>>
  BY Basics DEF SendFails, IInv, Calls
<1>2. GaveUp = {} => buffer = <<>>
  BY <1>1 DEF IInv, Lined
<1>. QED BY <1>1, <1>2, EndsEmptyHanded

\* The stream ends where the pipe is empty, unless a line was cut when a call was given up.
LEMMA EndOfStreamPreserves ==
  ASSUME IInv, EndOfStream
  PROVE  /\ Quiet' /\ Written' /\ Lined' /\ Ordered' /\ Tidy'
         /\ OwnAnswer' /\ TakenInOrder' /\ BehindByTimeouts'
<1>0. TypeOK /\ Lined
  BY DEF IInv
<1>1. /\ sock # 0 /\ waiting = nextId /\ nextId \in Calls /\ waiting # 0
      /\ ~handler[sock] /\ nextId' = nextId
      /\ ~HasLine /\ responses[sock] = <<>>
      /\ Returns(nextId, "closed", 0)
      /\ UNCHANGED <<sock, buffer, oversized, undecodable, wire, relay>>
  BY <1>0, Basics DEF EndOfStream, TypeOK, Calls
<1>2. ASSUME GaveUp = {} PROVE buffer = <<>>
  <2>1. PICK m \in 0 .. Len(Pipe) : InLine(Due, m)
    BY <1>0, <1>1, <1>2 DEF Lined, Clean
  <2>2. /\ Len(Pipe) = Len(buffer) /\ Len(Pipe) \in Nat /\ Len(Pipe) = 2 * m /\ m \in Nat
        /\ buffer \in Seq(Pieces) /\ DOMAIN buffer = 1 .. Len(buffer)
        /\ \A i \in 1 .. Len(buffer) : Pipe[i] = buffer[i]
    <3>1. Len(responses[sock]) = 0 /\ sock # 0
      BY <1>1
    <3>2. /\ Len(Pipe) = Len(buffer) + Len(responses[sock]) /\ Len(buffer) \in Nat
          /\ \A i \in 1 .. Len(buffer) : Pipe[i] = buffer[i]
      BY <1>0, <3>1, BufferIsFirst
    <3>3. buffer \in Seq(Pieces) /\ Len(Pipe) \in Nat
      BY <1>0, Basics
    <3>4. DOMAIN buffer = 1 .. Len(buffer)
      BY <3>3, LenProperties
    <3>5. Len(Pipe) = 2 * m /\ m \in Nat
      BY <2>1, <3>3 DEF InLine
    <3>6. Len(Pipe) = Len(buffer)
      BY <3>1, <3>2
    <3>. QED BY <3>2, <3>3, <3>4, <3>5, <3>6
  <2>3. m = 0
    <3>1. SUFFICES ASSUME m # 0 PROVE FALSE
      OBVIOUS
    <3>2. 0 \in 0 .. m - 1 /\ 2 \in 1 .. Len(buffer)
      BY <2>2, <3>1
    <3>3. Pipe[2 * 0 + 2] = [id |-> Due + 0, part |-> "tail"]
      BY <2>1, <3>2, Zenon DEF InLine
    <3>4. Pipe[2] = [id |-> Due + 0, part |-> "tail"]
      BY <3>3
    <3>5. buffer[2].part = "tail"
      BY <2>2, <3>2, <3>4
    <3>. QED BY <1>1, <2>2, <3>2, <3>5 DEF HasLine
  <2>. QED BY <2>2, <2>3, EmptySeq
<1>. QED BY <1>1, <1>2, EndsEmptyHanded

LEMMA SendBreaksPreserves ==
  ASSUME IInv, SendBreaks
  PROVE  /\ Quiet' /\ Written' /\ Lined' /\ Ordered' /\ Tidy'
         /\ OwnAnswer' /\ TakenInOrder' /\ BehindByTimeouts'
<1>0. TypeOK /\ Lined
  BY DEF IInv
<1>1. /\ sock # 0 /\ waiting = nextId /\ nextId \in Calls /\ ~handler[sock] /\ nextId' = nextId
      /\ Returns(nextId, "closed", 0)
      /\ UNCHANGED <<sock, buffer, oversized, undecodable, wire, relay>>
  BY <1>0, Basics DEF SendBreaks, TypeOK, Calls
<1>2. GaveUp = {} => buffer = <<>>
  BY <1>0 DEF Lined, SendBreaks
<1>. QED BY <1>1, <1>2, EndsEmptyHanded

LEMMA TimesOutPreserves ==
  ASSUME IInv, TimesOut
  PROVE  /\ Quiet' /\ Written' /\ Lined' /\ Ordered' /\ Tidy'
         /\ OwnAnswer' /\ TakenInOrder' /\ BehindByTimeouts'
<1>1. /\ sock # 0 /\ waiting = nextId /\ nextId \in Calls /\ nextId' = nextId
      /\ Returns(nextId, "timeout", 0)
      /\ UNCHANGED <<sock, buffer, oversized, undecodable, wire, relay>>
  BY Basics DEF TimesOut, IInv, TypeOK, Calls
<1>. QED BY <1>1, EndsEmptyHanded

-----------------------------------------------------------------------------
(* The invariant and what it says. *)

LEMMA InvariantHoldsAtFirst == Init => IInv
<1>. SUFFICES ASSUME Init PROVE IInv
  OBVIOUS
<1>0. TypeOK
  BY TypesHoldAtFirst
<1>1. /\ \A k \in Calls : result[k].how = "none"
      /\ sock = 0 /\ waiting = 0 /\ nextId = 0 /\ opened = 0 /\ ~blamed
      /\ buffer = <<>>
      /\ \A c \in Connections :
           end[c] = "open" /\ ~handler[c] /\ requests[c] = <<>> /\ responses[c] = <<>>
  BY DEF Init
<1>2. GaveUp = {} /\ Taken = {}
  BY <1>1 DEF GaveUp, Taken
<1>3. \A c \in Connections : ~(c <= opened)
  BY <1>1, Basics DEF Connections
<1>4. Quiet
  BY <1>1, <1>3 DEF Quiet
<1>5. Written /\ Lined /\ Tidy
  BY <1>1, <1>2 DEF Written, Lined, Tidy
<1>6. Ordered
  <2>1. Pipe = <<>> /\ DOMAIN Pipe = {}
    BY <1>1 DEF Pipe
  <2>. QED BY <1>1, <1>2, <2>1 DEF Ordered
<1>7. OwnAnswer /\ TakenInOrder /\ BehindByTimeouts
  BY <1>1 DEF OwnAnswer, TakenInOrder, BehindByTimeouts
<1>. QED BY <1>0, <1>4, <1>5, <1>6, <1>7 DEF IInv

LEMMA InvariantIsInductive == IInv /\ [Next]_vars => IInv'
<1>. SUFFICES ASSUME IInv, [Next]_vars PROVE IInv'
  OBVIOUS
<1>. DEFINE Rest == /\ Quiet /\ Written /\ Lined /\ Ordered /\ Tidy
                    /\ OwnAnswer /\ TakenInOrder /\ BehindByTimeouts
<1>0. TypeOK'
  BY TypesArePreserved DEF IInv
<1>1. ASSUME Connect PROVE Rest'
  BY <1>1, ConnectPreserves
<1>2. ASSUME SendFails PROVE Rest'
  BY <1>2, SendFailsPreserves
<1>3. ASSUME Close PROVE Rest'
  BY <1>3, ClosePreserves
<1>4. ASSUME TimesOut PROVE Rest'
  BY <1>4, TimesOutPreserves
<1>5. ASSUME NEW kind \in Kinds, Call(kind) PROVE Rest'
  BY <1>5, CallPreserves
<1>6. ASSUME NEW n \in 1 .. 2 * MaxCalls, Receive(n) PROVE Rest'
  BY <1>6, ReceivePreserves
<1>7. ASSUME TakeLine PROVE Rest'
  BY <1>7, TakeLinePreserves
<1>8. ASSUME EndOfStream PROVE Rest'
  BY <1>8, EndOfStreamPreserves
<1>9. ASSUME Sent PROVE Rest'
  BY <1>9, SentPreserves
<1>10. ASSUME SendBreaks PROVE Rest'
  BY <1>10, SendBreaksPreserves
<1>11. ASSUME NEW c \in Connections, Answers(c) PROVE Rest'
  BY <1>11, AnswersPreserves
<1>12. ASSUME NEW c \in Connections, Refuses(c) PROVE Rest'
  BY <1>12, RefusesPreserves
<1>13. ASSUME NEW c \in Connections, Faults(c) PROVE Rest'
  BY <1>13, FaultsPreserves
<1>14. ASSUME NEW c \in Connections, PeerIsGone(c) PROVE Rest'
  BY <1>14, PeerIsGonePreserves
<1>15. ASSUME NEW c \in Connections, RefusesFrame(c) PROVE Rest'
  BY <1>15, RefusesFramePreserves
<1>16. ASSUME UNCHANGED vars PROVE Rest'
  <2>1. Pipe' = Pipe /\ GaveUp' = GaveUp /\ Taken' = Taken /\ Due' = Due
    BY <1>16 DEF vars, client, wire, relay, Pipe, GaveUp, Taken, Due
  <2>2. \A m \in 0 .. Len(Pipe) : InLine(Due, m)' <=> InLine(Due, m)
    BY <1>16, <2>1 DEF vars, client, InLine
  <2>3. Lined'
    BY <1>16, <2>1, <2>2 DEF vars, client, wire, relay, IInv, Lined, Clean
  <2>4. Quiet' /\ Written' /\ Tidy' /\ OwnAnswer' /\ TakenInOrder' /\ BehindByTimeouts'
    BY <1>16, <2>1
       DEF vars, client, wire, relay, IInv, Quiet, Written, Tidy, OwnAnswer, TakenInOrder,
           BehindByTimeouts
  <2>5. Ordered'
    BY <1>16, <2>1 DEF vars, client, wire, relay, IInv, Ordered, Weight
  <2>. QED BY <2>3, <2>4, <2>5
<1>17. Rest'
  BY <1>1, <1>2, <1>3, <1>4, <1>5, <1>6, <1>7, <1>8, <1>9, <1>10, <1>11, <1>12, <1>13,
     <1>14, <1>15, <1>16 DEF Next, Reading, Handling
<1>. QED BY <1>0, <1>17 DEF IInv

\* The pipe stands as described in every state the client and the relay reach.
THEOREM InvariantAlwaysHolds == Spec => []IInv
BY InvariantHoldsAtFirst, InvariantIsInductive, PTL DEF Spec

\* The client's buffer, its results and the sockets always have their types, and a
\* connection in use is one the client has not closed.
THEOREM TypeCorrectness == Spec => []TypeOK
<1>1. IInv => TypeOK
  BY DEF IInv
<1>. QED BY <1>1, InvariantAlwaysHolds, PTL

\* Who never gives up on a call gets, in every call, the response to its own frame or its
\* refusal, though _call compares no identifiers.
THEOREM OwnAnswerHolds == Spec => []OwnAnswer
<1>1. IInv => OwnAnswer
  BY DEF IInv
<1>. QED BY <1>1, InvariantAlwaysHolds, PTL

\* However calls are given up, retried and connected anew, responses are taken in the
\* order of the calls they answer, none of them twice.
THEOREM TakenInOrderHolds == Spec => []TakenInOrder
<1>1. IInv => TakenInOrder
  BY DEF IInv
<1>. QED BY <1>1, InvariantAlwaysHolds, PTL

\* On its first connection a client is behind by exactly the calls it gave up.
THEOREM BehindByTimeoutsHolds == Spec => []BehindByTimeouts
<1>1. IInv => BehindByTimeouts
  BY DEF IInv
<1>. QED BY <1>1, InvariantAlwaysHolds, PTL

\* The SDK brings a violation on the submission only after a call given up, a frame that
\* is too long, one that does not decode or one that faults.
THEOREM BlamelessHolds == Spec => []Blameless
<1>1. IInv => Blameless
  BY DEF IInv, Tidy, TypeOK, Blameless
<1>. QED BY <1>1, InvariantAlwaysHolds, PTL
=============================================================================
