----------------------------- MODULE MinerClient -----------------------------
(***************************************************************************)
(* EnclaveClient of the miner SDK (miner_sdk/client.py) at one end of a    *)
(* Unix socket, the relay's connection handler (relay/server.py) at the    *)
(* other.                                                                  *)
(*                                                                         *)
(* The client makes one call at a time.  A call sends one frame and reads  *)
(* until the buffer holds a line; it gives up when nothing arrives for the *)
(* socket's timeout.  What it gave up on still arrives: it stays in the    *)
(* kernel, or in `_buffer`, for whoever reads next.  The agent may catch   *)
(* any of the exceptions and call again, or close and call again, which    *)
(* connects anew.                                                          *)
(*                                                                         *)
(* What a response says is left out: it is known by the request it         *)
(* answers, which the model keeps for the properties and no action looks   *)
(* at (on the wire a refusal has identifier 0, and the client compares     *)
(* none).  A call counts from its frame on: one whose parameters do not    *)
(* encode raises before anything is sent and only skips an identifier.     *)
(***************************************************************************)
EXTENDS Naturals, Sequences, FiniteSets, SequencesExt

CONSTANTS
  MaxCalls,        \* bounds the calls
  MaxConnections   \* bounds the connections

ASSUME ClientAssumption == MaxCalls \in Nat /\ MaxConnections \in Nat

Calls == 1 .. MaxCalls
Connections == 1 .. MaxConnections

\* What the relay makes of a call's frame: it decodes; it exceeds the protocol's limit; or
\* its size is allowed and it does not decode (a NaN, which json.dumps writes, an object
\* nested too deep or a key that is too long).
Kinds == {"plain", "too long", "undecodable"}

\* A response crosses the socket in two pieces, the second ends its line: a read may
\* return any number of pieces.
Pieces == [id : Calls, part : {"head", "tail"}]
Frame(id) == <<[id |-> id, part |-> "head"], [id |-> id, part |-> "tail"]>>

VARIABLES
  \* the client
  sock,       \* the connection in _sock, 0 for None
  nextId,     \* _next_id
  waiting,    \* the call under way, 0 outside of one
  sending,    \* its frame is not all sent: it is more than the socket buffers hold
  buffer,     \* _buffer, in pieces
  result,     \* per call: how it ended, and whose response it was given
  oversized,  \* the calls whose frame is too long
  undecodable, \* the calls whose frame does not decode
  \* the sockets
  opened,     \* connections so far
  end,        \* per connection, the client's end: open, closed, or closed with
              \* a response unread, which resets the connection
  requests,   \* per connection: frames the relay has not read
  responses,  \* per connection: pieces the client has not read
  \* the relay
  handler,    \* per connection: its handler runs
  blamed,     \* a violation is noted against the episode
  faulted     \* a handler ended by an exception nobody caught

client == <<sock, nextId, waiting, sending, buffer, result, oversized, undecodable>>
wire == <<opened, end, requests, responses>>
relay == <<handler, blamed, faulted>>
vars == <<client, wire, relay>>

Endings == {"none", "answer", "garbled", "timeout", "closed"}

TypeOK ==
  /\ sock \in 0 .. opened
  /\ nextId \in 0 .. MaxCalls
  /\ waiting \in {0, nextId}
  /\ sending \in BOOLEAN
  /\ buffer \in Seq(Pieces)
  /\ result \in [Calls -> [how : Endings, id : 0 .. MaxCalls]]
  /\ oversized \subseteq Calls /\ undecodable \subseteq Calls
  /\ opened \in 0 .. MaxConnections
  /\ end \in [Connections -> {"open", "closed", "reset"}]
  /\ requests \in [Connections -> Seq(Calls)]
  /\ responses \in [Connections -> Seq(Pieces)]
  /\ handler \in [Connections -> BOOLEAN]
  /\ blamed \in BOOLEAN
  /\ faulted \in BOOLEAN
  /\ sock # 0 => end[sock] = "open"
  /\ waiting # 0 => sock # 0
  /\ sending => waiting \in oversized

Init ==
  /\ sock = 0
  /\ nextId = 0
  /\ waiting = 0
  /\ sending = FALSE
  /\ buffer = <<>>
  /\ result = [k \in Calls |-> [how |-> "none", id |-> 0]]
  /\ oversized = {} /\ undecodable = {}
  /\ opened = 0
  /\ end = [c \in Connections |-> "open"]
  /\ requests = [c \in Connections |-> <<>>]
  /\ responses = [c \in Connections |-> <<>>]
  /\ handler = [c \in Connections |-> FALSE]
  /\ blamed = FALSE
  /\ faulted = FALSE

-----------------------------------------------------------------------------
(* The client. *)

Returns(call, how, id) ==
  /\ waiting' = 0
  /\ sending' = FALSE
  /\ result' = [result EXCEPT ![call] = [how |-> how, id |-> id]]

\* connect, outside of a call or at the head of _call.
Connect ==
  /\ sock = 0
  /\ waiting = 0
  /\ opened < MaxConnections
  /\ opened' = opened + 1
  /\ sock' = opened + 1
  /\ handler' = [handler EXCEPT ![opened + 1] = TRUE]
  /\ UNCHANGED <<nextId, waiting, sending, buffer, result, oversized, undecodable, end, requests,
                 responses, blamed, faulted>>

\* _call sends its frame; one that is too long may take a while.
Call(kind) ==
  /\ sock # 0
  /\ waiting = 0
  /\ nextId < MaxCalls
  /\ handler[sock]
  /\ nextId' = nextId + 1
  /\ waiting' = nextId + 1
  /\ sending' = (kind = "too long")
  /\ oversized' = IF kind = "too long" THEN oversized \cup {nextId + 1} ELSE oversized
  /\ undecodable' = IF kind = "undecodable" THEN undecodable \cup {nextId + 1} ELSE undecodable
  /\ requests' = [requests EXCEPT ![sock] = Append(@, nextId + 1)]
  /\ UNCHANGED <<sock, buffer, result, opened, end, responses, relay>>

\* The relay has closed the connection: sendall raises.  _sock stays as it is.
SendFails ==
  /\ sock # 0
  /\ waiting = 0
  /\ nextId < MaxCalls
  /\ ~handler[sock]
  /\ nextId' = nextId + 1
  /\ Returns(nextId + 1, "closed", 0)
  /\ UNCHANGED <<sock, buffer, oversized, undecodable, wire, relay>>

HasLine == \E i \in DOMAIN buffer : buffer[i].part = "tail"

\* recv: the pieces that are there, or the first few of them.
Receive(n) ==
  /\ waiting # 0 /\ ~sending
  /\ ~HasLine
  /\ n <= Len(responses[sock])
  /\ buffer' = buffer \o SubSeq(responses[sock], 1, n)
  /\ responses' = [responses EXCEPT ![sock] = SubSeq(@, n + 1, Len(@))]
  /\ UNCHANGED <<sock, nextId, waiting, sending, result, oversized, undecodable, opened, end, requests,
                 relay>>

\* Where the first line of the buffer ends.
LineEnd == CHOOSE i \in DOMAIN buffer :
             /\ buffer[i].part = "tail"
             /\ \A j \in 1 .. i - 1 : buffer[j].part # "tail"

Parse(line) ==
  IF line = Frame(line[1].id)
    THEN [how |-> "answer", id |-> line[1].id]
    ELSE [how |-> "garbled", id |-> 0]

TakeLineAndKeepIt ==
  /\ waiting # 0 /\ ~sending
  /\ HasLine
  /\ LET parsed == Parse(SubSeq(buffer, 1, LineEnd))
     IN Returns(nextId, parsed.how, parsed.id)
  /\ buffer' = buffer
  /\ UNCHANGED <<sock, nextId, oversized, undecodable, wire, relay>>

TakeLineAndDropTheRest ==
  /\ waiting # 0 /\ ~sending
  /\ HasLine
  /\ LET parsed == Parse(SubSeq(buffer, 1, LineEnd))
     IN Returns(nextId, parsed.how, parsed.id)
  /\ buffer' = <<>>
  /\ UNCHANGED <<sock, nextId, oversized, undecodable, wire, relay>>

\* The first line of the buffer is the call's response, whatever its identifier; a
\* line that is not one response whole does not decode.
TakeLine ==
  /\ waiting # 0 /\ ~sending
  /\ HasLine
  /\ LET parsed == Parse(SubSeq(buffer, 1, LineEnd))
     IN Returns(nextId, parsed.how, parsed.id)
  /\ buffer' = SubSeq(buffer, LineEnd + 1, Len(buffer))
  /\ UNCHANGED <<sock, nextId, oversized, undecodable, wire, relay>>

EndOfStreamIgnored == FALSE /\ UNCHANGED vars

\* recv returns nothing: the relay has closed the connection.
EndOfStream ==
  /\ waiting # 0 /\ ~sending
  /\ ~HasLine
  /\ responses[sock] = <<>>
  /\ ~handler[sock]
  /\ Returns(nextId, "closed", 0)
  /\ UNCHANGED <<sock, nextId, buffer, oversized, undecodable, wire, relay>>

\* sendall gets to its end: the relay has read on, though no further than to the limit.
Sent ==
  /\ sending
  /\ sending' = FALSE
  /\ UNCHANGED <<sock, nextId, waiting, buffer, result, oversized, undecodable, wire, relay>>

\* The relay refuses a frame before all of it is sent: sendall raises, and the refusal
\* is left unread.
SendBreaks ==
  /\ sending
  /\ ~handler[sock]
  /\ Returns(nextId, "closed", 0)
  /\ UNCHANGED <<sock, nextId, buffer, oversized, undecodable, wire, relay>>

\* Nothing has arrived for the socket's timeout: recv raises, and nothing is undone.
TimesOut ==
  /\ waiting # 0 /\ ~sending
  /\ ~HasLine
  /\ responses[sock] = <<>>
  /\ handler[sock]
  /\ Returns(nextId, "timeout", 0)
  /\ UNCHANGED <<sock, nextId, buffer, oversized, undecodable, wire, relay>>

\* close: the socket goes, _buffer stays.
Close ==
  /\ sock # 0
  /\ waiting = 0
  /\ sock' = 0
  /\ end' = [end EXCEPT ![sock] = IF responses[sock] = <<>> THEN "closed" ELSE "reset"]
  /\ responses' = [responses EXCEPT ![sock] = <<>>]
  /\ UNCHANGED <<nextId, waiting, sending, buffer, result, oversized, undecodable, opened, requests,
                 relay>>

-----------------------------------------------------------------------------
(* The relay's handler of one connection. *)

HandlerEnds(c) == handler' = [handler EXCEPT ![c] = FALSE]
Blames == blamed' = TRUE

AnswersNewestFirst(c) ==
  /\ handler[c]
  /\ end[c] = "open"
  /\ requests[c] # <<>>
  /\ Last(requests[c]) \notin oversized \cup undecodable
  /\ requests' = [requests EXCEPT ![c] = Front(@)]
  /\ responses' = [responses EXCEPT ![c] = @ \o Frame(Last(requests[c]))]
  /\ UNCHANGED <<client, opened, end, relay>>

\* A frame is read, dispatched and answered.
Answers(c) ==
  /\ handler[c]
  /\ end[c] = "open"
  /\ requests[c] # <<>>
  /\ Head(requests[c]) \notin oversized \cup undecodable
  /\ requests' = [requests EXCEPT ![c] = Tail(@)]
  /\ responses' = [responses EXCEPT ![c] = @ \o Frame(Head(requests[c]))]
  /\ UNCHANGED <<client, opened, end, relay>>

\* A frame that does not decode is a violation and is refused; the connection goes on.
RefusesFrame(c) ==
  /\ handler[c]
  /\ end[c] = "open"
  /\ requests[c] # <<>>
  /\ Head(requests[c]) \in undecodable
  /\ requests' = [requests EXCEPT ![c] = Tail(@)]
  /\ responses' = [responses EXCEPT ![c] = @ \o Frame(Head(requests[c]))]
  /\ Blames
  /\ UNCHANGED <<client, opened, end, handler, faulted>>

\* A frame that is too long is refused, and the connection with it.
Refuses(c) ==
  /\ handler[c]
  /\ end[c] = "open"
  /\ requests[c] # <<>>
  /\ Head(requests[c]) \in oversized
  /\ requests' = [requests EXCEPT ![c] = <<>>]
  /\ responses' = [responses EXCEPT ![c] = @ \o Frame(Head(requests[c]))]
  /\ HandlerEnds(c)
  /\ Blames
  /\ UNCHANGED <<client, opened, end, faulted>>

\* Decoding or dispatching a frame raises what the handler does not expect, as a charge on
\* a sealed meter does: no response.
Faults(c) ==
  /\ handler[c]
  /\ end[c] = "open"
  /\ requests[c] # <<>>
  /\ requests' = [requests EXCEPT ![c] = <<>>]
  /\ HandlerEnds(c)
  /\ Blames
  /\ faulted' = TRUE
  /\ UNCHANGED <<client, opened, end, responses>>

PeerIsBlamed(c) ==
  /\ handler[c]
  /\ end[c] # "open"
  /\ requests' = [requests EXCEPT ![c] = <<>>]
  /\ HandlerEnds(c)
  /\ Blames
  /\ UNCHANGED <<client, opened, end, responses, faulted>>

\* The client has closed its end: with nothing left to read the handler ends; a
\* response that cannot be written, or a reset, is blamed on the submission.
PeerIsGone(c) ==
  /\ handler[c]
  /\ end[c] # "open"
  /\ requests' = [requests EXCEPT ![c] = <<>>]
  /\ HandlerEnds(c)
  /\ IF end[c] = "reset" \/ requests[c] # <<>> THEN Blames ELSE UNCHANGED blamed
  /\ UNCHANGED <<client, opened, end, responses, faulted>>

-----------------------------------------------------------------------------
Handling == \E c \in Connections :
              Answers(c) \/ RefusesFrame(c) \/ Refuses(c) \/ Faults(c) \/ PeerIsGone(c)

Reading ==
  \/ \E n \in 1 .. 2 * MaxCalls : Receive(n)
  \/ TakeLine \/ EndOfStream \/ Sent \/ SendBreaks

Next ==
  \/ Connect \/ SendFails \/ Close \/ TimesOut
  \/ \E kind \in Kinds : Call(kind)
  \/ Reading
  \/ Handling

\* The relay's handlers and the call under way run on.  Nothing is assumed of the
\* agent, and no timeout has to fire.
Fairness == WF_vars(Handling) /\ WF_vars(Reading)

Spec == Init /\ [][Next]_vars
FairSpec == Spec /\ Fairness

-----------------------------------------------------------------------------
(* Safety. *)

GaveUp == {k \in Calls : result[k].how = "timeout"}

\* Who never gave up on a call gets, in every call, the response to its own frame, over
\* any number of connections and refusals (client.py _call, which compares no identifiers
\* and could not: a refusal has identifier 0.  This rests on one call at a time, on one
\* response to each frame, and on what the buffer holds).
OwnAnswer ==
  GaveUp = {} =>
    \A k \in Calls :
      /\ result[k].how # "garbled"
      /\ result[k].how = "answer" => result[k].id = k

\* However calls are given up, retried and connected anew, no response is taken twice
\* and none after a later one (client.py _buffer, first in first out).
TakenInOrder ==
  \A j, k \in Calls :
    j < k /\ result[j].how = "answer" /\ result[k].how = "answer"
      => result[j].id < result[k].id

\* On its first connection a client is behind by exactly the calls it gave up: each
\* leaves one response that a later call takes for its own, and never catches up.
BehindByTimeouts ==
  opened = 1 =>
    \A k \in Calls :
      result[k].how = "answer" => result[k].id + Cardinality({j \in GaveUp : j < k}) = k

\* The SDK brings no violation on the submission by connecting, closing and calling: only
\* who gave up on a call, or sent a frame that is too long, does not decode or faults, is
\* blamed (server.py _handle: a close while a response is owed is "submission closed the
\* socket mid-frame").
Blameless == blamed => GaveUp # {} \/ oversized # {} \/ undecodable # {} \/ faulted

-----------------------------------------------------------------------------
(* Liveness. *)

\* A call returns or raises even where the socket's timeout never fires, after
\* refusals and with whatever earlier connections left in the buffer.
CallReturns == waiting # 0 ~> waiting = 0
=============================================================================
