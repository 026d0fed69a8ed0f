------------------------------ MODULE Admission ------------------------------
(***************************************************************************)
(* How a validator decides which submissions enter a round: discover       *)
(* (validator/discovery.py), which reads the revealed commitments and      *)
(* checks each one's payment against the chain (chain/payment.py).         *)
(*                                                                         *)
(* The hotkeys are gone through in sorted order.  Commitments and          *)
(* metagraph are read once, before the first; the canonical hash of a      *)
(* payment's block is asked for at each hotkey's turn, and the chain may   *)
(* have moved on or been reorganised since the turn before.  What a block  *)
(* of a given hash contains never changes.                                 *)
(***************************************************************************)
EXTENDS Naturals, Sequences, FiniteSets, FiniteSetsExt

CONSTANTS
  HotkeyCount,    \* hotkeys on the subnet, numbered in the order of sorted()
  Coldkeys,
  Transfers,      \* what a block may hold: records [sender, amount, sound], sound when the
                  \* call succeeded, is a Balances.transfer_keep_alive, to the treasury
  Fees,           \* values of a directive's upload_fee_rao
  MaxBlock,       \* bounds the chain's height
  MaxBody,        \* bounds the transfers in a block
  MaxTransfers,   \* bounds the transfers in all blocks
  MaxSwaps,       \* bounds the hotkeys that change hands
  MaxReorgs,      \* bounds the reorganisations
  MaxRounds       \* bounds the discoveries

ASSUME AdmissionAssumption ==
  /\ HotkeyCount \in Nat
  /\ Transfers \subseteq [sender : Coldkeys, amount : Nat, sound : BOOLEAN]
  /\ Fees \subseteq Nat
  /\ MaxBlock \in Nat \ {0} /\ MaxBody \in Nat /\ MaxTransfers \in Nat
  /\ MaxSwaps \in Nat /\ MaxReorgs \in Nat /\ MaxRounds \in Nat

Hotkeys == 1 .. HotkeyCount
Nobody == "nobody"

\* A block's hash: its number, and which of the blocks mined at that number it is.
Hashes == [number : 1 .. MaxBlock, fork : 0 .. MaxReorgs]

\* PaymentProof.key.  The block number that a proof states as well must be that of
\* its hash, or the proof fails as one of a block that is not canonical does.
Keys == [hash : Hashes, index : 1 .. MaxBody]

\* What a hotkey has on chain: nothing (or it is not registered), a reveal that does
\* not parse, a reveal without a payment proof, or one with the proof of that key.
NoKey == [hash |-> [number |-> 1, fork |-> 0], index |-> 0]
Slots == [state : {"absent", "unreadable", "unpaid"}, key : {NoKey}]
           \cup [state : {"paid"}, key : Keys]
Absent == [state |-> "absent", key |-> NoKey]

VARIABLES
  chain,      \* the canonical hashes, from block 1
  body,       \* per hash that was ever mined: its transfers
  owner,      \* per hash that was ever mined: the coldkey of each hotkey there
  slot,       \* per hotkey: what it has on chain
  stage,      \* of the validator: idle, or in a discovery
  fee,        \* the discovery's upload_fee_rao
  reader,     \* its payment_reader is there
  turn,       \* the hotkey whose turn it is
  spent,      \* keys used in this discovery
  verdict,    \* per hotkey: what this discovery said of it
  steady,     \* no reorganisation since the discovery began
  usedBefore, \* who entered by which key in the discoveries before it
  rounds, reorgs, swaps  \* discoveries, reorganisations, changes of hands so far

world == <<chain, body, owner, slot, reorgs, swaps>>
discovery == <<stage, fee, reader, turn, spent, verdict, usedBefore, rounds>>
vars == <<world, discovery, steady>>

Verdicts == {"pending", "skipped", "unreadable", "no proof", "no reader", "spent",
             "refused", "admitted"}
AllPending == [h \in Hotkeys |-> "pending"]
Mined == DOMAIN body
Tip == chain[Len(chain)]

TypeOK ==
  /\ chain \in Seq(Hashes) /\ Len(chain) \in 1 .. MaxBlock
  /\ \A n \in DOMAIN chain : chain[n] \in Mined /\ chain[n].number = n
  /\ Mined \subseteq Hashes
  /\ body \in [Mined -> Seq(Transfers)]
  /\ owner \in [Mined -> [Hotkeys -> Coldkeys \cup {Nobody}]]
  /\ slot \in [Hotkeys -> Slots]
  /\ reader \in BOOLEAN
  /\ stage \in {"idle", "discovering"}
  /\ fee \in Fees \cup {0}
  /\ turn \in 1 .. HotkeyCount + 1
  /\ spent \subseteq Keys
  /\ verdict \in [Hotkeys -> Verdicts]
  /\ steady \in BOOLEAN
  /\ usedBefore \subseteq Hotkeys \X Keys
  /\ rounds \in 0 .. MaxRounds
  /\ reorgs \in 0 .. MaxReorgs
  /\ swaps \in 0 .. MaxSwaps
  /\ stage = "idle" => turn = 1 /\ spent = {} /\ verdict = AllPending

FirstBlock == [number |-> 1, fork |-> 0]

Bodies == UNION {[1 .. n -> Transfers] : n \in 0 .. MaxBody}

Init ==
  /\ chain = <<FirstBlock>>
  /\ \E transfers \in Bodies : body = [hash \in {FirstBlock} |-> transfers]
  /\ \E hands \in [Hotkeys -> Coldkeys] : owner = [hash \in {FirstBlock} |-> hands]
  /\ slot = [h \in Hotkeys |-> Absent]
  /\ stage = "idle"
  /\ fee = 0
  /\ reader = FALSE
  /\ turn = 1
  /\ spent = {}
  /\ verdict = AllPending
  /\ steady = TRUE
  /\ usedBefore = {}
  /\ rounds = 0
  /\ reorgs = 0
  /\ swaps = 0

-----------------------------------------------------------------------------
(* The chain and the miners. *)

TransferCount == MapThenSumSet(LAMBDA h : Len(body[h]), Mined)

\* A hotkey passes into other hands, or is not registered any more: it has no owner.
Hands(parent) ==
  {[hands |-> owner[parent], swaps |-> swaps]}
    \cup {[hands |-> [owner[parent] EXCEPT ![h] = c], swaps |-> swaps + 1] :
            h \in Hotkeys, c \in Coldkeys \cup {Nobody}}

With(f, x, value) == [y \in DOMAIN f \cup {x} |-> IF y = x THEN value ELSE f[y]]

\* A block is mined on the first n canonical ones.
Mine(n, fork, transfers) ==
  LET hash == [number |-> n + 1, fork |-> fork]
  IN /\ rounds < MaxRounds
     /\ TransferCount + Len(transfers) <= MaxTransfers
     /\ chain' = SubSeq(chain, 1, n) \o <<hash>>
     /\ body' = With(body, hash, transfers)
     /\ \E next \in Hands(chain[n]) :
          /\ next.swaps <= MaxSwaps
          /\ owner' = With(owner, hash, next.hands)
          /\ swaps' = next.swaps
     /\ UNCHANGED <<slot, discovery>>

NextBlock(transfers) ==
  /\ Len(chain) < MaxBlock
  /\ Mine(Len(chain), reorgs, transfers)
  /\ UNCHANGED <<reorgs, steady>>

\* The last block is replaced by another one.
Reorganise(transfers) ==
  /\ reorgs < MaxReorgs
  /\ Len(chain) > 1
  /\ Mine(Len(chain) - 1, reorgs + 1, transfers)
  /\ reorgs' = reorgs + 1
  /\ steady' = (stage = "idle")

\* A miner publishes or replaces its reveal, or is registered or not any more.  A
\* discovery under way has read these already: a change during one is a change after.
Reveal(h, s) ==
  /\ stage = "idle"
  /\ rounds < MaxRounds
  /\ s.state = "paid" => s.key.hash \in Mined /\ s.key.index <= Len(body[s.key.hash]) + 1
  /\ slot' = [slot EXCEPT ![h] = s]
  /\ UNCHANGED <<chain, body, owner, reorgs, swaps, discovery, steady>>

-----------------------------------------------------------------------------
(* The validator. *)

Canonical(hash) == hash.number <= Len(chain) /\ chain[hash.number] = hash

PaysToday(h, key) ==
  /\ Canonical(key.hash)
  /\ key.index <= Len(body[key.hash])
  /\ LET transfer == body[key.hash][key.index]
     IN /\ transfer.sound
        /\ transfer.amount = fee
        /\ transfer.sender = owner[Tip][h]

\* verify_payment, without the look at `spent`.  transfer_at and coldkey_of are asked
\* about the block of the payment, not about the chain's last one.
Pays(h, key) ==
  /\ Canonical(key.hash)
  /\ key.index <= Len(body[key.hash])
  /\ LET transfer == body[key.hash][key.index]
     IN /\ transfer.sound
        /\ transfer.amount = fee
        /\ transfer.sender = owner[key.hash][h]

\* What discover says of one hotkey.  The reveal is checked against the commitment
\* computed from itself, which cannot fail: no verdict stands for it.
Judge(h) ==
  CASE slot[h].state = "absent" -> "skipped"
    [] slot[h].state = "unreadable" -> "unreadable"
    [] slot[h].state \in {"unpaid", "paid"} /\ fee = 0 -> "admitted"
    [] slot[h].state = "unpaid" /\ fee > 0 -> "no proof"
    [] slot[h].state = "paid" /\ fee > 0 /\ ~reader -> "no reader"
    [] slot[h].state = "paid" /\ fee > 0 /\ reader ->
         IF slot[h].key \in spent THEN "spent"
         ELSE IF Pays(h, slot[h].key) THEN "admitted" ELSE "refused"

\* A directive is in force and a round is due: discover is called.
BeginDiscovery(f, withReader) ==
  /\ stage = "idle"
  /\ rounds < MaxRounds
  /\ stage' = "discovering"
  /\ fee' = f
  /\ reader' = (withReader /\ f > 0)
  /\ turn' = 1
  /\ spent' = {}
  /\ verdict' = AllPending
  /\ steady' = TRUE
  /\ UNCHANGED <<world, usedBefore, rounds>>

SpentOnSight(h) ==
  IF fee > 0 /\ slot[h].state = "paid" THEN spent \cup {slot[h].key} ELSE spent

NothingSpent(h) == spent

\* Only a payment that was accepted is spent.
SpentAfter(h) ==
  IF fee > 0 /\ Judge(h) = "admitted" THEN spent \cup {slot[h].key} ELSE spent

CheckHotkey ==
  /\ stage = "discovering"
  /\ turn <= HotkeyCount
  /\ verdict' = [verdict EXCEPT ![turn] = Judge(turn)]
  /\ spent' = SpentAfter(turn)
  /\ turn' = turn + 1
  /\ UNCHANGED <<world, stage, fee, reader, usedBefore, rounds, steady>>

Entries == {<<h, slot[h].key>> : h \in {k \in Hotkeys : fee > 0 /\ verdict[k] = "admitted"}}

\* The end of a discovery, by return or by exception.
BackToIdle ==
  /\ stage' = "idle"
  /\ fee' = 0
  /\ reader' = FALSE
  /\ turn' = 1
  /\ verdict' = AllPending
  /\ steady' = TRUE
  /\ UNCHANGED world

EndDiscoveryKeepsSpent ==
  /\ stage = "discovering"
  /\ turn > HotkeyCount
  /\ BackToIdle
  /\ usedBefore' = usedBefore \cup Entries
  /\ rounds' = rounds + 1
  /\ UNCHANGED spent

\* discover returns; `spent` was its own and is gone with it.
EndDiscovery ==
  /\ stage = "discovering"
  /\ turn > HotkeyCount
  /\ BackToIdle
  /\ spent' = {}
  /\ usedBefore' = usedBefore \cup Entries
  /\ rounds' = rounds + 1

\* discover raises and no round is opened for anybody: what a registered hotkey revealed
\* holds a number that no integer is, or text that does not encode; or the reader fails
\* with anything but PaymentRejected.
DiscoveryRaises ==
  /\ stage = "discovering"
  /\ turn <= HotkeyCount
  /\ slot[turn].state # "absent"
  /\ BackToIdle
  /\ spent' = {}
  /\ UNCHANGED <<usedBefore, rounds>>

Next ==
  \/ \E transfers \in Bodies : NextBlock(transfers) \/ Reorganise(transfers)
  \/ \E h \in Hotkeys, s \in Slots : Reveal(h, s)
  \/ \E f \in Fees, withReader \in BOOLEAN : BeginDiscovery(f, withReader)
  \/ CheckHotkey \/ EndDiscovery \/ DiscoveryRaises

Spec == Init /\ [][Next]_vars

-----------------------------------------------------------------------------
(* Safety. *)

Admitted == {h \in Hotkeys : verdict[h] = "admitted"}

\* The hotkeys that name a payment that is theirs.
Claimants(key) == {h \in Hotkeys : slot[h].key = key /\ Pays(h, key)}

\* A payment that is on the chain throughout a discovery enters exactly one submission,
\* the first of those it was made for, whoever else names it and in whatever order
\* (discover's loop, its `spent` and verify_payment together).
EachPaymentEntersOne ==
  stage = "discovering" /\ turn > HotkeyCount /\ fee > 0 /\ reader /\ steady =>
    \A key \in Keys :
      {h \in Admitted : slot[h].key = key}
        = {h \in Claimants(key) : \A g \in Claimants(key) : h <= g}

\* Who is admitted under a fee named a sound transfer of exactly that fee by the coldkey
\* that owned the hotkey at the payment's block, whatever was reorganised and whoever
\* owns it by now; and no other submission of the round named the same (verify_payment).
AdmittedHasPaid ==
  fee > 0 =>
    \A h \in Admitted :
      /\ body[slot[h].key.hash][slot[h].key.index] =
           [sender |-> owner[slot[h].key.hash][h], amount |-> fee, sound |-> TRUE]
      /\ \A g \in Admitted : slot[g].key = slot[h].key => g = h

\* Naming somebody else's payment does not use it up: a submission is turned away as
\* paid for twice only where the payer's own other submission entered by that payment
\* (discover adds to `spent` what verify_payment accepted, after it accepted it).
NobodyIsCrowdedOut ==
  \A h \in Hotkeys :
    verdict[h] = "spent" =>
      \E g \in Admitted \ {h} :
        /\ slot[g].key = slot[h].key
        /\ owner[slot[h].key.hash][g] = body[slot[h].key.hash][slot[h].key.index].sender

-----------------------------------------------------------------------------
(* What the documents say and the code does not do. *)

\* miner-guide.md: "A proof cannot be reused by a second submission".  Here: not by the
\* submission of another hotkey.
ProofIsNotReused ==
  [][\A h, g \in Hotkeys :
       verdict[h] = "pending" /\ verdict'[h] = "admitted" /\ fee > 0 /\ g # h
         => <<g, slot[h].key>> \notin usedBefore]_vars
=============================================================================
