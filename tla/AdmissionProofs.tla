--------------------------- MODULE AdmissionProofs ---------------------------
(***************************************************************************)
(* Admission for every number of hotkeys, coldkeys and blocks, and any     *)
(* number of reorganisations, changes of hands and discoveries.            *)
(*                                                                         *)
(* What a block holds and who owned a hotkey there never changes, so a     *)
(* payment stays what it was when it was looked at; and the keys spent in  *)
(* a discovery are those of the submissions admitted so far.               *)
(***************************************************************************)
EXTENDS Admission, SequenceTheorems, TLAPS

\* A submission that is admitted under a fee names a payment that is its own.
Paid(h) ==
  LET key == slot[h].key
  IN /\ slot[h].state = "paid"
     /\ key.hash \in Mined
     /\ body[key.hash][key.index] = [sender |-> owner[key.hash][h], amount |-> fee, sound |-> TRUE]

\* Whose turn it was not yet is pending; with a fee, what is spent are the payments of
\* the admitted, each of which has its own; who is turned away as spent is not the one
\* that spent it.
Entered ==
  /\ \A h \in Hotkeys : h >= turn => verdict[h] = "pending"
  /\ fee > 0 =>
       /\ \A h \in Admitted : Paid(h)
       /\ spent = {slot[h].key : h \in Admitted}
       /\ \A g, h \in Admitted : slot[g].key = slot[h].key => g = h
  /\ \A h \in Hotkeys :
       verdict[h] = "spent" => fee > 0 /\ \E g \in Admitted \ {h} : slot[g].key = slot[h].key

\* A hash is new: no block was mined twice.
Fresh ==
  \A hash \in Mined : hash.fork <= reorgs /\ (hash.fork = reorgs => hash.number <= Len(chain))

\* A proof names a block that was mined.
Revealed == \A h \in Hotkeys : slot[h].state = "paid" => slot[h].key.hash \in Mined

Owns(h) == slot[h].state = "paid" /\ Pays(h, slot[h].key)

\* While nothing is reorganised, the admitted own their payments, and who owns the payment
\* it names was not the first to come only if somebody before it entered by it.
FirstCome ==
  stage = "discovering" /\ fee > 0 /\ reader /\ steady =>
    /\ \A h \in Admitted : Owns(h)
    /\ \A h \in Hotkeys :
         h < turn /\ Owns(h) => \E g \in Admitted : g <= h /\ slot[g].key = slot[h].key

\* A discovery begins only where there is room for another.
Bounded == stage = "discovering" => rounds < MaxRounds

IInv == TypeOK /\ Fresh /\ Revealed /\ Entered /\ FirstCome /\ Bounded

-----------------------------------------------------------------------------
(* Blocks. *)

LEMMA FirstBlockIsHash == FirstBlock \in Hashes
BY AdmissionAssumption DEF AdmissionAssumption, FirstBlock, Hashes

LEMMA MinedAreHashes ==
  ASSUME TypeOK, NEW h \in Mined
  PROVE  h.number \in Nat /\ h.fork \in Nat /\ h.number >= 1
<1>1. h \in [number : 1 .. MaxBlock, fork : 0 .. MaxReorgs]
  BY DEF TypeOK, Hashes
<1>. QED BY <1>1, AdmissionAssumption DEF AdmissionAssumption

\* The chain after a block was mined on its first n.
LEMMA MinedChain ==
  ASSUME TypeOK, NEW n \in 1 .. Len(chain), NEW hash \in Hashes, hash.number = n + 1
  PROVE  LET next == SubSeq(chain, 1, n) \o <<hash>>
         IN /\ next \in Seq(Hashes)
            /\ Len(next) = n + 1
            /\ \A i \in 1 .. n : next[i] = chain[i]
            /\ next[n + 1] = hash
<1>1. chain \in Seq(Hashes) /\ Len(chain) \in Nat
  BY LenProperties DEF TypeOK
<1>2. /\ SubSeq(chain, 1, n) \in Seq(Hashes)
      /\ Len(SubSeq(chain, 1, n)) = n
      /\ \A i \in 1 .. n : SubSeq(chain, 1, n)[i] = chain[i]
  BY <1>1, SubSeqProperties
<1>. DEFINE kept == SubSeq(chain, 1, n)
            next == kept \o <<hash>>
<1>3. /\ n \in Nat
      /\ kept \in Seq(Hashes) /\ Len(kept) = n
      /\ \A i \in 1 .. n : kept[i] = chain[i]
  BY <1>1, <1>2
<1>4. <<hash>> \in Seq(Hashes) /\ Len(<<hash>>) = 1 /\ <<hash>>[1] = hash
  OBVIOUS
<1>. HIDE DEF kept
<1>5. /\ next \in Seq(Hashes) /\ Len(next) = n + 1
      /\ \A i \in 1 .. n + 1 : next[i] = IF i <= n THEN kept[i] ELSE <<hash>>[i - n]
  BY <1>3, <1>4, ConcatProperties
<1>6. \A i \in 1 .. n : next[i] = chain[i]
  BY <1>3, <1>5
<1>7. next[n + 1] = hash
  BY <1>3, <1>4, <1>5
<1>. QED BY <1>5, <1>6, <1>7 DEF kept

\* What mining does to the world: one new block, and nothing to the others.
LEMMA MiningKeeps ==
  ASSUME TypeOK, NEW n \in 1 .. Len(chain), n < MaxBlock, NEW fork \in 0 .. MaxReorgs,
         NEW transfers \in Bodies, Mine(n, fork, transfers),
         [number |-> n + 1, fork |-> fork] \notin Mined
  PROVE  LET hash == [number |-> n + 1, fork |-> fork]
         IN /\ hash \in Hashes
            /\ chain' = SubSeq(chain, 1, n) \o <<hash>>
            /\ Len(chain') = n + 1 /\ Len(chain') \in 1 .. MaxBlock
            /\ chain' \in Seq(Hashes)
            /\ \A i \in 1 .. n : chain'[i] = chain[i]
            /\ chain'[n + 1] = hash
            /\ Mined' = Mined \cup {hash}
            /\ \A h \in Mined : body'[h] = body[h] /\ owner'[h] = owner[h]
            /\ body' \in [Mined' -> Seq(Transfers)]
            /\ owner' \in [Mined' -> [Hotkeys -> Coldkeys \cup {Nobody}]]
            /\ swaps' \in 0 .. MaxSwaps
            /\ UNCHANGED <<slot, discovery>>
<1>. DEFINE hash == [number |-> n + 1, fork |-> fork]
<1>0. n \in Nat /\ MaxBlock \in Nat /\ MaxReorgs \in Nat /\ MaxSwaps \in Nat
  BY LenProperties, AdmissionAssumption DEF AdmissionAssumption, TypeOK
<1>1. hash \in Hashes
  BY <1>0 DEF Hashes
<1>2. chain' = SubSeq(chain, 1, n) \o <<hash>>
  BY DEF Mine
<1>3. /\ chain' \in Seq(Hashes) /\ Len(chain') = n + 1
      /\ \A i \in 1 .. n : chain'[i] = chain[i]
      /\ chain'[n + 1] = hash
  BY <1>1, <1>2, MinedChain
<1>4. transfers \in Seq(Transfers)
  <2>1. PICK k \in 0 .. MaxBody : transfers \in [1 .. k -> Transfers]
    BY DEF Bodies
  <2>2. k \in Nat
    BY AdmissionAssumption DEF AdmissionAssumption
  <2>. QED BY <2>1, <2>2
<1>5. /\ body' = [y \in Mined \cup {hash} |-> IF y = hash THEN transfers ELSE body[y]]
      /\ UNCHANGED <<slot, discovery>>
  BY DEF Mine, With, Mined
<1>6. PICK next \in Hands(chain[n]) :
         /\ next.swaps <= MaxSwaps
         /\ owner' = With(owner, hash, next.hands)
         /\ swaps' = next.swaps
  BY DEF Mine
<1>7. /\ next.hands \in [Hotkeys -> Coldkeys \cup {Nobody}]
      /\ next.swaps \in Nat
  <2>1. owner[chain[n]] \in [Hotkeys -> Coldkeys \cup {Nobody}] /\ swaps \in Nat
    BY LenProperties, AdmissionAssumption DEF TypeOK, AdmissionAssumption
  <2>. QED BY <1>6, <2>1 DEF Hands
<1>8. DOMAIN owner = Mined
  BY DEF TypeOK
<1>9. owner' = [y \in Mined \cup {hash} |-> IF y = hash THEN next.hands ELSE owner[y]]
  BY <1>6, <1>8 DEF With
<1>10. Mined' = Mined \cup {hash}
  BY <1>5 DEF Mined
<1>11. body' \in [Mined' -> Seq(Transfers)]
  BY <1>4, <1>5, <1>10 DEF TypeOK
<1>12. owner' \in [Mined' -> [Hotkeys -> Coldkeys \cup {Nobody}]]
  BY <1>7, <1>9, <1>10 DEF TypeOK
<1>13. \A h \in Mined : body'[h] = body[h] /\ owner'[h] = owner[h]
  BY <1>5, <1>9
<1>14. swaps' \in 0 .. MaxSwaps
  BY <1>0, <1>6, <1>7
<1>15. Len(chain') \in 1 .. MaxBlock
  BY <1>0, <1>3
<1>. QED BY <1>1, <1>2, <1>3, <1>5, <1>10, <1>11, <1>12, <1>13, <1>14, <1>15

\* What mining leaves of the invariant, however the chain continues.
LEMMA MiningPreserves ==
  ASSUME IInv, NEW n \in 1 .. Len(chain), n < MaxBlock, NEW fork \in 0 .. MaxReorgs,
         NEW transfers \in Bodies, Mine(n, fork, transfers),
         [number |-> n + 1, fork |-> fork] \notin Mined,
         reorgs' \in 0 .. MaxReorgs, steady' \in BOOLEAN
  PROVE  TypeOK' /\ Revealed' /\ Entered' /\ Bounded'
<1>. DEFINE hash == [number |-> n + 1, fork |-> fork]
<1>0. TypeOK /\ Revealed /\ Entered
  BY DEF IInv
<1>1. /\ hash \in Hashes
      /\ Len(chain') = n + 1 /\ Len(chain') \in 1 .. MaxBlock
      /\ chain' \in Seq(Hashes)
      /\ \A i \in 1 .. n : chain'[i] = chain[i]
      /\ chain'[n + 1] = hash
      /\ Mined' = Mined \cup {hash}
      /\ \A h \in Mined : body'[h] = body[h] /\ owner'[h] = owner[h]
      /\ body' \in [Mined' -> Seq(Transfers)]
      /\ owner' \in [Mined' -> [Hotkeys -> Coldkeys \cup {Nobody}]]
      /\ swaps' \in 0 .. MaxSwaps
      /\ UNCHANGED <<slot, discovery>>
  BY <1>0, MiningKeeps
<1>2. UNCHANGED <<stage, fee, reader, turn, spent, verdict, usedBefore, rounds>>
  BY <1>1 DEF discovery
<1>3. \A i \in DOMAIN chain' : chain'[i] \in Mined' /\ chain'[i].number = i
  <2>1. n \in Nat /\ DOMAIN chain = 1 .. Len(chain) /\ DOMAIN chain' = 1 .. n + 1
    BY <1>0, <1>1, LenProperties DEF TypeOK
  <2>2. \A i \in 1 .. n : chain[i] \in Mined /\ chain[i].number = i
    BY <1>0, <2>1, LenProperties DEF TypeOK
  <2>3. chain'[n + 1].number = n + 1
    BY <1>1
  <2>. QED BY <1>1, <2>1, <2>2, <2>3
<1>4. Mined' \subseteq Hashes
  BY <1>0, <1>1 DEF TypeOK
<1>5. TypeOK'
  BY <1>0, <1>1, <1>2, <1>3, <1>4 DEF TypeOK
<1>6. Revealed'
  BY <1>0, <1>1 DEF Revealed
<1>7. Admitted' = Admitted
  BY <1>2 DEF Admitted
<1>8. ASSUME NEW h \in Hotkeys, Paid(h) PROVE Paid(h)'
  BY <1>1, <1>2, <1>8 DEF Paid
<1>9. Entered'
  <2>1. Admitted \subseteq Hotkeys
    BY DEF Admitted
  <2>. QED BY <1>0, <1>1, <1>2, <1>7, <1>8, <2>1 DEF Entered
<1>10. Bounded'
  BY <1>2 DEF IInv, Bounded
<1>. QED BY <1>5, <1>6, <1>9, <1>10

-----------------------------------------------------------------------------
(* The chain and the miners. *)

LEMMA NextBlockPreserves ==
  ASSUME IInv, NEW transfers \in Bodies, NextBlock(transfers)
  PROVE  IInv'
<1>. DEFINE n == Len(chain)
            hash == [number |-> n + 1, fork |-> reorgs]
<1>0. /\ TypeOK /\ Fresh /\ Revealed /\ FirstCome
      /\ n \in Nat /\ n \in 1 .. MaxBlock /\ reorgs \in 0 .. MaxReorgs
      /\ n \in 1 .. Len(chain) /\ n < MaxBlock
      /\ Mine(n, reorgs, transfers) /\ UNCHANGED <<reorgs, steady>>
  BY LenProperties, AdmissionAssumption DEF IInv, TypeOK, AdmissionAssumption, NextBlock
<1>1. hash \notin Mined
  BY <1>0 DEF Fresh
<1>2. TypeOK' /\ Revealed' /\ Entered' /\ Bounded'
  BY <1>0, <1>1, MiningPreserves DEF TypeOK
<1>3. /\ Len(chain') = n + 1
      /\ \A i \in 1 .. n : chain'[i] = chain[i]
      /\ chain'[n + 1] = hash
      /\ Mined' = Mined \cup {hash}
      /\ \A h \in Mined : body'[h] = body[h] /\ owner'[h] = owner[h]
      /\ UNCHANGED <<slot, discovery>>
  BY <1>0, <1>1, MiningKeeps
<1>4. Fresh'
  <2>1. \A h \in Mined : h.number \in Nat /\ h.fork \in Nat
    BY <1>0, MinedAreHashes
  <2>. QED BY <1>0, <1>3, <2>1 DEF Fresh
<1>5. UNCHANGED <<stage, fee, reader, turn, spent, verdict, Admitted>>
  BY <1>3 DEF discovery, Admitted
<1>6. ASSUME NEW h \in Hotkeys PROVE Owns(h)' <=> Owns(h)
  <2>. DEFINE key == slot[h].key
  <2>1. CASE slot[h].state # "paid"
    BY <1>3, <2>1 DEF Owns
  <2>2. CASE slot[h].state = "paid"
    <3>1. key.hash \in Mined /\ key.hash # hash /\ key.hash.number \in Nat
          /\ key.hash.number >= 1
      BY <1>0, <1>1, <2>2, MinedAreHashes DEF Revealed
    <3>2. Canonical(key.hash)' <=> Canonical(key.hash)
      BY <1>0, <1>3, <3>1 DEF Canonical
    <3>. QED BY <1>3, <1>5, <3>1, <3>2 DEF Owns, Pays
  <2>. QED BY <2>1, <2>2
<1>7. FirstCome'
  <2>1. Admitted \subseteq Hotkeys
    BY DEF Admitted
  <2>. QED BY <1>0, <1>3, <1>5, <1>6, <2>1 DEF FirstCome
<1>. QED BY <1>2, <1>4, <1>7 DEF IInv

LEMMA ReorganisePreserves ==
  ASSUME IInv, NEW transfers \in Bodies, Reorganise(transfers)
  PROVE  IInv'
<1>. DEFINE n == Len(chain) - 1
            hash == [number |-> n + 1, fork |-> reorgs + 1]
<1>0. /\ TypeOK /\ Fresh
      /\ Len(chain) \in Nat /\ Len(chain) \in 1 .. MaxBlock /\ MaxBlock \in Nat
      /\ reorgs \in Nat /\ reorgs + 1 \in 0 .. MaxReorgs
      /\ n \in 1 .. Len(chain) /\ n < MaxBlock
      /\ Mine(n, reorgs + 1, transfers)
      /\ reorgs' = reorgs + 1 /\ steady' = (stage = "idle")
  BY LenProperties, AdmissionAssumption DEF IInv, TypeOK, AdmissionAssumption, Reorganise
<1>1. hash \notin Mined
  BY <1>0 DEF Fresh
<1>2. TypeOK' /\ Revealed' /\ Entered' /\ Bounded'
  BY <1>0, <1>1, MiningPreserves
<1>3. /\ Len(chain') = n + 1
      /\ Mined' = Mined \cup {hash}
      /\ UNCHANGED stage
  BY <1>0, <1>1, MiningKeeps DEF discovery
<1>4. Fresh'
  <2>1. \A h \in Mined : h.number \in Nat /\ h.fork \in Nat
    BY <1>0, MinedAreHashes
  <2>. QED BY <1>0, <1>3, <2>1 DEF Fresh
<1>5. FirstCome'
  BY <1>0, <1>3 DEF FirstCome
<1>. QED BY <1>2, <1>4, <1>5 DEF IInv

LEMMA RevealPreserves ==
  ASSUME IInv, NEW h \in Hotkeys, NEW s \in Slots, Reveal(h, s)
  PROVE  IInv'
<1>0. /\ TypeOK /\ Fresh /\ Revealed /\ Entered
      /\ stage = "idle" /\ slot' = [slot EXCEPT ![h] = s]
      /\ s.state = "paid" => s.key.hash \in Mined
      /\ UNCHANGED <<chain, body, owner, reorgs, swaps, stage, fee, reader, turn, spent, verdict,
                     usedBefore, rounds, steady>>
  BY DEF IInv, Reveal, discovery
<1>1. TypeOK'
  BY <1>0 DEF TypeOK, Mined, AllPending
<1>2. Fresh'
  BY <1>0 DEF Fresh, Mined
<1>3. Revealed'
  BY <1>0 DEF Revealed, Mined, TypeOK
<1>4. /\ \A g \in Hotkeys : verdict[g] = "pending"
      /\ spent = {} /\ Admitted = {} /\ Admitted' = {}
  BY <1>0 DEF TypeOK, AllPending, Admitted
<1>5. Entered'
  BY <1>0, <1>4 DEF Entered
<1>6. FirstCome' /\ Bounded'
  BY <1>0 DEF FirstCome, Bounded
<1>. QED BY <1>1, <1>2, <1>3, <1>5, <1>6 DEF IInv

-----------------------------------------------------------------------------
(* The validator. *)

\* A step of the validator moves no block and no reveal.
LEMMA WorldStays ==
  ASSUME IInv, UNCHANGED world
  PROVE  Fresh' /\ Revealed' /\ Mined' = Mined
BY DEF IInv, world, Fresh, Revealed, Mined

LEMMA BeginPreserves ==
  ASSUME IInv, NEW f \in Fees, NEW withReader \in BOOLEAN, BeginDiscovery(f, withReader)
  PROVE  IInv'
<1>0. /\ TypeOK
      /\ stage' = "discovering" /\ fee' = f /\ reader' = (withReader /\ f > 0)
      /\ turn' = 1 /\ spent' = {} /\ verdict' = AllPending /\ steady' = TRUE
      /\ UNCHANGED <<chain, body, owner, slot, reorgs, swaps, usedBefore, rounds>>
      /\ UNCHANGED world
  BY DEF IInv, BeginDiscovery, world
<1>1. HotkeyCount \in Nat /\ 1 \in 1 .. HotkeyCount + 1
  BY AdmissionAssumption DEF AdmissionAssumption
<1>2. AllPending \in [Hotkeys -> Verdicts]
  BY DEF AllPending, Verdicts
<1>3. TypeOK'
  BY <1>0, <1>1, <1>2 DEF TypeOK, Mined
<1>4. Admitted' = {} /\ \A h \in Hotkeys : verdict'[h] = "pending"
  BY <1>0 DEF Admitted, AllPending
<1>5. Entered'
  BY <1>0, <1>4 DEF Entered
<1>6. FirstCome' /\ Bounded'
  BY <1>0, <1>1, <1>4 DEF FirstCome, Hotkeys, BeginDiscovery, Bounded
<1>. QED BY <1>0, <1>3, <1>5, <1>6, WorldStays DEF IInv

\* However a discovery ends, nothing of it is left.
LEMMA BackToIdlePreserves ==
  ASSUME IInv, BackToIdle, spent' = {},
         usedBefore' \in SUBSET (Hotkeys \X Keys), rounds' \in 0 .. MaxRounds
  PROVE  IInv'
<1>0. /\ TypeOK
      /\ stage' = "idle" /\ fee' = 0 /\ reader' = FALSE
      /\ turn' = 1 /\ spent' = {} /\ verdict' = AllPending /\ steady' = TRUE
      /\ UNCHANGED <<chain, body, owner, slot, reorgs, swaps>>
      /\ UNCHANGED world
  BY DEF IInv, BackToIdle, world
<1>1. HotkeyCount \in Nat /\ 1 \in 1 .. HotkeyCount + 1
  BY AdmissionAssumption DEF AdmissionAssumption
<1>2. AllPending \in [Hotkeys -> Verdicts]
  BY DEF AllPending, Verdicts
<1>3. TypeOK'
  BY <1>0, <1>1, <1>2 DEF TypeOK, Mined, AllPending
<1>4. Admitted' = {} /\ \A h \in Hotkeys : verdict'[h] = "pending"
  BY <1>0 DEF Admitted, AllPending
<1>5. Entered'
  BY <1>0, <1>4 DEF Entered
<1>6. FirstCome' /\ Bounded'
  BY <1>0 DEF FirstCome, Bounded
<1>. QED BY <1>0, <1>3, <1>5, <1>6, WorldStays DEF IInv

\* A payment named in a reveal has a key.
LEMMA PaidSlotHasKey ==
  ASSUME TypeOK, NEW h \in Hotkeys
  PROVE  slot[h].state = "paid" => slot[h].key \in Keys
<1>1. slot[h] \in Slots
  BY DEF TypeOK
<1>. QED BY <1>1 DEF Slots

LEMMA EndPreserves ==
  ASSUME IInv, EndDiscovery \/ DiscoveryRaises
  PROVE  IInv'
<1>0. /\ TypeOK /\ Entered
      /\ MaxRounds \in Nat
  BY AdmissionAssumption DEF IInv, AdmissionAssumption
<1>1. CASE DiscoveryRaises
  BY <1>0, <1>1, BackToIdlePreserves DEF DiscoveryRaises, TypeOK
<1>2. CASE EndDiscovery
  <2>1. Entries \subseteq Hotkeys \X Keys
    <3>1. ASSUME NEW h \in Hotkeys, fee > 0, verdict[h] = "admitted"
          PROVE  slot[h].key \in Keys
      BY <1>0, <3>1, PaidSlotHasKey DEF Entered, Admitted, Paid
    <3>. QED BY <3>1 DEF Entries
  <2>2. rounds' \in 0 .. MaxRounds
    BY <1>0, <1>2 DEF IInv, Bounded, EndDiscovery, TypeOK
  <2>. QED BY <1>0, <1>2, <2>1, <2>2, BackToIdlePreserves DEF EndDiscovery, TypeOK
<1>. QED BY <1>1, <1>2

\* What each verdict that the properties are about says of the hotkey.
LEMMA JudgeFacts ==
  ASSUME TypeOK, NEW h \in Hotkeys
  PROVE  /\ Judge(h) \in Verdicts
         /\ Judge(h) = "admitted" /\ fee > 0 =>
              Owns(h) /\ slot[h].key \notin spent
         /\ Judge(h) = "spent" => fee > 0 /\ slot[h].key \in spent
         /\ fee > 0 /\ reader /\ Owns(h) /\ slot[h].key \notin spent => Judge(h) = "admitted"
<1>1. slot[h].state \in {"absent", "unreadable", "unpaid", "paid"}
  <2>1. slot[h] \in Slots
    BY DEF TypeOK
  <2>. QED BY <2>1 DEF Slots
<1>2. fee \in Nat /\ reader \in BOOLEAN
  BY AdmissionAssumption DEF TypeOK, AdmissionAssumption
<1>3. CASE slot[h].state \in {"absent", "unreadable"}
  <2>1. Judge(h) \in {"skipped", "unreadable"}
    BY <1>3 DEF Judge
  <2>. QED BY <1>3, <2>1 DEF Owns, Verdicts
<1>4. CASE slot[h].state \in {"unpaid", "paid"} /\ fee = 0
  <2>1. Judge(h) = "admitted" /\ ~(fee > 0)
    BY <1>4 DEF Judge
  <2>. QED BY <2>1 DEF Verdicts
<1>5. CASE fee > 0 /\ (slot[h].state = "unpaid" \/ (slot[h].state = "paid" /\ ~reader))
  <2>1. fee # 0
    BY <1>2, <1>5
  <2>2. Judge(h) \in {"no proof", "no reader"}
    BY <1>5, <2>1 DEF Judge
  <2>. QED BY <1>5, <2>2 DEF Owns, Verdicts
<1>6. CASE slot[h].state = "paid" /\ fee > 0 /\ reader
  <2>1. Judge(h) = IF slot[h].key \in spent THEN "spent"
                   ELSE IF Pays(h, slot[h].key) THEN "admitted" ELSE "refused"
    BY <1>2, <1>6 DEF Judge
  <2>. QED BY <1>6, <2>1 DEF Owns, Verdicts
<1>7. fee = 0 \/ fee > 0
  BY <1>2
<1>8. \/ slot[h].state \in {"absent", "unreadable"}
      \/ slot[h].state \in {"unpaid", "paid"} /\ fee = 0
      \/ fee > 0 /\ (slot[h].state = "unpaid" \/ (slot[h].state = "paid" /\ ~reader))
      \/ slot[h].state = "paid" /\ fee > 0 /\ reader
  BY <1>1, <1>7, Zenon
<1>. QED BY <1>3, <1>4, <1>5, <1>6, <1>8

\* Who owns the payment it names has paid the fee, at the payment's block.
LEMMA OwnersHavePaid ==
  ASSUME TypeOK, Revealed, NEW h \in Hotkeys, Owns(h)
  PROVE  Paid(h)
<1>. DEFINE key == slot[h].key
            transfer == body[key.hash][key.index]
<1>1. /\ slot[h].state = "paid" /\ key \in Keys /\ key.hash \in Mined
      /\ key.index <= Len(body[key.hash])
      /\ transfer.sound /\ transfer.amount = fee /\ transfer.sender = owner[key.hash][h]
  BY PaidSlotHasKey DEF Owns, Pays, Revealed
<1>2. key.index \in 1 .. Len(body[key.hash]) /\ body[key.hash] \in Seq(Transfers)
  BY <1>1, AdmissionAssumption, LenProperties DEF Keys, TypeOK, AdmissionAssumption
<1>3. transfer \in [sender : Coldkeys, amount : Nat, sound : BOOLEAN]
  BY <1>2, ElementOfSeq, AdmissionAssumption DEF AdmissionAssumption
<1>. QED BY <1>1, <1>3 DEF Paid

LEMMA CheckHotkeyPreserves ==
  ASSUME IInv, CheckHotkey
  PROVE  IInv'
<1>0. /\ TypeOK /\ Fresh /\ Revealed /\ Entered /\ FirstCome /\ Bounded
      /\ stage = "discovering" /\ turn \in Hotkeys /\ HotkeyCount \in Nat /\ turn \in Nat
      /\ verdict' = [verdict EXCEPT ![turn] = Judge(turn)]
      /\ turn' = turn + 1
      /\ UNCHANGED <<chain, body, owner, slot, reorgs, swaps, stage, fee, reader, usedBefore,
                     rounds, steady>>
      /\ UNCHANGED world
  BY AdmissionAssumption
  DEF IInv, CheckHotkey, TypeOK, Hotkeys, AdmissionAssumption, world
<1>1. spent' = SpentAfter(turn)
  BY DEF CheckHotkey
<1>2. verdict[turn] = "pending" /\ turn \notin Admitted
      /\ \A h \in Admitted : h < turn /\ h \in Hotkeys
  BY <1>0 DEF Entered, Admitted, Hotkeys
<1>3. Admitted' = IF Judge(turn) = "admitted" THEN Admitted \cup {turn} ELSE Admitted
  BY <1>0, <1>2 DEF Admitted, TypeOK
<1>4. /\ \A h \in Hotkeys : Paid(h)' <=> Paid(h)
      /\ \A h \in Hotkeys : Owns(h)' <=> Owns(h)
  BY <1>0 DEF Paid, Mined, Owns, Pays, Canonical
<1>5. ASSUME fee > 0, Judge(turn) = "admitted"
      PROVE  Owns(turn) /\ Paid(turn) /\ slot[turn].key \notin spent
  BY <1>0, <1>5, JudgeFacts, OwnersHavePaid
<1>6. TypeOK'
  <2>1. spent' \subseteq Keys
    <3>1. CASE fee > 0 /\ Judge(turn) = "admitted"
      BY <1>0, <1>1, <1>5, <3>1, PaidSlotHasKey DEF SpentAfter, TypeOK, Owns
    <3>. QED BY <1>0, <1>1, <3>1 DEF SpentAfter, TypeOK
  <2>2. verdict' \in [Hotkeys -> Verdicts]
    BY <1>0, JudgeFacts DEF TypeOK
  <2>3. turn' \in 1 .. HotkeyCount + 1
    BY <1>0 DEF Hotkeys
  <2>. QED BY <1>0, <2>1, <2>2, <2>3 DEF TypeOK, Mined
<1>7. Entered'
  <2>1. \A h \in Hotkeys : h >= turn' => verdict'[h] = "pending"
    BY <1>0 DEF Entered, Hotkeys, TypeOK
  <2>2. ASSUME fee > 0
        PROVE  /\ \A h \in Admitted' : Paid(h)'
               /\ spent' = {slot[h].key : h \in Admitted'}
               /\ \A g, h \in Admitted' : slot[g].key = slot[h].key => g = h
    <3>1. /\ \A h \in Admitted : Paid(h)
          /\ spent = {slot[h].key : h \in Admitted}
          /\ \A g, h \in Admitted : slot[g].key = slot[h].key => g = h
      BY <1>0, <2>2 DEF Entered
    <3>2. CASE Judge(turn) = "admitted"
      <4>1. spent' = spent \cup {slot[turn].key} /\ Admitted' = Admitted \cup {turn}
        BY <1>1, <1>3, <2>2, <3>2 DEF SpentAfter
      <4>2. \A h \in Admitted : slot[h].key # slot[turn].key
        BY <1>5, <2>2, <3>1, <3>2
      <4>. QED BY <1>0, <1>2, <1>4, <1>5, <2>2, <3>1, <3>2, <4>1, <4>2
    <3>3. CASE Judge(turn) # "admitted"
      BY <1>1, <1>2, <1>3, <1>4, <3>1, <3>3 DEF SpentAfter
    <3>. QED BY <3>2, <3>3
  <2>3. ASSUME NEW h \in Hotkeys, verdict'[h] = "spent"
        PROVE  fee > 0 /\ \E g \in Admitted' \ {h} : slot[g].key = slot[h].key
    <3>1. CASE h = turn
      <4>1. fee > 0 /\ slot[turn].key \in spent
        BY <1>0, <2>3, <3>1, JudgeFacts DEF TypeOK
      <4>2. PICK g \in Admitted : slot[g].key = slot[turn].key
        BY <1>0, <4>1 DEF Entered
      <4>. QED BY <1>2, <1>3, <3>1, <4>1, <4>2
    <3>2. CASE h # turn
      <4>1. verdict[h] = "spent"
        BY <1>0, <2>3, <3>2 DEF TypeOK
      <4>. QED BY <1>0, <1>3, <4>1 DEF Entered
    <3>. QED BY <3>1, <3>2
  <2>. QED BY <1>0, <2>1, <2>2, <2>3 DEF Entered
<1>8. FirstCome'
  <2>1. SUFFICES ASSUME fee > 0, reader, steady
                 PROVE  /\ \A h \in Admitted' : Owns(h)
                        /\ \A h \in Hotkeys : h < turn' /\ Owns(h) =>
                             \E g \in Admitted' : g <= h /\ slot[g].key = slot[h].key
    <3>1. \A h \in Admitted' : h \in Hotkeys
      BY <1>0, <1>2, <1>3
    <3>. QED BY <1>0, <1>4, <3>1 DEF FirstCome
  <2>2. /\ \A h \in Admitted : Owns(h)
        /\ \A h \in Hotkeys : h < turn /\ Owns(h) =>
             \E g \in Admitted : g <= h /\ slot[g].key = slot[h].key
    BY <1>0, <2>1 DEF FirstCome
  <2>3. \A h \in Admitted' : Owns(h)
    BY <1>3, <1>5, <2>1, <2>2
  <2>4. ASSUME Owns(turn)
        PROVE  \E g \in Admitted' : g <= turn /\ slot[g].key = slot[turn].key
    <3>1. CASE slot[turn].key \in spent
      <4>1. PICK g \in Admitted : slot[g].key = slot[turn].key
        BY <1>0, <2>1, <3>1 DEF Entered
      <4>2. g \in Admitted' /\ g <= turn
        BY <1>0, <1>2, <1>3 DEF Hotkeys
      <4>. QED BY <4>1, <4>2
    <3>2. CASE slot[turn].key \notin spent
      <4>1. Judge(turn) = "admitted"
        BY <1>0, <2>1, <2>4, <3>2, JudgeFacts
      <4>. QED BY <1>0, <1>3, <4>1
    <3>. QED BY <3>1, <3>2
  <2>5. ASSUME NEW h \in Hotkeys, h < turn', Owns(h)
        PROVE  \E g \in Admitted' : g <= h /\ slot[g].key = slot[h].key
    <3>1. h < turn \/ h = turn
      BY <1>0, <2>5 DEF Hotkeys
    <3>. QED BY <1>3, <2>2, <2>4, <2>5, <3>1
  <2>. QED BY <2>3, <2>5
<1>9. Bounded'
  BY <1>0 DEF Bounded
<1>. QED BY <1>0, <1>6, <1>7, <1>8, <1>9, WorldStays DEF IInv

-----------------------------------------------------------------------------
(* The specification. *)

LEMMA InvariantHoldsAtFirst == Init => IInv
<1>. SUFFICES ASSUME Init PROVE IInv
  OBVIOUS
<1>0. HotkeyCount \in Nat /\ MaxBlock \in Nat /\ MaxBlock >= 1
      /\ MaxBody \in Nat /\ MaxRounds \in Nat /\ MaxReorgs \in Nat /\ MaxSwaps \in Nat
  BY AdmissionAssumption DEF AdmissionAssumption
<1>1. PICK transfers \in Bodies : body = [hash \in {FirstBlock} |-> transfers]
  BY DEF Init
<1>2. transfers \in Seq(Transfers)
  <2>1. PICK k \in 0 .. MaxBody : transfers \in [1 .. k -> Transfers]
    BY DEF Bodies
  <2>. QED BY <1>0, <2>1
<1>3. Mined = {FirstBlock} /\ body \in [Mined -> Seq(Transfers)]
  BY <1>1, <1>2 DEF Mined
<1>4. owner \in [Mined -> [Hotkeys -> Coldkeys \cup {Nobody}]]
  BY <1>3 DEF Init
<1>5. /\ chain \in Seq(Hashes) /\ Len(chain) = 1 /\ chain[1] = FirstBlock
      /\ DOMAIN chain = 1 .. 1
  BY FirstBlockIsHash DEF Init
<1>6. slot \in [Hotkeys -> Slots] /\ \A h \in Hotkeys : slot[h].state = "absent"
  BY DEF Init, Absent, Slots
<1>7. verdict \in [Hotkeys -> Verdicts] /\ \A h \in Hotkeys : verdict[h] = "pending"
  BY DEF Init, AllPending, Verdicts
<1>8. \A n \in DOMAIN chain : chain[n] \in Mined /\ chain[n].number = n
  BY <1>3, <1>5 DEF FirstBlock
<1>9. Mined \subseteq Hashes
  BY <1>3, FirstBlockIsHash
<1>10. TypeOK
  <2>1. /\ turn \in 1 .. HotkeyCount + 1
        /\ rounds \in 0 .. MaxRounds /\ reorgs \in 0 .. MaxReorgs /\ swaps \in 0 .. MaxSwaps
    BY <1>0 DEF Init
  <2>3. /\ reader \in BOOLEAN /\ stage \in {"idle", "discovering"} /\ fee \in Fees \cup {0}
        /\ spent \subseteq Keys /\ steady \in BOOLEAN
        /\ usedBefore \subseteq Hotkeys \X Keys
        /\ stage = "idle" => turn = 1 /\ spent = {} /\ verdict = AllPending
    BY DEF Init
  <2>2. Len(chain) \in 1 .. MaxBlock
    BY <1>0, <1>5
  <2>. QED BY <1>3, <1>4, <1>5, <1>6, <1>7, <1>8, <1>9, <2>1, <2>2, <2>3 DEF TypeOK
<1>11. Fresh
  BY <1>3, <1>5 DEF Init, Fresh, FirstBlock
<1>12. Revealed /\ FirstCome /\ Bounded
  BY <1>6 DEF Init, Revealed, FirstCome, Bounded
<1>13. Entered
  BY <1>7 DEF Init, Entered, Admitted
<1>. QED BY <1>10, <1>11, <1>12, <1>13 DEF IInv

LEMMA InvariantIsInductive == IInv /\ [Next]_vars => IInv'
<1>. SUFFICES ASSUME IInv, [Next]_vars PROVE IInv'
  OBVIOUS
<1>1. ASSUME NEW transfers \in Bodies, NextBlock(transfers) PROVE IInv'
  BY <1>1, NextBlockPreserves
<1>2. ASSUME NEW transfers \in Bodies, Reorganise(transfers) PROVE IInv'
  BY <1>2, ReorganisePreserves
<1>3. ASSUME NEW h \in Hotkeys, NEW s \in Slots, Reveal(h, s) PROVE IInv'
  BY <1>3, RevealPreserves
<1>4. ASSUME NEW f \in Fees, NEW withReader \in BOOLEAN, BeginDiscovery(f, withReader)
      PROVE  IInv'
  BY <1>4, BeginPreserves
<1>5. CASE CheckHotkey
  BY <1>5, CheckHotkeyPreserves
<1>6. CASE EndDiscovery \/ DiscoveryRaises
  BY <1>6, EndPreserves
<1>7. CASE UNCHANGED vars
  <2>1. UNCHANGED <<chain, body, owner, slot, reorgs, swaps, stage, fee, reader, turn, spent,
                    verdict, usedBefore, rounds, steady>>
    BY <1>7 DEF vars, world, discovery
  <2>2. TypeOK' /\ Fresh' /\ Revealed' /\ Bounded'
    BY <2>1 DEF IInv, TypeOK, Fresh, Revealed, Bounded, Mined
  <2>3. /\ Admitted' = Admitted
        /\ \A h \in Hotkeys : Paid(h)' <=> Paid(h)
        /\ \A h \in Hotkeys : Owns(h)' <=> Owns(h)
    BY <2>1 DEF Admitted, Paid, Owns, Pays, Canonical, Mined
  <2>4. Admitted \subseteq Hotkeys
    BY DEF Admitted
  <2>. QED BY <2>1, <2>2, <2>3, <2>4 DEF IInv, Entered, FirstCome
<1>. QED BY <1>1, <1>2, <1>3, <1>4, <1>5, <1>6, <1>7 DEF Next

\* Every reachable state satisfies the invariant.
THEOREM InvariantAlwaysHolds == Spec => []IInv
BY InvariantHoldsAtFirst, InvariantIsInductive, PTL DEF Spec

\* Every variable keeps to its type, for every number of hotkeys, coldkeys and blocks.
THEOREM TypeCorrectness == Spec => []TypeOK
<1>1. IInv => TypeOK
  BY DEF IInv
<1>. QED BY <1>1, InvariantAlwaysHolds, PTL

\* A payment that stays on the chain enters exactly one submission of a round, the first
\* of those it was made for (the loop of discover, its `spent` and verify_payment).
THEOREM EachPaymentEntersOneHolds == Spec => []EachPaymentEntersOne
<1>1. IInv => EachPaymentEntersOne
  <2>1. SUFFICES ASSUME IInv, stage = "discovering", turn > HotkeyCount, fee > 0, reader, steady,
                        NEW key \in Keys
                 PROVE  {h \in Admitted : slot[h].key = key}
                          = {h \in Claimants(key) : \A g \in Claimants(key) : h <= g}
    BY DEF EachPaymentEntersOne
  <2>2. /\ TypeOK /\ Hotkeys \subseteq Nat /\ Admitted \subseteq Hotkeys
        /\ \A h \in Hotkeys : h < turn
        /\ \A g, h \in Admitted : slot[g].key = slot[h].key => g = h
    <3>1. TypeOK /\ HotkeyCount \in Nat /\ turn \in Nat
      BY <2>1, AdmissionAssumption DEF IInv, TypeOK, AdmissionAssumption
    <3>2. Hotkeys \subseteq Nat /\ \A h \in Hotkeys : h < turn
      BY <2>1, <3>1 DEF Hotkeys
    <3>. QED BY <2>1, <3>1, <3>2 DEF IInv, Entered, Admitted
  <2>3. /\ \A h \in Admitted : Owns(h)
        /\ \A h \in Hotkeys : Owns(h) => \E g \in Admitted : g <= h /\ slot[g].key = slot[h].key
    BY <2>1, <2>2 DEF IInv, FirstCome
  <2>4. ASSUME NEW h \in Hotkeys
        PROVE  h \in Claimants(key) <=> slot[h].key = key /\ Owns(h)
    <3>1. slot[h] \in Slots
      BY <2>2 DEF TypeOK
    <3>2. key # NoKey
      BY AdmissionAssumption DEF Keys, NoKey, AdmissionAssumption
    <3>3. slot[h].key = key => slot[h].state = "paid"
      BY <3>1, <3>2 DEF Slots
    <3>. QED BY <3>3 DEF Claimants, Owns
  <2>5. ASSUME NEW h \in Admitted, slot[h].key = key, NEW g \in Claimants(key)
        PROVE  h <= g
    <3>1. g \in Hotkeys /\ slot[g].key = key /\ Owns(g)
      BY <2>4 DEF Claimants
    <3>2. PICK first \in Admitted : first <= g /\ slot[first].key = key
      BY <2>3, <3>1
    <3>. QED BY <2>2, <2>5, <3>2
  <2>6. ASSUME NEW h \in Claimants(key), \A g \in Claimants(key) : h <= g
        PROVE  h \in Admitted /\ slot[h].key = key
    <3>1. h \in Hotkeys /\ slot[h].key = key /\ Owns(h)
      BY <2>4 DEF Claimants
    <3>2. PICK first \in Admitted : first <= h /\ slot[first].key = key
      BY <2>3, <3>1
    <3>3. first \in Claimants(key)
      BY <2>2, <2>3, <2>4, <3>2
    <3>. QED BY <2>2, <2>6, <3>1, <3>2, <3>3
  <2>7. \A h \in Admitted : slot[h].key = key => h \in Claimants(key)
    BY <2>2, <2>3, <2>4
  <2>. QED BY <2>5, <2>6, <2>7
<1>. QED BY <1>1, InvariantAlwaysHolds, PTL

\* Who is admitted under a fee has paid exactly that, from the coldkey that owned it at the
\* payment's block, and shares the payment with nobody, whatever is reorganised.
THEOREM AdmittedHasPaidHolds == Spec => []AdmittedHasPaid
<1>1. IInv => AdmittedHasPaid
  BY DEF IInv, Entered, Paid, AdmittedHasPaid
<1>. QED BY <1>1, InvariantAlwaysHolds, PTL

\* Nobody loses its place by another's naming its payment: only the payer's own other
\* submission can have entered by it.
THEOREM NobodyIsCrowdedOutHolds == Spec => []NobodyIsCrowdedOut
<1>1. IInv => NobodyIsCrowdedOut
  <2>1. SUFFICES ASSUME IInv, NEW h \in Hotkeys, verdict[h] = "spent"
                 PROVE  \E g \in Admitted \ {h} :
                          /\ slot[g].key = slot[h].key
                          /\ owner[slot[h].key.hash][g]
                               = body[slot[h].key.hash][slot[h].key.index].sender
    BY DEF NobodyIsCrowdedOut
  <2>2. PICK g \in Admitted \ {h} : fee > 0 /\ slot[g].key = slot[h].key
    BY <2>1 DEF IInv, Entered
  <2>3. Paid(g)
    BY <2>1, <2>2 DEF IInv, Entered
  <2>. QED BY <2>2, <2>3 DEF Paid
<1>. QED BY <1>1, InvariantAlwaysHolds, PTL
=============================================================================
