------------------------- MODULE RoundLedgerProofs -------------------------
(***************************************************************************)
(* For every set of submissions, outcomes and headers, every quantile      *)
(* above the half and every length of the round: whatever appends failed,  *)
(* the lines that decode form one chain, and a rewritten one does not      *)
(* verify; and a score moves the way its records do.                       *)
(*                                                                         *)
(* The score's argument is about the ceiling of winsorising, the least     *)
(* charge that a quantile of the charges does not exceed: it is monotone   *)
(* in the charges, and one more charge below all the others never raises   *)
(* it.  So a bill is monotone, and one cheap charge adds no more than      *)
(* itself.                                                                 *)
(***************************************************************************)
EXTENDS RoundLedger, Sums, SequenceTheorems

Lines == [previous : Seq(Records), link : Seq(Records), record : Records]

\* The chain holds of the whole lines even when the file ends in a torn one:
\* that is what makes it inductive where ReadableIsIntact is not.
Intact == TypeOK /\ Verify(file) /\ (tail = "unterminated" => file # <<>>)

\* The tip of a typed ledger is the link of its last line, or GENESIS.
LEMMA TipType ==
  ASSUME file \in Seq(Lines)
  PROVE  /\ Tip \in Seq(Records)
         /\ file = <<>> => Tip = Genesis
         /\ file # <<>> => Len(file) \in DOMAIN file /\ Tip = file[Len(file)].link
<1>1. CASE file = <<>>
  BY <1>1 DEF Tip, Genesis
<1>2. CASE file # <<>>
  <2>1. Len(file) \in DOMAIN file /\ file[Len(file)] \in Lines
    BY <1>2
  <2>2. file[Len(file)].link \in Seq(Records)
    BY <2>1 DEF Lines
  <2> QED  BY <1>2, <2>1, <2>2 DEF Tip, Last
<1> QED  BY <1>1, <1>2

\* append chains one more line to an unbroken ledger.
LEMMA AppendKeepsTheChain ==
  ASSUME file \in Seq(Lines), Verify(file), NEW r \in Records
  PROVE  /\ Append(file, Line(r)) \in Seq(Lines)
         /\ Verify(Append(file, Line(r)))
<1>1. Tip \in Seq(Records)
  BY TipType
<1>2. Line(r) \in Lines
  BY <1>1 DEF Line, Lines, ComputeLink
<1>3. Append(file, Line(r)) \in Seq(Lines)
  BY <1>2
<1>4. ASSUME NEW i \in DOMAIN Append(file, Line(r))
      PROVE  LET g == Append(file, Line(r)) IN
             /\ g[i].previous = (IF i = 1 THEN Genesis ELSE g[i - 1].link)
             /\ g[i].link = ComputeLink(g[i].previous, g[i].record)
  <2> DEFINE g == Append(file, Line(r))
  <2>1. DOMAIN g = 1 .. Len(file) + 1 /\ Len(file) \in Nat /\ DOMAIN file = 1 .. Len(file)
    BY <1>2
  <2>2. g[Len(file) + 1] = Line(r) /\ \A j \in 1 .. Len(file) : g[j] = file[j]
    BY <1>2
  <2>3. CASE i \in 1 .. Len(file)
    <3>1. i # 1 => i - 1 \in 1 .. Len(file)
      BY <2>1, <2>3
    <3> QED  BY <2>1, <2>2, <2>3, <3>1 DEF Verify
  <2>4. CASE i = Len(file) + 1
    <3>1. g[i].previous = Tip /\ g[i].link = ComputeLink(Tip, r) /\ g[i].record = r
      BY <2>2, <2>4 DEF Line
    <3>2. CASE file = <<>>
      BY <3>1, <3>2, <2>4, TipType
    <3>3. CASE file # <<>>
      <4>1. i # 1 /\ i - 1 = Len(file) /\ Len(file) \in 1 .. Len(file)
        BY <2>1, <2>4, <3>3
      <4>2. g[i - 1] = file[Len(file)]
        BY <4>1, <2>2
      <4> QED  BY <3>1, <3>3, <4>1, <4>2, TipType
    <3> QED  BY <3>2, <3>3
  <2> QED  BY <2>1, <2>3, <2>4
<1> QED  BY <1>3, <1>4 DEF Verify

\* Losing the last line leaves an unbroken ledger.
LEMMA FrontKeepsTheChain ==
  ASSUME file \in Seq(Lines), file # <<>>, Verify(file)
  PROVE  Front(file) \in Seq(Lines) /\ Verify(Front(file))
<1>1. Len(file) \in Nat \ {0} /\ DOMAIN file = 1 .. Len(file)
  OBVIOUS
<1>2. /\ Front(file) \in Seq(Lines)
      /\ DOMAIN Front(file) = 1 .. Len(file) - 1
      /\ \A i \in 1 .. Len(file) - 1 : Front(file)[i] = file[i]
  BY <1>1 DEF Front
<1> QED  BY <1>1, <1>2 DEF Verify

\* Every step keeps the types and the chain.
LEMMA StepKeepsTheChain == Intact /\ [Next]_vars => Intact'
<1> SUFFICES ASSUME Intact, [Next]_vars PROVE Intact'
  OBVIOUS
<1>1. /\ file \in Seq(Lines) /\ Verify(file) /\ header \in Headers \cup {NoHeader}
      /\ tail \in {"whole", "unterminated", "torn"}
      /\ header = NoHeader => file = <<>> /\ tail = "whole"
      /\ tail = "unterminated" => file # <<>>
  BY DEF Intact, TypeOK, Lines
<1>2. NoHeader \notin Headers
  BY LedgerAssumption
<1>3. ASSUME NEW h \in Headers, OpenRound(h) PROVE Intact'
  BY <1>1, <1>2, <1>3 DEF OpenRound, Intact, TypeOK, Verify, Lines
<1>4. ASSUME NEW r \in Records, AppendRecord(r) PROVE Intact'
  <2>1. /\ header' = header /\ header # NoHeader /\ tail' = tail
        /\ file' = Append(file, Line(r))
    BY <1>4 DEF AppendRecord, Appendable, Opened
  <2>2. file' \in Seq(Lines) /\ Verify(file')
    BY <1>1, <2>1, AppendKeepsTheChain
  <2>3. file' = Append(file, Line(r)) => file' # <<>>
    BY <1>1, TipType DEF Line, Lines, ComputeLink
  <2> QED  BY <1>1, <2>1, <2>2, <2>3 DEF Intact, TypeOK, Verify, Lines
<1>5. ASSUME NEW r \in Records, AppendFails(r) PROVE Intact'
  <2>1. /\ header' = header /\ header # NoHeader /\ tail' \in {"torn", "unterminated"}
        /\ \/ file' = file /\ tail' = "torn"
           \/ file' = Append(file, Line(r))
    BY <1>5 DEF AppendFails, Appendable, Opened
  <2>2. file' \in Seq(Lines) /\ Verify(file')
    BY <1>1, <2>1, AppendKeepsTheChain
  <2>3. file' = Append(file, Line(r)) => file' # <<>>
    BY <1>1, TipType DEF Line, Lines, ComputeLink
  <2> QED  BY <1>1, <2>1, <2>2, <2>3 DEF Intact, TypeOK, Verify, Lines
<1>6. ASSUME NEW r \in Records, AppendJoins(r) PROVE Intact'
  <2>1. header' = header /\ header # NoHeader /\ tail' = "torn" /\ file' = Front(file) /\ file # <<>>
    BY <1>1, <1>6 DEF AppendJoins, Appendable, Opened
  <2>2. file' \in Seq(Lines) /\ Verify(file')
    BY <1>1, <2>1, FrontKeepsTheChain
  <2> QED  BY <1>1, <2>1, <2>2 DEF Intact, TypeOK, Verify, Lines
<1>7. CASE UNCHANGED vars
  BY <1>1, <1>7 DEF vars, Intact, TypeOK, Verify, Lines
<1> QED  BY <1>3, <1>4, <1>5, <1>6, <1>7 DEF Next

\* The chain of whole lines is never broken.
THEOREM ChainAlwaysHolds == Spec => []Intact
<1>1. Init => Intact
  BY DEF Init, Intact, TypeOK, Verify
<1> QED  BY <1>1, StepKeepsTheChain, PTL DEF Spec

\* The ledger keeps its types, and holds no record before its header.
THEOREM TypeCorrectness == Spec => []TypeOK
<1>1. Intact => TypeOK
  BY DEF Intact
<1> QED  BY <1>1, ChainAlwaysHolds, PTL

\* A ledger that decodes verifies, whatever appends failed before.
THEOREM ReadableLedgerVerifies == Spec => []ReadableIsIntact
<1>1. Intact => ReadableIsIntact
  BY DEF Intact, ReadableIsIntact
<1> QED  BY <1>1, ChainAlwaysHolds, PTL

-----------------------------------------------------------------------------
(* A history rewritten in one place. *)

\* A link is longer than the link it follows: a line cannot come right after the line
\* before its own predecessor.
LEMMA LinkIsNotItsPrevious ==
  ASSUME NEW p \in Seq(Records), NEW r \in Records
  PROVE  ComputeLink(p, r) # p
<1>1. Len(Append(p, r)) = Len(p) + 1 /\ Len(p) \in Nat
  BY AppendProperties
<1> QED  BY <1>1 DEF ComputeLink

\* The lines of a verified ledger: each follows the link before it, and commits to it.
LEMMA LinesOfTheChain ==
  ASSUME file \in Seq(Lines), Verify(file), NEW i \in 1 .. Len(file)
  PROVE  /\ file[i].previous \in Seq(Records) /\ file[i].record \in Records
         /\ file[i].link = ComputeLink(file[i].previous, file[i].record)
         /\ file[i].previous = IF i = 1 THEN Genesis ELSE file[i - 1].link
         /\ i < Len(file) => file[i + 1].previous = file[i].link
<1>1. DOMAIN file = 1 .. Len(file) /\ Len(file) \in Nat /\ file[i] \in Lines
  BY LenProperties, ElementOfSeq
<1>2. file[i].previous \in Seq(Records) /\ file[i].record \in Records
  BY <1>1 DEF Lines
<1>3. /\ file[i].link = ComputeLink(file[i].previous, file[i].record)
      /\ file[i].previous = IF i = 1 THEN Genesis ELSE file[i - 1].link
  BY <1>1 DEF Verify
<1>4. ASSUME i < Len(file) PROVE file[i + 1].previous = file[i].link
  <2>1. i + 1 \in DOMAIN file /\ i + 1 # 1 /\ (i + 1) - 1 = i
    BY <1>1, <1>4
  <2> QED  BY <2>1 DEF Verify
<1> QED  BY <1>2, <1>3, <1>4

\* Where line i + 1 stands at i, behind the same lines as line i did, the chain breaks.
LEMMA LineOutOfPlace ==
  ASSUME file \in Seq(Lines), Verify(file), NEW i \in 1 .. Len(file) - 1,
         NEW g, i \in DOMAIN g, g[i] = file[i + 1], i # 1 => g[i - 1] = file[i - 1]
  PROVE  ~Verify(g)
<1>1. i \in 1 .. Len(file) /\ i < Len(file)
  BY LenProperties
<1>2. /\ file[i].previous \in Seq(Records) /\ file[i].record \in Records
      /\ file[i].link = ComputeLink(file[i].previous, file[i].record)
      /\ file[i].previous = IF i = 1 THEN Genesis ELSE file[i - 1].link
      /\ file[i + 1].previous = file[i].link
  BY <1>1, LinesOfTheChain
<1>3. file[i].link # file[i].previous
  BY <1>2, LinkIsNotItsPrevious
<1>4. Verify(g) => g[i].previous = IF i = 1 THEN Genesis ELSE g[i - 1].link
  BY DEF Verify
<1> QED  BY <1>2, <1>3, <1>4

\* A line that is gone.
LEMMA RemovalIsDetected ==
  ASSUME file \in Seq(Lines), Verify(file), NEW i \in 1 .. Len(file) - 1
  PROVE  ~Verify(RemoveAt(file, i))
<1> DEFINE front == SubSeq(file, 1, i - 1)
           back == SubSeq(file, i + 1, Len(file))
<1>1. Len(file) \in Nat /\ \A j \in 1 .. Len(file) : file[j] \in Lines
  BY LenProperties, ElementOfSeq
<1>2. /\ front \in Seq(Lines) /\ Len(front) = i - 1
      /\ \A j \in 1 .. i - 1 : front[j] = file[j]
  <2>1. \A j \in 1 .. i - 1 : file[j] \in Lines
    BY <1>1
  <2>2. /\ front \in Seq(Lines)
        /\ Len(front) = IF 1 <= i - 1 THEN (i - 1) - 1 + 1 ELSE 0
        /\ \A j \in 1 .. (i - 1) - 1 + 1 : front[j] = file[1 + j - 1]
    BY <1>1, <2>1, SubSeqProperties
  <2> QED  BY <1>1, <2>2
<1>3. /\ back \in Seq(Lines) /\ Len(back) = Len(file) - i
      /\ back[1] = file[i + 1]
  <2>1. \A j \in i + 1 .. Len(file) : file[j] \in Lines
    BY <1>1
  <2>2. /\ back \in Seq(Lines)
        /\ Len(back) = IF i + 1 <= Len(file) THEN Len(file) - (i + 1) + 1 ELSE 0
        /\ \A j \in 1 .. Len(file) - (i + 1) + 1 : back[j] = file[i + 1 + j - 1]
    BY <1>1, <2>1, SubSeqProperties
  <2>3. 1 \in 1 .. Len(file) - (i + 1) + 1 /\ i + 1 + 1 - 1 = i + 1
    BY <1>1
  <2>4. back[1] = file[i + 1]
    BY <2>2, <2>3
  <2> QED  BY <1>1, <2>2, <2>4
<1> HIDE DEF front, back
<1>4. /\ front \o back \in Seq(Lines) /\ Len(front \o back) = Len(file) - 1
      /\ \A j \in 1 .. Len(file) - 1 :
           (front \o back)[j] = IF j <= i - 1 THEN front[j] ELSE back[j - (i - 1)]
  <2>1. /\ front \o back \in Seq(Lines) /\ Len(front \o back) = Len(front) + Len(back)
        /\ \A j \in 1 .. Len(front) + Len(back) :
             (front \o back)[j] = IF j <= Len(front) THEN front[j] ELSE back[j - Len(front)]
    BY <1>2, <1>3, ConcatProperties, Zenon
  <2>2. Len(front) + Len(back) = Len(file) - 1 /\ Len(front) = i - 1
    BY <1>1, <1>2, <1>3
  <2> QED  BY <2>1, <2>2, Zenon
<1>5. RemoveAt(file, i) = front \o back
  BY DEF RemoveAt, front, back
<1> DEFINE g == RemoveAt(file, i)
<1>6. i \in DOMAIN g
  BY <1>1, <1>4, <1>5, LenProperties
<1>7. g[i] = file[i + 1]
  <2>1. ~(i <= i - 1) /\ i - (i - 1) = 1
    BY <1>1
  <2> QED  BY <1>1, <1>3, <1>4, <1>5, <2>1
<1>8. i # 1 => g[i - 1] = file[i - 1]
  BY <1>1, <1>2, <1>4, <1>5
<1> HIDE DEF g
<1>9. ~Verify(g)
  BY <1>6, <1>7, <1>8, LineOutOfPlace
<1> QED  BY <1>9 DEF g

\* Two neighbours exchanged.
LEMMA ExchangeIsDetected ==
  ASSUME file \in Seq(Lines), Verify(file), NEW i \in 1 .. Len(file) - 1
  PROVE  ~Verify([file EXCEPT ![i] = file[i + 1], ![i + 1] = file[i]])
<1> DEFINE g == [file EXCEPT ![i] = file[i + 1], ![i + 1] = file[i]]
<1>1. Len(file) \in Nat /\ DOMAIN file = 1 .. Len(file)
  BY LenProperties
<1>2. i \in DOMAIN file /\ i + 1 # i /\ (i # 1 => i - 1 \in DOMAIN file /\ i - 1 # i /\ i - 1 # i + 1)
  BY <1>1
<1>3. i \in DOMAIN g /\ g[i] = file[i + 1] /\ (i # 1 => g[i - 1] = file[i - 1])
  BY <1>2
<1> HIDE DEF g
<1>4. ~Verify(g)
  BY <1>3, LineOutOfPlace
<1> QED  BY <1>4 DEF g

\* The outcome of one record changed.
LEMMA AlterationIsDetected ==
  ASSUME file \in Seq(Lines), Verify(file), NEW i \in DOMAIN file,
         NEW o \in Outcomes \ {file[i].record.outcome}
  PROVE  ~Verify([file EXCEPT ![i].record.outcome = o])
<1> DEFINE g == [file EXCEPT ![i].record.outcome = o]
<1>1. i \in 1 .. Len(file)
  BY LenProperties
<1>2. /\ file[i].previous \in Seq(Records) /\ file[i].record \in Records
      /\ file[i].link = ComputeLink(file[i].previous, file[i].record)
  BY <1>1, LinesOfTheChain
<1>3. file[i] \in Lines
  BY <1>1, ElementOfSeq
<1>4. /\ i \in DOMAIN g
      /\ g[i] = [file[i] EXCEPT !.record.outcome = o]
  OBVIOUS
<1>5. /\ g[i].previous = file[i].previous /\ g[i].link = file[i].link
      /\ g[i].record = [file[i].record EXCEPT !.outcome = o]
  BY <1>3, <1>4 DEF Lines
<1>6. g[i].record \in Records /\ g[i].record.outcome = o
  BY <1>2, <1>5 DEF Records
<1>7. g[i].record # file[i].record
  BY <1>6
<1>8. ComputeLink(file[i].previous, g[i].record) # ComputeLink(file[i].previous, file[i].record)
  <2>1. \A p \in Seq(Records) : \A r, s \in Records : Append(p, r) = Append(p, s) => r = s
    BY AppendInjective
  <2> QED  BY <1>2, <1>6, <1>7, <2>1 DEF ComputeLink
<1> HIDE DEF g
<1>9. ~Verify(g)
  BY <1>2, <1>4, <1>5, <1>8 DEF Verify
<1> QED  BY <1>9 DEF g

\* No line of a ledger can be taken out from before the last, exchanged with the next or
\* have its outcome changed without Ledger.verify finding the chain broken.
THEOREM RewritingAlwaysDetected == Spec => []RewritingIsDetected
<1>1. ASSUME Intact PROVE RewritingIsDetected
  <2>1. file \in Seq(Lines) /\ Verify(file)
    BY <1>1 DEF Intact, TypeOK, Lines
  <2>2. SUFFICES ASSUME NEW lines \in Rewritten PROVE ~Verify(lines)
    BY DEF RewritingIsDetected
  <2>3. ASSUME NEW i \in 1 .. Len(file) - 1, lines = RemoveAt(file, i) PROVE ~Verify(lines)
    BY <2>1, <2>3, RemovalIsDetected
  <2>4. ASSUME NEW i \in 1 .. Len(file) - 1,
               lines = [file EXCEPT ![i] = file[i + 1], ![i + 1] = file[i]]
        PROVE  ~Verify(lines)
    BY <2>1, <2>4, ExchangeIsDetected
  <2>5. ASSUME NEW i \in DOMAIN file, NEW o \in Outcomes \ {file[i].record.outcome},
               lines = [file EXCEPT ![i].record.outcome = o]
        PROVE  ~Verify(lines)
    BY <2>1, <2>5, AlterationIsDetected
  <2> QED  BY <2>2, <2>3, <2>4, <2>5 DEF Rewritten
<1> QED  BY <1>1, ChainAlwaysHolds, PTL

-----------------------------------------------------------------------------
(* The winsorised bill. *)

\* The lesser and the greater of two.
LEMMA OfTwo ==
  ASSUME NEW a \in Nat, NEW b \in Nat
  PROVE  /\ Min({a, b}) = IF a <= b THEN a ELSE b
         /\ Max({a, b}) = IF a <= b THEN b ELSE a
<1>. DEFINE m == IF a <= b THEN a ELSE b
            n == IF a <= b THEN b ELSE a
<1>1. m \in {a, b} /\ (\A y \in {a, b} : m <= y) /\ \A x \in {a, b} : (\A y \in {a, b} : x <= y) => x = m
  OBVIOUS
<1>2. n \in {a, b} /\ (\A y \in {a, b} : n >= y) /\ \A x \in {a, b} : (\A y \in {a, b} : x >= y) => x = n
  OBVIOUS
<1>. HIDE DEF m, n
<1>3. Min({a, b}) = m
  BY <1>1 DEF Min
<1>4. Max({a, b}) = n
  BY <1>2 DEF Max
<1>. QED BY <1>3, <1>4 DEF m, n

\* The quantile of n charges is one of them, and one charge more moves it by one at most.
LEMMA QuantileRanks ==
  ASSUME NEW n \in Nat \ {0}
  PROVE  /\ QuantileRank(n) \in Nat \ {0} /\ QuantileRank(n) <= n
         /\ QuantileRank(n + 1) <= QuantileRank(n) + 1
<1>1. /\ QuantileNum \in Nat \ {0} /\ QuantileDen \in Nat \ {0}
      /\ QuantileNum <= QuantileDen
  BY LedgerAssumption DEF LedgerAssumption
<1>. DEFINE q == QuantileNum
            d == QuantileDen
<1>2. QuantileRank(n) = (q * n + d - 1) \div d /\ QuantileRank(n + 1) = (q * (n + 1) + d - 1) \div d
  BY DEF QuantileRank
<1>. HIDE DEF q, d
<1>3. q \in Nat \ {0} /\ d \in Nat \ {0} /\ q <= d
  BY <1>1 DEF q, d
<1>4. /\ q * n \in Nat \ {0} /\ d * n \in Nat /\ q * n <= d * n
      /\ q * (n + 1) = q * n + q
  <2>1. \A a, b \in Nat \ {0} : a * b \in Nat \ {0} /\ a * (b + 1) = a * b + a /\ a * b = b * a
    OBVIOUS
  <2>2. n * q <= n * d
    BY <1>3, Cancels
  <2>3. q * n = n * q /\ d * n = n * d
    BY <1>3, <2>1
  <2>. QED BY <1>3, <2>1, <2>2, <2>3
<1>. DEFINE a == q * n + d - 1
            r == a \div d
<1>5. a \in Nat /\ d * 1 <= a /\ a < d * n + d /\ d * 1 = d
  BY <1>3, <1>4
<1>6. r \in Nat /\ 1 <= r /\ r <= n /\ a < d * r + d
  <2>. HIDE DEF a
  <2>1. 1 <= r
    <3>1. 1 \in Nat
      OBVIOUS
    <3>. QED BY <1>3, <1>5, <3>1, Quotient
  <2>2. r <= n
    BY <1>3, <1>5, Quotient
  <2>3. r \in Nat /\ a % d \in Nat /\ a % d < d /\ a = d * r + (a % d) /\ d * r \in Nat
    BY <1>3, <1>5, Division
  <2>. QED BY <1>3, <2>1, <2>2, <2>3
<1>7. (q * (n + 1) + d - 1) \div d <= r + 1
  <2>1. r + 1 \in Nat /\ d * (r + 1) = d * r + d /\ d * r \in Nat
    <3>1. \A x, y \in Nat : x * (y + 1) = x * y + x /\ x * y \in Nat
      OBVIOUS
    <3>. HIDE DEF r
    <3>. QED BY <1>3, <1>6, <3>1
  <2>2. q * (n + 1) + d - 1 \in Nat /\ q * (n + 1) + d - 1 = a + q
    BY <1>3, <1>4
  <2>. HIDE DEF a
  <2>3. a + q < d * (r + 1) + d
    BY <1>3, <1>5, <1>6, <2>1
  <2>. QED BY <1>3, <2>1, <2>2, <2>3, Quotient
<1>8. QuantileRank(n) = r
  BY <1>2
<1>. HIDE DEF r
<1>. QED BY <1>2, <1>6, <1>7, <1>8

\* Charges of a scored round.
Bill(charges) ==
  /\ charges \in [DOMAIN charges -> Nat]
  /\ IsFiniteSet(DOMAIN charges) /\ DOMAIN charges # {}

\* More charges are up to more.
LEMMA Counting ==
  ASSUME NEW charges, Bill(charges), NEW b \in Int, NEW c \in Int, b <= c
  PROVE  /\ NumberUpTo(charges, b) \in Nat
         /\ NumberUpTo(charges, b) <= NumberUpTo(charges, c)
         /\ NumberUpTo(charges, b) <= Cardinality(DOMAIN charges)
<1>. DEFINE D == DOMAIN charges
            Up(x) == {i \in D : charges[i] <= x}
<1>1. \A x \in Int : IsFiniteSet(Up(x)) /\ Cardinality(Up(x)) \in Nat /\ Cardinality(Up(x)) <= Cardinality(D)
  BY FS_Subset, FS_CardinalityType DEF Bill
<1>2. Up(b) \in SUBSET Up(c)
  BY DEF Bill
<1>3. Cardinality(Up(b)) <= Cardinality(Up(c))
  BY <1>1, <1>2, FS_Subset
<1>. QED BY <1>1, <1>3 DEF NumberUpTo

\* The ceiling is the charge at the quantile: it is one of them, fewer than the rank are below
\* it, and nothing less will do.
LEMMA CeilingIs ==
  ASSUME NEW charges, Bill(charges)
  PROVE  /\ Ceiling(charges) \in Nat
         /\ \E i \in DOMAIN charges : Ceiling(charges) = charges[i]
         /\ QuantileRank(Cardinality(DOMAIN charges)) <= NumberUpTo(charges, Ceiling(charges))
         /\ \A c \in Nat : QuantileRank(Cardinality(DOMAIN charges)) <= NumberUpTo(charges, c)
                             => Ceiling(charges) <= c
<1>. DEFINE D == DOMAIN charges
            n == Cardinality(D)
            rank == QuantileRank(n)
            Is(c) == NumberUpTo(charges, c - 1) < rank /\ rank <= NumberUpTo(charges, c)
            S == {c \in Nat : rank <= NumberUpTo(charges, c)}
<1>1. n \in Nat \ {0} /\ rank \in Nat \ {0} /\ rank <= n /\ IsFiniteSet(D) /\ charges \in [D -> Nat]
  <2>1. n \in Nat \ {0}
    BY FS_CardinalityType, FS_EmptySet DEF Bill
  <2>. HIDE DEF n
  <2>2. rank \in Nat \ {0} /\ rank <= n
    BY <2>1, QuantileRanks
  <2>. QED BY <2>1, <2>2 DEF Bill
<1>2. Ceiling(charges) = CHOOSE c \in Range(charges) : Is(c)
  BY DEF Ceiling
<1>. HIDE DEF rank
<1>3. S # {}
  <2>. DEFINE top == SumFunctionOnSet(charges, D)
  <2>1. \A i \in D : charges[i] \in Nat
    BY <1>1
  <2>2. top \in Nat
    BY <1>1, <2>1, SumType
  <2>3. ASSUME NEW i \in D PROVE charges[i] <= top
    <3>1. top = charges[i] + SumFunctionOnSet(charges, D \ {i}) /\ SumFunctionOnSet(charges, D \ {i}) \in Nat
      BY <1>1, <2>1, SumTakes
    <3>. HIDE DEF top
    <3>. QED BY <2>1, <3>1
  <2>. HIDE DEF top
  <2>4. {i \in D : charges[i] <= top} = D
    BY <2>3
  <2>5. NumberUpTo(charges, top) = n
    BY <2>4 DEF NumberUpTo
  <2>. QED BY <1>1, <2>2, <2>5
<1>4. PICK m \in S : \A c \in S : m <= c
  BY <1>3, LeastNatural
<1>5. m \in Nat /\ rank <= NumberUpTo(charges, m)
  BY <1>4
<1>6. NumberUpTo(charges, m - 1) < rank
  <2>1. CASE m = 0
    <3>1. {i \in D : charges[i] <= m - 1} = {}
      BY <1>1, <2>1
    <3>2. NumberUpTo(charges, m - 1) = 0
      BY <3>1, FS_EmptySet DEF NumberUpTo
    <3>. QED BY <1>1, <3>2
  <2>2. CASE m # 0
    <3>1. m - 1 \in Nat /\ m - 1 < m
      BY <1>5, <2>2
    <3>2. m - 1 \notin S
      BY <1>4, <1>5, <3>1
    <3>3. NumberUpTo(charges, m - 1) \in Nat
      BY <3>1, Counting
    <3>. QED BY <1>1, <3>1, <3>2, <3>3
  <2>. QED BY <2>1, <2>2
<1>7. \E i \in D : charges[i] = m
  <2>1. SUFFICES ASSUME \A i \in D : charges[i] # m PROVE FALSE
    OBVIOUS
  <2>2. {i \in D : charges[i] <= m - 1} = {i \in D : charges[i] <= m}
    BY <1>1, <1>5, <2>1
  <2>3. NumberUpTo(charges, m - 1) = NumberUpTo(charges, m)
    BY <2>2 DEF NumberUpTo
  <2>4. NumberUpTo(charges, m) \in Nat
    BY <1>5, Counting
  <2>. QED BY <1>1, <1>5, <1>6, <2>3, <2>4
<1>8. m \in Range(charges) /\ Is(m)
  BY <1>5, <1>6, <1>7 DEF Range
<1>9. Ceiling(charges) \in Range(charges) /\ Is(Ceiling(charges))
  BY <1>2, <1>8
<1>10. Ceiling(charges) \in Nat /\ \E i \in D : Ceiling(charges) = charges[i]
  BY <1>1, <1>9 DEF Range
<1>11. ASSUME NEW c \in Nat, rank <= NumberUpTo(charges, c) PROVE Ceiling(charges) <= c
  <2>1. SUFFICES ASSUME c <= Ceiling(charges) - 1 PROVE FALSE
    BY <1>10
  <2>2. Ceiling(charges) - 1 \in Int /\ c \in Int
    BY <1>10
  <2>3. NumberUpTo(charges, c) <= NumberUpTo(charges, Ceiling(charges) - 1)
    BY <2>1, <2>2, Counting
  <2>4. NumberUpTo(charges, c) \in Nat /\ NumberUpTo(charges, Ceiling(charges) - 1) \in Nat
    BY <2>2, Counting
  <2>5. NumberUpTo(charges, Ceiling(charges) - 1) < rank
    BY <1>9
  <2>. QED BY <1>1, <1>11, <2>3, <2>4, <2>5
<1>. QED BY <1>9, <1>10, <1>11 DEF rank

\* Higher charges have no lower ceiling.
LEMMA CeilingIsMonotone ==
  ASSUME NEW v, Bill(v), NEW w, Bill(w), DOMAIN w = DOMAIN v,
         \A i \in DOMAIN v : v[i] <= w[i]
  PROVE  Ceiling(v) <= Ceiling(w)
<1>. DEFINE D == DOMAIN v
            c == Ceiling(w)
            rank == QuantileRank(Cardinality(D))
<1>1. c \in Nat /\ rank <= NumberUpTo(w, c)
  BY CeilingIs
<1>2. NumberUpTo(w, c) <= NumberUpTo(v, c)
  <2>1. {i \in D : w[i] <= c} \in SUBSET {i \in D : v[i] <= c}
    BY <1>1 DEF Bill
  <2>2. IsFiniteSet({i \in D : v[i] <= c})
    BY FS_Subset DEF Bill
  <2>3. Cardinality({i \in D : w[i] <= c}) <= Cardinality({i \in D : v[i] <= c})
    BY <2>1, <2>2, FS_Subset
  <2>. QED BY <2>3 DEF NumberUpTo
<1>3. NumberUpTo(w, c) \in Nat /\ NumberUpTo(v, c) \in Nat
  BY <1>1, Counting
<1>4. rank \in Nat
  <2>1. Cardinality(D) \in Nat \ {0}
    BY FS_CardinalityType, FS_EmptySet DEF Bill
  <2>. QED BY <2>1, QuantileRanks
<1>5. rank <= NumberUpTo(v, c)
  BY <1>1, <1>2, <1>3, <1>4
<1>. QED BY <1>1, <1>5, CeilingIs

\* One more charge, no greater than the others, does not raise the ceiling.
LEMMA CeilingOfOneMore ==
  ASSUME NEW v, Bill(v), NEW k, k \notin DOMAIN v, NEW w, Bill(w),
         DOMAIN w = DOMAIN v \cup {k},
         \A i \in DOMAIN v : w[i] = v[i] /\ w[k] <= v[i]
  PROVE  Ceiling(w) <= Ceiling(v)
<1>. DEFINE D == DOMAIN v
            n == Cardinality(D)
            c == Ceiling(v)
<1>1. c \in Nat /\ QuantileRank(n) <= NumberUpTo(v, c) /\ \E i \in D : c = v[i]
  BY CeilingIs
<1>2. n \in Nat \ {0} /\ IsFiniteSet(D)
  BY FS_CardinalityType, FS_EmptySet DEF Bill
<1>3. Cardinality(D \cup {k}) = n + 1
  BY <1>2, FS_AddElement
<1>4. NumberUpTo(w, c) = NumberUpTo(v, c) + 1
  <2>. DEFINE A == {i \in D : v[i] <= c}
  <2>1. w[k] <= c
    BY <1>1
  <2>2. {i \in D \cup {k} : w[i] <= c} = A \cup {k} /\ k \notin A
    BY <2>1
  <2>3. IsFiniteSet(A)
    BY <1>2, FS_Subset
  <2>4. Cardinality(A \cup {k}) = Cardinality(A) + 1
    BY <2>2, <2>3, FS_AddElement
  <2>5. NumberUpTo(w, c) = Cardinality({i \in D \cup {k} : w[i] <= c}) /\ NumberUpTo(v, c) = Cardinality(A)
    BY DEF NumberUpTo
  <2>. QED BY <2>2, <2>4, <2>5
<1>5. /\ QuantileRank(n) \in Nat /\ QuantileRank(n + 1) <= QuantileRank(n) + 1
      /\ QuantileRank(n + 1) \in Nat
  <2>. HIDE DEF n
  <2>1. n + 1 \in Nat \ {0}
    BY <1>2
  <2>. QED BY <1>2, <2>1, QuantileRanks
<1>6. NumberUpTo(v, c) \in Nat
  BY <1>1, Counting
<1>7. QuantileRank(n + 1) <= NumberUpTo(w, c)
  BY <1>1, <1>4, <1>5, <1>6
<1>8. QuantileRank(Cardinality(DOMAIN w)) <= NumberUpTo(w, c)
  BY <1>3, <1>7
<1>. QED BY <1>1, <1>8, CeilingIs

\* What is billed: every charge, or the ceiling where it is higher.
LEMMA WinsorizedIs ==
  ASSUME NEW charges, Bill(charges), NEW low \in Nat, \A i \in DOMAIN charges : low <= charges[i]
  PROVE  /\ Winsorized(charges) \in [DOMAIN charges -> Nat]
         /\ \A i \in DOMAIN charges :
              /\ Winsorized(charges)[i]
                   = IF charges[i] <= Ceiling(charges) THEN charges[i] ELSE Ceiling(charges)
              /\ low <= Winsorized(charges)[i]
         /\ SumFunction(Winsorized(charges)) \in Nat
         /\ SumFunction(Winsorized(charges)) = SumFunctionOnSet(Winsorized(charges), DOMAIN charges)
         /\ low * Cardinality(DOMAIN charges) <= SumFunction(Winsorized(charges))
<1>. DEFINE D == DOMAIN charges
            c == Ceiling(charges)
            w == Winsorized(charges)
<1>1. c \in Nat /\ low <= c /\ \A i \in D : charges[i] \in Nat
  BY CeilingIs DEF Bill
<1>2. w = [i \in D |-> Min({charges[i], c})]
  BY DEF Winsorized
<1>3. \A i \in D : w[i] = IF charges[i] <= c THEN charges[i] ELSE c
  BY <1>1, <1>2, OfTwo
<1>4. w \in [D -> Nat]
  BY <1>1, <1>2, <1>3
<1>5. DOMAIN w = D /\ IsFiniteSet(D) /\ \A i \in D : w[i] \in Nat /\ low <= w[i]
  BY <1>1, <1>3, <1>4 DEF Bill
<1>. HIDE DEF w, c
<1>6. SumFunction(w) = SumFunctionOnSet(w, D) /\ SumFunctionOnSet(w, D) \in Nat
  <2>1. SumFunctionOnSet(w, D) \in Nat
    BY <1>5, SumType
  <2>. QED BY <1>5, <2>1 DEF SumFunction
<1>7. low * Cardinality(D) <= SumFunctionOnSet(w, D)
  <2>. DEFINE same == [i \in D |-> low]
  <2>1. \A i \in D : same[i] = low /\ same[i] \in Nat /\ w[i] \in Nat /\ same[i] <= w[i]
    BY <1>5
  <2>. HIDE DEF same
  <2>2. SumFunctionOnSet(same, D) = low * Cardinality(D)
    BY <1>5, <2>1, SumOfEqual
  <2>3. SumFunctionOnSet(same, D) <= SumFunctionOnSet(w, D)
    BY <1>5, <2>1, SumIsMonotone
  <2>. QED BY <2>2, <2>3
<1>. QED BY <1>3, <1>4, <1>5, <1>6, <1>7 DEF w, c

\* Higher charges make no lower bill.
LEMMA BillIsMonotone ==
  ASSUME NEW v, Bill(v), NEW w, Bill(w), DOMAIN w = DOMAIN v,
         \A i \in DOMAIN v : v[i] <= w[i]
  PROVE  SumFunction(Winsorized(v)) <= SumFunction(Winsorized(w))
<1>. DEFINE D == DOMAIN v
            x == Winsorized(v)
            y == Winsorized(w)
<1>1. Ceiling(v) <= Ceiling(w) /\ Ceiling(v) \in Nat /\ Ceiling(w) \in Nat
  BY CeilingIsMonotone, CeilingIs
<1>2. IsFiniteSet(D) /\ \A i \in D : v[i] \in Nat /\ w[i] \in Nat
  BY DEF Bill
<1>3. /\ \A i \in D : x[i] = IF v[i] <= Ceiling(v) THEN v[i] ELSE Ceiling(v)
      /\ \A i \in D : y[i] = IF w[i] <= Ceiling(w) THEN w[i] ELSE Ceiling(w)
      /\ SumFunction(x) = SumFunctionOnSet(x, D) /\ SumFunction(y) = SumFunctionOnSet(y, D)
  <2>1. 0 \in Nat /\ (\A i \in D : 0 <= v[i]) /\ \A i \in D : 0 <= w[i]
    BY <1>2
  <2>. QED BY <2>1, WinsorizedIs
<1>. HIDE DEF x, y
<1>4. ASSUME NEW i \in D PROVE x[i] \in Nat /\ y[i] \in Nat /\ x[i] <= y[i]
  BY <1>1, <1>2, <1>3
<1>5. SumFunctionOnSet(x, D) <= SumFunctionOnSet(y, D)
  BY <1>2, <1>4, SumIsMonotone
<1>. QED BY <1>3, <1>5 DEF x, y

\* One more charge, no greater than the others, adds at most itself to the bill.
LEMMA BillOfOneMore ==
  ASSUME NEW v, Bill(v), NEW k, k \notin DOMAIN v, NEW w, Bill(w),
         DOMAIN w = DOMAIN v \cup {k},
         \A i \in DOMAIN v : w[i] = v[i] /\ w[k] <= v[i]
  PROVE  SumFunction(Winsorized(w)) <= SumFunction(Winsorized(v)) + w[k]
<1>. DEFINE D == DOMAIN v
            x == Winsorized(v)
            y == Winsorized(w)
<1>1. Ceiling(w) <= Ceiling(v) /\ Ceiling(v) \in Nat /\ Ceiling(w) \in Nat
  BY CeilingOfOneMore, CeilingIs
<1>2. /\ IsFiniteSet(D) /\ IsFiniteSet(D \cup {k}) /\ w[k] \in Nat
      /\ \A i \in D : v[i] \in Nat /\ w[i] = v[i]
  BY DEF Bill
<1>3. /\ \A i \in D : x[i] = IF v[i] <= Ceiling(v) THEN v[i] ELSE Ceiling(v)
      /\ \A i \in D \cup {k} : y[i] = IF w[i] <= Ceiling(w) THEN w[i] ELSE Ceiling(w)
      /\ SumFunction(x) = SumFunctionOnSet(x, D) /\ SumFunction(y) = SumFunctionOnSet(y, D \cup {k})
      /\ SumFunction(x) \in Nat
  <2>1. 0 \in Nat /\ (\A i \in D : 0 <= v[i]) /\ \A i \in DOMAIN w : 0 <= w[i]
    BY <1>2
  <2>. QED BY <2>1, WinsorizedIs
<1>. HIDE DEF x, y
<1>4. ASSUME NEW i \in D PROVE x[i] \in Nat /\ y[i] \in Nat /\ y[i] <= x[i]
  BY <1>1, <1>2, <1>3
<1>5. y[k] \in Nat /\ y[k] <= w[k]
  BY <1>1, <1>2, <1>3
<1>6. SumFunctionOnSet(y, D) <= SumFunctionOnSet(x, D)
  BY <1>2, <1>4, SumIsMonotone
<1>7. SumFunctionOnSet(y, D \cup {k}) = y[k] + SumFunctionOnSet(y, D) /\ SumFunctionOnSet(y, D) \in Nat
  <2>. DEFINE K == D \cup {k}
  <2>1. \A i \in K : y[i] \in Nat
    BY <1>4, <1>5
  <2>2. k \in K /\ K \ {k} = D /\ IsFiniteSet(K)
    BY <1>2
  <2>. HIDE DEF K
  <2>3. SumFunctionOnSet(y, K) = y[k] + SumFunctionOnSet(y, K \ {k}) /\ SumFunctionOnSet(y, K \ {k}) \in Nat
    BY <2>1, <2>2, SumTakes
  <2>. QED BY <2>2, <2>3 DEF K
<1>8. SumFunction(y) <= SumFunction(x) + w[k]
  BY <1>2, <1>3, <1>5, <1>6, <1>7
<1>. QED BY <1>8 DEF x, y

-----------------------------------------------------------------------------
(* The score of a submission. *)

\* The records a score is folded from; those of the ledger spend no more than MaxSpend.
AnyRecord == [submission : Submissions, outcome : Outcomes, spend : Nat, audited : BOOLEAN]

Round(rs) == rs \in [DOMAIN rs -> AnyRecord] /\ IsFiniteSet(DOMAIN rs)

\* A round that is scored and passes its audits.
Passes(rs) == DOMAIN Scoreable(rs) # {} /\ ~AuditFailed(Scoreable(rs))

\* A charge is at least the floor, which is what a cheap solution costs, and more for more.
LEMMA ChargeIs ==
  ASSUME NEW h \in RoundHeaders, NEW r \in AnyRecord
  PROVE  /\ ChargedCost(r, h) \in Nat /\ h.floor <= ChargedCost(r, h)
         /\ r.outcome = "solved" /\ r.spend <= h.floor => ChargedCost(r, h) = h.floor
         /\ \A w \in AnyRecord :
              r.spend <= w.spend /\ (w.outcome = r.outcome \/ r.outcome = "solved")
                => ChargedCost(r, h) <= ChargedCost(w, h)
<1>1. h.floor \in Nat \ {0} /\ h.cap \in Nat /\ h.penalty \in Nat /\ h.floor <= h.cap
  BY DEF RoundHeaders, ScoringParams
<1>. DEFINE capped(w) == IF w.spend <= h.cap THEN w.spend ELSE h.cap
            base(w) == IF capped(w) <= h.floor THEN h.floor ELSE capped(w)
<1>2. ASSUME NEW w \in AnyRecord
      PROVE  /\ w.spend \in Nat
             /\ ChargedCost(w, h) = base(w) + (IF w.outcome = "solved" THEN 0 ELSE h.penalty)
  <2>1. w.spend \in Nat
    BY DEF AnyRecord
  <2>2. Min({w.spend, h.cap}) = capped(w) /\ capped(w) \in Nat
    BY <1>1, <2>1, OfTwo
  <2>3. Max({capped(w), h.floor}) = base(w)
    <3>. HIDE DEF capped
    <3>. QED BY <1>1, <2>2, OfTwo
  <2>. QED BY <2>1, <2>2, <2>3 DEF ChargedCost
<1>3. r.spend \in Nat /\ ChargedCost(r, h) = base(r) + (IF r.outcome = "solved" THEN 0 ELSE h.penalty)
  BY <1>2
<1>4. ASSUME NEW w \in AnyRecord, r.spend <= w.spend, w.outcome = r.outcome \/ r.outcome = "solved"
      PROVE  ChargedCost(r, h) <= ChargedCost(w, h)
  <2>1. w.spend \in Nat /\ ChargedCost(w, h) = base(w) + (IF w.outcome = "solved" THEN 0 ELSE h.penalty)
    BY <1>2
  <2>2. base(r) <= base(w) /\ base(r) \in Nat /\ base(w) \in Nat
    BY <1>1, <1>3, <1>4, <2>1
  <2>. HIDE DEF base
  <2>3. CASE w.outcome = r.outcome
    BY <1>1, <1>3, <2>1, <2>2, <2>3
  <2>4. CASE w.outcome # r.outcome
    <3>1. r.outcome = "solved" /\ w.outcome # "solved"
      BY <1>4, <2>4
    <3>. QED BY <1>1, <1>3, <2>1, <2>2, <3>1
  <2>. QED BY <2>3, <2>4
<1>5. base(r) \in Nat /\ h.floor <= base(r) /\ (r.spend <= h.floor => base(r) = h.floor)
  BY <1>1, <1>3
<1>. HIDE DEF base
<1>6. ChargedCost(r, h) \in Nat /\ h.floor <= ChargedCost(r, h)
  BY <1>1, <1>3, <1>5
<1>7. r.outcome = "solved" /\ r.spend <= h.floor => ChargedCost(r, h) = h.floor
  BY <1>1, <1>3, <1>5
<1>. QED BY <1>4, <1>6, <1>7

\* The records that count are those with a verdict.
LEMMA ScoreableIs ==
  ASSUME NEW rs, Round(rs)
  PROVE  /\ Round(Scoreable(rs))
         /\ DOMAIN Scoreable(rs) = {i \in DOMAIN rs : Verdict(rs[i].outcome) # "no_decision"}
         /\ \A i \in DOMAIN Scoreable(rs) : Scoreable(rs)[i] = rs[i]
<1>. DEFINE S == {i \in DOMAIN rs : Verdict(rs[i].outcome) # "no_decision"}
<1>1. Scoreable(rs) = [i \in S |-> rs[i]]
  BY DEF Scoreable, Restrict
<1>2. IsFiniteSet(S)
  BY FS_Subset DEF Round
<1>3. \A i \in S : rs[i] \in AnyRecord
  BY DEF Round
<1>. HIDE DEF S
<1>4. DOMAIN Scoreable(rs) = S /\ \A i \in S : Scoreable(rs)[i] = rs[i]
  BY <1>1
<1>5. Scoreable(rs) \in [S -> AnyRecord]
  BY <1>1, <1>3
<1>6. Round(Scoreable(rs))
  BY <1>2, <1>4, <1>5 DEF Round
<1>. QED BY <1>4, <1>6 DEF S

\* A score that is not a pass counts no solution; a pass is billed at least the floor for each
\* of its records.
LEMMA ScoreIs ==
  ASSUME NEW h \in RoundHeaders, NEW rs, Round(rs)
  PROVE  /\ ~Passes(rs) => ScoreRound(rs, h).solved = 0 /\ ScoreRound(rs, h).charged = 0
         /\ ScoreRound(rs, h).verdict = "fail" <=> AuditFailed(Scoreable(rs))
         /\ Passes(rs) =>
              /\ ScoreRound(rs, h).solved = Cardinality(Solved(Scoreable(rs)))
              /\ ScoreRound(rs, h).charged = SumFunction(Winsorized(Charges(Scoreable(rs), h)))
              /\ Bill(Charges(Scoreable(rs), h))
              /\ DOMAIN Charges(Scoreable(rs), h) = DOMAIN Scoreable(rs)
              /\ \A i \in DOMAIN Scoreable(rs) :
                   /\ Scoreable(rs)[i] \in AnyRecord
                   /\ Charges(Scoreable(rs), h)[i] = ChargedCost(Scoreable(rs)[i], h)
              /\ ScoreRound(rs, h).solved \in Nat
              /\ ScoreRound(rs, h).charged \in Nat \ {0}
              /\ h.floor * ScoreRound(rs, h).solved <= ScoreRound(rs, h).charged
<1>. DEFINE sc == Scoreable(rs)
            D == DOMAIN sc
            bill == Charges(sc, h)
            charged == SumFunction(Winsorized(bill))
            solved == Cardinality(Solved(sc))
<1>1. ScoreRound(rs, h) = CASE D = {} -> [verdict |-> "no_decision", solved |-> 0, charged |-> 0]
                            [] AuditFailed(sc) -> [verdict |-> "fail", solved |-> 0, charged |-> 0]
                            [] OTHER -> [verdict |-> "pass", solved |-> solved, charged |-> charged]
  BY Zenon DEF ScoreRound
<1>2. AuditFailed(sc) => D # {}
  BY DEF AuditFailed
<1>3. D = {} => ScoreRound(rs, h) = [verdict |-> "no_decision", solved |-> 0, charged |-> 0]
  BY <1>1, <1>2
<1>4. AuditFailed(sc) => ScoreRound(rs, h) = [verdict |-> "fail", solved |-> 0, charged |-> 0]
  BY <1>1, <1>2
<1>5. Passes(rs) => ScoreRound(rs, h) = [verdict |-> "pass", solved |-> solved, charged |-> charged]
  BY <1>1 DEF Passes
<1>6. Passes(rs) <=> D # {} /\ ~AuditFailed(sc)
  BY DEF Passes
<1>7. ASSUME Passes(rs)
      PROVE  /\ Bill(bill) /\ DOMAIN bill = D
             /\ \A i \in D : sc[i] \in AnyRecord /\ bill[i] = ChargedCost(sc[i], h)
             /\ solved \in Nat /\ charged \in Nat \ {0}
             /\ h.floor * solved <= charged
  <2>1. IsFiniteSet(D) /\ D # {} /\ \A i \in D : sc[i] \in AnyRecord
    BY <1>6, <1>7, ScoreableIs DEF Round
  <2>2. DOMAIN bill = D /\ \A i \in D : bill[i] = ChargedCost(sc[i], h)
    BY DEF Charges
  <2>3. h.floor \in Nat \ {0}
    BY DEF RoundHeaders, ScoringParams
  <2>. HIDE DEF sc
  <2>4. \A i \in D : bill[i] \in Nat /\ h.floor <= bill[i]
    BY <2>1, <2>2, ChargeIs
  <2>5. Bill(bill)
    <3>1. bill \in [D -> Nat]
      BY <2>4 DEF Charges
    <3>. QED BY <2>1, <2>2, <3>1 DEF Bill
  <2>. HIDE DEF bill
  <2>6. charged \in Nat /\ h.floor * Cardinality(D) <= charged
    BY <2>2, <2>3, <2>4, <2>5, WinsorizedIs
  <2>7. Solved(sc) \in SUBSET D
    BY DEF Solved
  <2>8. solved \in Nat /\ solved <= Cardinality(D) /\ Cardinality(D) \in Nat \ {0}
    BY <2>1, <2>7, FS_Subset, FS_CardinalityType, FS_EmptySet
  <2>. HIDE DEF charged, solved, D
  <2>9. h.floor * solved <= h.floor * Cardinality(D)
    BY <2>3, <2>8, Cancels
  <2>10. \A a, b \in Nat \ {0} : a * b \in Nat \ {0}
    OBVIOUS
  <2>11. h.floor * Cardinality(D) \in Nat \ {0} /\ h.floor * solved \in Nat
    BY <2>3, <2>8, <2>10
  <2>. QED BY <2>1, <2>2, <2>5, <2>6, <2>8, <2>9, <2>11
<1>8. ~Passes(rs) => ScoreRound(rs, h).solved = 0 /\ ScoreRound(rs, h).charged = 0
  BY <1>3, <1>4, <1>6
<1>9. ScoreRound(rs, h).verdict = "fail" <=> AuditFailed(sc)
  BY <1>3, <1>4, <1>5, <1>6
<1>10. Passes(rs) => ScoreRound(rs, h).solved = solved /\ ScoreRound(rs, h).charged = charged
  BY <1>5
<1>. QED BY <1>7, <1>8, <1>9, <1>10

\* A score that does not pass is at most any, and so is one with no more solutions for no
\* lower a bill.
LEMMA NoBetter ==
  ASSUME NEW h \in RoundHeaders, NEW ws, Round(ws), NEW rs, Round(rs),
         Passes(ws) =>
           /\ Passes(rs)
           /\ ScoreRound(ws, h).solved <= ScoreRound(rs, h).solved
           /\ ScoreRound(rs, h).charged <= ScoreRound(ws, h).charged
  PROVE  YieldAtMost(ScoreRound(ws, h), ScoreRound(rs, h))
<1>1. CASE ~Passes(ws)
  BY <1>1, ScoreIs DEF YieldAtMost
<1>2. CASE Passes(ws)
  <2>. DEFINE a == ScoreRound(ws, h).solved
              b == ScoreRound(ws, h).charged
              c == ScoreRound(rs, h).solved
              d == ScoreRound(rs, h).charged
  <2>1. a \in Nat /\ b \in Nat /\ c \in Nat /\ d \in Nat \ {0} /\ a <= c /\ d <= b
    BY <1>2, ScoreIs
  <2>. HIDE DEF a, b, c, d
  <2>2. \A p, q, x, y \in Nat : p <= q /\ x <= y => p * x <= q * y
    <3>1. SUFFICES ASSUME NEW p \in Nat, NEW q \in Nat, NEW x \in Nat, NEW y \in Nat, p <= q, x <= y
                   PROVE  p * x <= q * y
      OBVIOUS
    <3>2. q - p \in Nat /\ y - x \in Nat
      BY <3>1
    <3>3. q * y = p * x + p * (y - x) + (q - p) * y
      BY <3>2
    <3>4. p * x \in Nat /\ p * (y - x) \in Nat /\ (q - p) * y \in Nat
      BY <3>2
    <3>. QED BY <3>3, <3>4
  <2>3. a * d <= c * b
    BY <2>1, <2>2
  <2>. QED BY <2>1, <2>3 DEF YieldAtMost, a, b, c, d
<1>. QED BY <1>1, <1>2

\* The records of a submission among the lines of a ledger.
LEMMA RecordsAmong ==
  ASSUME NEW g \in Seq(Lines), NEW s
  PROVE  /\ Round(ForSubmission(g, s))
         /\ DOMAIN ForSubmission(g, s) = {i \in DOMAIN g : g[i].record.submission = s}
         /\ \A i \in DOMAIN ForSubmission(g, s) : ForSubmission(g, s)[i] = g[i].record
         /\ \A i \in DOMAIN g : g[i].record \in AnyRecord
<1>. DEFINE D == {i \in DOMAIN g : g[i].record.submission = s}
<1>1. DOMAIN g = 1 .. Len(g) /\ Len(g) \in Nat
  BY LenProperties
<1>2. IsFiniteSet(DOMAIN g)
  <2>1. 1 \in Int /\ Len(g) \in Int
    BY <1>1
  <2>. QED BY <1>1, <2>1, FS_Interval
<1>3. IsFiniteSet(D)
  BY <1>2, FS_Subset
<1>4. ASSUME NEW i \in DOMAIN g PROVE g[i].record \in AnyRecord
  <2>1. g[i] \in Lines
    BY <1>1, ElementOfSeq
  <2>2. MaxSpend \in Nat
    BY LedgerAssumption DEF LedgerAssumption
  <2>3. g[i].record \in Records
    BY <2>1 DEF Lines
  <2>. QED BY <2>2, <2>3 DEF Records, AnyRecord
<1>5. ForSubmission(g, s) = [i \in D |-> g[i].record]
  BY DEF ForSubmission
<1>. QED BY <1>3, <1>4, <1>5 DEF Round

\* The records of a submission in a typed ledger, and the header they are scored with.
LEMMA RecordsOfSubmission ==
  ASSUME Intact, NEW s
  PROVE  /\ Round(ForSubmission(file, s))
         /\ DOMAIN ForSubmission(file, s) = {i \in DOMAIN file : file[i].record.submission = s}
         /\ \A i \in DOMAIN ForSubmission(file, s) : ForSubmission(file, s)[i] = file[i].record
         /\ \A i \in DOMAIN file : file[i].record \in AnyRecord
         /\ header # NoHeader => header \in RoundHeaders
<1>1. file \in Seq(Lines)
  BY DEF Intact, TypeOK, Lines
<1>2. header # NoHeader => header \in RoundHeaders
  BY LedgerAssumption DEF LedgerAssumption, Intact, TypeOK
<1>. QED BY <1>1, <1>2, RecordsAmong

\* Whatever was metered and whatever the ceiling took off the bill, no yield exceeds one over
\* the floor, for any number of records (yield_score.py max_yield).
THEOREM YieldAlwaysBounded == Spec => []YieldIsBounded
<1>1. ASSUME Intact PROVE YieldIsBounded
  <2>1. SUFFICES ASSUME NEW s \in Submissions, header # NoHeader
                 PROVE  Score(s).solved * header.floor <= Score(s).charged
    BY DEF YieldIsBounded
  <2>. DEFINE rs == ForSubmission(file, s)
  <2>2. Round(rs) /\ header \in RoundHeaders /\ Score(s) = ScoreRound(rs, header)
    BY <1>1, <2>1, RecordsOfSubmission DEF Score
  <2>. HIDE DEF rs
  <2>3. header.floor \in Nat
    BY <2>2 DEF RoundHeaders, ScoringParams
  <2>4. CASE Passes(rs)
    <3>. DEFINE a == Score(s).solved
                b == Score(s).charged
                c == header.floor
    <3>1. a \in Nat /\ b \in Nat /\ c * a <= b /\ c \in Nat
      BY <2>2, <2>3, <2>4, ScoreIs
    <3>. HIDE DEF a, b, c
    <3>2. a * c <= b
      BY <3>1
    <3>. QED BY <3>2 DEF a, b, c
  <2>5. CASE ~Passes(rs)
    <3>1. Score(s).solved = 0 /\ Score(s).charged = 0
      BY <2>2, <2>5, ScoreIs
    <3>2. 0 * header.floor <= 0
      BY <2>3
    <3>. QED BY <3>1, <3>2
  <2>. QED BY <2>4, <2>5
<1>. QED BY <1>1, ChainAlwaysHolds, PTL

\* One record made worse: the score is no better, whichever way the ceiling moves.
LEMMA WorseIsNoBetter ==
  ASSUME NEW h \in RoundHeaders, NEW rs, Round(rs), NEW ws, Round(ws), DOMAIN ws = DOMAIN rs,
         NEW k \in DOMAIN rs, ws[k] \in Worse(rs[k]),
         \A i \in DOMAIN rs \ {k} : ws[i] = rs[i]
  PROVE  YieldAtMost(ScoreRound(ws, h), ScoreRound(rs, h))
<1>. DEFINE sc == Scoreable(rs)
            wc == Scoreable(ws)
            D == DOMAIN sc
<1>1. \A i \in DOMAIN rs : rs[i] \in AnyRecord /\ ws[i] \in AnyRecord
  BY DEF Round
<1>2. /\ rs[k].spend <= ws[k].spend
      /\ ws[k].audited = rs[k].audited
      /\ \/ ws[k].outcome = rs[k].outcome
         \/ rs[k].outcome = "solved" /\ ws[k].outcome \in Failures
  <2>1. rs[k] \in AnyRecord /\ rs[k].spend \in Nat
    BY <1>1 DEF AnyRecord
  <2>2. CASE ws[k] = [rs[k] EXCEPT !.spend = rs[k].spend + 1]
    <3>1. /\ ws[k].spend = rs[k].spend + 1 /\ ws[k].outcome = rs[k].outcome
          /\ ws[k].audited = rs[k].audited
      BY <2>1, <2>2 DEF AnyRecord
    <3>. QED BY <2>1, <3>1
  <2>3. ASSUME NEW o \in Outcomes \cap Failures, rs[k].outcome = "solved",
               ws[k] = [rs[k] EXCEPT !.outcome = o]
        PROVE  /\ ws[k].spend = rs[k].spend /\ ws[k].audited = rs[k].audited
               /\ ws[k].outcome \in Failures
    BY <2>1, <2>3 DEF AnyRecord
  <2>. QED BY <2>1, <2>2, <2>3 DEF Worse
<1>3. \A i \in DOMAIN rs : Verdict(ws[i].outcome) = "no_decision" <=> Verdict(rs[i].outcome) = "no_decision"
  <2>1. \A o \in Failures : Verdict(o) = "fail"
    BY DEF Failures, Verdict, InfrastructureFaults
  <2>2. Verdict("solved") = "pass"
    BY DEF Verdict, InfrastructureFaults
  <2>. QED BY <1>2, <2>1, <2>2
<1>4. /\ DOMAIN wc = D /\ D \in SUBSET DOMAIN rs
      /\ \A i \in D : sc[i] = rs[i] /\ wc[i] = ws[i] /\ sc[i] \in AnyRecord /\ wc[i] \in AnyRecord
  BY <1>1, <1>3, ScoreableIs
<1>. HIDE DEF sc, wc
<1>5. \A i \in D : /\ sc[i].spend <= wc[i].spend
                   /\ wc[i].audited = sc[i].audited
                   /\ wc[i].outcome = sc[i].outcome \/ sc[i].outcome = "solved"
                   /\ wc[i].outcome = "solved" => sc[i].outcome = "solved"
  <2>1. \A i \in D : rs[i].spend \in Nat
    BY <1>1, <1>4 DEF AnyRecord
  <2>2. \A o \in Failures : o # "solved"
    BY DEF Failures
  <2>3. ASSUME NEW i \in D
        PROVE  /\ sc[i].spend <= wc[i].spend
               /\ wc[i].audited = sc[i].audited
               /\ wc[i].outcome = sc[i].outcome \/ sc[i].outcome = "solved"
               /\ wc[i].outcome = "solved" => sc[i].outcome = "solved"
    <3>1. CASE i = k
      BY <1>2, <1>4, <2>2, <3>1
    <3>2. CASE i # k
      <4>1. ws[i] = rs[i]
        BY <1>4, <3>2
      <4>. QED BY <1>4, <2>1, <4>1
    <3>. QED BY <3>1, <3>2
  <2>. QED BY <2>3
<1>6. ASSUME Passes(ws)
      PROVE  /\ Passes(rs)
             /\ ScoreRound(ws, h).solved <= ScoreRound(rs, h).solved
             /\ ScoreRound(rs, h).charged <= ScoreRound(ws, h).charged
  <2>1. D # {} /\ ~AuditFailed(wc)
    BY <1>4, <1>6 DEF Passes, wc
  <2>2. ~AuditFailed(sc)
    BY <1>4, <1>5, <2>1 DEF AuditFailed
  <2>3. Passes(rs)
    BY <2>1, <2>2 DEF Passes, sc
  <2>. DEFINE v == Charges(sc, h)
              w == Charges(wc, h)
  <2>4. /\ Bill(v) /\ DOMAIN v = D /\ \A i \in D : v[i] = ChargedCost(sc[i], h)
        /\ ScoreRound(rs, h).solved = Cardinality(Solved(sc))
        /\ ScoreRound(rs, h).charged = SumFunction(Winsorized(v))
    BY <2>3, ScoreIs DEF sc
  <2>5. /\ Bill(w) /\ DOMAIN w = D /\ \A i \in D : w[i] = ChargedCost(wc[i], h)
        /\ ScoreRound(ws, h).solved = Cardinality(Solved(wc))
        /\ ScoreRound(ws, h).charged = SumFunction(Winsorized(w))
    BY <1>4, <1>6, ScoreIs DEF wc
  <2>. HIDE DEF v, w
  <2>6. \A i \in D : v[i] <= w[i]
    BY <1>4, <1>5, <2>4, <2>5, ChargeIs
  <2>7. SumFunction(Winsorized(v)) <= SumFunction(Winsorized(w))
    BY <2>4, <2>5, <2>6, BillIsMonotone
  <2>8. Cardinality(Solved(wc)) <= Cardinality(Solved(sc))
    <3>1. Solved(wc) \in SUBSET Solved(sc)
      BY <1>4, <1>5 DEF Solved
    <3>2. IsFiniteSet(Solved(sc))
      <4>1. Solved(sc) \in SUBSET D /\ IsFiniteSet(D)
        BY <2>4 DEF Solved, Bill
      <4>. QED BY <4>1, FS_Subset
    <3>. QED BY <3>1, <3>2, FS_Subset
  <2>. QED BY <2>3, <2>4, <2>5, <2>7, <2>8
<1>. QED BY <1>6, NoBetter

\* Spending more on an instance, or losing a solution, never scores better, for any number of
\* records and any quantile above the half (yield_score.py _winsorize).
THEOREM WorseNeverDoesScoreBetter == Spec => []WorseNeverScoresBetter
<1>1. ASSUME Intact PROVE WorseNeverScoresBetter
  <2>1. SUFFICES ASSUME header # NoHeader, NEW k \in DOMAIN file, NEW w \in Worse(file[k].record)
                 PROVE  YieldAtMost(ScoreRound(ForSubmission([file EXCEPT ![k].record = w], w.submission), header),
                                    Score(w.submission))
    BY DEF WorseNeverScoresBetter
  <2>. DEFINE s == w.submission
              g == [file EXCEPT ![k].record = w]
              rs == ForSubmission(file, s)
              ws == ForSubmission(g, s)
  <2>2. w \in AnyRecord /\ s = file[k].record.submission
    <3>1. file[k].record \in AnyRecord
      BY <1>1, RecordsOfSubmission
    <3>2. file[k].record.spend + 1 \in Nat
      BY <3>1 DEF AnyRecord
    <3>. QED BY <3>1, <3>2 DEF AnyRecord, Worse
  <2>3. /\ Round(rs) /\ header \in RoundHeaders
        /\ DOMAIN rs = {i \in DOMAIN file : file[i].record.submission = s}
        /\ \A i \in DOMAIN rs : rs[i] = file[i].record
    <3>. HIDE DEF s
    <3>. QED BY <1>1, <2>1, RecordsOfSubmission
  <2>4. DOMAIN g = DOMAIN file /\ g[k].record = w /\ \A i \in DOMAIN file \ {k} : g[i] = file[i]
    <3>1. file[k] \in Lines
      <4>1. file \in Seq(Lines) /\ k \in 1 .. Len(file)
        BY <1>1, LenProperties DEF Intact, TypeOK, Lines
      <4>. QED BY <4>1, ElementOfSeq
    <3>. QED BY <3>1 DEF Lines
  <2>. HIDE DEF g
  <2>5. DOMAIN ws = DOMAIN rs /\ \A i \in DOMAIN ws : ws[i] = g[i].record
    <3>1. ws = [i \in {i \in DOMAIN g : g[i].record.submission = s} |-> g[i].record]
      BY DEF ForSubmission
    <3>2. {i \in DOMAIN g : g[i].record.submission = s} = DOMAIN rs
      <4>. HIDE DEF rs
      <4>1. \A i \in DOMAIN file : g[i].record.submission = s <=> file[i].record.submission = s
        BY <2>2, <2>4
      <4>. QED BY <2>3, <2>4, <4>1
    <3>. HIDE DEF ws, rs
    <3>. QED BY <3>1, <3>2
  <2>. HIDE DEF rs
  <2>6. k \in DOMAIN rs /\ ws[k] \in Worse(rs[k]) /\ \A i \in DOMAIN rs \ {k} : ws[i] = rs[i]
    <3>1. k \in DOMAIN rs
      BY <2>2, <2>3
    <3>2. ws[k] = w /\ rs[k] = file[k].record
      BY <2>3, <2>4, <2>5, <3>1
    <3>3. \A i \in DOMAIN rs \ {k} : ws[i] = rs[i]
      BY <2>3, <2>4, <2>5
    <3>. QED BY <3>1, <3>2, <3>3
  <2>7. Round(ws)
    <3>1. ws = [i \in DOMAIN ws |-> ws[i]]
      BY DEF ForSubmission
    <3>. HIDE DEF ws
    <3>2. \A i \in DOMAIN ws : ws[i] \in AnyRecord
      <4>1. \A i \in DOMAIN rs : rs[i] \in AnyRecord
        BY <2>3 DEF Round
      <4>. QED BY <2>2, <2>4, <2>5, <2>6, <4>1
    <3>. QED BY <2>3, <2>5, <3>1, <3>2 DEF Round
  <2>8. YieldAtMost(ScoreRound(ws, header), ScoreRound(rs, header))
    <3>. HIDE DEF ws
    <3>. QED BY <2>3, <2>5, <2>6, <2>7, WorseIsNoBetter
  <2>. QED BY <2>8 DEF Score, rs, ws, g
<1>. QED BY <1>1, ChainAlwaysHolds, PTL

-----------------------------------------------------------------------------
(* One more record. *)

\* What a step does to the lines: nothing, one more behind them, or the last one lost with
\* the ledger unreadable from then on.
LEMMA StepsOfTheFile ==
  ASSUME Intact, [Next]_vars
  PROVE  /\ header # NoHeader => header' = header
         /\ \/ file' = file
            \/ \E r \in Records : header # NoHeader /\ file' = Append(file, Line(r))
            \/ file # <<>> /\ file' = Front(file) /\ ~Readable'
<1>1. CASE \E h \in Headers : OpenRound(h)
  BY <1>1 DEF OpenRound, Opened
<1>2. CASE \E r \in Records : AppendRecord(r) \/ AppendFails(r) \/ AppendJoins(r)
  <2>1. tail = "unterminated" => file # <<>>
    BY DEF Intact
  <2>. QED BY <1>2, <2>1 DEF AppendRecord, AppendFails, AppendJoins, Appendable, Opened, Readable
<1>3. CASE UNCHANGED vars
  BY <1>3 DEF vars
<1>. QED BY <1>1, <1>2, <1>3 DEF Next

\* The records of a submission once one line is behind the others: those it had, and the new
\* one when it is its own.
LEMMA OneMoreRecord ==
  ASSUME Intact, NEW s, NEW r \in Records, file' = Append(file, Line(r))
  PROVE  LET rs == ForSubmission(file, s)
             ws == ForSubmission(file', s)
             k == Len(file) + 1
         IN  /\ k \notin DOMAIN rs
             /\ Len(file') = k /\ Last(file').record = r
             /\ DOMAIN ws = IF r.submission = s THEN DOMAIN rs \cup {k} ELSE DOMAIN rs
             /\ \A i \in DOMAIN rs : ws[i] = rs[i]
             /\ r.submission = s => ws[k] = r
<1>. DEFINE rs == ForSubmission(file, s)
            ws == ForSubmission(file', s)
            k == Len(file) + 1
<1>1. file \in Seq(Lines)
  BY DEF Intact, TypeOK, Lines
<1>2. Line(r) \in Lines
  BY <1>1, TipType DEF Line, Lines, ComputeLink
<1>3. /\ DOMAIN file = 1 .. Len(file) /\ Len(file) \in Nat
      /\ DOMAIN file' = 1 .. k /\ Len(file') = k
      /\ \A i \in DOMAIN file : file'[i] = file[i]
      /\ file'[k] = Line(r)
  BY <1>1, <1>2, AppendProperties, LenProperties
<1>4. Line(r).record = r
  BY DEF Line
<1>5. Last(file') = Line(r)
  BY <1>3 DEF Last
<1>6. rs = [i \in {i \in DOMAIN file : file[i].record.submission = s} |-> file[i].record]
  BY DEF ForSubmission
<1>7. ws = [i \in {i \in DOMAIN file' : file'[i].record.submission = s} |-> file'[i].record]
  BY DEF ForSubmission
<1>. HIDE DEF rs, ws, k
<1>8. /\ DOMAIN rs = {i \in DOMAIN file : file[i].record.submission = s}
      /\ \A i \in DOMAIN rs : rs[i] = file[i].record
  BY <1>6
<1>9. /\ DOMAIN ws = {i \in DOMAIN file' : file'[i].record.submission = s}
      /\ \A i \in DOMAIN ws : ws[i] = file'[i].record
  BY <1>7
<1>10. k \notin DOMAIN file /\ DOMAIN file' = DOMAIN file \cup {k}
  BY <1>3 DEF k
<1>11. DOMAIN ws = IF r.submission = s THEN DOMAIN rs \cup {k} ELSE DOMAIN rs
  BY <1>3, <1>4, <1>8, <1>9, <1>10
<1>12. \A i \in DOMAIN rs : ws[i] = rs[i]
  <2>1. SUFFICES ASSUME NEW i \in DOMAIN rs PROVE ws[i] = rs[i]
    OBVIOUS
  <2>2. i \in DOMAIN ws /\ i \in DOMAIN file
    BY <1>8, <1>11
  <2>. QED BY <1>3, <1>8, <1>9, <2>2
<1>13. r.submission = s => ws[k] = r
  BY <1>3, <1>4, <1>9, <1>11
<1>. QED BY <1>3, <1>4, <1>5, <1>8, <1>10, <1>11, <1>12, <1>13 DEF rs, ws, k

\* A failed audit among the records of a round is one among more of them.
LEMMA VoidStays ==
  ASSUME NEW rs, Round(rs), NEW ws, Round(ws), DOMAIN rs \subseteq DOMAIN ws,
         \A i \in DOMAIN rs : ws[i] = rs[i], AuditFailed(Scoreable(rs))
  PROVE  AuditFailed(Scoreable(ws))
<1>1. PICK i \in DOMAIN Scoreable(rs) :
        Scoreable(rs)[i].audited /\ Scoreable(rs)[i].outcome # "solved"
  BY DEF AuditFailed
<1>2. i \in DOMAIN rs /\ Verdict(rs[i].outcome) # "no_decision" /\ Scoreable(rs)[i] = rs[i]
  BY <1>1, ScoreableIs
<1>3. i \in DOMAIN Scoreable(ws) /\ Scoreable(ws)[i] = rs[i]
  BY <1>2, ScoreableIs
<1>. QED BY <1>1, <1>2, <1>3 DEF AuditFailed

\* One more solution at the floor price: the bill grows by no more than the floor, which is
\* no more than what each solution was billed before.
LEMMA CheapSolveIsNoWorse ==
  ASSUME NEW h \in RoundHeaders, NEW rs, Round(rs), NEW ws, Round(ws),
         NEW k, k \notin DOMAIN rs, DOMAIN ws = DOMAIN rs \cup {k},
         \A i \in DOMAIN rs : ws[i] = rs[i],
         ws[k].outcome = "solved", ws[k].spend <= h.floor
  PROVE  YieldAtMost(ScoreRound(rs, h), ScoreRound(ws, h))
<1>. DEFINE sc == Scoreable(rs)
            wc == Scoreable(ws)
            D == DOMAIN sc
            v == Charges(sc, h)
            w == Charges(wc, h)
<1>1. CASE ~Passes(rs)
  BY <1>1, ScoreIs DEF YieldAtMost
<1>2. CASE Passes(rs)
  <2>1. Verdict("solved") # "no_decision"
    BY DEF Verdict, InfrastructureFaults
  <2>2. /\ D \subseteq DOMAIN rs /\ k \notin D /\ DOMAIN wc = D \cup {k}
        /\ \A i \in D : wc[i] = sc[i]
        /\ wc[k] = ws[k] /\ wc[k] \in AnyRecord
    <3>1. D = {i \in DOMAIN rs : Verdict(rs[i].outcome) # "no_decision"}
      BY ScoreableIs
    <3>2. DOMAIN wc = {i \in DOMAIN ws : Verdict(ws[i].outcome) # "no_decision"}
      BY ScoreableIs
    <3>3. DOMAIN wc = D \cup {k}
      BY <2>1, <3>1, <3>2
    <3>4. (\A i \in D : sc[i] = rs[i]) /\ (\A i \in DOMAIN wc : wc[i] = ws[i])
      BY ScoreableIs
    <3>5. ws[k] \in AnyRecord
      BY DEF Round
    <3>. HIDE DEF sc, wc
    <3>. QED BY <3>1, <3>3, <3>4, <3>5
  <2>3. Passes(ws)
    <3>1. ~AuditFailed(sc)
      BY <1>2 DEF Passes
    <3>. HIDE DEF sc, wc
    <3>2. ~AuditFailed(wc)
      BY <2>2, <3>1 DEF AuditFailed
    <3>3. DOMAIN wc # {}
      BY <2>2
    <3>. QED BY <3>2, <3>3 DEF Passes, wc
  <2>. DEFINE a == ScoreRound(rs, h).solved
              b == ScoreRound(rs, h).charged
              a1 == ScoreRound(ws, h).solved
              b1 == ScoreRound(ws, h).charged
              f == h.floor
  <2>4. /\ Bill(v) /\ DOMAIN v = D /\ \A i \in D : sc[i] \in AnyRecord /\ v[i] = ChargedCost(sc[i], h)
        /\ a = Cardinality(Solved(sc)) /\ b = SumFunction(Winsorized(v))
        /\ a \in Nat /\ b \in Nat \ {0} /\ f * a <= b
    BY <1>2, ScoreIs
  <2>5. /\ Bill(w) /\ DOMAIN w = D \cup {k} /\ \A i \in D \cup {k} : w[i] = ChargedCost(wc[i], h)
        /\ a1 = Cardinality(Solved(wc)) /\ b1 = SumFunction(Winsorized(w))
        /\ a1 \in Nat /\ b1 \in Nat \ {0}
    BY <2>2, <2>3, ScoreIs
  <2>. HIDE DEF v, w, sc, wc
  <2>6. w[k] = f
    BY <2>2, <2>5, ChargeIs
  <2>7. \A i \in D : w[i] = v[i] /\ w[k] <= v[i]
    <3>1. \A i \in D : f <= v[i]
      BY <2>4, ChargeIs
    <3>. QED BY <2>2, <2>4, <2>5, <2>6, <3>1
  <2>8. b1 <= b + f
    <3>1. SumFunction(Winsorized(w)) <= SumFunction(Winsorized(v)) + w[k]
      BY <2>2, <2>4, <2>5, <2>7, BillOfOneMore
    <3>. QED BY <2>4, <2>5, <2>6, <3>1
  <2>9. a1 = a + 1
    <3>1. Solved(wc) = Solved(sc) \cup {k} /\ k \notin Solved(sc)
      BY <2>2 DEF Solved
    <3>2. Solved(sc) \in SUBSET D /\ IsFiniteSet(D)
      BY <2>4 DEF Solved, Bill
    <3>3. IsFiniteSet(Solved(sc))
      BY <3>2, FS_Subset
    <3>4. Cardinality(Solved(sc) \cup {k}) = Cardinality(Solved(sc)) + 1
      BY <3>1, <3>3, FS_AddElement
    <3>. QED BY <2>4, <2>5, <3>1, <3>4
  <2>10. f \in Nat
    BY DEF RoundHeaders, ScoringParams
  <2>. HIDE DEF a, b, a1, b1, f
  <2>11. a * b1 <= a1 * b
    <3>1. a * b1 <= a * (b + f)
      BY <2>4, <2>5, <2>8, <2>10, Cancels
    <3>2. a * (b + f) = a * b + f * a /\ a1 * b = a * b + b
      BY <2>4, <2>9, <2>10
    <3>3. a * b \in Nat /\ f * a \in Nat /\ a * b1 \in Nat
      BY <2>4, <2>5, <2>10
    <3>. QED BY <2>4, <3>1, <3>2, <3>3
  <2>. QED BY <2>5, <2>11 DEF YieldAtMost, a, b, a1, b1
<1>. QED BY <1>1, <1>2

\* Solving one more instance at the floor price never lowers a yield, however many records the
\* round has and wherever the ceiling was (score_round).
THEOREM CheapSolveHurtsNever == Spec => CheapSolveNeverHurts
<1>. DEFINE Cheap(s) == /\ Len(file') = Len(file) + 1
                        /\ Last(file').record.submission = s
                        /\ Last(file').record.outcome = "solved"
                        /\ Last(file').record.spend <= header.floor
<1>1. ASSUME Intact, Intact', [Next]_vars, NEW s \in Submissions, Cheap(s)
      PROVE  YieldAtMost(Score(s), Score(s)')
  <2>1. /\ Len(file') = Len(file) + 1
        /\ Last(file').record.submission = s
        /\ Last(file').record.outcome = "solved"
        /\ Last(file').record.spend <= header.floor
    BY <1>1
  <2>2. /\ header # NoHeader => header' = header
        /\ \/ file' = file
           \/ \E r \in Records : header # NoHeader /\ file' = Append(file, Line(r))
           \/ file # <<>> /\ file' = Front(file)
    BY <1>1, StepsOfTheFile
  <2>3. Len(file) \in Nat /\ (file # <<>> => Len(Front(file)) = Len(file) - 1)
    <3>1. file \in Seq(Lines)
      BY <1>1 DEF Intact, TypeOK, Lines
    <3>2. Len(file) \in Nat /\ (file # <<>> => Len(file) \in Nat \ {0})
      BY <3>1
    <3>3. file # <<>> => Len(SubSeq(file, 1, Len(file) - 1)) = Len(file) - 1
      <4>1. file # <<>> => Len(file) - 1 \in Nat /\ 1 \in 1 .. Len(file) + 1 /\ Len(file) - 1 \in 1 - 1 .. Len(file)
        BY <3>2
      <4>2. file # <<>> => Len(SubSeq(file, 1, Len(file) - 1))
                             = IF 1 <= Len(file) - 1 THEN Len(file) - 1 - 1 + 1 ELSE 0
        BY <3>1, <4>1, SubSeqProperties
      <4>. QED BY <3>2, <4>2
    <3>. QED BY <3>2, <3>3 DEF Front
  <2>4. PICK r \in Records : header # NoHeader /\ file' = Append(file, Line(r))
    BY <2>1, <2>2, <2>3
  <2>. DEFINE rs == ForSubmission(file, s)
              ws == ForSubmission(file', s)
              k == Len(file) + 1
  <2>5. /\ k \notin DOMAIN rs /\ Last(file').record = r
        /\ r.submission = s => DOMAIN ws = DOMAIN rs \cup {k} /\ ws[k] = r
        /\ \A i \in DOMAIN rs : ws[i] = rs[i]
    <3>1. k \notin DOMAIN rs
      BY <1>1, <2>4, OneMoreRecord
    <3>2. Last(file').record = r
      BY <1>1, <2>4, OneMoreRecord
    <3>3. DOMAIN ws = IF r.submission = s THEN DOMAIN rs \cup {k} ELSE DOMAIN rs
      BY <1>1, <2>4, OneMoreRecord
    <3>4. ASSUME NEW i \in DOMAIN rs PROVE ws[i] = rs[i]
      BY <1>1, <2>4, OneMoreRecord
    <3>5. r.submission = s => ws[k] = r
      BY <1>1, <2>4, OneMoreRecord
    <3>. HIDE DEF rs, ws, k
    <3>. QED BY <3>1, <3>2, <3>3, <3>4, <3>5
  <2>6. Round(rs) /\ header \in RoundHeaders
    BY <1>1, <2>4, RecordsOfSubmission
  <2>7. Round(ws)
    BY <1>1, RecordsAmong DEF Intact, TypeOK, Lines
  <2>. HIDE DEF rs, ws, k
  <2>8. YieldAtMost(ScoreRound(rs, header), ScoreRound(ws, header))
    BY <2>1, <2>5, <2>6, <2>7, CheapSolveIsNoWorse
  <2>9. Score(s) = ScoreRound(rs, header)
    BY DEF Score, rs
  <2>10. Score(s)' = ScoreRound(ws, header)
    BY <2>2, <2>4 DEF Score, ws
  <2>. QED BY <2>8, <2>9, <2>10
<1>2. Intact /\ Intact' /\ [Next]_vars
      => [\A s \in Submissions : Cheap(s) => YieldAtMost(Score(s), Score(s)')]_vars
  BY <1>1
<1>. QED BY <1>2, ChainAlwaysHolds, PTL DEF Spec, CheapSolveNeverHurts

\* A round a failed audit voided stays void (score_round).
THEOREM VoidAlwaysStays == Spec => VoidIsForever
<1>1. ASSUME Intact, Intact', [Next]_vars, NEW s \in Submissions,
             header # NoHeader, Readable', Score(s).verdict = "fail"
      PROVE  Score(s)'.verdict = "fail"
  <2>. DEFINE rs == ForSubmission(file, s)
              ws == ForSubmission(file', s)
  <2>1. Round(rs) /\ header \in RoundHeaders
    BY <1>1, RecordsOfSubmission
  <2>2. Round(ws)
    BY <1>1, RecordsAmong DEF Intact, TypeOK, Lines
  <2>3. header' = header /\ (file' = file \/ \E r \in Records : file' = Append(file, Line(r)))
    BY <1>1, StepsOfTheFile
  <2>4. DOMAIN rs \subseteq DOMAIN ws /\ \A i \in DOMAIN rs : ws[i] = rs[i]
    <3>1. CASE file' = file
      BY <3>1
    <3>2. ASSUME NEW r \in Records, file' = Append(file, Line(r))
          PROVE  DOMAIN rs \subseteq DOMAIN ws /\ \A i \in DOMAIN rs : ws[i] = rs[i]
      <4>1. /\ DOMAIN ws = IF r.submission = s THEN DOMAIN rs \cup {Len(file) + 1} ELSE DOMAIN rs
            /\ \A i \in DOMAIN rs : ws[i] = rs[i]
        BY <1>1, <3>2, OneMoreRecord
      <4>. HIDE DEF rs, ws
      <4>. QED BY <4>1
    <3>. QED BY <2>3, <3>1, <3>2
  <2>5. Score(s) = ScoreRound(rs, header)
    BY DEF Score
  <2>6. Score(s)' = ScoreRound(ws, header)
    BY <2>3 DEF Score
  <2>. HIDE DEF rs, ws
  <2>7. AuditFailed(Scoreable(rs))
    BY <1>1, <2>1, <2>5, ScoreIs
  <2>8. AuditFailed(Scoreable(ws))
    BY <2>1, <2>2, <2>4, <2>7, VoidStays
  <2>9. ScoreRound(ws, header).verdict = "fail"
    BY <2>1, <2>2, <2>8, ScoreIs
  <2>. QED BY <2>6, <2>9
<1>2. Intact /\ Intact' /\ [Next]_vars
      => [\A s \in Submissions :
            (header # NoHeader /\ Readable' /\ Score(s).verdict = "fail") => Score(s)'.verdict = "fail"]_vars
  BY <1>1
<1>. QED BY <1>2, ChainAlwaysHolds, PTL DEF Spec, VoidIsForever
=============================================================================
