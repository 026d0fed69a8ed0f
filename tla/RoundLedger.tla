---------------------------- MODULE RoundLedger ----------------------------
(***************************************************************************)
(* The hash-chained records of one round (ledger/store.py, header.py) and  *)
(* the score a submission gets from them (scoring/yield_score.py,          *)
(* round.py score_submissions).                                            *)
(*                                                                         *)
(* A digest is ideal: the link of a line is the whole history it commits   *)
(* to.  Money is in integer units; yields are compared as fractions (the   *)
(* quantisation of a yield is monotone, so it keeps every <= stated here). *)
(***************************************************************************)
EXTENDS Naturals, SequencesExt, FiniteSetsExt

CONSTANTS
  Submissions,
  Outcomes,      \* a subset of the Outcome members, "solved" included
  MaxSpend,      \* bounds the metered spend of a record
  MaxRecords,    \* bounds the records of the round
  Headers,       \* headers the round may be opened with
  NoHeader,      \* not one of them
  QuantileNum, QuantileDen  \* WINSORIZE_QUANTILE

InfrastructureFaults == {"relay_unavailable", "provider_error", "environment_fault",
                         "evidence_unreopenable"}

\* ScoringParams, and what a header keeps of it: a positive floor, within the cap.
ScoringParams == [cap : Nat, floor : Nat \ {0}, penalty : Nat]
RoundHeaders == {h \in ScoringParams : h.floor <= h.cap}

ASSUME LedgerAssumption ==
  /\ MaxSpend \in Nat /\ MaxRecords \in Nat
  /\ "solved" \in Outcomes
  /\ Headers \subseteq RoundHeaders /\ NoHeader \notin Headers
  /\ QuantileNum \in Nat /\ QuantileDen \in Nat
  /\ QuantileDen < 2 * QuantileNum /\ QuantileNum <= QuantileDen

VARIABLES
  header,  \* header.json, or NoHeader
  file,    \* the lines of records.jsonl that decode
  tail     \* how the file ends: "whole", "unterminated" (a line without its
           \* newline) or "torn" (a line that does not decode)

vars == <<header, file, tail>>

Genesis == <<>>

Records == [submission : Submissions, outcome : Outcomes, spend : 0 .. MaxSpend,
            audited : BOOLEAN]

Init ==
  /\ header = NoHeader
  /\ file = <<>>
  /\ tail = "whole"

-----------------------------------------------------------------------------
(* The chain. *)

ComputeLink(previous, r) == Append(previous, r)

TipSkipsTheLast == IF Len(file) < 2 THEN Genesis ELSE file[Len(file) - 1].link

Tip == IF file = <<>> THEN Genesis ELSE Last(file).link

Line(r) == [previous |-> Tip, link |-> ComputeLink(Tip, r), record |-> r]

Readable == tail # "torn"

VerifyLinksOnly(lines) ==
  \A i \in DOMAIN lines : lines[i].link = ComputeLink(lines[i].previous, lines[i].record)

\* Ledger.verify.
Verify(lines) ==
  \A i \in DOMAIN lines :
    /\ lines[i].previous = (IF i = 1 THEN Genesis ELSE lines[i - 1].link)
    /\ lines[i].link = ComputeLink(lines[i].previous, lines[i].record)

Opened == header # NoHeader

\* open_round: the header is written once; another one for the round is refused.
OpenRound(h) ==
  /\ ~Opened
  /\ header' = h
  /\ UNCHANGED <<file, tail>>

Appendable(r) == Opened /\ Readable /\ Len(file) < MaxRecords

\* append: one more line, chained to the last one read back.
AppendRecord(r) ==
  /\ Appendable(r)
  /\ tail = "whole"
  /\ file' = Append(file, Line(r))
  /\ UNCHANGED <<header, tail>>

\* The write fails part way: a line cut short, or whole but for its newline.
AppendFails(r) ==
  /\ Appendable(r)
  /\ tail = "whole"
  /\ \/ tail' = "torn" /\ UNCHANGED file
     \/ tail' = "unterminated" /\ file' = Append(file, Line(r))
  /\ UNCHANGED header

\* After a line without newline the next line lands on the same one: "Extra
\* data" to the reader, for the record written before and for this one.
AppendJoins(r) ==
  /\ Appendable(r)
  /\ tail = "unterminated"
  /\ tail' = "torn"
  /\ file' = Front(file)
  /\ UNCHANGED header

Next ==
  \/ \E h \in Headers : OpenRound(h)
  \/ \E r \in Records : AppendRecord(r) \/ AppendFails(r) \/ AppendJoins(r)

Spec == Init /\ [][Next]_vars

-----------------------------------------------------------------------------
(* The score. *)

VerdictForgivesTimeouts(outcome) ==
  CASE outcome = "solved" -> "pass"
    [] outcome \in InfrastructureFaults \cup {"timeout"} -> "no_decision"
    [] OTHER -> "fail"

Verdict(outcome) ==
  CASE outcome = "solved" -> "pass"
    [] outcome \in InfrastructureFaults -> "no_decision"
    [] OTHER -> "fail"

\* The bill of one record.  A floor below the cap bounds the yield.
ChargedAsSpent(r, h) ==
  Min({r.spend, h.cap}) + (IF r.outcome = "solved" THEN 0 ELSE h.penalty)

ChargedCost(r, h) ==
  Max({Min({r.spend, h.cap}), h.floor}) + (IF r.outcome = "solved" THEN 0 ELSE h.penalty)

\* _winsorize: no charge counts for more than the one at the quantile.  Charges and
\* records are indexed by their place in the ledger: their order is nothing to a score.
QuantileRank(n) == (QuantileNum * n + QuantileDen - 1) \div QuantileDen

NumberUpTo(charges, c) == Cardinality({i \in DOMAIN charges : charges[i] <= c})

Ceiling(charges) ==
  LET rank == QuantileRank(Cardinality(DOMAIN charges))
  IN  CHOOSE c \in Range(charges) : NumberUpTo(charges, c - 1) < rank /\ rank <= NumberUpTo(charges, c)

Winsorized(charges) ==
  LET ceiling == Ceiling(charges)
  IN  [i \in DOMAIN charges |-> Min({charges[i], ceiling})]

AuditVoidsEverything(rs) == \E i \in DOMAIN rs : rs[i].audited
AuditOfTheLast(rs) ==
  \E i \in DOMAIN rs : rs[i].audited /\ rs[i].outcome # "solved" /\ \A j \in DOMAIN rs : j <= i

\* An audited record passes its audit exactly when it is solved.
AuditFailed(rs) == \E i \in DOMAIN rs : rs[i].audited /\ rs[i].outcome # "solved"

Scoreable(rs) == Restrict(rs, {i \in DOMAIN rs : Verdict(rs[i].outcome) # "no_decision"})

Solved(rs) == {i \in DOMAIN rs : rs[i].outcome = "solved"}

Charges(rs, h) == [i \in DOMAIN rs |-> ChargedCost(rs[i], h)]

\* score_round.  The yield is solved / charged, and 0 unless the verdict is PASS.
ScoreRound(rs, h) ==
  LET scored == Scoreable(rs)
  IN CASE DOMAIN scored = {} -> [verdict |-> "no_decision", solved |-> 0, charged |-> 0]
       [] AuditFailed(scored) -> [verdict |-> "fail", solved |-> 0, charged |-> 0]
       [] OTHER -> [verdict |-> "pass",
                    solved |-> Cardinality(Solved(scored)),
                    charged |-> SumFunction(Winsorized(Charges(scored, h)))]

ForSubmission(lines, s) ==
  [i \in {i \in DOMAIN lines : lines[i].record.submission = s} |-> lines[i].record]

\* score_submissions.
Score(s) == ScoreRound(ForSubmission(file, s), header)

YieldAtMost(a, b) ==
  \/ a.solved = 0
  \/ b.charged > 0 /\ a.solved * b.charged <= b.solved * a.charged

-----------------------------------------------------------------------------
(* Properties. *)

\* Lines are well formed, and there is none before the header (store.py append).
TypeOK ==
  /\ header \in Headers \cup {NoHeader}
  /\ file \in Seq([previous : Seq(Records), link : Seq(Records), record : Records])
  /\ tail \in {"whole", "unterminated", "torn"}
  /\ header = NoHeader => file = <<>> /\ tail = "whole"

\* However appends fail and later ones follow them, a ledger that still decodes
\* is an unbroken chain: verify never reports a rewrite that did not happen
\* (store.py append reads the tip and writes behind it, not atomically).
ReadableIsIntact == Readable => Verify(file)

\* A history rewritten in one place: a line gone from before the last, two
\* neighbours exchanged, or the outcome of a record changed.
Rewritten ==
  {RemoveAt(file, i) : i \in 1 .. Len(file) - 1}
  \cup {[file EXCEPT ![i] = file[i + 1], ![i + 1] = file[i]] : i \in 1 .. Len(file) - 1}
  \cup UNION {{[file EXCEPT ![i].record.outcome = o] : o \in Outcomes \ {file[i].record.outcome}} :
               i \in DOMAIN file}

\* docs/architecture.md: "a rewritten history fails Ledger.verify rather than passing
\* silently" (store.py verify).
RewritingIsDetected == Readable => \A lines \in Rewritten : ~Verify(lines)

\* Whatever was metered, and whatever winsorising removed from the bill, no
\* yield exceeds 1 / denominator_floor (yield_score.py max_yield, charged_cost).
YieldIsBounded ==
  \A s \in Submissions : header # NoHeader => Score(s).solved * header.floor <= Score(s).charged

\* Every way to fail is one failure to the score.
Failures == {"unsolved", "cap_exhausted", "timeout", "crashed", "protocol_violation",
             "grader_tampered"}

\* One record made worse: one more unit spent, or a solution lost.
Worse(r) ==
  {[r EXCEPT !.spend = r.spend + 1]}
  \cup {[r EXCEPT !.outcome = o] : o \in {o \in Outcomes \cap Failures : r.outcome = "solved"}}

\* Spending more on an instance or failing one that was solved never raises the
\* yield, although either moves the ceiling the other charges are held to
\* (yield_score.py _winsorize).
WorseNeverScoresBetter ==
  header # NoHeader => \A i \in DOMAIN file :
    \A w \in Worse(file[i].record) :
      YieldAtMost(ScoreRound(ForSubmission([file EXCEPT ![i].record = w], w.submission), header),
                  Score(w.submission))

\* Solving one more instance at the floor price never lowers a yield: a
\* submission has no reason to leave a cheap instance unsolved (score_round).
CheapSolveNeverHurts ==
  [][\A s \in Submissions :
       (/\ Len(file') = Len(file) + 1
        /\ Last(file').record.submission = s
        /\ Last(file').record.outcome = "solved"
        /\ Last(file').record.spend <= header.floor)
       => YieldAtMost(Score(s), Score(s)')]_vars

\* A round a failed audit voided stays void: no later record redeems it (score_round).
VoidIsForever ==
  [][\A s \in Submissions :
       (header # NoHeader /\ Readable' /\ Score(s).verdict = "fail") => Score(s)'.verdict = "fail"]_vars

\* docs/miner-guide.md: "A lost solution removes a unit from the numerator and adds
\* the failure penalty to the denominator at the same time" (_winsorize).
PenaltyIsCharged ==
  \A s \in Submissions :
    (header # NoHeader /\ Score(s).verdict = "pass") =>
      LET scored == Scoreable(ForSubmission(file, s))
      IN Score(s).charged >= header.penalty * (Cardinality(DOMAIN scored) - Score(s).solved)
=============================================================================
