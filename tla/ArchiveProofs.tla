---------------------------- MODULE ArchiveProofs ----------------------------
(***************************************************************************)
(* The archive family for every set of names, attributes, values and       *)
(* documents, every outcome of the seeded streams, and any number of       *)
(* entities and graded keys.                                               *)
(*                                                                         *)
(* Grading happens once, and nothing moves after it: what has to be shown  *)
(* is about the step of Submits.  The search index misses no document that *)
(* holds a fact, because a name contains itself.                           *)
(***************************************************************************)
EXTENDS Archive, TLAPS

IInv == TypeOK /\ draws \in PossibleDraws /\ ReadersSolve /\ MemoryDoesNotSolve

-----------------------------------------------------------------------------
(* Generation. *)

\* Everything but the values and the graded keys comes from the instance's seed.
LEMMA BuildKeepsLayout ==
  ASSUME NEW seed
  PROVE  /\ Build(seed).entities = draws["instance"].entities
         /\ Build(seed).place = draws["instance"].place
         /\ Build(seed).mentions = draws["instance"].mentions
         /\ Build(seed).value = draws[seed].value
         /\ Build(seed).graded = draws[seed].graded
BY DEF Build

LEMMA ServedIsBuilt ==
  /\ Served.entities = draws["instance"].entities
  /\ Served.place = draws["instance"].place
  /\ audited => Served.graded = draws["transform"].graded
                /\ Served.value = draws["transform"].value
BY BuildKeepsLayout DEF Served, Audited, Ordinary

\* The facts of a document, by key.
LEMMA TextOfDocument ==
  ASSUME NEW doc, NEW key
  PROVE  /\ DOMAIN Text(Served, doc) = Planted(Served, doc)
         /\ key \in Planted(Served, doc) <=>
              key \in KeysOf(Served.entities) /\ Served.place[key] = doc
         /\ key \in Planted(Served, doc) => Text(Served, doc)[key] = Served.value[key]
BY DEF Text, Planted

\* The graded keys are keys of the instance that is served.
LEMMA GradedAreKeys ==
  ASSUME draws \in PossibleDraws, audited \in BOOLEAN
  PROVE  Served.graded \subseteq KeysOf(Served.entities)
<1>1. \A s \in Seeds : draws[s].graded \subseteq KeysOf(draws["instance"].entities)
  BY DEF PossibleDraws
<1>. QED BY <1>1, BuildKeepsLayout DEF Served, Audited, Ordinary, Seeds

-----------------------------------------------------------------------------
(* Looking. *)

\* Each way of looking everywhere finds the document of every fact.
LEMMA EveryFactIsFound ==
  ASSUME draws \in PossibleDraws, LookedEverywhere,
         NEW key \in KeysOf(Served.entities)
  PROVE  Served.place[key] \in Found
<1>. DEFINE doc == Served.place[key]
<1>1. /\ key \in Names \X Attributes
      /\ key[1] \in Served.entities
      /\ doc \in Documents
  <2>1. draws["instance"] \in Draws
    BY DEF PossibleDraws, Seeds
  <2>2. /\ draws["instance"].entities \subseteq Names
        /\ draws["instance"].place \in [AllKeys -> Documents]
    BY <2>1 DEF Draws
  <2>. QED BY <2>2, ServedIsBuilt DEF KeysOf, AllKeys
<1>2. key \in Planted(Served, doc)
  BY TextOfDocument
<1>3. CASE listed
  BY <1>1, <1>3 DEF Found, Index
<1>4. CASE Attributes \subseteq searched
  <2>1. key[2] \in Attributes
    BY <1>1
  <2>2. MatchesAttribute(Served, key[2], doc)
    BY <1>2 DEF MatchesAttribute
  <2>3. doc \in Search(Served, key[2])
    BY <1>1, <2>1, <2>2 DEF Search
  <2>. QED BY <1>4, <2>1, <2>3 DEF Found
<1>5. CASE Served.entities \subseteq searched
  <2>1. <<key[1], key[1]>> \in Within
    BY <1>1, ArchiveAssumption DEF ArchiveAssumption
  <2>2. MatchesName(Served, key[1], doc)
    BY <1>2, <2>1 DEF MatchesName
  <2>3. doc \in Search(Served, key[1])
    BY <1>1, <2>2 DEF Search
  <2>. QED BY <1>1, <1>5, <2>3 DEF Found
<1>. QED BY <1>3, <1>4, <1>5 DEF LookedEverywhere

-----------------------------------------------------------------------------
(* Answering. *)

Known == UNION {DOMAIN Text(Served, doc) : doc \in read}

\* What was read is what the documents that were read hold.
LEMMA KnownIsRead ==
  ASSUME NEW key
  PROVE  key \in Known <=> key \in KeysOf(Served.entities) /\ Served.place[key] \in read
<1>1. key \in Known <=> \E doc \in read : key \in Planted(Served, doc)
  BY TextOfDocument DEF Known
<1>. QED BY <1>1, TextOfDocument

\* What was read is stated as it was read; the rest as it is remembered.
LEMMA AnswerOfKey ==
  ASSUME NEW remembers \in BOOLEAN, NEW key
  PROVE  /\ key \in Known =>
              key \in DOMAIN Answers(remembers) /\ Answers(remembers)[key] = Served.value[key]
         /\ key \notin Known /\ key \in DOMAIN Answers(remembers) =>
              Answers(remembers)[key] = draws["instance"].value[key]
<1>1. Answers(remembers) =
        [k \in Known \cup (IF remembers THEN KeysOf(Ordinary.entities) ELSE {}) |->
           IF k \in Known THEN Text(Served, Served.place[k])[k] ELSE Ordinary.value[k]]
  BY DEF Answers, Known
<1>2. ASSUME key \in Known
      PROVE  Text(Served, Served.place[key])[key] = Served.value[key]
  BY <1>2, KnownIsRead, TextOfDocument
<1>3. Ordinary.value = draws["instance"].value
  BY BuildKeepsLayout DEF Ordinary
<1>. QED BY <1>1, <1>2, <1>3

\* An answer is refused for a graded key that was not read.
LEMMA RefusedForUnread ==
  ASSUME draws \in PossibleDraws, audited \in BOOLEAN, NEW remembers \in BOOLEAN,
         ~Grade(Served, Answers(remembers))
  PROVE  ~(LookedEverywhere /\ Found \subseteq read)
<1>1. PICK key \in Served.graded :
        ~(key \in DOMAIN Answers(remembers) /\ Answers(remembers)[key] = Served.value[key])
  BY DEF Grade
<1>2. key \in KeysOf(Served.entities) /\ key \notin Known
  BY <1>1, GradedAreKeys, AnswerOfKey
<1>3. Served.place[key] \notin read
  BY <1>2, KnownIsRead
<1>. QED BY <1>2, <1>3, EveryFactIsFound

\* An audited instance is solved by what was read, or by what did not move.
LEMMA SolvedByReading ==
  ASSUME audited, NEW remembers \in BOOLEAN, Grade(Served, Answers(remembers)),
         NEW key \in draws["transform"].graded
  PROVE  \/ draws["transform"].value[key] = draws["instance"].value[key]
         \/ draws["instance"].place[key] \in read
<1>1. /\ key \in DOMAIN Answers(remembers)
      /\ Answers(remembers)[key] = draws["transform"].value[key]
  BY ServedIsBuilt DEF Grade
<1>2. CASE key \in Known
  BY <1>2, KnownIsRead, ServedIsBuilt
<1>3. CASE key \notin Known
  BY <1>1, <1>3, AnswerOfKey
<1>. QED BY <1>2, <1>3

-----------------------------------------------------------------------------
(* The invariant. *)

LEMMA InvariantHoldsAtFirst == Init => IInv
BY DEF Init, IInv, TypeOK, ReadersSolve, MemoryDoesNotSolve

LEMMA TypesArePreserved == TypeOK /\ [Next]_vars => TypeOK'
<1>. SUFFICES ASSUME TypeOK, [Next]_vars PROVE TypeOK'
  OBVIOUS
<1>1. CASE CallsIndex
  BY <1>1 DEF CallsIndex, TypeOK
<1>2. ASSUME NEW term \in Terms, Searches(term) PROVE TypeOK'
  BY <1>2 DEF Searches, TypeOK
<1>3. ASSUME NEW doc \in Documents, Reads(doc) PROVE TypeOK'
  BY <1>3 DEF Reads, TypeOK
<1>4. ASSUME NEW remembers \in BOOLEAN, Submits(remembers) PROVE TypeOK'
  BY <1>4 DEF Submits, TypeOK
<1>5. CASE UNCHANGED vars
  BY <1>5 DEF vars, TypeOK
<1>. QED BY <1>1, <1>2, <1>3, <1>4, <1>5 DEF Next

LEMMA InvariantIsInductive == IInv /\ [Next]_vars => IInv'
<1>. SUFFICES ASSUME IInv, [Next]_vars PROVE IInv'
  OBVIOUS
<1>0. /\ TypeOK /\ TypeOK'
      /\ draws \in PossibleDraws /\ audited \in BOOLEAN
  BY TypesArePreserved DEF IInv, TypeOK
<1>1. UNCHANGED <<draws, audited>>
  BY DEF Next, vars, CallsIndex, Searches, Reads, Submits
<1>2. CASE solved' = "none"
  BY <1>0, <1>1, <1>2 DEF IInv, ReadersSolve, MemoryDoesNotSolve
<1>3. ASSUME NEW remembers \in BOOLEAN, Submits(remembers) PROVE IInv'
  <2>1. UNCHANGED <<listed, searched, read>>
    BY <1>3 DEF Submits
  <2>2. /\ solved' = "no" => ~Grade(Served, Answers(remembers))
        /\ solved' = "yes" => Grade(Served, Answers(remembers))
    BY <1>3 DEF Submits
  <2>3. UNCHANGED <<LookedEverywhere, Found>>
    BY <1>1, <2>1 DEF LookedEverywhere, Found, Served, Audited, Ordinary, Build, Search,
                      MatchesName, MatchesAttribute, Planted, Index
  <2>4. ReadersSolve'
    BY <1>0, <2>1, <2>2, <2>3, RefusedForUnread DEF ReadersSolve
  <2>5. MemoryDoesNotSolve'
    BY <1>1, <2>1, <2>2, SolvedByReading DEF MemoryDoesNotSolve
  <2>. QED BY <1>0, <1>1, <2>4, <2>5 DEF IInv
<1>4. CASE UNCHANGED vars
  <2>1. UNCHANGED <<LookedEverywhere, Found>>
    BY <1>4 DEF vars, LookedEverywhere, Found, Served, Audited, Ordinary, Build, Search,
                MatchesName, MatchesAttribute, Planted, Index
  <2>. QED BY <1>0, <1>4, <2>1 DEF IInv, vars, ReadersSolve, MemoryDoesNotSolve
<1>. QED BY <1>2, <1>3, <1>4 DEF Next, CallsIndex, Searches, Reads

\* The inductive invariant of the archive: the types, the grades, and the draws.
THEOREM InvariantAlwaysHolds == Spec => []IInv
BY InvariantHoldsAtFirst, InvariantIsInductive, PTL DEF Spec

-----------------------------------------------------------------------------
\* Only identifiers of documents are noted as read, and the grade is given once
\* (archive.py act).
THEOREM TypeCorrectness == Spec => []TypeOK
<1>1. IInv => TypeOK
  BY DEF IInv
<1>. QED BY <1>1, InvariantAlwaysHolds, PTL

\* Who looks everywhere and reads what was found solves the instance, audited or not,
\* whatever the streams yield (archive.py act, grade).
THEOREM ReadersAlwaysSolve == Spec => []ReadersSolve
<1>1. IInv => ReadersSolve
  BY DEF IInv
<1>. QED BY <1>1, InvariantAlwaysHolds, PTL

\* No audited instance is solved from memory where a graded value moved (archive.py
\* audited).
THEOREM MemoryNeverSolves == Spec => []MemoryDoesNotSolve
<1>1. IInv => MemoryDoesNotSolve
  BY DEF IInv
<1>. QED BY <1>1, InvariantAlwaysHolds, PTL

\* Briefing, index, search and the keys of every text are the same for the instance and
\* for its audited twin (archive.py _build).
THEOREM TwinsAlwaysLookAlike == TwinsLookAlike
<1>2. /\ Ordinary.entities = Audited.entities
      /\ Ordinary.place = Audited.place
      /\ Ordinary.mentions = Audited.mentions
  BY BuildKeepsLayout DEF Ordinary, Audited
<1>3. \A doc : Planted(Ordinary, doc) = Planted(Audited, doc)
  BY <1>2 DEF Planted
<1>4. \A term, doc : /\ MatchesName(Ordinary, term, doc) <=> MatchesName(Audited, term, doc)
                     /\ MatchesAttribute(Ordinary, term, doc)
                          <=> MatchesAttribute(Audited, term, doc)
  BY <1>2, <1>3 DEF MatchesName, MatchesAttribute
<1>5. \A term : Search(Ordinary, term) = Search(Audited, term)
  BY <1>2, <1>4 DEF Search
<1>6. \A doc : DOMAIN Text(Ordinary, doc) = DOMAIN Text(Audited, doc)
  BY <1>3 DEF Text
<1>. QED BY <1>2, <1>5, <1>6 DEF TwinsLookAlike, Briefing
=============================================================================
