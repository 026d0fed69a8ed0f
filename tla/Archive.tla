------------------------------- MODULE Archive -------------------------------
(***************************************************************************)
(* The archive family of instances (environments/families/archive.py): how *)
(* an instance and its audited twin are generated, what an agent can see   *)
(* of it through act, and how its answer is graded.                        *)
(*                                                                         *)
(* A seeded stream (environments/prf.py) is whatever it yields: `draws`    *)
(* holds, per seed, an arbitrary outcome of each of the four streams of    *)
(* _build, and generation is a function of them.  A fact's key is its      *)
(* entity and attribute; a document is the facts planted in it and the     *)
(* attribute names that its filler sentences happen to contain.            *)
(***************************************************************************)
EXTENDS Naturals, FiniteSets

CONSTANTS
  Names,        \* entity names that the structure stream may produce
  Within,       \* pairs <<a, b>> of names where a is a substring of b
  Attributes,
  Fillers,      \* attribute names that occur in filler text ("sealed")
  Values,       \* values, up to normalise_answer
  Documents,
  EntityCount,  \* parameters of the family
  GradedCount

ASSUME ArchiveAssumption ==
  /\ Within \subseteq Names \X Names
  /\ \A n \in Names : <<n, n>> \in Within
  /\ Fillers \subseteq Attributes
  /\ EntityCount \in 1 .. Cardinality(Names)
  /\ GradedCount \in 0 .. EntityCount * Cardinality(Attributes)
  /\ Documents # {}

\* The instance's seed, public, and the transform seed, keyed by the audit secret.
Seeds == {"instance", "transform"}

Terms == Names \cup Attributes
AllKeys == Names \X Attributes
KeysOf(entities) == entities \X Attributes

VARIABLES
  draws,     \* per seed, what its streams yield
  audited,   \* AuditKey.selects has chosen the instance
  listed,    \* the agent has called index
  searched,  \* the terms the agent has searched for
  read,      \* documents_read
  solved     \* the grade: none, yes or no

vars == <<draws, audited, listed, searched, read, solved>>

Draws ==
  [entities : {E \in SUBSET Names : Cardinality(E) = EntityCount},    \* structure
   value    : [AllKeys -> Values],                                    \* values
   graded   : {G \in SUBSET AllKeys : Cardinality(G) = GradedCount},  \* selection
   place    : [AllKeys -> Documents],                                 \* placement
   mentions : [Documents -> SUBSET Fillers]]

\* The selection stream samples from the keys of the instance, whose entities are those
\* of the instance's seed.
PossibleDraws ==
  {d \in [Seeds -> Draws] :
     \A s \in Seeds : d[s].graded \subseteq KeysOf(d["instance"].entities)}

Init ==
  /\ draws \in PossibleDraws
  /\ audited \in BOOLEAN
  /\ listed = FALSE
  /\ searched = {}
  /\ read = {}
  /\ solved = "none"

-----------------------------------------------------------------------------
(* Generation. *)

BuildSameValues(valueSeed) ==
  [entities |-> draws["instance"].entities,
   value    |-> draws["instance"].value,
   graded   |-> draws[valueSeed].graded,
   place    |-> draws["instance"].place,
   mentions |-> draws["instance"].mentions]

\* _build: names, layout and filler come from the instance's seed whoever is served;
\* values and the graded keys from the seed of values.
Build(valueSeed) ==
  [entities |-> draws["instance"].entities,
   value    |-> draws[valueSeed].value,
   graded   |-> draws[valueSeed].graded,
   place    |-> draws["instance"].place,
   mentions |-> draws["instance"].mentions]

Ordinary == Build("instance")
Audited == Build("transform")
Served == IF audited THEN Audited ELSE Ordinary

Planted(instance, doc) ==
  {key \in KeysOf(instance.entities) : instance.place[key] = doc}

-----------------------------------------------------------------------------
(* What can be seen of an instance. *)

Briefing(instance) == [entities |-> instance.entities, attributes |-> Attributes]

Index(instance) == Documents

\* A document is found by a name where a name in it contains the term, and by an
\* attribute where a fact or a filler sentence does: more than asked for, never less.
MatchesName(instance, term, doc) ==
  \E key \in Planted(instance, doc) : <<term, key[1]>> \in Within

MatchesAttribute(instance, term, doc) ==
  \/ \E key \in Planted(instance, doc) : key[2] = term
  \/ term \in instance.mentions[doc]

SearchFirstMatch(instance, term) ==
  LET hits == {doc \in Documents :
                 \/ term \in instance.entities /\ MatchesName(instance, term, doc)
                 \/ term \in Attributes /\ MatchesAttribute(instance, term, doc)}
  IN {doc \in hits : doc = CHOOSE first \in hits : TRUE}

\* act("search"): index_by_term holds the entities of the instance and the attributes.
Search(instance, term) ==
  {doc \in Documents :
     \/ term \in instance.entities /\ MatchesName(instance, term, doc)
     \/ term \in Attributes /\ MatchesAttribute(instance, term, doc)}

\* act("read"): the facts that the document's text states, by key.
Text(instance, doc) == [key \in Planted(instance, doc) |-> instance.value[key]]

-----------------------------------------------------------------------------
(* The agent. *)

CallsIndex ==
  /\ solved = "none"
  /\ listed' = TRUE
  /\ UNCHANGED <<draws, audited, searched, read, solved>>

Searches(term) ==
  /\ solved = "none"
  /\ searched' = searched \cup {term}
  /\ UNCHANGED <<draws, audited, listed, read, solved>>

\* Identifiers can be guessed; one that names no document is refused and not noted.
Reads(doc) ==
  /\ solved = "none"
  /\ read' = read \cup {doc}
  /\ UNCHANGED <<draws, audited, listed, searched, solved>>

\* What the agent states of a key: what it read, or else what it remembers of the
\* ordinary instance, or nothing.
Answers(remembers) ==
  LET known == UNION {DOMAIN Text(Served, doc) : doc \in read}
  IN [key \in known \cup (IF remembers THEN KeysOf(Ordinary.entities) ELSE {}) |->
        IF key \in known THEN Text(Served, Served.place[key])[key] ELSE Ordinary.value[key]]

GradePresent(instance, answer) ==
  \A key \in instance.graded :
    key \in DOMAIN answer => answer[key] = instance.value[key]

\* grade: every graded key is there and right.  An answer that is no JSON object states
\* nothing.
Grade(instance, answer) ==
  \A key \in instance.graded :
    key \in DOMAIN answer /\ answer[key] = instance.value[key]

Submits(remembers) ==
  /\ solved = "none"
  /\ solved' = IF Grade(Served, Answers(remembers)) THEN "yes" ELSE "no"
  /\ UNCHANGED <<draws, audited, listed, searched, read>>

Next ==
  \/ CallsIndex
  \/ \E term \in Terms : Searches(term)
  \/ \E doc \in Documents : Reads(doc)
  \/ \E remembers \in BOOLEAN : Submits(remembers)

Spec == Init /\ [][Next]_vars

-----------------------------------------------------------------------------
(* Safety. *)

TypeOK ==
  /\ audited \in BOOLEAN
  /\ listed \in BOOLEAN
  /\ searched \subseteq Terms
  /\ read \subseteq Documents
  /\ solved \in {"none", "yes", "no"}

\* The audited twin answers briefing, index and search as the ordinary instance does,
\* and its documents state values for the same keys: an agent that sees less than every
\* value cannot tell which of the two it is served (archive.py _build, four streams
\* of two seeds).
TwinsLookAlike ==
  /\ Briefing(Ordinary) = Briefing(Audited)
  /\ \A term \in Terms : Search(Ordinary, term) = Search(Audited, term)
  /\ \A doc \in Documents :
       /\ DOMAIN Text(Ordinary, doc) = DOMAIN Text(Audited, doc)
       /\ Ordinary.mentions[doc] = Audited.mentions[doc]

\* The documents whose identifiers the agent has been told.
Found ==
  (UNION {Search(Served, term) : term \in searched})
    \cup (IF listed THEN Index(Served) ELSE {})

\* The names of the entities, or the attributes, or the index: each way of looking
\* finds every fact.
LookedEverywhere ==
  \/ listed
  \/ Attributes \subseteq searched
  \/ Served.entities \subseteq searched

\* Who looks everywhere, reads all that was found and states what it read solves the
\* instance, audited or not, whichever keys turn out to be graded (archive.py act and
\* grade: the index of terms must miss no document).
ReadersSolve ==
  solved = "no" => ~(LookedEverywhere /\ Found \subseteq read)

\* An audited instance is not solved from memory: a graded value that moved was read in
\* the document that holds it, or the grade is no (archive.py audited and grade).
MemoryDoesNotSolve ==
  audited /\ solved = "yes" =>
    \A key \in draws["transform"].graded :
      \/ draws["transform"].value[key] = draws["instance"].value[key]
      \/ draws["instance"].place[key] \in read
=============================================================================
