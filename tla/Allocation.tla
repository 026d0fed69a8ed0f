----------------------------- MODULE Allocation -----------------------------
(***************************************************************************)
(* From the scores of a settled round to the weight vector the chain takes *)
(* (scoring/allocation.py, round.py allocate_weights and publish, the tail *)
(* of daemon.py weight_loop).                                              *)
(*                                                                         *)
(* The code computes shares with 96 digits; here they are exact, as        *)
(* integers over a common denominator.  Hotkeys are numbers, ordered as    *)
(* the strings are.  The decay ratio solve_decay finds is a parameter.     *)
(***************************************************************************)
EXTENDS Integers, FiniteSets, Functions

CONSTANTS
  Hotkeys,             \* a set of naturals
  MaxScore,            \* bounds the scores
  PaidRanks,           \* PAID_RANKS
  DecayNum, DecayDen,  \* the decay ratio, DecayNum / DecayDen
  PpmTotal,            \* WEIGHT_PPM_TOTAL
  Shares,              \* reserved shares, in units of 1 / ShareUnit
  ShareUnit

ASSUME AllocationAssumption ==
  /\ Hotkeys \subseteq Nat /\ IsFiniteSet(Hotkeys)
  /\ MaxScore \in Nat
  /\ PaidRanks \in Nat \ {0}
  /\ DecayNum \in Nat \ {0} /\ DecayDen \in Nat /\ DecayNum < DecayDen
  /\ PpmTotal \in Nat \ {0}
  /\ ShareUnit \in Nat \ {0} /\ Shares \subseteq 0 .. ShareUnit

VARIABLES
  scores,      \* yield per submission whose verdict is PASS
  reserved,    \* directive.reserved_hotkey
  share,       \* directive.reserved_share
  registered,  \* hotkeys the metagraph lists
  ppm,         \* Allocation.ppm
  vector,      \* per registered hotkey, the weight published
  stage        \* where the weight loop is

vars == <<scores, reserved, share, registered, ppm, vector, stage>>
given == <<scores, reserved, share, registered>>

Empty == [h \in {} |-> 0]
Weights == UNION {[K -> 0 .. PpmTotal] : K \in SUBSET Hotkeys}

TypeOK ==
  /\ scores \in UNION {[K -> 0 .. MaxScore] : K \in SUBSET Hotkeys}
  /\ reserved \in Hotkeys
  /\ share \in Shares
  /\ registered \subseteq Hotkeys
  /\ ppm \in Weights
  /\ vector \in Weights
  /\ stage \in {"scored", "earned", "reserved", "published", "held"}

Init ==
  /\ scores \in UNION {[K -> 0 .. MaxScore] : K \in SUBSET Hotkeys}
  /\ reserved \in Hotkeys
  /\ share \in Shares
  /\ registered \in SUBSET Hotkeys
  /\ ppm = Empty
  /\ vector = Empty
  /\ stage = "scored"

-----------------------------------------------------------------------------
(* Apportionment by largest remainder. *)

Total(f) == SumFunction(f)

\* The quota of h in units of 1 / Total(f): whole part and remainder.
Whole(f, h) == (f[h] * PpmTotal) \div Total(f)
Rest(f, h) == (f[h] * PpmTotal) % Total(f)

AheadByName(f, h) == {g \in DOMAIN f : g < h}

\* Who is handed a unit before h: the larger remainder, then the smaller name.
Ahead(f, h) == {g \in DOMAIN f : Rest(f, g) > Rest(f, h) \/ (Rest(f, g) = Rest(f, h) /\ g < h)}

\* Every key gets its whole part; what is left goes round the keys in that order.
LargestRemainder(f) ==
  LET n == Cardinality(DOMAIN f)
      left == PpmTotal - Total([h \in DOMAIN f |-> Whole(f, h)])
  IN  [h \in DOMAIN f |-> Whole(f, h) + (left + n - 1 - Cardinality(Ahead(f, h))) \div n]

-----------------------------------------------------------------------------
(* The shares earned. *)

Eligible == {h \in DOMAIN scores : scores[h] > 0}

\* 1 for the best score, equal scores ranked by name.
Rank(h) == 1 + Cardinality({g \in Eligible : \/ scores[g] > scores[h]
                                             \/ scores[g] = scores[h] /\ g < h})

Paid == {h \in Eligible : Rank(h) <= PaidRanks}

Product(f) == FoldFunction(LAMBDA x, y : x * y, 1, f)

\* The geometric schedule over the n paid, times its sum and DecayDen to the n - 1:
\* DecayNum once for every place ahead of i, DecayDen for those behind.
Slot(i) ==
  Product([j \in 1 .. Cardinality(Paid) - 1 |-> IF j < i THEN DecayNum ELSE DecayDen])

\* A common multiple of the sizes a tie may have.
TieUnit == Product([n \in 1 .. Cardinality(Paid) |-> n])

TiedWithNobody(h) == {h}

\* Paid submissions with the same score.
Tied(h) == {g \in Paid : scores[g] = scores[h]}

\* Ties share the mean of the slots they occupy together.
Earned(h) ==
  (TieUnit \div Cardinality(Tied(h))) * Total([g \in Tied(h) |-> Slot(Rank(g))])

\* The weights before a share is withheld.
Allocated == LargestRemainder([h \in Paid |-> Earned(h)])

Allocate ==
  /\ stage = "scored"
  /\ stage' = "earned"
  /\ ppm' = IF Paid = {} THEN Empty ELSE Allocated
  /\ UNCHANGED <<given, vector>>

-----------------------------------------------------------------------------
(* The reserved share. *)

Undiluted(h) ==
  (IF h \in DOMAIN ppm THEN ppm[h] * ShareUnit ELSE 0)
    + (IF h = reserved THEN share * PpmTotal ELSE 0)

ShareTakenTwice(h) ==
  (IF h \in DOMAIN ppm THEN ppm[h] * (ShareUnit - share) ELSE 0)
    + (IF h = reserved THEN 2 * share * PpmTotal ELSE 0)

\* What is left of a weight after the share, to which the reserved hotkey adds it.
Diluted(h) ==
  (IF h \in DOMAIN ppm THEN ppm[h] * (ShareUnit - share) ELSE 0)
    + (IF h = reserved THEN share * PpmTotal ELSE 0)

ApplyReservedShare ==
  /\ stage = "earned"
  /\ stage' = "reserved"
  /\ ppm' = IF share = 0 THEN ppm
            ELSE IF share = ShareUnit \/ ppm = Empty THEN [h \in {reserved} |-> PpmTotal]
            ELSE LargestRemainder([h \in DOMAIN ppm \cup {reserved} |-> Diluted(h)])
  /\ UNCHANGED <<given, vector>>

-----------------------------------------------------------------------------
(* The vector. *)

\* Nothing to publish, or the reserved hotkey is not there to receive its share.
Holds == ppm = Empty \/ (share > 0 /\ reserved \notin registered)

\* as_uid_ppm: the weights of the hotkeys that have a uid.
Placed == [h \in DOMAIN ppm \cap registered |-> ppm[h]]

PlacedAsTheyAre == Placed

\* No uid at all gives an empty vector, which is not sent; weights that are all zero
\* raise.  Otherwise they are scaled up to the whole again.
Unplaceable == DOMAIN Placed = {} \/ Total(Placed) = 0

Rescaled == LargestRemainder(Placed)

Hold ==
  /\ stage = "reserved"
  /\ Holds \/ Unplaceable
  /\ stage' = "held"
  /\ UNCHANGED <<given, ppm, vector>>

Publish ==
  /\ stage = "reserved"
  /\ ~Holds /\ ~Unplaceable
  /\ stage' = "published"
  /\ vector' = Rescaled
  /\ UNCHANGED <<given, ppm>>

Next == Allocate \/ ApplyReservedShare \/ Hold \/ Publish

Spec == Init /\ [][Next]_vars

-----------------------------------------------------------------------------
(* Safety. *)

\* Every vector the chain takes is the whole, to the last unit, through two or three
\* roundings and whoever is registered (allocation.py largest_remainder_ppm).
NothingIsLost ==
  /\ ppm # Empty => Total(ppm) = PpmTotal
  /\ stage = "published" => Total(vector) = PpmTotal

\* g is still more than a unit ahead of h when the share is taken from both.
ClearlyAhead(g, h) == (Allocated[g] - Allocated[h]) * (ShareUnit - share) > ShareUnit

\* Whatever the schedule, a better score has no smaller a weight so long as no share is
\* withheld, and one no more than a unit smaller when one is.  The vector is just the
\* weights where all the paid are registered; where some are not (as_uid_ppm scales up
\* what is left of the whole) it exchanges no two weights, and who is clearly ahead to
\* begin with is paid no less.
RankIsRespected ==
  /\ stage = "earned" \/ share = 0 =>
       \A g, h \in DOMAIN ppm : scores[g] > scores[h] => ppm[g] >= ppm[h]
  /\ \A g, h \in DOMAIN ppm \ {reserved} : scores[g] > scores[h] => ppm[h] <= ppm[g] + 1
  /\ stage = "published" =>
       /\ Paid \subseteq registered => vector = ppm
       /\ \A g, h \in DOMAIN vector : ppm[g] > ppm[h] => vector[g] >= vector[h]
       /\ \A g, h \in DOMAIN vector \ {reserved} :
            ClearlyAhead(g, h) => vector[g] >= vector[h]

\* Equal scores that are both paid earn the same, up to the last unit of rounding,
\* with and without a reserved share (docs/scoring.md: ties share the mean of the
\* schedule slots they jointly occupy).
TiesShareAlike ==
  \A g, h \in DOMAIN ppm \ {reserved} : scores[g] = scores[h] => ppm[g] <= ppm[h] + 1

\* The reserved hotkey receives at least the share the directive withholds, even when
\* it earns a weight itself or others are not registered.
ShareIsWithheld ==
  stage = "published" /\ share > 0 =>
    vector[reserved] >= (share * PpmTotal) \div ShareUnit

\* The miners together keep at least what the directive leaves them, less rounding,
\* so long as they are all registered: the share is taken once.
FieldKeepsTheRest ==
  stage = "published" /\ Paid # {} /\ Paid \subseteq registered /\ reserved \notin Paid =>
    PpmTotal - (IF reserved \in DOMAIN vector THEN vector[reserved] ELSE 0)
      >= ((ShareUnit - share) * PpmTotal) \div ShareUnit
=============================================================================
