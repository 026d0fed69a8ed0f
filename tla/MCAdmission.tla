----------------------------- MODULE MCAdmission -----------------------------
(* Admission on a small instance: coldkeys are interchangeable; a transfer has at most
   one flaw, as each of verify_payment's checks turns away on its own. *)
EXTENDS Admission, TLC

Transfer(c, amount, sound) == [sender |-> c, amount |-> amount, sound |-> sound]

MCTransfers ==
  UNION {{Transfer(c, 1, TRUE), Transfer(c, 2, TRUE), Transfer(c, 1, FALSE)} : c \in Coldkeys}

ColdkeySymmetry == Permutations(Coldkeys)
=============================================================================
