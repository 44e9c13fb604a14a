---------------------------- MODULE MCCommercial ----------------------------
(* Commercial on small instances; the configurations choose which handlers  *)
(* can run by the rows (Reservations, Sales) they give them.                *)
EXTENDS Commercial, TLC

WorkerSymmetry == Permutations(Workers)

\* What users set by hand, without the one status only a reservation sets
ByHand == {"AVAILABLE", "IN_MAINTENANCE", "SOLD", "ARCHIVED"}
=============================================================================
