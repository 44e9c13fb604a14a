------------------------------ MODULE MCStock ------------------------------
(* Stock on its own, with every status of the table reachable.              *)
EXTENDS Stock, TLC

AllStatuses == VehicleStatuses
WorkerSymmetry == Permutations(Workers)
=============================================================================
