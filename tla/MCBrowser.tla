----------------------------- MODULE MCBrowser -----------------------------
(* One account, one tab with one call, two handlers.                       *)
EXTENDS Browser, TLC

WorkerSymmetry == Permutations(Workers)
=============================================================================
