------------------------------ MODULE MCPortal ------------------------------
(* A tab whose reader is promoted; three members whose roles change; three *)
(* readers of a dashboard, two of them administrators; and two handlers.   *)
EXTENDS Portal
=============================================================================
