------------------------------ MODULE MCOffice ------------------------------
(* Two handlers, and for each part the few rows its properties need.        *)
EXTENDS Office
=============================================================================
