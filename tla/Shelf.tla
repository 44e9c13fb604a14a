-------------------------------- MODULE Shelf --------------------------------
(***************************************************************************)
(* What the shop may rely on about its parts: a part put on a vehicle is   *)
(* taken from the shelf, which must hold it, and only what is on vehicles  *)
(* comes back.  The abstract specification of PartsService and             *)
(* MaintenanceService; nobody works on anything here.                      *)
(***************************************************************************)
EXTENDS Integers

CONSTANT Parts

VARIABLES shelf, fitted   \* per part: on the shelf, and on vehicles

Init ==
    /\ shelf  = [p \in Parts |-> 0]
    /\ fitted = [p \in Parts |-> 0]

\* Bought, sold over the counter, counted anew: never below nothing.
Restock(p, stock) ==
    /\ stock \in Nat
    /\ shelf' = [shelf EXCEPT ![p] = stock]
    /\ UNCHANGED fitted

Fit(p, n) ==
    /\ n \in 1 .. shelf[p]
    /\ shelf'  = [shelf EXCEPT ![p] = @ - n]
    /\ fitted' = [fitted EXCEPT ![p] = @ + n]

GiveBack(p, n) ==
    /\ n \in 1 .. fitted[p]
    /\ shelf'  = [shelf EXCEPT ![p] = @ + n]
    /\ fitted' = [fitted EXCEPT ![p] = @ - n]

\* Every quantity is determined by the step it is taken in.
Next ==
    \E p \in Parts :
       \/ Restock(p, shelf'[p])
       \/ Fit(p, shelf[p] - shelf'[p])
       \/ GiveBack(p, shelf'[p] - shelf[p])

Spec == Init /\ [][Next]_<<shelf, fitted>>
=============================================================================
