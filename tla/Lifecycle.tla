------------------------------ MODULE Lifecycle ------------------------------
(***************************************************************************)
(* What the stock promises of a vehicle, with no handler in sight: it is   *)
(* born a draft, it only ever moves along the table, selling it dates it,  *)
(* and a date once given stays.                                            *)
(***************************************************************************)
EXTENDS VehicleStatus

CONSTANT Vehicles

VARIABLES
    status,  \* status[v]: the status of v
    dated    \* dated[v]: v has a sale date

lifecycleVars == <<status, dated>>

Init ==
    /\ status = [v \in Vehicles |-> "DRAFT"]
    /\ dated  = [v \in Vehicles |-> FALSE]

Move(v, to) ==
    /\ IsTransitionAllowed(status[v], to)
    /\ status' = [status EXCEPT ![v] = to]
    /\ dated'  = [dated EXCEPT ![v] = @ \/ to = "SOLD"]

\* A concluded sale dates the vehicle before it moves it.
DateSale(v) ==
    /\ dated' = [dated EXCEPT ![v] = TRUE]
    /\ UNCHANGED status

Next == \E v \in Vehicles : DateSale(v) \/ \E to \in VehicleStatuses : Move(v, to)

Spec == Init /\ [][Next]_lifecycleVars
=============================================================================
