---------------------------- MODULE VehicleStatus ----------------------------
(***************************************************************************)
(* The status table of a vehicle (stock.service.ts) and the predicate      *)
(* every handler consults before it moves a vehicle.                       *)
(***************************************************************************)

\* enum VehicleStatus of schema.prisma
VehicleStatuses ==
    {"DRAFT", "AWAITING_INSPECTION", "AWAITING_DOCUMENTS", "IN_MAINTENANCE",
     "AVAILABLE", "RESERVED", "NEGOTIATING", "SOLD", "DELIVERED",
     "CONSIGNED", "ARCHIVED"}

\* TRANSITIONS: the statuses reachable in one step from each status
Transitions ==
    [DRAFT               |-> {"AWAITING_INSPECTION", "AWAITING_DOCUMENTS",
                              "IN_MAINTENANCE", "AVAILABLE", "ARCHIVED"},
     AWAITING_INSPECTION |-> {"AWAITING_DOCUMENTS", "IN_MAINTENANCE",
                              "AVAILABLE", "ARCHIVED"},
     AWAITING_DOCUMENTS  |-> {"IN_MAINTENANCE", "AVAILABLE", "ARCHIVED"},
     IN_MAINTENANCE      |-> {"AWAITING_DOCUMENTS", "AVAILABLE", "ARCHIVED"},
     AVAILABLE           |-> {"RESERVED", "NEGOTIATING", "IN_MAINTENANCE",
                              "CONSIGNED", "SOLD", "ARCHIVED"},
     RESERVED            |-> {"AVAILABLE", "NEGOTIATING", "SOLD", "ARCHIVED"},
     NEGOTIATING         |-> {"AVAILABLE", "RESERVED", "SOLD", "ARCHIVED"},
     SOLD                |-> {"DELIVERED", "AVAILABLE", "ARCHIVED"},
     DELIVERED           |-> {"ARCHIVED"},
     CONSIGNED           |-> {"AVAILABLE", "SOLD", "ARCHIVED"},
     ARCHIVED            |-> {"AVAILABLE", "DRAFT"}]

\* A vehicle may also "move" to the status it already has.
IsTransitionAllowed(from, to) == from = to \/ to \in Transitions[from]
=============================================================================
