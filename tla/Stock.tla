-------------------------------- MODULE Stock --------------------------------
(***************************************************************************)
(* StockService.changeStatus and VehiclesService.archive, as run by any    *)
(* number of concurrent handlers over one database.                        *)
(*                                                                         *)
(* A handler is a worker.  Between two of its awaits every other worker    *)
(* may run; a Prisma call (or a $transaction) is one atomic step.  The     *)
(* program counter, the arguments of a pending changeStatus call, the      *)
(* vehicle row read last and the caller's own locals are kept per worker,  *)
(* so that the modules extending this one can call changeStatus and resume *)
(* at a label of their own.                                                *)
(***************************************************************************)
EXTENDS VehicleStatus, Naturals

CONSTANTS
    Vehicles,          \* ids of the vehicle rows
    Workers,           \* handlers that can be in progress at the same time
    OperatorStatuses,  \* statuses a user asks for with POST /vehicles/:id/status
    MaxFailures,       \* bound: handlers that die half-way
    NULL               \* no row, no call, no locals

ASSUME StockAssumption ==
    /\ OperatorStatuses \subseteq VehicleStatuses
    /\ MaxFailures \in Nat

VARIABLES
    vehicle,   \* vehicle[v]: status, and whether soldAt is set
    movement,  \* movement[v]: the latest VehicleStockMovement row of v, or NULL
    pc,        \* pc[w]: the step worker w takes next
    call,      \* call[w]: w's pending changeStatus call, or NULL
    seen,      \* seen[w]: the vehicle row w has read and still uses, or NULL
    ctx,       \* ctx[w]: the locals of the handler w runs, or NULL
    failures   \* handlers that have died so far

handlerVars == <<pc, call, seen, ctx>>
stockVars   == <<vehicle, movement, handlerVars, failures>>

VehicleRows == [status : VehicleStatuses, soldAt : BOOLEAN]

StockInit ==
    /\ vehicle  = [v \in Vehicles |-> [status |-> "DRAFT", soldAt |-> FALSE]]
    /\ movement = [v \in Vehicles |-> NULL]
    /\ pc       = [w \in Workers |-> "idle"]
    /\ call     = [w \in Workers |-> NULL]
    /\ seen     = [w \in Workers |-> NULL]
    /\ ctx      = [w \in Workers |-> NULL]
    /\ failures = 0

-----------------------------------------------------------------------------
(* What the handlers do with their own state.                              *)

Resume(w, label) == pc' = [pc EXCEPT ![w] = label]

\* The handler returns or throws.
Finish(w) ==
    /\ pc'   = [pc EXCEPT ![w] = "idle"]
    /\ call' = [call EXCEPT ![w] = NULL]
    /\ seen' = [seen EXCEPT ![w] = NULL]
    /\ ctx'  = [ctx EXCEPT ![w] = NULL]

\* await this.stock.changeStatus(v, to, { reason }), then go on at label next
Invoke(w, v, to, reason, next) ==
    /\ pc'   = [pc EXCEPT ![w] = "changeStatus.read"]
    /\ call' = [call EXCEPT ![w] =
                  [vehicle |-> v, to |-> to, reason |-> reason, next |-> next]]
    /\ seen' = [seen EXCEPT ![w] = NULL]

\* The handler stops at an await: the database call rejects, or the process dies.
Fail(w) ==
    /\ pc[w] # "idle"
    /\ failures < MaxFailures
    /\ failures' = failures + 1
    /\ Finish(w)
    /\ UNCHANGED <<vehicle, movement>>

-----------------------------------------------------------------------------
(* StockService.changeStatus                                               *)

\* Mutant: the guard is forgotten.
ReadVehicleUnchecked(w) ==
    /\ pc[w] = "changeStatus.read"
    /\ seen' = [seen EXCEPT ![w] = vehicle[call[w].vehicle]]
    /\ Resume(w, "changeStatus.commit")
    /\ UNCHANGED <<vehicle, movement, call, ctx, failures>>

\* The guard looks at the row as it is read here ...
ReadVehicle(w) ==
    LET row == vehicle[call[w].vehicle] IN
    /\ pc[w] = "changeStatus.read"
    /\ IsTransitionAllowed(row.status, call[w].to)
    /\ seen' = [seen EXCEPT ![w] = row]
    /\ Resume(w, "changeStatus.commit")
    /\ UNCHANGED <<vehicle, movement, call, ctx, failures>>

\* VEHICLE_INVALID_STATUS_TRANSITION: no caller catches it
RejectTransition(w) ==
    /\ pc[w] = "changeStatus.read"
    /\ ~IsTransitionAllowed(vehicle[call[w].vehicle].status, call[w].to)
    /\ Finish(w)
    /\ UNCHANGED <<vehicle, movement, failures>>

\* What every version of the transaction does to the handler that runs it.
Committed(w) ==
    /\ pc[w] = "changeStatus.commit"
    /\ Resume(w, call[w].next)
    /\ call' = [call EXCEPT ![w] = NULL]
    /\ seen' = [seen EXCEPT ![w] = NULL]
    /\ UNCHANGED <<ctx, failures>>

\* Mutants: the movement forgets where the vehicle came from; the sale date is
\* only ever copied; a sale is not logged.
CommitWithoutOrigin(w) ==
    LET c == call[w] IN
    /\ Committed(w)
    /\ vehicle' = [vehicle EXCEPT ![c.vehicle] =
                     [status |-> c.to, soldAt |-> c.to = "SOLD" \/ seen[w].soldAt]]
    /\ movement' = [movement EXCEPT ![c.vehicle] = [from |-> NULL, to |-> c.to]]

CommitUndated(w) ==
    LET c == call[w] IN
    /\ Committed(w)
    /\ vehicle' = [vehicle EXCEPT ![c.vehicle] =
                     [status |-> c.to, soldAt |-> seen[w].soldAt]]
    /\ movement' = [movement EXCEPT ![c.vehicle] = [from |-> seen[w].status, to |-> c.to]]

CommitUnlogged(w) ==
    LET c == call[w] IN
    /\ Committed(w)
    /\ vehicle' = [vehicle EXCEPT ![c.vehicle] =
                     [status |-> c.to, soldAt |-> c.to = "SOLD" \/ seen[w].soldAt]]
    /\ \/ c.to = "SOLD" /\ UNCHANGED movement
       \/ c.to # "SOLD" /\ movement' = [movement EXCEPT ![c.vehicle] =
                                         [from |-> seen[w].status, to |-> c.to]]

\* ... and the transaction writes what follows from that row, whatever the row is by now.
CommitStatus(w) ==
    LET c == call[w] IN
    /\ Committed(w)
    /\ vehicle' = [vehicle EXCEPT ![c.vehicle] =
                     [status |-> c.to, soldAt |-> c.to = "SOLD" \/ seen[w].soldAt]]
    /\ movement' = [movement EXCEPT ![c.vehicle] = [from |-> seen[w].status, to |-> c.to]]

ChangeStatusStep(w) == ReadVehicle(w) \/ RejectTransition(w) \/ CommitStatus(w)

-----------------------------------------------------------------------------
(* Requests                                                                *)

\* POST /vehicles/:id/status
RequestStatus(w, v, to) ==
    /\ pc[w] = "idle"
    /\ Invoke(w, v, to, "request", "idle")
    /\ UNCHANGED <<vehicle, movement, ctx, failures>>

\* VehiclesService.archive: one update that looks at nothing but the id
Archive(w, v) ==
    /\ pc[w] = "idle"
    /\ vehicle' = [vehicle EXCEPT ![v].status = "ARCHIVED"]
    /\ UNCHANGED <<movement, handlerVars, failures>>

StockNext ==
    \E w \in Workers :
         \/ \E v \in Vehicles, to \in OperatorStatuses : RequestStatus(w, v, to)
         \/ \E v \in Vehicles : Archive(w, v)
         \/ ChangeStatusStep(w)
         \/ Fail(w)

StockSpec == StockInit /\ [][StockNext]_stockVars

-----------------------------------------------------------------------------
(* Properties                                                              *)

StockLabels == {"idle", "changeStatus.read", "changeStatus.commit"}

\* The labels of callers, and what a caller's locals look like, are left to them.
StockTypeOK ==
    /\ vehicle  \in [Vehicles -> VehicleRows]
    /\ movement \in [Vehicles -> [from : VehicleStatuses, to : VehicleStatuses] \cup {NULL}]
    /\ seen     \in [Workers -> VehicleRows \cup {NULL}]
    /\ failures \in 0 .. MaxFailures

\* Every movement row ever written records a transition of the table: the row
\* is built from the status the guard has accepted, in whatever order the
\* workers run (changeStatus).
MovementLegal ==
    \A v \in Vehicles :
        movement[v] # NULL => IsTransitionAllowed(movement[v].from, movement[v].to)

\* A vehicle that is SOLD or DELIVERED carries a sale date.  changeStatus writes
\* back the soldAt of the row it has read, so a stale row could erase the date.
SoldDated ==
    \A v \in Vehicles : vehicle[v].status \in {"SOLD", "DELIVERED"} => vehicle[v].soldAt

\* The latest movement of a vehicle ends in the status the vehicle has: status
\* and movement are written in one transaction.  Only archive bypasses the log.
MovementMatches ==
    \A v \in Vehicles :
        movement[v] # NULL => vehicle[v].status \in {movement[v].to, "ARCHIVED"}

\* "blocks nonsensical jumps (e.g. ARCHIVED -> SOLD)" (comment of TRANSITIONS):
\* no step takes an archived vehicle straight to SOLD.
ArchivedIsNotSold ==
    [][\A v \in Vehicles :
          vehicle[v].status = "ARCHIVED" => vehicle'[v].status # "SOLD"]_vehicle

\* One handler at a time, the stock does what Lifecycle promises.
Promise ==
    INSTANCE Lifecycle WITH
        status <- [v \in Vehicles |-> vehicle[v].status],
        dated  <- [v \in Vehicles |-> vehicle[v].soldAt]
KeepsLifecycle == Promise!Spec
=============================================================================
