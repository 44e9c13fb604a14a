---------------------------- MODULE Reservations ----------------------------
(***************************************************************************)
(* ReservationsService.create and cancel, and the hourly job               *)
(* JobsService.expireReservations, over the stock they move vehicles in.   *)
(* A run of the job occupies a worker like a request does: nothing keeps   *)
(* it apart from the requests, nor from the run of another instance.       *)
(***************************************************************************)
EXTENDS Stock

CONSTANT Reservations   \* ids a reservation row can get

VARIABLE reservation    \* reservation[r]: the row, or NULL while there is none

\* CONVERTED, the fourth status of the schema, is written by no code.
ReservationRows ==
    [status : {"ACTIVE", "CANCELED", "EXPIRED"}, vehicle : Vehicles, overdue : BOOLEAN]

\* Locals of the handlers: the reservation being closed, and, in the job, the
\* reservations still to be handled.
ReservationLocals ==
    [reservation : Reservations \cup {NULL}, todo : SUBSET Reservations]

ReservationsInit == reservation = [r \in Reservations |-> NULL]

Exists(r) == reservation[r] # NULL
VehicleOf(w) == reservation[ctx[w].reservation].vehicle

SetStatus(r, st) == reservation' = [reservation EXCEPT ![r].status = st]
SetLocals(w, l) == ctx' = [ctx EXCEPT ![w] = l]

-----------------------------------------------------------------------------
(* ReservationsService.create: the row is inserted before the vehicle is   *)
(* moved.  Of the vehicle read first only its existence matters.           *)

CreateReservation(w, r, v) ==
    /\ pc[w] = "idle"
    /\ ~Exists(r)
    /\ reservation' = [reservation EXCEPT ![r] =
                         [status |-> "ACTIVE", vehicle |-> v, overdue |-> FALSE]]
    /\ Invoke(w, v, "RESERVED", "reservation_created", "idle")
    /\ UNCHANGED <<vehicle, movement, ctx, failures>>

\* expiresAt passes
Elapse(r) ==
    /\ Exists(r)
    /\ ~reservation[r].overdue
    /\ reservation' = [reservation EXCEPT ![r].overdue = TRUE]
    /\ UNCHANGED stockVars

-----------------------------------------------------------------------------
(* ReservationsService.cancel                                              *)

\* The row is read for its vehicle only: its status is not looked at.
CancelReservation(w, r) ==
    /\ pc[w] = "idle"
    /\ Exists(r)
    /\ SetStatus(r, "CANCELED")
    /\ SetLocals(w, [reservation |-> r, todo |-> {}])
    /\ Resume(w, "cancel.readVehicle")
    /\ UNCHANGED <<vehicle, movement, call, seen, failures>>

\* "best-effort: only if still reserved"
CancelReadsReserved(w) ==
    /\ pc[w] = "cancel.readVehicle"
    /\ vehicle[VehicleOf(w)].status = "RESERVED"
    /\ Invoke(w, VehicleOf(w), "AVAILABLE", "reservation_canceled", "idle")
    /\ SetLocals(w, NULL)
    /\ UNCHANGED <<vehicle, movement, failures, reservation>>

\* Mutant: the handler is done once the row is written.
CancelLeavesVehicle(w) ==
    /\ pc[w] = "cancel.readVehicle"
    /\ Finish(w)
    /\ UNCHANGED <<vehicle, movement, failures, reservation>>

CancelReadsOther(w) ==
    /\ pc[w] = "cancel.readVehicle"
    /\ vehicle[VehicleOf(w)].status # "RESERVED"
    /\ Finish(w)
    /\ UNCHANGED <<vehicle, movement, failures, reservation>>

-----------------------------------------------------------------------------
(* JobsService.expireReservations                                          *)

ActiveReservations ==
    {r \in Reservations : Exists(r) /\ reservation[r].status = "ACTIVE"}

TakeBatch(w, batch) == SetLocals(w, [reservation |-> NULL, todo |-> batch])

\* Mutants: the batch takes every active row; it takes the rows not yet due.
StartExpiryOfAll(w) ==
    /\ pc[w] = "idle"
    /\ TakeBatch(w, ActiveReservations)
    /\ Resume(w, "expire.next")
    /\ UNCHANGED <<vehicle, movement, call, seen, failures, reservation>>

StartExpiryOfPending(w) ==
    /\ pc[w] = "idle"
    /\ TakeBatch(w, {r \in ActiveReservations : ~reservation[r].overdue})
    /\ Resume(w, "expire.next")
    /\ UNCHANGED <<vehicle, movement, call, seen, failures, reservation>>

\* findMany({ status: 'ACTIVE', expiresAt: { lt: now } })
StartExpiry(w) ==
    /\ pc[w] = "idle"
    /\ TakeBatch(w, {r \in ActiveReservations : reservation[r].overdue})
    /\ Resume(w, "expire.next")
    /\ UNCHANGED <<vehicle, movement, call, seen, failures, reservation>>

\* The next row of the batch, which may have been canceled since it was read
ExpireNext(w) ==
    /\ pc[w] = "expire.next"
    /\ \E r \in ctx[w].todo :
         /\ SetStatus(r, "EXPIRED")
         /\ SetLocals(w, [reservation |-> r, todo |-> ctx[w].todo \ {r}])
    /\ Resume(w, "expire.readVehicle")
    /\ UNCHANGED <<vehicle, movement, call, seen, failures>>

ExpireDone(w) ==
    /\ pc[w] = "expire.next"
    /\ ctx[w].todo = {}
    /\ Finish(w)
    /\ UNCHANGED <<vehicle, movement, failures, reservation>>

\* Mutant: every expired reservation frees its vehicle.
ExpireSkipsRead(w) ==
    /\ pc[w] = "expire.readVehicle"
    /\ Resume(w, "expire.free")
    /\ UNCHANGED <<vehicle, movement, call, seen, ctx, failures, reservation>>

ExpireReadVehicle(w) ==
    /\ pc[w] = "expire.readVehicle"
    /\ Resume(w, IF vehicle[VehicleOf(w)].status = "RESERVED"
                 THEN "expire.free" ELSE "expire.next")
    /\ UNCHANGED <<vehicle, movement, call, seen, ctx, failures, reservation>>

\* The update writes AVAILABLE over whatever the vehicle is by now ...
ExpireFree(w) ==
    /\ pc[w] = "expire.free"
    /\ vehicle' = [vehicle EXCEPT ![VehicleOf(w)].status = "AVAILABLE"]
    /\ Resume(w, "expire.log")
    /\ UNCHANGED <<movement, call, seen, ctx, failures, reservation>>

\* ... and the movement is a call of its own.
ExpireLog(w) ==
    /\ pc[w] = "expire.log"
    /\ movement' = [movement EXCEPT ![VehicleOf(w)] =
                      [from |-> "RESERVED", to |-> "AVAILABLE"]]
    /\ Resume(w, "expire.next")
    /\ UNCHANGED <<vehicle, call, seen, ctx, failures, reservation>>

-----------------------------------------------------------------------------
CancelStep(w) == CancelReadsReserved(w) \/ CancelReadsOther(w)

ExpiryStep(w) ==
    \/ ExpireNext(w) \/ ExpireDone(w) \/ ExpireReadVehicle(w)
    \/ ExpireFree(w) \/ ExpireLog(w)

ReservationsNext ==
    \/ \E w \in Workers :
         \/ \E r \in Reservations, v \in Vehicles : CreateReservation(w, r, v)
         \/ \E r \in Reservations : CancelReservation(w, r)
         \/ CancelStep(w)
         \/ StartExpiry(w)
         \/ ExpiryStep(w)
    \/ \E r \in Reservations : Elapse(r)

ReservationLabels ==
    {"cancel.readVehicle", "expire.next", "expire.readVehicle", "expire.free", "expire.log"}
=============================================================================
