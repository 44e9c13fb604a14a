----------------------------- MODULE Commercial -----------------------------
(***************************************************************************)
(* Reservations and sales over one stock: the handlers of both services,   *)
(* the direct status changes and the expiry job, interleaved at their      *)
(* awaits.                                                                 *)
(***************************************************************************)
EXTENDS Reservations, Sales

vars == <<stockVars, reservation, saleVars>>

Init == StockInit /\ ReservationsInit /\ SalesInit

Next ==
    \/ StockNext /\ UNCHANGED <<reservation, saleVars>>
    \/ ReservationsNext /\ UNCHANGED saleVars
    \/ SalesNext /\ UNCHANGED reservation

Spec == Init /\ [][Next]_vars

\* The event loop resumes every handler, and the cron fires every hour however
\* busy the workers are; nothing makes a request arrive.
Continue(w) ==
    \/ ChangeStatusStep(w) /\ UNCHANGED <<reservation, saleVars>>
    \/ (CancelStep(w) \/ ExpiryStep(w)) /\ UNCHANGED saleVars
    \/ (InsertSale(w) \/ WriteCanceled(w) \/ CompletionStep(w)) /\ UNCHANGED reservation

Cron == (\E w \in Workers : StartExpiry(w)) /\ UNCHANGED saleVars

FairSpec == Spec /\ SF_vars(Cron) /\ \A w \in Workers : WF_vars(Continue(w))

-----------------------------------------------------------------------------
(* Types                                                                   *)

Labels == StockLabels \cup ReservationLabels \cup SaleLabels

Reasons ==
    {"request", "reservation_created", "reservation_canceled",
     "sale_started", "sale_canceled", "sale_completed", "delivered"}

\* A call of changeStatus returns to one of three places.
Calls ==
    [vehicle : Vehicles, to : VehicleStatuses, reason : Reasons,
     next : {"idle", "cancelSale.write", "complete.revenue"}]

InChangeStatus(w) == pc[w] \in {"changeStatus.read", "changeStatus.commit"}

\* Where the handler's own code stands, across a pending changeStatus call
Position(w) == IF InChangeStatus(w) THEN call[w].next ELSE pc[w]

HandlerOK(w) ==
    /\ InChangeStatus(w) => call[w] \in Calls
    /\ pc[w] \in {"changeStatus.commit", "createSale.insert"} => seen[w] \in VehicleRows
    /\ Position(w) \in ReservationLabels =>
           ctx[w] \in ReservationLocals /\ \A r \in ctx[w].todo : Exists(r)
    /\ Position(w) \in ReservationLabels \ {"expire.next"} =>
           ctx[w].reservation \in Reservations /\ Exists(ctx[w].reservation)
    /\ Position(w) \in SaleLabels => ctx[w] \in SaleLocals
    /\ Position(w) \in SaleLabels \ {"createSale.insert"} => sale[ctx[w].sale] # NULL

\* No row is the value that stands for the absence of one.
ASSUME NullAssumption == NULL \notin ReservationRows \cup SaleRows \cup CommissionRows

TypeOK ==
    /\ StockTypeOK
    /\ pc \in [Workers -> Labels]
    /\ call \in [Workers -> Calls \cup {NULL}]
    /\ ctx \in [Workers -> ReservationLocals \cup SaleLocals \cup {NULL}]
    /\ reservation \in [Reservations -> ReservationRows \cup {NULL}]
    /\ sale \in [Sales -> SaleRows \cup {NULL}]
    /\ soldPrice \in [Vehicles -> Prices]
    /\ posted \in [Sales -> [Prices -> Nat]]
    /\ commission \in [Sales -> CommissionRows \cup {NULL}]
    /\ \A w \in Workers : HandlerOK(w)

-----------------------------------------------------------------------------
(* Properties that hold however the handlers interleave and fail           *)

\* A commission rests on a posting: a revenue entry with the price it was
\* computed from has been posted for its sale before (complete posts, then
\* generates), even if completions with different prices overlap or die.
CommissionBacked ==
    \A s \in Sales :
        commission[s] # NULL => posted[s][commission[s].price] > 0

\* generateForSale never touches a commission that exists: completing a sale
\* again, or twice at the same time, neither reopens an approved, paid or
\* canceled commission nor recomputes it.
CommissionKept ==
    [][\A s \in Sales :
          commission[s] # NULL =>
              /\ commission'[s].price = commission[s].price
              /\ commission'[s].status = "PENDING" => commission[s].status = "PENDING"]_vars

\* Revenue is only posted for a vehicle that has a soldPrice, and no later
\* handler empties it: the price checked by complete is the one it writes.
RevenueIsPriced ==
    \A s \in Sales, p \in Prices :
        posted[s][p] > 0 => p # 0 /\ soldPrice[sale[s].vehicle] # 0

\* Only a reservation whose due date has passed is ever expired, however many
\* runs of the job, cancelations and failures overlap.
ExpiredWasDue ==
    \A r \in Reservations :
        Exists(r) => (reservation[r].status = "EXPIRED" => reservation[r].overdue)

\* An overdue reservation does not stay active: some later run of the hourly
\* job closes it, although runs die half-way and rows are canceled meanwhile.
OverdueCloses ==
    \A r \in Reservations :
        (Exists(r) /\ reservation[r].overdue) ~>
            (Exists(r) /\ reservation[r].status # "ACTIVE")

-----------------------------------------------------------------------------
(* Properties that hold as long as one handler runs at a time              *)

Quiet == \A w \in Workers : pc[w] = "idle"

\* A completed sale is booked to the end: posted, with a commission, and its
\* vehicle dated.  complete asks isTransitionAllowed first, so that
\* changeStatus cannot throw between the sale and its books.
CompletedIsBooked ==
    Quiet => \A s \in Sales :
        sale[s] # NULL =>
            (sale[s].status = "COMPLETED" =>
                /\ \E p \in Prices : posted[s][p] > 0
                /\ commission[s] # NULL
                /\ vehicle[sale[s].vehicle].soldAt)

\* No vehicle stays RESERVED once its last reservation is canceled or expired
\* ("Cancelamento devolve a AVAILABLE", BUSINESS_RULES.md), provided no user
\* sets RESERVED by hand.
ReservedIsBacked ==
    Quiet => \A v \in Vehicles :
        vehicle[v].status = "RESERVED" =>
            \E r \in Reservations :
                Exists(r) /\ reservation[r].vehicle = v /\ reservation[r].status = "ACTIVE"

\* "Return vehicle to available (best-effort: only if still reserved)": neither
\* cancel nor the expiry job takes a vehicle out of a status other than RESERVED.
CancelFrees(w) ==
    /\ pc[w] = "changeStatus.commit" /\ pc'[w] = "idle"
    /\ call[w].reason = "reservation_canceled"
    /\ vehicle' # vehicle

ExpiryFrees(w) == pc[w] = "expire.free" /\ pc'[w] = "expire.log"

FreesOnlyReserved ==
    [][\A w \in Workers :
          /\ CancelFrees(w) => vehicle[call[w].vehicle].status = "RESERVED"
          /\ ExpiryFrees(w) => vehicle[VehicleOf(w)].status = "RESERVED"]_vars

-----------------------------------------------------------------------------
(* What documents and comments say and the code does not do                *)

\* "Cria reserva (...), move o veiculo para RESERVED" (BUSINESS_RULES.md): when
\* nothing else moves vehicles, an active reservation stands on a reserved one.
ActiveIsReserved ==
    Quiet => \A r \in Reservations :
        Exists(r) =>
            (reservation[r].status = "ACTIVE" =>
                vehicle[reservation[r].vehicle].status = "RESERVED")
=============================================================================
