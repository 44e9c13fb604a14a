------------------------- MODULE Commercial_proofs -------------------------
(***************************************************************************)
(* Commercial for any number of vehicles, workers, reservations, sales and *)
(* prices, and any bound on failures: types first, then what the movements *)
(* log, what the sale date of a vehicle is worth, what a commission and a  *)
(* revenue rest on, and which reservations are expired.                    *)
(*                                                                         *)
(* A step is one worker's (or the clock's): it writes tables, it moves its *)
(* own program counter, and it leaves the handlers of the others alone.    *)
(* HandlerOK of another worker can then only break by a row that           *)
(* disappears, so every step of the first half proves that tables and own  *)
(* handler stay typed and that no row is deleted, and StepTyped concludes. *)
(*                                                                         *)
(* None of the safety properties is inductive: each speaks of tables, and  *)
(* what keeps it is what a handler already knows when it writes them.  The *)
(* strengthenings say that for the rows and locals a handler carries       *)
(* across its awaits.  The last part is about one handler at a time, where *)
(* more is true.                                                           *)
(***************************************************************************)
EXTENDS Commercial, TLAPS

TablesTyped ==
    /\ vehicle  \in [Vehicles -> VehicleRows]
    /\ movement \in [Vehicles -> [from : VehicleStatuses, to : VehicleStatuses] \cup {NULL}]
    /\ failures \in 0 .. MaxFailures
    /\ reservation \in [Reservations -> ReservationRows \cup {NULL}]
    /\ sale \in [Sales -> SaleRows \cup {NULL}]
    /\ soldPrice \in [Vehicles -> Prices]
    /\ posted \in [Sales -> [Prices -> Nat]]
    /\ commission \in [Sales -> CommissionRows \cup {NULL}]

HandlersTyped ==
    /\ pc   \in [Workers -> Labels]
    /\ call \in [Workers -> Calls \cup {NULL}]
    /\ seen \in [Workers -> VehicleRows \cup {NULL}]
    /\ ctx  \in [Workers -> ReservationLocals \cup SaleLocals \cup {NULL}]

RowsKept ==
    /\ \A r \in Reservations : reservation[r] # NULL => reservation'[r] # NULL
    /\ \A s \in Sales : sale[s] # NULL => sale'[s] # NULL

OthersWait(w) ==
    \A x \in Workers \ {w} :
        pc'[x] = pc[x] /\ call'[x] = call[x] /\ seen'[x] = seen[x] /\ ctx'[x] = ctx[x]

\* A handler that does not move stays as it should be: no row it refers to disappears.
LEMMA HandlerKept ==
    ASSUME TypeOK, RowsKept, NEW x \in Workers,
           pc'[x] = pc[x], call'[x] = call[x], seen'[x] = seen[x], ctx'[x] = ctx[x]
    PROVE  HandlerOK(x)'
  BY DEF TypeOK, RowsKept, HandlerOK, Position, InChangeStatus, Exists,
         ReservationLocals, SaleLocals

\* A step of one worker keeps the type invariant if it keeps its own part of it.
LEMMA StepTyped ==
    ASSUME TypeOK, RowsKept, TablesTyped', HandlersTyped',
           NEW w \in Workers, OthersWait(w), HandlerOK(w)'
    PROVE  TypeOK'
  <1>1. ASSUME NEW x \in Workers PROVE HandlerOK(x)'
    <2>1. CASE x = w
      BY <2>1
    <2>2. CASE x # w
      BY <2>2, HandlerKept DEF OthersWait
    <2> QED
      BY <2>1, <2>2
  <1> QED
    BY <1>1 DEF TypeOK, StockTypeOK, TablesTyped, HandlersTyped

\* A step that only writes tables keeps it as well.
LEMMA TableStepTyped ==
    ASSUME TypeOK, RowsKept, TablesTyped', UNCHANGED handlerVars
    PROVE  TypeOK'
  <1>1. ASSUME NEW x \in Workers PROVE HandlerOK(x)'
    BY HandlerKept DEF handlerVars
  <1> QED
    BY <1>1 DEF TypeOK, StockTypeOK, TablesTyped, handlerVars

\* Waiting at a label of one's own leaves every handler typed.
LEMMA AwaitTyped ==
    ASSUME HandlersTyped, NEW w \in Workers, NEW next \in Labels, Await(w, next)
    PROVE  /\ pc' \in [Workers -> Labels] /\ pc'[w] = next
           /\ \A x \in Workers \ {w} : pc'[x] = pc[x]
           /\ UNCHANGED <<call, seen>>
  BY DEF HandlersTyped, Await, Resume

\* A handler that ends is idle and keeps nothing.
LEMMA FinishTyped ==
    ASSUME HandlersTyped, NEW w \in Workers, Finish(w)
    PROVE  HandlersTyped' /\ OthersWait(w) /\ HandlerOK(w)'
  BY DEF HandlersTyped, OthersWait, Finish, HandlerOK, Position, InChangeStatus,
         Labels, StockLabels, ReservationLabels, SaleLabels

\* A call of changeStatus stands at its first step and knows where to go on.
LEMMA InvokeTyped ==
    ASSUME HandlersTyped, NEW w \in Workers,
           NEW v \in Vehicles, NEW to \in VehicleStatuses, NEW reason \in Reasons,
           NEW next \in {"idle", "cancelSale.write", "complete.revenue"},
           Invoke(w, v, to, reason, next)
    PROVE  /\ pc' \in [Workers -> Labels] /\ pc'[w] = "changeStatus.read"
           /\ call' \in [Workers -> Calls \cup {NULL}]
           /\ call'[w] \in Calls /\ call'[w].next = next
           /\ seen' \in [Workers -> VehicleRows \cup {NULL}]
           /\ \A x \in Workers \ {w} :
                 pc'[x] = pc[x] /\ call'[x] = call[x] /\ seen'[x] = seen[x]
  BY DEF HandlersTyped, Invoke, Calls, Labels, StockLabels

\* A call that ends its handler leaves nothing behind but itself.
LEMMA LastCallTyped ==
    ASSUME HandlersTyped, NEW w \in Workers,
           NEW v \in Vehicles, NEW to \in VehicleStatuses, NEW reason \in Reasons,
           Invoke(w, v, to, reason, "idle"),
           UNCHANGED ctx \/ ctx' = [ctx EXCEPT ![w] = NULL]
    PROVE  HandlersTyped' /\ OthersWait(w) /\ HandlerOK(w)'
  <1>1. /\ pc' \in [Workers -> Labels] /\ pc'[w] = "changeStatus.read"
        /\ call' \in [Workers -> Calls \cup {NULL}]
        /\ call'[w] \in Calls /\ call'[w].next = "idle"
        /\ seen' \in [Workers -> VehicleRows \cup {NULL}]
        /\ \A x \in Workers \ {w} :
              pc'[x] = pc[x] /\ call'[x] = call[x] /\ seen'[x] = seen[x]
    BY InvokeTyped
  <1>2. /\ ctx' \in [Workers -> ReservationLocals \cup SaleLocals \cup {NULL}]
        /\ \A x \in Workers \ {w} : ctx'[x] = ctx[x]
    BY DEF HandlersTyped
  <1>3. HandlerOK(w)'
    BY <1>1 DEF HandlerOK, Position, InChangeStatus, ReservationLabels, SaleLabels
  <1> QED
    BY <1>1, <1>2, <1>3 DEF HandlersTyped, OthersWait

\* With or without the call, the handler goes on at next.
LEMMA MoveIfAllowedTyped ==
    ASSUME HandlersTyped, NEW w \in Workers,
           NEW v \in Vehicles, NEW to \in VehicleStatuses, NEW reason \in Reasons,
           NEW next \in {"cancelSale.write", "complete.revenue"},
           MoveIfAllowed(w, v, to, reason, next)
    PROVE  /\ pc' \in [Workers -> Labels]
           /\ call' \in [Workers -> Calls \cup {NULL}]
           /\ seen' \in [Workers -> VehicleRows \cup {NULL}]
           /\ \A x \in Workers \ {w} :
                 pc'[x] = pc[x] /\ call'[x] = call[x] /\ seen'[x] = seen[x]
           /\ Position(w)' = next
           /\ pc'[w] \in {"changeStatus.read", next}
           /\ InChangeStatus(w)' => call'[w] \in Calls
  <1>1. next \in Labels
    BY DEF Labels, SaleLabels
  <1>2. CASE Invoke(w, v, to, reason, next)
    BY <1>2, InvokeTyped DEF Position, InChangeStatus
  <1>3. CASE Await(w, next)
    BY <1>1, <1>3, AwaitTyped DEF HandlersTyped, Position, InChangeStatus
  <1> QED
    BY <1>2, <1>3 DEF MoveIfAllowed

-----------------------------------------------------------------------------
LEMMA StockTyped ==
    ASSUME TypeOK, StockNext, UNCHANGED <<reservation, saleVars>>
    PROVE  TypeOK'
  <1> USE StockAssumption DEF Exists, RowsKept, OthersWait, TablesTyped, HandlersTyped, saleVars
  <1>1. ASSUME NEW w \in Workers, NEW v \in Vehicles, NEW to \in OperatorStatuses,
               RequestStatus(w, v, to)
        PROVE  TypeOK'
    <2>1. TablesTyped' /\ RowsKept /\ HandlersTyped
      BY <1>1 DEF RequestStatus, TypeOK, StockTypeOK
    <2>2. /\ Invoke(w, v, to, "request", "idle") /\ UNCHANGED ctx
          /\ to \in VehicleStatuses /\ "request" \in Reasons
      BY <1>1 DEF RequestStatus, Reasons
    <2> QED
      BY <2>1, <2>2, LastCallTyped, StepTyped
  <1>2. ASSUME NEW w \in Workers, NEW v \in Vehicles, Archive(w, v)
        PROVE  TypeOK'
    <2>1. TablesTyped' /\ RowsKept
      BY <1>2 DEF Archive, TypeOK, StockTypeOK, VehicleRows, VehicleStatuses
    <2> QED
      BY <1>2, <2>1, TableStepTyped DEF Archive
  <1>3. ASSUME NEW w \in Workers, ReadVehicle(w)
        PROVE  TypeOK'
    <2>1. TablesTyped' /\ RowsKept /\ HandlersTyped
      BY <1>3 DEF ReadVehicle, TypeOK, StockTypeOK
    <2>2. call[w] \in Calls
      BY <1>3 DEF ReadVehicle, TypeOK, HandlerOK, InChangeStatus
    <2>3. HandlersTyped' /\ OthersWait(w)
      BY <1>3, <2>1, <2>2 DEF ReadVehicle, Resume, Calls, Labels, StockLabels
    <2>4. HandlerOK(w)'
      BY <1>3, <2>1, <2>2 DEF ReadVehicle, Resume, TypeOK, HandlerOK, Position, InChangeStatus, Calls
    <2> QED
      BY <2>1, <2>3, <2>4, StepTyped
  <1>4. ASSUME NEW w \in Workers, RejectTransition(w) \/ Fail(w)
        PROVE  TypeOK'
    <2>1. TablesTyped' /\ RowsKept /\ HandlersTyped
      BY <1>4 DEF RejectTransition, Fail, TypeOK, StockTypeOK
    <2> QED
      BY <1>4, <2>1, FinishTyped, StepTyped DEF RejectTransition, Fail
  <1>5. ASSUME NEW w \in Workers, CommitStatus(w)
        PROVE  TypeOK'
    <2>1. call[w] \in Calls /\ seen[w] \in VehicleRows
      BY <1>5 DEF CommitStatus, Committed, TypeOK, HandlerOK, InChangeStatus
    <2>2. TablesTyped' /\ RowsKept /\ HandlersTyped
      BY <1>5, <2>1 DEF CommitStatus, Committed, TypeOK, StockTypeOK, VehicleRows, Calls
    <2>3. HandlersTyped' /\ OthersWait(w)
      BY <1>5, <2>1, <2>2 DEF CommitStatus, Committed, Resume, Calls, Labels, StockLabels, SaleLabels
    <2>4. HandlerOK(w)'
      BY <1>5, <2>1, <2>2 DEF CommitStatus, Committed, Resume, TypeOK, HandlerOK, Position, InChangeStatus, Calls
    <2> QED
      BY <2>2, <2>3, <2>4, StepTyped
  <1> QED
    BY <1>1, <1>2, <1>3, <1>4, <1>5 DEF StockNext, ChangeStatusStep

-----------------------------------------------------------------------------
(* The handlers of reservations and the expiry job.                        *)

LEMMA ReservationsTyped ==
    ASSUME TypeOK, ReservationsNext, UNCHANGED saleVars
    PROVE  TypeOK'
  <1> USE NullAssumption
      DEF Exists, RowsKept, OthersWait, TablesTyped, HandlersTyped, saleVars
  <1>1. ASSUME NEW w \in Workers, NEW r \in Reservations, NEW v \in Vehicles,
               CreateReservation(w, r, v)
        PROVE  TypeOK'
    <2>1. TablesTyped' /\ RowsKept /\ HandlersTyped
      BY <1>1 DEF CreateReservation, TypeOK, StockTypeOK, ReservationRows
    <2>2. /\ Invoke(w, v, "RESERVED", "reservation_created", "idle") /\ UNCHANGED ctx
          /\ "RESERVED" \in VehicleStatuses /\ "reservation_created" \in Reasons
      BY <1>1 DEF CreateReservation, Reasons, VehicleStatuses
    <2> QED
      BY <2>1, <2>2, LastCallTyped, StepTyped
  <1>2. ASSUME NEW w \in Workers, NEW r \in Reservations, CancelReservation(w, r)
        PROVE  TypeOK'
    <2>1. TablesTyped' /\ RowsKept /\ HandlersTyped
      BY <1>2 DEF CancelReservation, SetStatus, TypeOK, StockTypeOK, ReservationRows
    <2>2. HandlersTyped' /\ OthersWait(w)
      BY <1>2, <2>1 DEF CancelReservation, Resume, SetLocals, ReservationLocals,
         Labels, ReservationLabels
    <2>3. HandlerOK(w)'
      BY <1>2, <2>1 DEF CancelReservation, Resume, SetLocals, SetStatus, ReservationLocals,
         ReservationRows, HandlerOK, Position, InChangeStatus, SaleLabels
    <2> QED
      BY <2>1, <2>2, <2>3, StepTyped
  <1>3. ASSUME NEW w \in Workers, CancelReadsReserved(w)
        PROVE  TypeOK'
    <2>1. TablesTyped' /\ RowsKept /\ HandlersTyped
      BY <1>3 DEF CancelReadsReserved, TypeOK, StockTypeOK
    <2>2. VehicleOf(w) \in Vehicles
      BY <1>3 DEF CancelReadsReserved, VehicleOf, TypeOK, HandlerOK, Position, InChangeStatus,
         ReservationLabels, ReservationRows
    <2>3. /\ Invoke(w, VehicleOf(w), "AVAILABLE", "reservation_canceled", "idle")
          /\ ctx' = [ctx EXCEPT ![w] = NULL]
          /\ "AVAILABLE" \in VehicleStatuses /\ "reservation_canceled" \in Reasons
      BY <1>3 DEF CancelReadsReserved, SetLocals, Reasons, VehicleStatuses
    <2>4. HandlersTyped' /\ OthersWait(w) /\ HandlerOK(w)'
      BY <2>1, <2>2, <2>3, LastCallTyped
    <2> QED
      BY <2>1, <2>3, <2>4, StepTyped
  <1>4. ASSUME NEW w \in Workers, CancelReadsOther(w) \/ ExpireDone(w)
        PROVE  TypeOK'
    <2>1. TablesTyped' /\ RowsKept /\ HandlersTyped
      BY <1>4 DEF CancelReadsOther, ExpireDone, TypeOK, StockTypeOK
    <2> QED
      BY <1>4, <2>1, FinishTyped, StepTyped DEF CancelReadsOther, ExpireDone
  <1>5. ASSUME NEW w \in Workers, StartExpiry(w)
        PROVE  TypeOK'
    <2>1. TablesTyped' /\ RowsKept /\ HandlersTyped
      BY <1>5 DEF StartExpiry, TypeOK, StockTypeOK
    <2>2. HandlersTyped' /\ OthersWait(w)
      BY <1>5, <2>1 DEF StartExpiry, TakeBatch, ActiveReservations, Resume, SetLocals,
         ReservationLocals, Labels, ReservationLabels
    <2>3. HandlerOK(w)'
      BY <1>5, <2>1 DEF StartExpiry, TakeBatch, ActiveReservations, Resume, SetLocals,
         ReservationLocals, HandlerOK, Position, InChangeStatus, SaleLabels
    <2> QED
      BY <2>1, <2>2, <2>3, StepTyped
  <1>6. ASSUME NEW w \in Workers, ExpireNext(w)
        PROVE  TypeOK'
    <2>1. ctx[w] \in ReservationLocals /\ \A r \in ctx[w].todo : Exists(r)
      BY <1>6 DEF ExpireNext, TypeOK, HandlerOK, Position, InChangeStatus, ReservationLabels
    <2>2. PICK r \in ctx[w].todo :
             /\ SetStatus(r, "EXPIRED")
             /\ SetLocals(w, [reservation |-> r, todo |-> ctx[w].todo \ {r}])
      BY <1>6 DEF ExpireNext
    <2>3. TablesTyped' /\ RowsKept /\ HandlersTyped
      BY <1>6, <2>1, <2>2 DEF ExpireNext, SetStatus, TypeOK, StockTypeOK, ReservationRows,
         ReservationLocals
    <2>4. HandlersTyped' /\ OthersWait(w)
      BY <1>6, <2>1, <2>2, <2>3 DEF ExpireNext, Resume, SetLocals, ReservationLocals,
         Labels, ReservationLabels
    <2>5. HandlerOK(w)'
      BY <1>6, <2>1, <2>2, <2>3 DEF ExpireNext, Resume, SetLocals, ReservationLocals,
         HandlerOK, Position, InChangeStatus, SaleLabels
    <2> QED
      BY <2>3, <2>4, <2>5, StepTyped
  <1>7. ASSUME NEW w \in Workers, ExpireReadVehicle(w) \/ ExpireFree(w) \/ ExpireLog(w)
        PROVE  TypeOK'
    <2>1. VehicleOf(w) \in Vehicles
      BY <1>7 DEF ExpireReadVehicle, ExpireFree, ExpireLog, VehicleOf, TypeOK, HandlerOK,
         Position, InChangeStatus, ReservationLabels, ReservationRows
    <2>2. TablesTyped' /\ RowsKept /\ HandlersTyped
      <3>1. vehicle' \in [Vehicles -> VehicleRows]
        BY <1>7, <2>1 DEF ExpireReadVehicle, ExpireFree, ExpireLog, TypeOK, StockTypeOK,
           VehicleRows, VehicleStatuses
      <3>2. movement' \in [Vehicles -> [from : VehicleStatuses, to : VehicleStatuses] \cup {NULL}]
        BY <1>7, <2>1 DEF ExpireReadVehicle, ExpireFree, ExpireLog, TypeOK, StockTypeOK,
           VehicleStatuses
      <3> QED
        BY <1>7, <3>1, <3>2 DEF ExpireReadVehicle, ExpireFree, ExpireLog, TypeOK, StockTypeOK
    <2>3. HandlersTyped' /\ OthersWait(w)
      BY <1>7, <2>2 DEF ExpireReadVehicle, ExpireFree, ExpireLog, Resume, Labels, ReservationLabels
    <2>4. CASE ExpireReadVehicle(w)
      <3>1. HandlerOK(w)'
        BY <2>2, <2>4 DEF ExpireReadVehicle, Resume, TypeOK, HandlerOK,
           Position, InChangeStatus, ReservationLabels, SaleLabels
      <3> QED
        BY <2>2, <2>3, <3>1, StepTyped
    <2>5. CASE ExpireFree(w)
      <3>1. HandlerOK(w)'
        BY <2>2, <2>5 DEF ExpireFree, Resume, TypeOK, HandlerOK,
           Position, InChangeStatus, ReservationLabels, SaleLabels
      <3> QED
        BY <2>2, <2>3, <3>1, StepTyped
    <2>6. CASE ExpireLog(w)
      <3>1. HandlerOK(w)'
        BY <2>2, <2>6 DEF ExpireLog, Resume, TypeOK, HandlerOK,
           Position, InChangeStatus, ReservationLabels, SaleLabels
      <3> QED
        BY <2>2, <2>3, <3>1, StepTyped
    <2> QED
      BY <1>7, <2>4, <2>5, <2>6
  <1>8. ASSUME NEW r \in Reservations, Elapse(r)
        PROVE  TypeOK'
    <2>1. TablesTyped' /\ RowsKept
      BY <1>8 DEF Elapse, stockVars, TypeOK, StockTypeOK, ReservationRows
    <2> QED
      BY <1>8, <2>1, TableStepTyped DEF Elapse, stockVars
  <1> QED
    BY <1>1, <1>2, <1>3, <1>4, <1>5, <1>6, <1>7, <1>8
    DEF ReservationsNext, CancelStep, ExpiryStep

-----------------------------------------------------------------------------
(* The handlers of sales.                                                  *)

\* A request that only writes sale or commission rows, none of them away.
LEMMA SaleTablesTyped ==
    ASSUME TypeOK, NEW w \in Workers, NEW s \in Sales,
           \/ \E p \in Prices : UpdateSale(w, s, p)
           \/ \E st \in OpenStatuses : AdvanceSale(w, s, st)
           \/ \E st \in {"APPROVED", "PAID", "CANCELED"} : SetCommission(w, s, st),
           UNCHANGED reservation
    PROVE  TypeOK'
  <1> USE NullAssumption DEF RowsKept, TablesTyped, stockVars
  <1>1. CASE \E p \in Prices : UpdateSale(w, s, p)
    <2>1. sale' \in [Sales -> SaleRows \cup {NULL}] /\ RowsKept
      BY <1>1 DEF UpdateSale, TypeOK, SaleRows
    <2>2. TablesTyped'
      BY <1>1, <2>1 DEF UpdateSale, TypeOK, StockTypeOK
    <2> QED
      BY <1>1, <2>1, <2>2, TableStepTyped DEF UpdateSale
  <1>2. CASE \E st \in OpenStatuses : AdvanceSale(w, s, st)
    <2>1. sale' \in [Sales -> SaleRows \cup {NULL}] /\ RowsKept
      BY <1>2 DEF AdvanceSale, TypeOK, SaleRows, SaleStatuses
    <2>2. TablesTyped'
      BY <1>2, <2>1 DEF AdvanceSale, TypeOK, StockTypeOK
    <2> QED
      BY <1>2, <2>1, <2>2, TableStepTyped DEF AdvanceSale
  <1>3. CASE \E st \in {"APPROVED", "PAID", "CANCELED"} : SetCommission(w, s, st)
    <2>1. commission' \in [Sales -> CommissionRows \cup {NULL}]
      BY <1>3 DEF SetCommission, TypeOK, CommissionRows
    <2>2. TablesTyped' /\ RowsKept
      BY <1>3, <2>1 DEF SetCommission, TypeOK, StockTypeOK
    <2> QED
      BY <1>3, <2>2, TableStepTyped DEF SetCommission
  <1> QED
    BY <1>1, <1>2, <1>3

\* create and cancel, from the request to the last write
LEMMA SaleRequestsTyped ==
    ASSUME TypeOK, NEW w \in Workers,
           \/ \E s \in Sales, v \in Vehicles, p \in Prices : RequestSale(w, s, v, p)
           \/ InsertSale(w)
           \/ \E s \in Sales : CancelSale(w, s) \/ MarkDelivered(w, s)
           \/ WriteCanceled(w)
           \/ \E s \in Sales, p \in Prices : RequestCompletion(w, s, p),
           UNCHANGED reservation
    PROVE  TypeOK'
  <1> USE NullAssumption, SalesAssumption
      DEF RowsKept, OthersWait, TablesTyped, HandlersTyped, saleVars
  <1>1. ASSUME NEW s \in Sales, NEW v \in Vehicles, NEW p \in Prices, RequestSale(w, s, v, p)
        PROVE  TypeOK'
    <2>1. TablesTyped' /\ RowsKept /\ HandlersTyped
      BY <1>1 DEF RequestSale, TypeOK, StockTypeOK
    <2>2. HandlersTyped' /\ OthersWait(w)
      BY <1>1, <2>1 DEF RequestSale, Resume, SaleLocals, Labels, SaleLabels
    <2>3. HandlerOK(w)'
      BY <1>1, <2>1 DEF RequestSale, Resume, SaleLocals, HandlerOK, Position, InChangeStatus,
         ReservationLabels
    <2> QED
      BY <2>1, <2>2, <2>3, StepTyped
  <1>2. ASSUME InsertSale(w)
        PROVE  TypeOK'
    <2>1. ctx[w] \in SaleLocals
      BY <1>2 DEF InsertSale, TypeOK, HandlerOK, Position, InChangeStatus, SaleLabels
    <2>2. TablesTyped' /\ RowsKept /\ HandlersTyped
      BY <1>2, <2>1 DEF InsertSale, TypeOK, StockTypeOK, SaleLocals, SaleRows, SaleStatuses
    <2>3. CASE Finish(w)
      BY <2>2, <2>3, FinishTyped, StepTyped
    <2>4. CASE /\ Invoke(w, ctx[w].vehicle, "NEGOTIATING", "sale_started", "idle")
               /\ ctx' = [ctx EXCEPT ![w] = NULL]
      <3>1. ctx[w].vehicle \in Vehicles
        BY <2>1 DEF SaleLocals
      <3>2. "NEGOTIATING" \in VehicleStatuses /\ "sale_started" \in Reasons
        BY DEF Reasons, VehicleStatuses
      <3>3. HandlersTyped' /\ OthersWait(w) /\ HandlerOK(w)'
        BY <2>2, <2>4, <3>1, <3>2, LastCallTyped
      <3> QED
        BY <2>2, <3>3, StepTyped
    <2> QED
      BY <1>2, <2>3, <2>4 DEF InsertSale
  <1>3. ASSUME NEW s \in Sales, CancelSale(w, s)
        PROVE  TypeOK'
    <2>1. TablesTyped' /\ RowsKept /\ HandlersTyped /\ sale[s] \in SaleRows
      BY <1>3 DEF CancelSale, TypeOK, StockTypeOK
    <2>2. sale[s].vehicle \in Vehicles
      BY <2>1 DEF SaleRows
    <2>3. ctx'[w] \in SaleLocals /\ ctx'[w].sale = s
      BY <1>3, <2>1, <2>2 DEF CancelSale, SaleLocals
    <2>4. /\ MoveIfAllowed(w, sale[s].vehicle, "AVAILABLE", "sale_canceled", "cancelSale.write")
          /\ \A x \in Workers \ {w} : ctx'[x] = ctx[x]
      BY <1>3, <2>1 DEF CancelSale
    <2>5. "AVAILABLE" \in VehicleStatuses /\ "sale_canceled" \in Reasons
      BY DEF VehicleStatuses, Reasons
    <2>6. /\ pc' \in [Workers -> Labels]
          /\ call' \in [Workers -> Calls \cup {NULL}]
          /\ seen' \in [Workers -> VehicleRows \cup {NULL}]
          /\ \A x \in Workers \ {w} :
                pc'[x] = pc[x] /\ call'[x] = call[x] /\ seen'[x] = seen[x]
          /\ Position(w)' = "cancelSale.write"
          /\ pc'[w] \in {"changeStatus.read", "cancelSale.write"}
          /\ InChangeStatus(w)' => call'[w] \in Calls
      BY <2>1, <2>2, <2>4, <2>5, MoveIfAllowedTyped
    <2>7. HandlersTyped' /\ OthersWait(w)
      BY <1>3, <2>1, <2>3, <2>4, <2>6 DEF CancelSale
    <2>8. HandlerOK(w)'
      BY <1>3, <2>1, <2>3, <2>6 DEF CancelSale, HandlerOK, ReservationLabels, SaleLabels
    <2> QED
      BY <2>1, <2>7, <2>8, StepTyped
  <1>4. ASSUME NEW s \in Sales, MarkDelivered(w, s)
        PROVE  TypeOK'
    <2>1. TablesTyped' /\ RowsKept /\ HandlersTyped /\ sale[s] \in SaleRows
      BY <1>4 DEF MarkDelivered, TypeOK, StockTypeOK
    <2>2. sale[s].vehicle \in Vehicles
      BY <2>1 DEF SaleRows
    <2>3. /\ Invoke(w, sale[s].vehicle, "DELIVERED", "delivered", "idle") /\ UNCHANGED ctx
          /\ "DELIVERED" \in VehicleStatuses /\ "delivered" \in Reasons
      BY <1>4 DEF MarkDelivered, Reasons, VehicleStatuses
    <2>4. HandlersTyped' /\ OthersWait(w) /\ HandlerOK(w)'
      BY <2>1, <2>2, <2>3, LastCallTyped
    <2> QED
      BY <2>1, <2>3, <2>4, StepTyped
  <1>5. ASSUME WriteCanceled(w)
        PROVE  TypeOK'
    <2>1. ctx[w] \in SaleLocals /\ sale[ctx[w].sale] # NULL
      BY <1>5 DEF WriteCanceled, TypeOK, HandlerOK, Position, InChangeStatus, SaleLabels
    <2> DEFINE s   == ctx[w].sale
               row == [sale[s] EXCEPT !.status = "CANCELED"]
    <2>2. s \in Sales /\ sale[s] \in SaleRows
      BY <2>1 DEF TypeOK, SaleLocals
    <2>3. row \in SaleRows
      BY <2>2 DEF SaleRows, SaleStatuses
    <2>4. sale' = [sale EXCEPT ![s] = row]
      BY <1>5 DEF WriteCanceled
    <2> HIDE DEF s, row
    <2>5. sale' \in [Sales -> SaleRows \cup {NULL}] /\ row # NULL
      BY <2>2, <2>3, <2>4 DEF TypeOK
    <2>6. RowsKept
      BY <1>5, <2>2, <2>4, <2>5 DEF WriteCanceled, TypeOK
    <2>7. TablesTyped' /\ HandlersTyped
      BY <1>5, <2>5 DEF WriteCanceled, TypeOK, StockTypeOK
    <2> QED
      BY <1>5, <2>6, <2>7, FinishTyped, StepTyped DEF WriteCanceled
  <1>6. ASSUME NEW s \in Sales, NEW p \in Prices, RequestCompletion(w, s, p)
        PROVE  TypeOK'
    <2>1. TablesTyped' /\ RowsKept /\ HandlersTyped /\ sale[s] \in SaleRows
      BY <1>6 DEF RequestCompletion, TypeOK, StockTypeOK
    <2>2. HandlersTyped' /\ OthersWait(w)
      BY <1>6, <2>1 DEF RequestCompletion, Await, Resume, SaleRows, SaleLocals, Labels, SaleLabels
    <2>3. HandlerOK(w)'
      BY <1>6, <2>1 DEF RequestCompletion, Await, Resume, SaleRows, SaleLocals,
         HandlerOK, Position, InChangeStatus, ReservationLabels
    <2> QED
      BY <2>1, <2>2, <2>3, StepTyped
  <1> QED
    BY <1>1, <1>2, <1>3, <1>4, <1>5, <1>6

\* complete, from the sale row to the commission
LEMMA CompletionTyped ==
    ASSUME TypeOK, NEW w \in Workers, CompletionStep(w), UNCHANGED reservation
    PROVE  TypeOK'
  <1> USE NullAssumption DEF RowsKept, OthersWait, TablesTyped, HandlersTyped, saleVars
  <1>1. /\ HandlersTyped
        /\ pc[w] \in SaleLabels \ {"createSale.insert"}
        /\ ctx[w] \in SaleLocals /\ sale[ctx[w].sale] # NULL
    <2>1. pc[w] \in SaleLabels \ {"createSale.insert"}
      BY DEF CompletionStep, CompleteSale, PriceVehicle, SellVehicle, PostRevenue,
         FindCommission, CreateCommission, SaleLabels
    <2>2. Position(w) = pc[w]
      BY <2>1 DEF Position, InChangeStatus, SaleLabels
    <2> QED
      BY <2>1, <2>2 DEF TypeOK, StockTypeOK, HandlerOK
  <1>2. CASE CompleteSale(w)
    <2>1. sale' \in [Sales -> SaleRows \cup {NULL}] /\ RowsKept
      <3> DEFINE s   == ctx[w].sale
                 row == [sale[s] EXCEPT !.status = "COMPLETED", !.price = ctx[w].price]
      <3>1. s \in Sales /\ sale[s] \in SaleRows /\ ctx[w].price \in Prices
        BY <1>1 DEF TypeOK, SaleLocals
      <3>2. row \in SaleRows
        BY <3>1 DEF SaleRows, SaleStatuses
      <3>3. sale' = [sale EXCEPT ![s] = row]
        <4>1. /\ sale \in [Sales -> SaleRows \cup {NULL}]
              /\ sale' = [sale EXCEPT ![s].status = "COMPLETED", ![s].price = ctx[w].price]
          BY <1>2 DEF CompleteSale, TypeOK
        <4> QED
          BY <3>1, <4>1
      <3> HIDE DEF s, row
      <3>4. row # NULL
        BY <3>2
      <3>5. sale' \in [Sales -> SaleRows \cup {NULL}]
        BY <3>1, <3>2, <3>3 DEF TypeOK
      <3> QED
        BY <3>1, <3>3, <3>4, <3>5 DEF TypeOK
    <2>2. TablesTyped'
      BY <1>2, <2>1 DEF CompleteSale, TypeOK, StockTypeOK
    <2>3. HandlersTyped' /\ OthersWait(w)
      BY <1>1, <1>2 DEF CompleteSale, Await, Resume, Labels, SaleLabels
    <2>4. HandlerOK(w)'
      BY <1>1, <1>2, <2>1 DEF CompleteSale, Await, Resume, HandlerOK, Position, InChangeStatus,
         ReservationLabels, SaleLocals
    <2> QED
      BY <2>1, <2>2, <2>3, <2>4, StepTyped
  <1>3. CASE PriceVehicle(w)
    <2>1. vehicle' \in [Vehicles -> VehicleRows] /\ soldPrice' \in [Vehicles -> Prices]
      BY <1>1, <1>3 DEF PriceVehicle, TypeOK, StockTypeOK, VehicleRows, SaleLocals
    <2>2. TablesTyped' /\ RowsKept
      BY <1>3, <2>1 DEF PriceVehicle, TypeOK, StockTypeOK
    <2>3. HandlersTyped' /\ OthersWait(w)
      BY <1>1, <1>3 DEF PriceVehicle, Await, Resume, Labels, SaleLabels
    <2>4. HandlerOK(w)'
      BY <1>1, <1>3, <2>2 DEF PriceVehicle, Await, Resume, HandlerOK, Position, InChangeStatus,
         ReservationLabels, SaleLocals
    <2> QED
      BY <2>2, <2>3, <2>4, StepTyped
  <1>4. CASE SellVehicle(w)
    <2>1. TablesTyped' /\ RowsKept
      BY <1>4 DEF SellVehicle, TypeOK, StockTypeOK
    <2>2. ctx[w].vehicle \in Vehicles
      BY <1>1 DEF SaleLocals
    <2>3. /\ MoveIfAllowed(w, ctx[w].vehicle, "SOLD", "sale_completed", "complete.revenue")
          /\ "SOLD" \in VehicleStatuses /\ "sale_completed" \in Reasons
      BY <1>4 DEF SellVehicle, VehicleStatuses, Reasons
    <2>4. /\ pc' \in [Workers -> Labels]
          /\ call' \in [Workers -> Calls \cup {NULL}]
          /\ seen' \in [Workers -> VehicleRows \cup {NULL}]
          /\ \A x \in Workers \ {w} :
                pc'[x] = pc[x] /\ call'[x] = call[x] /\ seen'[x] = seen[x]
          /\ Position(w)' = "complete.revenue"
          /\ pc'[w] \in {"changeStatus.read", "complete.revenue"}
          /\ InChangeStatus(w)' => call'[w] \in Calls
      BY <1>1, <2>2, <2>3, MoveIfAllowedTyped
    <2>5. HandlersTyped' /\ OthersWait(w)
      BY <1>1, <1>4, <2>4 DEF SellVehicle
    <2>6. HandlerOK(w)'
      BY <1>1, <1>4, <2>4 DEF SellVehicle, HandlerOK, ReservationLabels
    <2> QED
      BY <2>1, <2>5, <2>6, StepTyped
  <1>5. CASE PostRevenue(w)
    <2>1. posted' \in [Sales -> [Prices -> Nat]]
      BY <1>1, <1>5 DEF PostRevenue, TypeOK, SaleLocals
    <2>2. TablesTyped' /\ RowsKept
      BY <1>5, <2>1 DEF PostRevenue, TypeOK, StockTypeOK
    <2>3. HandlersTyped' /\ OthersWait(w)
      BY <1>1, <1>5 DEF PostRevenue, Await, Resume, Labels, SaleLabels
    <2>4. HandlerOK(w)'
      BY <1>1, <1>5, <2>2 DEF PostRevenue, Await, Resume, HandlerOK, Position, InChangeStatus,
         ReservationLabels, SaleLocals
    <2> QED
      BY <2>2, <2>3, <2>4, StepTyped
  <1>6. CASE FindCommission(w)
    <2>1. TablesTyped' /\ RowsKept
      BY <1>6 DEF FindCommission, TypeOK, StockTypeOK
    <2>2. CASE Finish(w)
      BY <1>1, <2>1, <2>2, FinishTyped, StepTyped
    <2>3. CASE Await(w, "complete.createCommission") /\ UNCHANGED ctx
      <3>1. HandlersTyped' /\ OthersWait(w)
        BY <1>1, <2>3 DEF Await, Resume, Labels, SaleLabels
      <3>2. HandlerOK(w)'
        BY <1>1, <1>6, <2>3 DEF FindCommission, Await, Resume, HandlerOK, Position,
           InChangeStatus, ReservationLabels
      <3> QED
        BY <2>1, <3>1, <3>2, StepTyped
    <2> QED
      BY <1>6, <2>2, <2>3 DEF FindCommission
  <1>7. CASE CreateCommission(w)
    <2>1. commission' \in [Sales -> CommissionRows \cup {NULL}]
      BY <1>1, <1>7 DEF CreateCommission, TypeOK, CommissionRows, SaleLocals
    <2>2. TablesTyped' /\ RowsKept
      BY <1>7, <2>1 DEF CreateCommission, TypeOK, StockTypeOK
    <2> QED
      BY <1>1, <1>7, <2>2, FinishTyped, StepTyped DEF CreateCommission
  <1> QED
    BY <1>2, <1>3, <1>4, <1>5, <1>6, <1>7 DEF CompletionStep

LEMMA SalesTyped ==
    ASSUME TypeOK, SalesNext, UNCHANGED reservation
    PROVE  TypeOK'
  BY SaleTablesTyped, SaleRequestsTyped, CompletionTyped DEF SalesNext

-----------------------------------------------------------------------------
LEMMA InitTyped == Init => TypeOK
  <1> SUFFICES ASSUME Init PROVE TypeOK
    OBVIOUS
  <1>1. StockTypeOK
    BY StockAssumption DEF Init, StockInit, StockTypeOK, VehicleRows, VehicleStatuses
  <1>2. /\ pc \in [Workers -> Labels]
        /\ call \in [Workers -> Calls \cup {NULL}]
        /\ ctx \in [Workers -> ReservationLocals \cup SaleLocals \cup {NULL}]
    BY DEF Init, StockInit, Labels, StockLabels
  <1>3. /\ reservation \in [Reservations -> ReservationRows \cup {NULL}]
        /\ sale \in [Sales -> SaleRows \cup {NULL}]
        /\ soldPrice \in [Vehicles -> Prices]
        /\ posted \in [Sales -> [Prices -> Nat]]
        /\ commission \in [Sales -> CommissionRows \cup {NULL}]
    BY SalesAssumption DEF Init, ReservationsInit, SalesInit
  <1>4. ASSUME NEW w \in Workers PROVE HandlerOK(w)
    BY DEF Init, StockInit, HandlerOK, Position, InChangeStatus, ReservationLabels, SaleLabels
  <1> QED
    BY <1>1, <1>2, <1>3, <1>4 DEF TypeOK

LEMMA NextTyped == TypeOK /\ [Next]_vars => TypeOK'
  <1> SUFFICES ASSUME TypeOK, [Next]_vars PROVE TypeOK'
    OBVIOUS
  <1>1. CASE Next
    BY <1>1, StockTyped, ReservationsTyped, SalesTyped DEF Next
  <1>2. CASE UNCHANGED vars
    BY <1>2 DEF vars, stockVars, handlerVars, saleVars, TypeOK, StockTypeOK,
       HandlerOK, Position, InChangeStatus, Exists
  <1> QED
    BY <1>1, <1>2

\* Every row, every pending call and every handler's locals keep their shape,
\* and a handler at work never finds the row it refers to missing: the code
\* re-reads none of them for existence after its first await.
THEOREM TypeCorrect == Spec => []TypeOK
  BY InitTyped, NextTyped, PTL DEF Spec

-----------------------------------------------------------------------------
(* The stock alone: what the log of a vehicle says of it, and that the log *)
(* is legal.                                                               *)
(*                                                                         *)
(* status and movement of a vehicle only drift apart through a step that   *)
(* writes one of them.  changeStatus writes both from one call, in one     *)
(* transaction, so that even a commit over a row that is stale by then     *)
(* leaves them in agreement; archive writes the status alone, and that is  *)
(* the one exception MovementMatches names.                                *)

StockReasons == {"request"}

\* What a handler of the stock keeps across its two awaits.
CallOK(w) ==
    pc[w] \in {"changeStatus.read", "changeStatus.commit"} =>
        /\ call[w] \in [vehicle : Vehicles, to : OperatorStatuses,
                        reason : StockReasons, next : {"idle"}]
        /\ pc[w] = "changeStatus.commit" =>
              /\ seen[w] \in VehicleRows
              /\ IsTransitionAllowed(seen[w].status, call[w].to)

StockInv ==
    /\ StockTypeOK
    /\ pc \in [Workers -> StockLabels]
    /\ DOMAIN call = Workers
    /\ \A w \in Workers : CallOK(w)
    /\ MovementMatches
    /\ MovementLegal

\* A step that moves one handler, and leaves it as it should be, does no harm
\* to the others.
OnlyMoves(w) ==
    /\ pc' \in [Workers -> StockLabels]
    /\ DOMAIN call' = Workers
    /\ seen' \in [Workers -> VehicleRows \cup {NULL}]
    /\ \A x \in Workers \ {w} : pc'[x] = pc[x] /\ call'[x] = call[x] /\ seen'[x] = seen[x]
    /\ CallOK(w)'

LEMMA CallsKept ==
    ASSUME StockInv, NEW w \in Workers, OnlyMoves(w)
    PROVE  \A x \in Workers : CallOK(x)'
  BY DEF StockInv, OnlyMoves, CallOK

LEMMA Ended ==
    ASSUME StockInv, NEW w \in Workers, Finish(w)
    PROVE  OnlyMoves(w)
  BY DEF StockInv, StockTypeOK, Finish, OnlyMoves, CallOK, StockLabels

LEMMA RequestKept ==
    ASSUME StockInv, NEW w \in Workers, NEW v \in Vehicles, NEW to \in OperatorStatuses,
           RequestStatus(w, v, to)
    PROVE  StockInv'
  <1>1. OnlyMoves(w)
    BY DEF StockInv, StockTypeOK, RequestStatus, Invoke, OnlyMoves, CallOK, StockLabels,
       StockReasons
  <1>2. UNCHANGED <<vehicle, movement, failures>>
    BY DEF RequestStatus
  <1> QED
    BY <1>1, <1>2, CallsKept DEF StockInv, StockTypeOK, OnlyMoves, MovementMatches, MovementLegal

LEMMA ReadKept ==
    ASSUME StockInv, NEW w \in Workers, ReadVehicle(w)
    PROVE  StockInv'
  <1>1. call[w].vehicle \in Vehicles
    BY DEF StockInv, CallOK, ReadVehicle
  <1>2. OnlyMoves(w)
    BY <1>1 DEF StockInv, StockTypeOK, ReadVehicle, Resume, OnlyMoves, CallOK, StockLabels
  <1>3. UNCHANGED <<vehicle, movement, failures>>
    BY DEF ReadVehicle
  <1> QED
    BY <1>2, <1>3, CallsKept DEF StockInv, StockTypeOK, OnlyMoves, MovementMatches, MovementLegal

LEMMA CommitKept ==
    ASSUME StockInv, NEW w \in Workers, CommitStatus(w)
    PROVE  StockInv'
  <1>1. /\ call[w].vehicle \in Vehicles /\ call[w].to \in VehicleStatuses
        /\ call[w].next = "idle" /\ seen[w] \in VehicleRows
        /\ IsTransitionAllowed(seen[w].status, call[w].to)
    BY StockAssumption DEF StockInv, CallOK, CommitStatus, Committed
  <1>2. OnlyMoves(w)
    BY <1>1 DEF StockInv, StockTypeOK, CommitStatus, Committed, Resume, OnlyMoves, CallOK,
       StockLabels
  <1>3. vehicle' \in [Vehicles -> VehicleRows]
    BY <1>1 DEF StockInv, StockTypeOK, CommitStatus, VehicleRows
  <1>4. movement' \in [Vehicles -> [from : VehicleStatuses, to : VehicleStatuses] \cup {NULL}]
    BY <1>1 DEF StockInv, StockTypeOK, CommitStatus, VehicleRows
  <1>5. MovementMatches'
    BY <1>1 DEF StockInv, StockTypeOK, CommitStatus, MovementMatches
  <1>6. MovementLegal'
    BY <1>1 DEF StockInv, StockTypeOK, CommitStatus, MovementLegal
  <1>7. UNCHANGED failures
    BY DEF CommitStatus, Committed
  <1> QED
    BY <1>2, <1>3, <1>4, <1>5, <1>6, <1>7, CallsKept DEF StockInv, StockTypeOK, OnlyMoves

LEMMA ArchiveKept ==
    ASSUME StockInv, NEW w \in Workers, NEW v \in Vehicles, Archive(w, v)
    PROVE  StockInv'
  <1>1. vehicle' \in [Vehicles -> VehicleRows]
    BY DEF StockInv, StockTypeOK, Archive, VehicleRows, VehicleStatuses
  <1>2. MovementMatches'
    BY DEF StockInv, StockTypeOK, Archive, MovementMatches
  <1> QED
    BY <1>1, <1>2 DEF StockInv, StockTypeOK, Archive, handlerVars, CallOK, MovementLegal

LEMMA EndKept ==
    ASSUME StockInv, NEW w \in Workers, RejectTransition(w) \/ Fail(w)
    PROVE  StockInv'
  <1>1. OnlyMoves(w)
    BY Ended DEF RejectTransition, Fail
  <1>2. UNCHANGED <<vehicle, movement>> /\ failures' \in 0 .. MaxFailures
    BY StockAssumption DEF StockInv, StockTypeOK, RejectTransition, Fail
  <1> QED
    BY <1>1, <1>2, CallsKept DEF StockInv, StockTypeOK, OnlyMoves, MovementMatches, MovementLegal

LEMMA StockStep == StockInv /\ [StockNext]_stockVars => StockInv'
  <1> SUFFICES ASSUME StockInv, [StockNext]_stockVars PROVE StockInv'
    OBVIOUS
  <1>1. CASE UNCHANGED stockVars
    BY <1>1 DEF stockVars, handlerVars, StockInv, StockTypeOK, CallOK, MovementMatches,
       MovementLegal
  <1> QED
    BY <1>1, RequestKept, ReadKept, CommitKept, ArchiveKept, EndKept
    DEF StockNext, ChangeStatusStep

LEMMA StockStart == StockInit => StockInv
  BY StockAssumption DEF StockInit, StockInv, StockTypeOK, CallOK, MovementMatches,
     MovementLegal, StockLabels, VehicleRows, VehicleStatuses

\* The latest movement of a vehicle ends where the vehicle is, unless it was
\* archived since, in whatever order overlapping changes of its status commit.
THEOREM LogFollowsStatus == StockSpec => []MovementMatches
  <1>1. StockInv => MovementMatches
    BY DEF StockInv
  <1> QED
    BY <1>1, StockStart, StockStep, PTL DEF StockSpec

\* The rows the handlers write are rows of the schema, and no more of them die
\* than the bound allows.
THEOREM StockRowsTyped == StockSpec => []StockTypeOK
  <1>1. StockInv => StockTypeOK
    BY DEF StockInv
  <1> QED
    BY <1>1, StockStart, StockStep, PTL DEF StockSpec

-----------------------------------------------------------------------------
(* Safety                                                                  *)

\* A transaction about to commit follows a transition the guard has accepted.
Accepted(w) ==
    pc[w] = "changeStatus.commit" => IsTransitionAllowed(seen[w].status, call[w].to)

\* The row it has read was dated if it was sold.
DateRead(w) ==
    pc[w] = "changeStatus.commit" /\ seen[w].status \in {"SOLD", "DELIVERED"} => seen[w].soldAt

\* A completion that has come to the commission has posted its price.
PostedFirst(w) ==
    pc[w] \in {"complete.findCommission", "complete.createCommission"} =>
        posted[ctx[w].sale][ctx[w].price] > 0

\* The batch of a run of the job holds reservations that are due.
BatchDue(w) ==
    pc[w] \in ReservationLabels => \A r \in ctx[w].todo : reservation[r].overdue

LegalInv  == MovementLegal    /\ \A w \in Workers : Accepted(w)
DatedInv  == SoldDated        /\ \A w \in Workers : Accepted(w) /\ DateRead(w)
BackedInv == CommissionBacked /\ \A w \in Workers : PostedFirst(w)
DueInv    == ExpiredWasDue    /\ \A w \in Workers : BatchDue(w)

-----------------------------------------------------------------------------
(* The table                                                               *)

LEMMA DeliveredFromSold ==
    ASSUME NEW from \in VehicleStatuses, IsTransitionAllowed(from, "DELIVERED")
    PROVE  from \in {"SOLD", "DELIVERED"}
  BY DEF IsTransitionAllowed, Transitions, VehicleStatuses

LEMMA ReservedIsFreed == IsTransitionAllowed("RESERVED", "AVAILABLE")
  BY DEF IsTransitionAllowed, Transitions

-----------------------------------------------------------------------------
(* Which steps write which table                                           *)

LEMMA MovementWritten ==
    ASSUME [Next]_vars
    PROVE  \/ UNCHANGED movement
           \/ \E w \in Workers : CommitStatus(w) \/ ExpireLog(w)
  BY DEF Next, vars, stockVars, StockNext, ReservationsNext, SalesNext, ChangeStatusStep,
     CancelStep, ExpiryStep, CompletionStep, RequestStatus, Archive, ReadVehicle,
     RejectTransition, Fail, CreateReservation, CancelReservation, CancelReadsReserved,
     CancelReadsOther, StartExpiry, ExpireNext, ExpireDone, ExpireReadVehicle, ExpireFree,
     Elapse, RequestSale, InsertSale, UpdateSale, AdvanceSale, CancelSale, WriteCanceled,
     RequestCompletion, CompleteSale, PriceVehicle, SellVehicle, PostRevenue, FindCommission,
     CreateCommission, SetCommission, MarkDelivered

LEMMA VehicleWritten ==
    ASSUME [Next]_vars
    PROVE  \/ UNCHANGED vehicle
           \/ \E w \in Workers :
                 \/ CommitStatus(w) \/ ExpireFree(w) \/ PriceVehicle(w)
                 \/ \E v \in Vehicles : Archive(w, v)
  BY DEF Next, vars, stockVars, StockNext, ReservationsNext, SalesNext, ChangeStatusStep,
     CancelStep, ExpiryStep, CompletionStep, RequestStatus, ReadVehicle, RejectTransition,
     Fail, CreateReservation, CancelReservation, CancelReadsReserved, CancelReadsOther,
     StartExpiry, ExpireNext, ExpireDone, ExpireReadVehicle, ExpireLog, Elapse, RequestSale,
     InsertSale, UpdateSale, AdvanceSale, CancelSale, WriteCanceled, RequestCompletion,
     CompleteSale, SellVehicle, PostRevenue, FindCommission, CreateCommission, SetCommission,
     MarkDelivered

LEMMA PostedWritten ==
    ASSUME [Next]_vars
    PROVE  UNCHANGED posted \/ \E w \in Workers : PostRevenue(w)
  BY DEF Next, vars, saleVars, StockNext, ReservationsNext, SalesNext, CompletionStep,
     RequestSale, InsertSale, UpdateSale, AdvanceSale, CancelSale, WriteCanceled,
     RequestCompletion, CompleteSale, PriceVehicle, SellVehicle, FindCommission,
     CreateCommission, SetCommission, MarkDelivered

LEMMA CommissionWritten ==
    ASSUME [Next]_vars
    PROVE  \/ UNCHANGED commission
           \/ \E w \in Workers :
                 \/ CreateCommission(w)
                 \/ \E s \in Sales, st \in {"APPROVED", "PAID", "CANCELED"} :
                       SetCommission(w, s, st)
  BY DEF Next, vars, saleVars, StockNext, ReservationsNext, SalesNext, CompletionStep,
     RequestSale, InsertSale, UpdateSale, AdvanceSale, CancelSale, WriteCanceled,
     RequestCompletion, CompleteSale, PriceVehicle, SellVehicle, PostRevenue, FindCommission,
     MarkDelivered

LEMMA ReservationWritten ==
    ASSUME [Next]_vars
    PROVE  \/ UNCHANGED reservation
           \/ \E w \in Workers :
                 \/ ExpireNext(w)
                 \/ \E r \in Reservations, v \in Vehicles : CreateReservation(w, r, v)
                 \/ \E r \in Reservations : CancelReservation(w, r)
           \/ \E r \in Reservations : Elapse(r)
  BY DEF Next, vars, StockNext, ReservationsNext, SalesNext, CancelStep, ExpiryStep,
     CancelReadsReserved, CancelReadsOther, StartExpiry, ExpireDone, ExpireReadVehicle,
     ExpireFree, ExpireLog

-----------------------------------------------------------------------------
(* How a handler comes to stand where it stands                            *)

LEMMA CommitEntered ==
    ASSUME TypeOK, [Next]_vars, NEW w \in Workers, pc'[w] = "changeStatus.commit"
    PROVE  \/ ReadVehicle(w)
           \/ pc[w] = "changeStatus.commit" /\ call'[w] = call[w] /\ seen'[w] = seen[w]
  <1> USE DEF handlerVars, stockVars, MoveIfAllowed, Await, Resume, Finish, Invoke
  <1>1. /\ pc \in [Workers -> Labels] /\ call \in [Workers -> Calls \cup {NULL}]
        /\ seen \in [Workers -> VehicleRows \cup {NULL}]
    BY DEF TypeOK, StockTypeOK
  <1>2. CASE StockNext
    <2>1. ASSUME NEW x \in Workers, CommitStatus(x)
          PROVE  pc[w] = "changeStatus.commit" /\ call'[w] = call[w] /\ seen'[w] = seen[w]
      <3>1. call[x] \in Calls
        BY <2>1 DEF CommitStatus, Committed, TypeOK, HandlerOK, InChangeStatus
      <3>2. pc'[x] # "changeStatus.commit"
        BY <1>1, <2>1, <3>1 DEF CommitStatus, Committed, Calls
      <3> QED
        BY <1>1, <2>1, <3>2 DEF CommitStatus, Committed
    <2>2. ASSUME NEW x \in Workers, ReadVehicle(x), x # w
          PROVE  pc[w] = "changeStatus.commit" /\ call'[w] = call[w] /\ seen'[w] = seen[w]
      BY <1>1, <2>2 DEF ReadVehicle
    <2>3. ASSUME NEW x \in Workers, NEW v \in Vehicles,
                 Archive(x, v) \/ \E to \in OperatorStatuses : RequestStatus(x, v, to)
          PROVE  pc[w] = "changeStatus.commit" /\ call'[w] = call[w] /\ seen'[w] = seen[w]
      BY <1>1, <2>3 DEF RequestStatus, Archive
    <2>4. ASSUME NEW x \in Workers, RejectTransition(x) \/ Fail(x)
          PROVE  pc[w] = "changeStatus.commit" /\ call'[w] = call[w] /\ seen'[w] = seen[w]
      BY <1>1, <2>4 DEF RejectTransition, Fail
    <2>5. PICK x \in Workers :
             \/ ChangeStatusStep(x) \/ Fail(x)
             \/ \E v \in Vehicles : Archive(x, v) \/ \E to \in OperatorStatuses : RequestStatus(x, v, to)
      BY <1>2 DEF StockNext
    <2>6. \/ ReadVehicle(x) \/ CommitStatus(x) \/ RejectTransition(x) \/ Fail(x)
          \/ \E v \in Vehicles : Archive(x, v) \/ \E to \in OperatorStatuses : RequestStatus(x, v, to)
      BY <2>5 DEF ChangeStatusStep
    <2>7. CASE ReadVehicle(x)
      BY <2>2, <2>7
    <2> QED
      BY <2>1, <2>3, <2>4, <2>6, <2>7
  <1>3. CASE ReservationsNext
    <2>1. ASSUME NEW x \in Workers, CancelStep(x) \/ ExpiryStep(x)
          PROVE  pc[w] = "changeStatus.commit" /\ call'[w] = call[w] /\ seen'[w] = seen[w]
      BY <1>1, <2>1 DEF CancelStep, ExpiryStep, CancelReadsReserved, CancelReadsOther,
         ExpireNext, ExpireDone, ExpireReadVehicle, ExpireFree, ExpireLog
    <2> QED
      BY <1>1, <1>3, <2>1 DEF ReservationsNext, CreateReservation, CancelReservation,
         StartExpiry, Elapse
  <1>4. CASE SalesNext
    <2>1. CASE \E x \in Workers : CompletionStep(x)
      BY <1>1, <2>1 DEF CompletionStep, CompleteSale, PriceVehicle, SellVehicle, PostRevenue,
         FindCommission, CreateCommission
    <2> QED
      BY <1>1, <1>4, <2>1 DEF SalesNext, RequestSale, InsertSale, UpdateSale, AdvanceSale,
         CancelSale, WriteCanceled, RequestCompletion, SetCommission, MarkDelivered
  <1> QED
    BY <1>2, <1>3, <1>4 DEF Next, vars

LEMMA CommissionReached ==
    ASSUME TypeOK, [Next]_vars, NEW w \in Workers,
           pc'[w] \in {"complete.findCommission", "complete.createCommission"}
    PROVE  \/ PostRevenue(w)
           \/ /\ pc[w] \in {"complete.findCommission", "complete.createCommission"}
              /\ ctx'[w] = ctx[w]
  <1> USE DEF handlerVars, stockVars, MoveIfAllowed, Await, Resume, Finish, Invoke, SetLocals
  <1>1. /\ pc \in [Workers -> Labels]
        /\ ctx \in [Workers -> ReservationLocals \cup SaleLocals \cup {NULL}]
    BY DEF TypeOK
  <1>2. CASE StockNext
    <2>1. ASSUME NEW x \in Workers, CommitStatus(x)
          PROVE  pc[w] = pc'[w] /\ ctx'[w] = ctx[w]
      <3>1. call[x] \in Calls
        BY <2>1 DEF CommitStatus, Committed, TypeOK, HandlerOK, InChangeStatus
      <3>2. pc'[x] \notin {"complete.findCommission", "complete.createCommission"}
        BY <1>1, <2>1, <3>1 DEF CommitStatus, Committed, Calls
      <3> QED
        BY <1>1, <2>1, <3>2 DEF CommitStatus, Committed
    <2> QED
      BY <1>1, <1>2, <2>1 DEF StockNext, ChangeStatusStep, RequestStatus, Archive, ReadVehicle,
         RejectTransition, Fail
  <1>3. CASE ReservationsNext
    BY <1>1, <1>3 DEF ReservationsNext, CreateReservation, CancelReservation,
       CancelReadsReserved, CancelReadsOther, StartExpiry, TakeBatch, ExpireNext, ExpireDone,
       ExpireReadVehicle, ExpireFree, ExpireLog, Elapse, CancelStep, ExpiryStep
  <1>4. CASE SalesNext
    <2>1. CASE \E x \in Workers : CompletionStep(x)
      BY <1>1, <2>1 DEF CompletionStep, CompleteSale, PriceVehicle, SellVehicle, PostRevenue,
         FindCommission, CreateCommission
    <2> QED
      BY <1>1, <1>4, <2>1 DEF SalesNext, RequestSale, InsertSale, UpdateSale, AdvanceSale,
         CancelSale, WriteCanceled, RequestCompletion, SetCommission, MarkDelivered
  <1> QED
    BY <1>2, <1>3, <1>4 DEF Next, vars

LEMMA BatchTaken ==
    ASSUME TypeOK, [Next]_vars, NEW w \in Workers, pc'[w] \in ReservationLabels
    PROVE  \/ StartExpiry(w)
           \/ \E r \in Reservations : CancelReservation(w, r)
           \/ pc[w] \in ReservationLabels /\ ctx'[w].todo \subseteq ctx[w].todo
  <1> USE DEF handlerVars, stockVars, MoveIfAllowed, Await, Resume, Finish, Invoke, SetLocals,
              ReservationLabels
  <1>1. /\ pc \in [Workers -> Labels]
        /\ ctx \in [Workers -> ReservationLocals \cup SaleLocals \cup {NULL}]
    BY DEF TypeOK
  <1>2. CASE StockNext
    <2>1. ASSUME NEW x \in Workers, CommitStatus(x)
          PROVE  pc[w] = pc'[w] /\ ctx'[w] = ctx[w]
      <3>1. call[x] \in Calls
        BY <2>1 DEF CommitStatus, Committed, TypeOK, HandlerOK, InChangeStatus
      <3>2. pc'[x] \notin ReservationLabels
        BY <1>1, <2>1, <3>1 DEF CommitStatus, Committed, Calls
      <3> QED
        BY <1>1, <2>1, <3>2 DEF CommitStatus, Committed
    <2> QED
      BY <1>1, <1>2, <2>1 DEF StockNext, ChangeStatusStep, RequestStatus, Archive, ReadVehicle,
         RejectTransition, Fail
  <1>3. CASE ReservationsNext
    <2>1. ASSUME NEW x \in Workers, ExpireNext(x)
          PROVE  pc[w] \in ReservationLabels /\ ctx'[w].todo \subseteq ctx[w].todo
      BY <1>1, <2>1 DEF ExpireNext
    <2>2. ASSUME NEW x \in Workers, StartExpiry(x), x # w
          PROVE  pc[w] = pc'[w] /\ ctx'[w] = ctx[w]
      BY <1>1, <2>2 DEF StartExpiry, TakeBatch
    <2>3. ASSUME NEW x \in Workers, NEW r \in Reservations, CancelReservation(x, r), x # w
          PROVE  pc[w] = pc'[w] /\ ctx'[w] = ctx[w]
      BY <1>1, <2>3 DEF CancelReservation
    <2>4. ASSUME NEW x \in Workers, ExpireReadVehicle(x) \/ ExpireFree(x) \/ ExpireLog(x)
          PROVE  pc[w] \in ReservationLabels /\ ctx'[w] = ctx[w]
      BY <1>1, <2>4 DEF ExpireReadVehicle, ExpireFree, ExpireLog
    <2>5. ASSUME NEW x \in Workers,
                 \/ \E r \in Reservations, v \in Vehicles : CreateReservation(x, r, v)
                 \/ CancelStep(x) \/ ExpireDone(x)
          PROVE  pc[w] = pc'[w] /\ ctx'[w] = ctx[w]
      BY <1>1, <2>5 DEF CreateReservation, CancelStep, CancelReadsReserved, CancelReadsOther,
         ExpireDone
    <2>6. ASSUME NEW r \in Reservations, Elapse(r)
          PROVE  pc[w] = pc'[w] /\ ctx'[w] = ctx[w]
      BY <2>6 DEF Elapse
    <2> QED
      BY <1>3, <2>1, <2>2, <2>3, <2>4, <2>5, <2>6 DEF ReservationsNext, ExpiryStep
  <1>4. CASE SalesNext
    <2>1. CASE \E x \in Workers : CompletionStep(x)
      BY <1>1, <2>1 DEF CompletionStep, CompleteSale, PriceVehicle, SellVehicle, PostRevenue,
         FindCommission, CreateCommission
    <2> QED
      BY <1>1, <1>4, <2>1 DEF SalesNext, RequestSale, InsertSale, UpdateSale, AdvanceSale,
         CancelSale, WriteCanceled, RequestCompletion, SetCommission, MarkDelivered
  <1> QED
    BY <1>2, <1>3, <1>4 DEF Next, vars

-----------------------------------------------------------------------------
(* Every movement is legal                                                 *)

LEMMA LegalStep == TypeOK /\ LegalInv /\ [Next]_vars => LegalInv'
  <1> SUFFICES ASSUME TypeOK, LegalInv, [Next]_vars PROVE LegalInv'
    OBVIOUS
  <1>1. movement \in [Vehicles -> [from : VehicleStatuses, to : VehicleStatuses] \cup {NULL}]
    BY DEF TypeOK, StockTypeOK
  <1>2. MovementLegal'
    <2>1. CASE UNCHANGED movement
      BY <2>1 DEF LegalInv, MovementLegal
    <2>2. ASSUME NEW w \in Workers, CommitStatus(w)
          PROVE  MovementLegal'
      BY <1>1, <2>2 DEF LegalInv, MovementLegal, Accepted, CommitStatus, Committed
    <2>3. ASSUME NEW w \in Workers, ExpireLog(w)
          PROVE  MovementLegal'
      BY <1>1, <2>3, ReservedIsFreed DEF LegalInv, MovementLegal, ExpireLog
    <2> QED
      BY <2>1, <2>2, <2>3, MovementWritten
  <1>3. ASSUME NEW w \in Workers PROVE Accepted(w)'
    <2>1. CASE ReadVehicle(w)
      BY <2>1 DEF ReadVehicle, Resume, Accepted, TypeOK, StockTypeOK
    <2>2. CASE pc[w] = "changeStatus.commit" /\ call'[w] = call[w] /\ seen'[w] = seen[w]
      BY <2>2 DEF LegalInv, Accepted
    <2>3. CASE pc'[w] # "changeStatus.commit"
      BY <2>3 DEF Accepted
    <2> QED
      BY <2>1, <2>2, <2>3, CommitEntered
  <1> QED
    BY <1>2, <1>3 DEF LegalInv

\* Whatever overlaps or fails, the log of a vehicle never records a transition
\* the table of stock.service.ts forbids.
THEOREM MovementsAreLegal == Spec => []MovementLegal
  <1>1. Init => LegalInv
    BY DEF Init, StockInit, LegalInv, MovementLegal, Accepted
  <1>2. LegalInv => MovementLegal
    BY DEF LegalInv
  <1> QED
    BY <1>1, <1>2, LegalStep, TypeCorrect, PTL DEF Spec

-----------------------------------------------------------------------------
(* A sold vehicle has a date                                               *)

LEMMA DatedStep == TypeOK /\ LegalInv' /\ DatedInv /\ [Next]_vars => DatedInv'
  <1> SUFFICES ASSUME TypeOK, LegalInv', DatedInv, [Next]_vars PROVE DatedInv'
    OBVIOUS
  <1>1. vehicle \in [Vehicles -> VehicleRows]
    BY DEF TypeOK, StockTypeOK
  <1>2. SoldDated'
    <2>1. CASE UNCHANGED vehicle
      BY <2>1 DEF DatedInv, SoldDated
    <2>2. ASSUME NEW w \in Workers, CommitStatus(w)
          PROVE  SoldDated'
      <3>1. /\ call[w] \in Calls /\ seen[w] \in VehicleRows
            /\ IsTransitionAllowed(seen[w].status, call[w].to) /\ DateRead(w)
            /\ pc[w] = "changeStatus.commit"
        BY <2>2 DEF CommitStatus, Committed, TypeOK, HandlerOK, InChangeStatus, DatedInv, Accepted
      <3>2. call[w].to \in {"SOLD", "DELIVERED"} => call[w].to = "SOLD" \/ seen[w].soldAt
        BY <3>1, DeliveredFromSold DEF DateRead, VehicleRows
      <3> QED
        BY <1>1, <2>2, <3>2 DEF CommitStatus, DatedInv, SoldDated
    <2>3. ASSUME NEW w \in Workers, ExpireFree(w)
          PROVE  SoldDated'
      BY <1>1, <2>3 DEF ExpireFree, DatedInv, SoldDated, VehicleRows
    <2>4. ASSUME NEW w \in Workers, PriceVehicle(w)
          PROVE  SoldDated'
      BY <1>1, <2>4 DEF PriceVehicle, DatedInv, SoldDated, VehicleRows
    <2>5. ASSUME NEW w \in Workers, NEW v \in Vehicles, Archive(w, v)
          PROVE  SoldDated'
      BY <1>1, <2>5 DEF Archive, DatedInv, SoldDated, VehicleRows
    <2> QED
      BY <2>1, <2>2, <2>3, <2>4, <2>5, VehicleWritten
  <1>3. ASSUME NEW w \in Workers PROVE DateRead(w)'
    <2>1. CASE ReadVehicle(w)
      <3>1. call[w].vehicle \in Vehicles
        BY <2>1 DEF ReadVehicle, TypeOK, HandlerOK, InChangeStatus, Calls
      <3> QED
        BY <2>1, <3>1 DEF ReadVehicle, DateRead, DatedInv, SoldDated, TypeOK, StockTypeOK
    <2>2. CASE pc[w] = "changeStatus.commit" /\ call'[w] = call[w] /\ seen'[w] = seen[w]
      BY <2>2 DEF DatedInv, DateRead
    <2>3. CASE pc'[w] # "changeStatus.commit"
      BY <2>3 DEF DateRead
    <2> QED
      BY <2>1, <2>2, <2>3, CommitEntered
  <1> QED
    BY <1>2, <1>3 DEF DatedInv, LegalInv

\* A vehicle that is SOLD or DELIVERED has a sale date: changeStatus writes the
\* date of a row that may be stale, but never one that was read before the sale
\* of the vehicle it delivers.
THEOREM SoldVehiclesAreDated == Spec => []SoldDated
  <1>1. Init => LegalInv /\ DatedInv
    BY DEF Init, StockInit, LegalInv, DatedInv, MovementLegal, SoldDated, Accepted, DateRead
  <1>2. DatedInv => SoldDated
    BY DEF DatedInv
  <1> QED
    BY <1>1, <1>2, LegalStep, DatedStep, TypeCorrect, PTL DEF Spec

-----------------------------------------------------------------------------
(* A commission rests on a posting                                         *)

LEMMA PostingsGrow ==
    ASSUME TypeOK, [Next]_vars, NEW s \in Sales, NEW p \in Prices, posted[s][p] > 0
    PROVE  posted'[s][p] > 0
  <1>1. posted \in [Sales -> [Prices -> Nat]]
    BY DEF TypeOK
  <1>2. ASSUME NEW w \in Workers, PostRevenue(w)
        PROVE  posted'[s][p] > 0
    BY <1>1, <1>2 DEF PostRevenue
  <1> QED
    BY <1>2, PostedWritten

LEMMA BackedStep == TypeOK /\ BackedInv /\ TypeOK' /\ [Next]_vars => BackedInv'
  <1> SUFFICES ASSUME TypeOK, BackedInv, TypeOK', [Next]_vars PROVE BackedInv'
    OBVIOUS
  <1>1. commission \in [Sales -> CommissionRows \cup {NULL}]
    BY DEF TypeOK
  <1>2. CommissionBacked'
    <2>1. CASE UNCHANGED commission
      <3> SUFFICES ASSUME NEW s \in Sales, commission'[s] # NULL
                   PROVE  posted'[s][commission'[s].price] > 0
        BY DEF CommissionBacked
      <3>1. commission[s].price \in Prices /\ posted[s][commission[s].price] > 0
        BY <1>1, <2>1 DEF BackedInv, CommissionBacked, CommissionRows
      <3> QED
        BY <2>1, <3>1, PostingsGrow
    <2>2. ASSUME NEW w \in Workers, CreateCommission(w)
          PROVE  CommissionBacked'
      <3>1. /\ ctx[w].sale \in Sales /\ posted[ctx[w].sale][ctx[w].price] > 0
            /\ UNCHANGED posted
        BY <2>2 DEF CreateCommission, BackedInv, PostedFirst, TypeOK, HandlerOK, Position,
           InChangeStatus, SaleLabels, SaleLocals
      <3> QED
        BY <1>1, <2>2, <3>1 DEF CreateCommission, BackedInv, CommissionBacked
    <2>3. ASSUME NEW w \in Workers, NEW s \in Sales, NEW st \in {"APPROVED", "PAID", "CANCELED"},
                 SetCommission(w, s, st)
          PROVE  CommissionBacked'
      BY <1>1, <2>3 DEF SetCommission, BackedInv, CommissionBacked, CommissionRows
    <2> QED
      BY <2>1, <2>2, <2>3, CommissionWritten
  <1>3. ASSUME NEW w \in Workers PROVE PostedFirst(w)'
    <2>1. CASE PostRevenue(w)
      <3>1. ctx[w] \in SaleLocals /\ posted \in [Sales -> [Prices -> Nat]]
        BY <2>1 DEF PostRevenue, TypeOK, HandlerOK, Position, InChangeStatus, SaleLabels
      <3>2. posted'[ctx[w].sale][ctx[w].price] > 0
        BY <2>1, <3>1 DEF PostRevenue, SaleLocals
      <3> QED
        BY <2>1, <3>2 DEF PostRevenue, PostedFirst
    <2>2. CASE /\ pc[w] \in {"complete.findCommission", "complete.createCommission"}
               /\ ctx'[w] = ctx[w]
      <3>1. ctx[w] \in SaleLocals
        BY <2>2 DEF TypeOK, HandlerOK, Position, InChangeStatus, SaleLabels
      <3>2. posted[ctx[w].sale][ctx[w].price] > 0
        BY <2>2 DEF BackedInv, PostedFirst
      <3> QED
        BY <2>2, <3>1, <3>2, PostingsGrow DEF PostedFirst, SaleLocals
    <2>3. CASE pc'[w] \notin {"complete.findCommission", "complete.createCommission"}
      BY <2>3 DEF PostedFirst
    <2> QED
      BY <2>1, <2>2, <2>3, CommissionReached
  <1> QED
    BY <1>2, <1>3 DEF BackedInv

LEMMA BackedInit == Init => BackedInv
  BY DEF Init, StockInit, SalesInit, BackedInv, CommissionBacked, PostedFirst

\* No commission without a revenue entry of the price it was computed from, even
\* if completions with different prices overlap or die half-way.
THEOREM CommissionsAreBacked == Spec => []CommissionBacked
  <1>1. BackedInv => CommissionBacked
    BY DEF BackedInv
  <1> QED
    BY <1>1, BackedInit, BackedStep, TypeCorrect, PTL DEF Spec

\* No step of any handler recomputes a commission or makes it pending again.
THEOREM CommissionsAreKept == Spec => CommissionKept
  <1> DEFINE Kept == \A s \in Sales :
          commission[s] # NULL =>
              /\ commission'[s].price = commission[s].price
              /\ commission'[s].status = "PENDING" => commission[s].status = "PENDING"
  <1>1. TypeOK /\ [Next]_vars => [Kept]_vars
    <2> SUFFICES ASSUME TypeOK, [Next]_vars PROVE Kept
      OBVIOUS
    <2>1. commission \in [Sales -> CommissionRows \cup {NULL}]
      BY DEF TypeOK
    <2>2. CASE UNCHANGED commission
      BY <2>2
    <2>3. ASSUME NEW w \in Workers, CreateCommission(w)
          PROVE  Kept
      BY <2>1, <2>3 DEF CreateCommission
    <2>4. ASSUME NEW w \in Workers, NEW s \in Sales, NEW st \in {"APPROVED", "PAID", "CANCELED"},
                 SetCommission(w, s, st)
          PROVE  Kept
      BY <2>1, <2>4 DEF SetCommission, CommissionRows
    <2> QED
      BY <2>2, <2>3, <2>4, CommissionWritten
  <1> QED
    BY <1>1, TypeCorrect, PTL DEF Spec, CommissionKept

-----------------------------------------------------------------------------
(* Only due reservations expire                                            *)

LEMMA DueStays ==
    ASSUME TypeOK, [Next]_vars, NEW r \in Reservations, Exists(r), reservation[r].overdue
    PROVE  reservation'[r].overdue
  <1>1. reservation \in [Reservations -> ReservationRows \cup {NULL}]
    BY DEF TypeOK
  <1>2. ASSUME NEW w \in Workers, ExpireNext(w)
        PROVE  reservation'[r].overdue
    BY <1>1, <1>2 DEF ExpireNext, SetStatus, Exists, ReservationRows
  <1>3. ASSUME NEW w \in Workers, NEW q \in Reservations, CancelReservation(w, q)
        PROVE  reservation'[r].overdue
    BY <1>1, <1>3 DEF CancelReservation, SetStatus, Exists, ReservationRows
  <1>4. ASSUME NEW w \in Workers, NEW q \in Reservations, NEW v \in Vehicles,
               CreateReservation(w, q, v)
        PROVE  reservation'[r].overdue
    BY <1>1, <1>4 DEF CreateReservation, Exists
  <1>5. ASSUME NEW q \in Reservations, Elapse(q)
        PROVE  reservation'[r].overdue
    BY <1>1, <1>5 DEF Elapse, Exists, ReservationRows
  <1> QED
    BY <1>2, <1>3, <1>4, <1>5, ReservationWritten

LEMMA DueStep == TypeOK /\ DueInv /\ [Next]_vars => DueInv'
  <1> SUFFICES ASSUME TypeOK, DueInv, [Next]_vars PROVE DueInv'
    OBVIOUS
  <1>1. reservation \in [Reservations -> ReservationRows \cup {NULL}]
    BY DEF TypeOK
  <1>2. ExpiredWasDue'
    <2>1. CASE UNCHANGED reservation
      BY <2>1 DEF DueInv, ExpiredWasDue, Exists
    <2>2. ASSUME NEW w \in Workers, ExpireNext(w)
          PROVE  ExpiredWasDue'
      <3>1. /\ ctx[w].todo \subseteq Reservations
            /\ \A r \in ctx[w].todo : Exists(r) /\ reservation[r].overdue
        BY <2>2 DEF ExpireNext, DueInv, BatchDue, TypeOK, HandlerOK, Position, InChangeStatus,
           ReservationLabels, ReservationLocals
      <3> QED
        BY <1>1, <2>2, <3>1 DEF ExpireNext, SetStatus, DueInv, ExpiredWasDue, Exists, ReservationRows
    <2>3. ASSUME NEW w \in Workers, NEW q \in Reservations, CancelReservation(w, q)
          PROVE  ExpiredWasDue'
      BY <1>1, <2>3 DEF CancelReservation, SetStatus, DueInv, ExpiredWasDue, Exists, ReservationRows
    <2>4. ASSUME NEW w \in Workers, NEW q \in Reservations, NEW v \in Vehicles,
                 CreateReservation(w, q, v)
          PROVE  ExpiredWasDue'
      BY <1>1, <2>4 DEF CreateReservation, DueInv, ExpiredWasDue, Exists
    <2>5. ASSUME NEW q \in Reservations, Elapse(q)
          PROVE  ExpiredWasDue'
      BY <1>1, <2>5 DEF Elapse, DueInv, ExpiredWasDue, Exists, ReservationRows
    <2> QED
      BY <2>1, <2>2, <2>3, <2>4, <2>5, ReservationWritten
  <1>3. ASSUME NEW w \in Workers PROVE BatchDue(w)'
    <2>1. CASE StartExpiry(w)
      BY <2>1 DEF StartExpiry, TakeBatch, ActiveReservations, SetLocals, BatchDue, TypeOK
    <2>2. CASE \E r \in Reservations : CancelReservation(w, r)
      BY <2>2 DEF CancelReservation, SetLocals, BatchDue, TypeOK
    <2>3. CASE pc[w] \in ReservationLabels /\ ctx'[w].todo \subseteq ctx[w].todo
      <3>1. /\ ctx[w].todo \subseteq Reservations
            /\ \A r \in ctx[w].todo : Exists(r) /\ reservation[r].overdue
        BY <2>3 DEF DueInv, BatchDue, TypeOK, HandlerOK, Position, InChangeStatus,
           ReservationLabels, ReservationLocals
      <3> QED
        BY <2>3, <3>1, DueStays DEF BatchDue
    <2>4. CASE pc'[w] \notin ReservationLabels
      BY <2>4 DEF BatchDue
    <2> QED
      BY <2>1, <2>2, <2>3, <2>4, BatchTaken
  <1> QED
    BY <1>2, <1>3 DEF DueInv

\* However many runs of the job, cancelations and failures overlap, only a
\* reservation that is past its due date is ever expired.
THEOREM ExpiredReservationsWereDue == Spec => []ExpiredWasDue
  <1>1. Init => DueInv
    BY DEF Init, StockInit, ReservationsInit, DueInv, ExpiredWasDue, BatchDue, Exists,
       ReservationLabels
  <1>2. DueInv => ExpiredWasDue
    BY DEF DueInv
  <1> QED
    BY <1>1, <1>2, DueStep, TypeCorrect, PTL DEF Spec

-----------------------------------------------------------------------------
(***************************************************************************)
(* No revenue without a price.                                             *)
(*                                                                         *)
(* The price complete checks is a local of its handler; the row it belongs *)
(* to may be re-priced, advanced or canceled at each of the six awaits     *)
(* that follow.  What survives them is that a sale never changes vehicle,  *)
(* and that every writer of soldPrice carries a price that is not zero.    *)
(***************************************************************************)
PricedLabels ==
    {"complete.readVehicle", "complete.revenue", "complete.findCommission",
     "complete.createCommission"}

CompletionLabels == PricedLabels \cup {"complete.sale", "complete.vehicle"}

\* A completion carries a price, and the vehicle its sale has.
CarriesPrice(w) ==
    Position(w) \in CompletionLabels =>
        ctx[w].price # 0 /\ ctx[w].vehicle = sale[ctx[w].sale].vehicle

\* Past its second write, the vehicle has a soldPrice, across changeStatus too.
HasPriced(w) == Position(w) \in PricedLabels => soldPrice[ctx[w].vehicle] # 0

\* The id of a sale about to be inserted is nobody else's.
OwnsId(w) ==
    pc[w] = "createSale.insert" =>
        /\ sale[ctx[w].sale] = NULL
        /\ \A x \in Workers \ {w} :
              pc[x] = "createSale.insert" => ctx[x].sale # ctx[w].sale

PostedExists == \A s \in Sales, p \in Prices : posted[s][p] > 0 => sale[s] # NULL

RevenueInv ==
    /\ RevenueIsPriced
    /\ PostedExists
    /\ \A w \in Workers : CarriesPrice(w) /\ HasPriced(w) /\ OwnsId(w)

-----------------------------------------------------------------------------
(* Which steps write the sale and the price of a vehicle                   *)

LEMMA SaleWritten ==
    ASSUME [Next]_vars
    PROVE  \/ UNCHANGED sale
           \/ \E w \in Workers :
                 \/ InsertSale(w) \/ WriteCanceled(w) \/ CompleteSale(w)
                 \/ \E s \in Sales, p \in Prices : UpdateSale(w, s, p)
                 \/ \E s \in Sales, st \in OpenStatuses : AdvanceSale(w, s, st)
  BY DEF Next, vars, saleVars, StockNext, ReservationsNext, SalesNext, CompletionStep,
     RequestSale, CancelSale, RequestCompletion, PriceVehicle, SellVehicle, PostRevenue,
     FindCommission, CreateCommission, SetCommission, MarkDelivered

LEMMA PriceWritten ==
    ASSUME [Next]_vars
    PROVE  UNCHANGED soldPrice \/ \E w \in Workers : PriceVehicle(w)
  BY DEF Next, vars, saleVars, StockNext, ReservationsNext, SalesNext, CompletionStep,
     RequestSale, InsertSale, UpdateSale, AdvanceSale, CancelSale, WriteCanceled,
     RequestCompletion, CompleteSale, SellVehicle, PostRevenue, FindCommission,
     CreateCommission, SetCommission, MarkDelivered

\* A sale keeps its vehicle, whoever writes it.
LEMMA SaleKeepsVehicle ==
    ASSUME TypeOK, RevenueInv, [Next]_vars, NEW s \in Sales, sale[s] # NULL
    PROVE  sale'[s] # NULL /\ sale'[s].vehicle = sale[s].vehicle
  <1>1. sale \in [Sales -> SaleRows \cup {NULL}] /\ NULL \notin SaleRows
    BY NullAssumption DEF TypeOK
  <1>2. ASSUME NEW w \in Workers, InsertSale(w)
        PROVE  sale'[s] # NULL /\ sale'[s].vehicle = sale[s].vehicle
    <2>1. sale[ctx[w].sale] = NULL
      BY <1>2 DEF InsertSale, RevenueInv, OwnsId
    <2> QED
      BY <1>1, <1>2, <2>1 DEF InsertSale
  <1>3. ASSUME NEW w \in Workers, WriteCanceled(w)
        PROVE  sale'[s] # NULL /\ sale'[s].vehicle = sale[s].vehicle
    BY <1>1, <1>3 DEF WriteCanceled, SaleRows, SaleStatuses
  <1>4. ASSUME NEW w \in Workers, CompleteSale(w)
        PROVE  sale'[s] # NULL /\ sale'[s].vehicle = sale[s].vehicle
    <2>1. ctx[w].price \in Prices
      BY <1>4 DEF CompleteSale, TypeOK, HandlerOK, Position, InChangeStatus, SaleLabels, SaleLocals
    <2> QED
      BY <1>1, <1>4, <2>1 DEF CompleteSale, SaleRows, SaleStatuses
  <1>5. ASSUME NEW w \in Workers, NEW q \in Sales, NEW p \in Prices, UpdateSale(w, q, p)
        PROVE  sale'[s] # NULL /\ sale'[s].vehicle = sale[s].vehicle
    BY <1>1, <1>5 DEF UpdateSale, SaleRows
  <1>6. ASSUME NEW w \in Workers, NEW q \in Sales, NEW st \in OpenStatuses, AdvanceSale(w, q, st)
        PROVE  sale'[s] # NULL /\ sale'[s].vehicle = sale[s].vehicle
    BY <1>1, <1>6 DEF AdvanceSale, SaleRows, SaleStatuses
  <1> QED
    BY <1>2, <1>3, <1>4, <1>5, <1>6, SaleWritten

\* A row appears only under the id of a create that is about to insert it.
LEMMA SaleAppears ==
    ASSUME TypeOK, [Next]_vars, NEW s \in Sales, sale[s] = NULL, sale'[s] # NULL
    PROVE  \E w \in Workers : InsertSale(w) /\ ctx[w].sale = s
  <1>1. sale \in [Sales -> SaleRows \cup {NULL}]
    BY DEF TypeOK
  <1>2. ASSUME NEW w \in Workers, WriteCanceled(w) \/ CompleteSale(w)
        PROVE  FALSE
    <2>1. ctx[w].sale \in Sales /\ sale[ctx[w].sale] # NULL
      BY <1>2 DEF WriteCanceled, CompleteSale, TypeOK, HandlerOK, Position, InChangeStatus,
         SaleLabels, SaleLocals
    <2> QED
      BY <1>1, <1>2, <2>1 DEF WriteCanceled, CompleteSale
  <1>3. ASSUME NEW w \in Workers, InsertSale(w)
        PROVE  ctx[w].sale = s
    BY <1>1, <1>3 DEF InsertSale
  <1>4. ASSUME NEW w \in Workers, NEW q \in Sales, NEW p \in Prices, UpdateSale(w, q, p)
        PROVE  FALSE
    BY <1>1, <1>4 DEF UpdateSale
  <1>5. ASSUME NEW w \in Workers, NEW q \in Sales, NEW st \in OpenStatuses, AdvanceSale(w, q, st)
        PROVE  FALSE
    BY <1>1, <1>5 DEF AdvanceSale
  <1> QED
    BY <1>2, <1>3, <1>4, <1>5, SaleWritten

\* No step empties the soldPrice of a vehicle that has one.
LEMMA PriceStays ==
    ASSUME TypeOK, RevenueInv, [Next]_vars, NEW v \in Vehicles, soldPrice[v] # 0
    PROVE  soldPrice'[v] # 0
  <1>1. ASSUME NEW w \in Workers, PriceVehicle(w)
        PROVE  soldPrice'[v] # 0
    <2>1. ctx[w].price # 0
      BY <1>1 DEF PriceVehicle, RevenueInv, CarriesPrice, Position, InChangeStatus,
         CompletionLabels
    <2> QED
      BY <1>1, <2>1 DEF PriceVehicle, TypeOK
  <1> QED
    BY <1>1, PriceWritten

-----------------------------------------------------------------------------
(* How a completion comes to stand where it stands                         *)

\* Across a changeStatus call the handler keeps its place; its labels are left
\* for those of the caller only by the commit.
LEMMA StockKeepsPosition ==
    ASSUME TypeOK, StockNext, NEW w \in Workers, Position(w)' \in SaleLabels
    PROVE  Position(w) = Position(w)' /\ ctx'[w] = ctx[w]
  <1> USE DEF handlerVars, Resume, Finish, Invoke, Position, InChangeStatus
  <1>1. /\ pc \in [Workers -> Labels] /\ call \in [Workers -> Calls \cup {NULL}]
        /\ ctx \in [Workers -> ReservationLocals \cup SaleLocals \cup {NULL}]
    BY DEF TypeOK
  <1>2. ASSUME NEW x \in Workers, CommitStatus(x)
        PROVE  Position(w) = Position(w)' /\ ctx'[w] = ctx[w]
    <2>1. call[x] \in Calls
      BY <1>2 DEF CommitStatus, Committed, TypeOK, HandlerOK
    <2>2. pc'[x] \in {"idle", "cancelSale.write", "complete.revenue"}
      BY <1>1, <1>2, <2>1 DEF CommitStatus, Committed, Calls
    <2> QED
      BY <1>1, <1>2, <2>2 DEF CommitStatus, Committed
  <1>3. ASSUME NEW x \in Workers, ReadVehicle(x)
        PROVE  Position(w) = Position(w)' /\ ctx'[w] = ctx[w]
    BY <1>1, <1>3 DEF ReadVehicle
  <1>4. ASSUME NEW x \in Workers, RejectTransition(x) \/ Fail(x)
        PROVE  Position(w) = Position(w)' /\ ctx'[w] = ctx[w]
    BY <1>1, <1>4 DEF RejectTransition, Fail, SaleLabels
  <1>5. ASSUME NEW x \in Workers, NEW v \in Vehicles, NEW to \in OperatorStatuses,
               RequestStatus(x, v, to)
        PROVE  Position(w) = Position(w)' /\ ctx'[w] = ctx[w]
    BY <1>1, <1>5 DEF RequestStatus, SaleLabels
  <1>6. ASSUME NEW x \in Workers, NEW v \in Vehicles, Archive(x, v)
        PROVE  Position(w) = Position(w)' /\ ctx'[w] = ctx[w]
    BY <1>1, <1>6 DEF Archive
  <1> QED
    BY <1>2, <1>3, <1>4, <1>5, <1>6 DEF StockNext, ChangeStatusStep

LEMMA ReservationsKeepPosition ==
    ASSUME TypeOK, ReservationsNext, NEW w \in Workers, Position(w)' \in SaleLabels
    PROVE  Position(w) = Position(w)' /\ ctx'[w] = ctx[w]
  <1> USE DEF handlerVars, stockVars, Resume, Finish, Invoke, SetLocals, TakeBatch, Position,
              InChangeStatus, SaleLabels
  <1>1. /\ pc \in [Workers -> Labels] /\ call \in [Workers -> Calls \cup {NULL}]
        /\ ctx \in [Workers -> ReservationLocals \cup SaleLocals \cup {NULL}]
    BY DEF TypeOK
  <1>2. ASSUME NEW x \in Workers, CancelStep(x)
        PROVE  Position(w) = Position(w)' /\ ctx'[w] = ctx[w]
    BY <1>1, <1>2 DEF CancelStep, CancelReadsReserved, CancelReadsOther
  <1>3. ASSUME NEW x \in Workers, ExpiryStep(x)
        PROVE  Position(w) = Position(w)' /\ ctx'[w] = ctx[w]
    BY <1>1, <1>3 DEF ExpiryStep, ExpireNext, ExpireDone, ExpireReadVehicle, ExpireFree, ExpireLog
  <1>4. ASSUME NEW x \in Workers, StartExpiry(x)
        PROVE  Position(w) = Position(w)' /\ ctx'[w] = ctx[w]
    BY <1>1, <1>4 DEF StartExpiry
  <1>5. ASSUME NEW x \in Workers, NEW r \in Reservations, CancelReservation(x, r)
        PROVE  Position(w) = Position(w)' /\ ctx'[w] = ctx[w]
    BY <1>1, <1>5 DEF CancelReservation
  <1>6. ASSUME NEW x \in Workers, NEW r \in Reservations, NEW v \in Vehicles,
               CreateReservation(x, r, v)
        PROVE  Position(w) = Position(w)' /\ ctx'[w] = ctx[w]
    BY <1>1, <1>6 DEF CreateReservation
  <1>7. ASSUME NEW r \in Reservations, Elapse(r)
        PROVE  Position(w) = Position(w)' /\ ctx'[w] = ctx[w]
    BY <1>1, <1>7 DEF Elapse
  <1> QED
    BY <1>2, <1>3, <1>4, <1>5, <1>6, <1>7 DEF ReservationsNext

\* Of the steps of the sales, only a handler's own moves it within its labels.
LEMMA SalesMovePosition ==
    ASSUME TypeOK, SalesNext, NEW w \in Workers, Position(w)' \in SaleLabels
    PROVE  \/ \E s \in Sales, v \in Vehicles, p \in Prices : RequestSale(w, s, v, p)
           \/ \E s \in Sales, p \in Prices : RequestCompletion(w, s, p)
           \/ \E s \in Sales : CancelSale(w, s)
           \/ CompletionStep(w)
           \/ Position(w) = Position(w)' /\ ctx'[w] = ctx[w]
  <1> USE DEF handlerVars, stockVars, Resume, Finish, Invoke, Await, MoveIfAllowed, Position,
              InChangeStatus, SaleLabels
  <1>1. /\ pc \in [Workers -> Labels] /\ call \in [Workers -> Calls \cup {NULL}]
        /\ ctx \in [Workers -> ReservationLocals \cup SaleLocals \cup {NULL}]
    BY DEF TypeOK
  <1>2. ASSUME NEW x \in Workers, CompletionStep(x), x # w
        PROVE  Position(w) = Position(w)' /\ ctx'[w] = ctx[w]
    BY <1>1, <1>2 DEF CompletionStep, CompleteSale, PriceVehicle, SellVehicle, PostRevenue,
       FindCommission, CreateCommission
  <1>3. ASSUME NEW x \in Workers, x # w,
               \/ \E s \in Sales, v \in Vehicles, p \in Prices : RequestSale(x, s, v, p)
               \/ \E s \in Sales, p \in Prices : RequestCompletion(x, s, p)
               \/ \E s \in Sales : CancelSale(x, s)
        PROVE  Position(w) = Position(w)' /\ ctx'[w] = ctx[w]
    BY <1>1, <1>3 DEF RequestSale, RequestCompletion, CancelSale
  <1>4. ASSUME NEW x \in Workers, NEW s \in Sales, NEW p \in Prices, UpdateSale(x, s, p)
        PROVE  Position(w) = Position(w)' /\ ctx'[w] = ctx[w]
    BY <1>1, <1>4 DEF UpdateSale
  <1>5. ASSUME NEW x \in Workers, NEW s \in Sales, NEW st \in OpenStatuses, AdvanceSale(x, s, st)
        PROVE  Position(w) = Position(w)' /\ ctx'[w] = ctx[w]
    BY <1>1, <1>5 DEF AdvanceSale
  <1>6. ASSUME NEW x \in Workers, NEW s \in Sales, NEW st \in {"APPROVED", "PAID", "CANCELED"},
               SetCommission(x, s, st)
        PROVE  Position(w) = Position(w)' /\ ctx'[w] = ctx[w]
    BY <1>1, <1>6 DEF SetCommission
  <1>7. ASSUME NEW x \in Workers, NEW s \in Sales, MarkDelivered(x, s)
        PROVE  Position(w) = Position(w)' /\ ctx'[w] = ctx[w]
    BY <1>1, <1>7 DEF MarkDelivered
  <1>8. ASSUME NEW x \in Workers, InsertSale(x)
        PROVE  Position(w) = Position(w)' /\ ctx'[w] = ctx[w]
    BY <1>1, <1>8 DEF InsertSale
  <1>9. ASSUME NEW x \in Workers, WriteCanceled(x)
        PROVE  Position(w) = Position(w)' /\ ctx'[w] = ctx[w]
    BY <1>1, <1>9 DEF WriteCanceled
  <1> QED
    BY <1>2, <1>3, <1>4, <1>5, <1>6, <1>7, <1>8, <1>9 DEF SalesNext

\* So every handler that stands at a sale label got there by a step of its own
\* service, or stood there before.
LEMMA PositionReached ==
    ASSUME TypeOK, [Next]_vars, NEW w \in Workers, Position(w)' \in SaleLabels
    PROVE  \/ \E s \in Sales, v \in Vehicles, p \in Prices : RequestSale(w, s, v, p)
           \/ \E s \in Sales, p \in Prices : RequestCompletion(w, s, p)
           \/ \E s \in Sales : CancelSale(w, s)
           \/ CompletionStep(w)
           \/ Position(w) = Position(w)' /\ ctx'[w] = ctx[w]
  <1>1. CASE UNCHANGED vars
    BY <1>1 DEF vars, stockVars, handlerVars, Position, InChangeStatus
  <1> QED
    BY <1>1, StockKeepsPosition, ReservationsKeepPosition, SalesMovePosition DEF Next

LEMMA CompletionReached ==
    ASSUME TypeOK, [Next]_vars, NEW w \in Workers, Position(w)' \in CompletionLabels
    PROVE  \/ \E s \in Sales, p \in Prices : RequestCompletion(w, s, p)
           \/ Position(w) \in CompletionLabels /\ ctx'[w] = ctx[w]
  <1> USE DEF Position, InChangeStatus, CompletionLabels, PricedLabels
  <1>1. pc \in [Workers -> Labels] /\ call \in [Workers -> Calls \cup {NULL}]
    BY DEF TypeOK
  <1>2. Position(w)' \in SaleLabels
    BY DEF SaleLabels
  <1>3. ASSUME NEW s \in Sales, NEW v \in Vehicles, NEW p \in Prices, RequestSale(w, s, v, p)
        PROVE  FALSE
    BY <1>1, <1>3 DEF RequestSale, Resume
  <1>4. ASSUME NEW s \in Sales, CancelSale(w, s)
        PROVE  FALSE
    BY <1>1, <1>4 DEF CancelSale, MoveIfAllowed, Invoke, Await, Resume
  <1>5. ASSUME CompletionStep(w)
        PROVE  Position(w) \in CompletionLabels /\ ctx'[w] = ctx[w]
    BY <1>1, <1>5 DEF CompletionStep, CompleteSale, PriceVehicle, SellVehicle, PostRevenue,
       FindCommission, CreateCommission, Finish, Await, Resume
  <1> QED
    BY <1>2, <1>3, <1>4, <1>5, PositionReached

LEMMA PricedReached ==
    ASSUME TypeOK, [Next]_vars, NEW w \in Workers, Position(w)' \in PricedLabels
    PROVE  \/ PriceVehicle(w)
           \/ Position(w) \in PricedLabels /\ ctx'[w] = ctx[w]
  <1> USE DEF Position, InChangeStatus, PricedLabels
  <1>1. pc \in [Workers -> Labels] /\ call \in [Workers -> Calls \cup {NULL}]
    BY DEF TypeOK
  <1>2. Position(w)' \in SaleLabels
    BY DEF SaleLabels
  <1>3. ASSUME \/ \E s \in Sales, v \in Vehicles, p \in Prices : RequestSale(w, s, v, p)
               \/ \E s \in Sales, p \in Prices : RequestCompletion(w, s, p)
        PROVE  FALSE
    BY <1>1, <1>3 DEF RequestSale, RequestCompletion, Await, Resume
  <1>4. ASSUME NEW s \in Sales, CancelSale(w, s)
        PROVE  FALSE
    BY <1>1, <1>4 DEF CancelSale, MoveIfAllowed, Invoke, Await, Resume
  <1>5. ASSUME CompletionStep(w), ~PriceVehicle(w)
        PROVE  Position(w) \in PricedLabels /\ ctx'[w] = ctx[w]
    BY <1>1, <1>5 DEF CompletionStep, CompleteSale, SellVehicle, PostRevenue, FindCommission,
       CreateCommission, Finish, Await, Resume
  <1> QED
    BY <1>2, <1>3, <1>4, <1>5, PositionReached

LEMMA InsertReached ==
    ASSUME TypeOK, [Next]_vars, NEW w \in Workers, pc'[w] = "createSale.insert"
    PROVE  \/ \E s \in Sales, v \in Vehicles, p \in Prices : RequestSale(w, s, v, p)
           \/ pc[w] = "createSale.insert" /\ ctx'[w] = ctx[w]
  <1> USE DEF Position, InChangeStatus
  <1>1. pc \in [Workers -> Labels] /\ call \in [Workers -> Calls \cup {NULL}]
    BY DEF TypeOK
  <1>2. Position(w)' \in SaleLabels
    BY DEF SaleLabels
  <1>3. ASSUME NEW s \in Sales, NEW p \in Prices, RequestCompletion(w, s, p)
        PROVE  FALSE
    BY <1>1, <1>3 DEF RequestCompletion, Await, Resume
  <1>4. ASSUME NEW s \in Sales, CancelSale(w, s)
        PROVE  FALSE
    BY <1>1, <1>4 DEF CancelSale, MoveIfAllowed, Invoke, Await, Resume
  <1>5. ASSUME CompletionStep(w)
        PROVE  FALSE
    BY <1>1, <1>5 DEF CompletionStep, CompleteSale, PriceVehicle, SellVehicle, PostRevenue,
       FindCommission, CreateCommission, Finish, Await, Resume, MoveIfAllowed, Invoke
  <1>6. ASSUME Position(w) = Position(w)'
        PROVE  pc[w] = "createSale.insert"
    <2>1. InChangeStatus(w) => call[w] \in Calls
      BY DEF TypeOK, HandlerOK
    <2> QED
      BY <1>6, <2>1 DEF Calls
  <1> QED
    BY <1>2, <1>3, <1>4, <1>5, <1>6, PositionReached

-----------------------------------------------------------------------------
(* The parts of the invariant                                              *)

LEMMA CarriesPriceStep ==
    ASSUME TypeOK, RevenueInv, [Next]_vars, NEW w \in Workers
    PROVE  CarriesPrice(w)'
  <1>1. CASE \E s \in Sales, p \in Prices : RequestCompletion(w, s, p)
    <2>1. PICK s \in Sales, p \in Prices : RequestCompletion(w, s, p)
      BY <1>1
    <2>2. ctx'[w] = [sale |-> s, vehicle |-> sale[s].vehicle, price |-> p] /\ p # 0
      BY <2>1 DEF RequestCompletion, TypeOK
    <2>3. UNCHANGED sale
      BY <2>1 DEF RequestCompletion, saleVars
    <2> QED
      BY <2>2, <2>3 DEF CarriesPrice
  <1>2. CASE Position(w) \in CompletionLabels /\ ctx'[w] = ctx[w]
    <2>1. ctx[w].price # 0 /\ ctx[w].vehicle = sale[ctx[w].sale].vehicle
      BY <1>2 DEF RevenueInv, CarriesPrice
    <2>2. ctx[w].sale \in Sales /\ sale[ctx[w].sale] # NULL
      BY <1>2 DEF TypeOK, HandlerOK, SaleLocals, SaleLabels, CompletionLabels, PricedLabels
    <2> QED
      BY <1>2, <2>1, <2>2, SaleKeepsVehicle DEF CarriesPrice
  <1>3. CASE Position(w)' \notin CompletionLabels
    BY <1>3 DEF CarriesPrice
  <1> QED
    BY <1>1, <1>2, <1>3, CompletionReached

LEMMA HasPricedStep ==
    ASSUME TypeOK, RevenueInv, [Next]_vars, NEW w \in Workers
    PROVE  HasPriced(w)'
  <1>1. CASE PriceVehicle(w)
    <2>1. ctx[w] \in SaleLocals /\ ctx[w].price # 0
      BY <1>1 DEF PriceVehicle, RevenueInv, CarriesPrice, TypeOK, HandlerOK, Position,
         InChangeStatus, SaleLabels, CompletionLabels
    <2>2. soldPrice'[ctx[w].vehicle] = ctx[w].price /\ UNCHANGED ctx
      BY <1>1, <2>1 DEF PriceVehicle, TypeOK, SaleLocals
    <2> QED
      BY <2>1, <2>2 DEF HasPriced
  <1>2. CASE Position(w) \in PricedLabels /\ ctx'[w] = ctx[w]
    <2>1. ctx[w].vehicle \in Vehicles /\ soldPrice[ctx[w].vehicle] # 0
      BY <1>2 DEF RevenueInv, HasPriced, TypeOK, HandlerOK, SaleLocals, SaleLabels, PricedLabels
    <2> QED
      BY <1>2, <2>1, PriceStays DEF HasPriced
  <1>3. CASE Position(w)' \notin PricedLabels
    BY <1>3 DEF HasPriced
  <1> QED
    BY <1>1, <1>2, <1>3, PricedReached

LEMMA OwnsIdStep ==
    ASSUME TypeOK, RevenueInv, [Next]_vars, NEW w \in Workers
    PROVE  OwnsId(w)'
  <1> SUFFICES ASSUME pc'[w] = "createSale.insert"
               PROVE  /\ sale'[ctx'[w].sale] = NULL
                      /\ \A x \in Workers \ {w} :
                            pc'[x] = "createSale.insert" => ctx'[x].sale # ctx'[w].sale
    BY DEF OwnsId
  <1>1. /\ pc \in [Workers -> Labels]
        /\ ctx \in [Workers -> ReservationLocals \cup SaleLocals \cup {NULL}]
    BY DEF TypeOK
  <1>2. CASE \E s \in Sales, v \in Vehicles, p \in Prices : RequestSale(w, s, v, p)
    BY <1>1, <1>2 DEF RequestSale, saleVars, Resume
  <1>3. CASE pc[w] = "createSale.insert" /\ ctx'[w] = ctx[w]
    <2>1. /\ sale[ctx[w].sale] = NULL /\ ctx[w].sale \in Sales
          /\ \A x \in Workers \ {w} :
                pc[x] = "createSale.insert" => ctx[x].sale # ctx[w].sale
      BY <1>3 DEF RevenueInv, OwnsId, TypeOK, HandlerOK, Position, InChangeStatus, SaleLabels,
         SaleLocals
    <2>2. sale'[ctx[w].sale] = NULL
      <3>1. SUFFICES ASSUME NEW x \in Workers, InsertSale(x), ctx[x].sale = ctx[w].sale
                     PROVE  FALSE
        BY <2>1, SaleAppears
      <3>2. x = w
        BY <2>1, <3>1 DEF InsertSale
      <3>3. pc'[w] # "createSale.insert"
        BY <1>1, <3>1, <3>2 DEF InsertSale, Invoke, Finish
      <3> QED
        BY <3>3
    <2>3. ASSUME NEW x \in Workers \ {w}, pc'[x] = "createSale.insert"
          PROVE  ctx'[x].sale # ctx[w].sale
      <3>1. CASE \E s \in Sales, v \in Vehicles, p \in Prices : RequestSale(x, s, v, p)
        <4>1. PICK s \in Sales, v \in Vehicles, p \in Prices : RequestSale(x, s, v, p)
          BY <3>1
        <4>2. ctx'[x].sale = s /\ ctx[w].sale # s
          BY <1>1, <1>3, <4>1 DEF RequestSale
        <4> QED
          BY <4>2
      <3>2. CASE pc[x] = "createSale.insert" /\ ctx'[x] = ctx[x]
        BY <2>1, <3>2
      <3> QED
        BY <2>3, <3>1, <3>2, InsertReached
    <2> QED
      BY <1>3, <2>2, <2>3
  <1> QED
    BY <1>2, <1>3, InsertReached

\* A posting is made for a sale that exists, by a handler past its second write.
LEMMA PostingMade ==
    ASSUME TypeOK, RevenueInv, NEW w \in Workers, PostRevenue(w)
    PROVE  /\ ctx[w].sale \in Sales /\ sale[ctx[w].sale] # NULL
           /\ ctx[w].price # 0 /\ soldPrice[sale[ctx[w].sale].vehicle] # 0
           /\ UNCHANGED <<sale, soldPrice>>
           /\ \A s \in Sales, p \in Prices :
                 posted'[s][p] > 0 =>
                     posted[s][p] > 0 \/ (s = ctx[w].sale /\ p = ctx[w].price)
  <1>1. Position(w) = "complete.revenue"
    BY DEF PostRevenue, Position, InChangeStatus
  <1>2. ctx[w] \in SaleLocals /\ sale[ctx[w].sale] # NULL
    BY <1>1 DEF TypeOK, HandlerOK, SaleLabels
  <1>3. /\ ctx[w].price # 0 /\ ctx[w].vehicle = sale[ctx[w].sale].vehicle
        /\ soldPrice[ctx[w].vehicle] # 0
    BY <1>1 DEF RevenueInv, CarriesPrice, HasPriced, CompletionLabels, PricedLabels
  <1>4. ASSUME NEW s \in Sales, NEW p \in Prices, posted'[s][p] > 0
        PROVE  posted[s][p] > 0 \/ (s = ctx[w].sale /\ p = ctx[w].price)
    BY <1>2, <1>4 DEF PostRevenue, TypeOK, SaleLocals
  <1> QED
    BY <1>2, <1>3, <1>4 DEF PostRevenue, SaleLocals

LEMMA PostingsPriced ==
    ASSUME TypeOK, RevenueInv, [Next]_vars
    PROVE  RevenueIsPriced' /\ PostedExists'
  <1> SUFFICES ASSUME NEW s \in Sales, NEW p \in Prices, posted'[s][p] > 0
               PROVE  /\ p # 0 /\ soldPrice'[sale'[s].vehicle] # 0
                      /\ sale'[s] # NULL
    BY DEF RevenueIsPriced, PostedExists
  <1>1. CASE posted[s][p] > 0
    <2>1. /\ p # 0 /\ soldPrice[sale[s].vehicle] # 0 /\ sale[s] # NULL
      BY <1>1 DEF RevenueInv, RevenueIsPriced, PostedExists
    <2>2. sale[s].vehicle \in Vehicles
      BY <2>1 DEF TypeOK, SaleRows
    <2> QED
      BY <2>1, <2>2, SaleKeepsVehicle, PriceStays
  <1>2. CASE ~(posted[s][p] > 0)
    <2>1. PICK w \in Workers : PostRevenue(w)
      BY <1>2, PostedWritten
    <2> QED
      BY <1>2, <2>1, PostingMade
  <1> QED
    BY <1>1, <1>2

LEMMA RevenueStep == TypeOK /\ RevenueInv /\ [Next]_vars => RevenueInv'
  BY CarriesPriceStep, HasPricedStep, OwnsIdStep, PostingsPriced DEF RevenueInv

LEMMA RevenueInit == Init => RevenueInv
  <1> SUFFICES ASSUME Init PROVE RevenueInv
    OBVIOUS
  <1>1. \A s \in Sales, p \in Prices : posted[s][p] = 0
    BY DEF Init, SalesInit
  <1>2. \A w \in Workers : pc[w] = "idle"
    BY DEF Init, StockInit
  <1> QED
    BY <1>1, <1>2 DEF RevenueInv, RevenueIsPriced, PostedExists, CarriesPrice, HasPriced,
       OwnsId, Position, InChangeStatus, CompletionLabels, PricedLabels

\* Whatever overlaps, is re-priced, canceled or dies half-way: no revenue entry
\* of price zero, and none for a vehicle without a soldPrice.
THEOREM RevenueHasAPrice == Spec => []RevenueIsPriced
  <1>1. RevenueInv => RevenueIsPriced
    BY DEF RevenueInv
  <1> QED
    BY <1>1, RevenueInit, RevenueStep, TypeCorrect, PTL DEF Spec

-----------------------------------------------------------------------------
(***************************************************************************)
(* One handler at a time.  Nothing overtakes a handler between the row it  *)
(* has read and the row it writes, so that whatever guard it has looked at *)
(* still holds: the vehicles follow the abstract Lifecycle, only reserved  *)
(* ones are freed, a completed sale gets its books, and no vehicle stays   *)
(* reserved without a reservation.  With two handlers none of it is true.  *)
(***************************************************************************)
Alone == \A a, b \in Workers : a = b

\* What a handler that is alone has read is what there is.
Current(w) ==
    /\ pc[w] = "changeStatus.commit" => seen[w] = vehicle[call[w].vehicle]
    /\ pc[w] = "expire.free" => vehicle[VehicleOf(w)].status = "RESERVED"
    /\ InChangeStatus(w) /\ call[w].reason = "reservation_canceled" =>
           vehicle[call[w].vehicle].status = "RESERVED"

SerialInv == \A w \in Workers : Current(w)

\* The books of a completed sale are closed, or the handler that is at it will close them:
\* it has dated the vehicle, and changeStatus will not reject what it asks for.
Booked(s) ==
    /\ \E p \in Prices : posted[s][p] > 0
    /\ commission[s] # NULL
    /\ vehicle[sale[s].vehicle].soldAt

Underway(w, s) == Position(w) \in CompletionLabels \ {"complete.sale"} /\ ctx[w].sale = s

Dated(w) == Position(w) \in PricedLabels => vehicle[ctx[w].vehicle].soldAt

WillSell(w) ==
    pc[w] = "changeStatus.read" /\ call[w].next = "complete.revenue" =>
        IsTransitionAllowed(vehicle[call[w].vehicle].status, call[w].to)

BookedInv ==
    /\ \A s \in Sales :
          sale[s] # NULL /\ sale[s].status = "COMPLETED" =>
              Booked(s) \/ \E w \in Workers : Underway(w, s)
    /\ \A w \in Workers : Dated(w) /\ WillSell(w)

\* A reserved vehicle has an active reservation, or the handler that has just closed the
\* last one is on its way to free it.
Backs(r, v) == Exists(r) /\ reservation[r].vehicle = v /\ reservation[r].status = "ACTIVE"

Freeing(w, v) ==
    \/ /\ pc[w] \in {"cancel.readVehicle", "expire.readVehicle", "expire.free"}
       /\ VehicleOf(w) = v
    \/ InChangeStatus(w) /\ call[w].reason = "reservation_canceled" /\ call[w].vehicle = v

CallBacked(w) ==
    InChangeStatus(w) =>
        /\ call[w].to = "RESERVED" => \E r \in Reservations : Backs(r, call[w].vehicle)
        /\ call[w].reason = "reservation_canceled" => call[w].to = "AVAILABLE"

ReservedInv ==
    /\ \A v \in Vehicles :
          vehicle[v].status = "RESERVED" =>
              (\E r \in Reservations : Backs(r, v)) \/ (\E w \in Workers : Freeing(w, v))
    /\ \A w \in Workers : CallBacked(w)

-----------------------------------------------------------------------------
(* Nobody else writes                                                      *)

\* A handler at work that is alone: the vehicles change by its own step.
LEMMA OwnWrites ==
    ASSUME Alone, [Next]_vars, NEW w \in Workers,
           pc[w] \in {"changeStatus.read", "changeStatus.commit", "expire.free"}
    PROVE  \/ UNCHANGED vehicle
           \/ pc[w] = "changeStatus.commit" /\ CommitStatus(w)
           \/ pc[w] = "expire.free" /\ ExpireFree(w)
  BY VehicleWritten DEF Alone, CommitStatus, Committed, ExpireFree, PriceVehicle, Archive

LEMMA CommitLeaves ==
    ASSUME TypeOK, NEW w \in Workers, CommitStatus(w)
    PROVE  pc'[w] \notin {"changeStatus.read", "changeStatus.commit", "expire.free"}
<1>1. call[w] \in Calls /\ pc \in [Workers -> Labels]
  BY DEF CommitStatus, Committed, TypeOK, HandlerOK, InChangeStatus
<1> QED BY <1>1 DEF CommitStatus, Committed, Resume, Calls

LEMMA FreeLeaves ==
    ASSUME TypeOK, NEW w \in Workers, ExpireFree(w) PROVE pc'[w] = "expire.log"
  BY DEF ExpireFree, Resume, TypeOK

\* The job that is about to free a vehicle has just read it, or waits while time passes.
LEMMA FreeEntered ==
    ASSUME Alone, TypeOK, [Next]_vars, NEW w \in Workers, pc'[w] = "expire.free"
    PROVE  \/ ExpireReadVehicle(w) /\ vehicle[VehicleOf(w)].status = "RESERVED"
           \/ /\ pc[w] = "expire.free" /\ UNCHANGED stockVars
              /\ UNCHANGED reservation \/ (\E r \in Reservations : Elapse(r))
<1> USE DEF handlerVars, stockVars, MoveIfAllowed, Await, Resume, Finish, Invoke, SetLocals
<1>1. pc \in [Workers -> Labels]
  BY DEF TypeOK
<1>2. CASE StockNext
  <2>1. ASSUME NEW x \in Workers, CommitStatus(x) PROVE FALSE
    BY <2>1, CommitLeaves DEF Alone
  <2> QED
    BY <1>1, <1>2, <2>1 DEF Alone, StockNext, ChangeStatusStep, RequestStatus, Archive,
       ReadVehicle, RejectTransition, Fail
<1>3. CASE ReservationsNext
  BY <1>1, <1>3 DEF Alone, ReservationsNext, CreateReservation, CancelReservation,
     CancelReadsReserved, CancelReadsOther, StartExpiry, ExpireNext, ExpireDone,
     ExpireReadVehicle, ExpireFree, ExpireLog, Elapse, CancelStep, ExpiryStep
<1>4. CASE SalesNext
  <2>1. CASE \E x \in Workers : CompletionStep(x)
    BY <1>1, <2>1 DEF Alone, CompletionStep, CompleteSale, PriceVehicle, SellVehicle,
       PostRevenue, FindCommission, CreateCommission
  <2> QED
    BY <1>1, <1>4, <2>1 DEF Alone, SalesNext, RequestSale, InsertSale, UpdateSale, AdvanceSale,
       CancelSale, WriteCanceled, RequestCompletion, SetCommission, MarkDelivered
<1> QED BY <1>2, <1>3, <1>4 DEF Next, vars

\* changeStatus is called for a cancelation once the vehicle is seen reserved.
LEMMA CancelCalled ==
    ASSUME Alone, TypeOK, [Next]_vars, NEW w \in Workers, InChangeStatus(w)',
           call'[w].reason = "reservation_canceled"
    PROVE  CancelReadsReserved(w) \/ (InChangeStatus(w) /\ call'[w] = call[w])
<1> USE DEF handlerVars, stockVars, MoveIfAllowed, Await, Resume, Finish, Invoke, SetLocals,
            InChangeStatus
<1>1. pc \in [Workers -> Labels] /\ call \in [Workers -> Calls \cup {NULL}]
  BY DEF TypeOK
<1>2. CASE StockNext
  <2>1. ASSUME NEW x \in Workers, CommitStatus(x) PROVE FALSE
    BY <2>1, CommitLeaves DEF Alone
  <2> QED
    BY <1>1, <1>2, <2>1 DEF Alone, StockNext, ChangeStatusStep, RequestStatus, Archive,
       ReadVehicle, RejectTransition, Fail
<1>3. CASE ReservationsNext
  <2>1. ASSUME NEW x \in Workers, CancelReadsReserved(x) PROVE CancelReadsReserved(w)
    BY <2>1 DEF Alone
  <2>2. ASSUME NEW x \in Workers, NEW r \in Reservations, NEW v \in Vehicles,
               CreateReservation(x, r, v)
        PROVE  FALSE
    BY <1>1, <2>2 DEF Alone, CreateReservation
  <2>3. ASSUME NEW x \in Workers,
               \/ \E r \in Reservations : CancelReservation(x, r)
               \/ CancelReadsOther(x) \/ StartExpiry(x) \/ ExpiryStep(x)
        PROVE  FALSE
    BY <1>1, <2>3 DEF Alone, CancelReservation, CancelReadsOther, StartExpiry, ExpiryStep,
       ExpireNext, ExpireDone, ExpireReadVehicle, ExpireFree, ExpireLog
  <2>4. ASSUME NEW r \in Reservations, Elapse(r)
        PROVE  InChangeStatus(w) /\ call'[w] = call[w]
    BY <2>4 DEF Elapse
  <2> QED BY <1>3, <2>1, <2>2, <2>3, <2>4 DEF ReservationsNext, CancelStep
<1>4. CASE SalesNext
  <2>1. CASE \E x \in Workers : CompletionStep(x)
    BY <1>1, <2>1 DEF Alone, CompletionStep, CompleteSale, PriceVehicle, SellVehicle,
       PostRevenue, FindCommission, CreateCommission
  <2> QED
    BY <1>1, <1>4, <2>1 DEF Alone, SalesNext, RequestSale, InsertSale, UpdateSale, AdvanceSale,
       CancelSale, WriteCanceled, RequestCompletion, SetCommission, MarkDelivered
<1> QED BY <1>2, <1>3, <1>4 DEF Next, vars

-----------------------------------------------------------------------------
(* What has been read is current                                           *)

LEMMA SerialStep == Alone /\ TypeOK /\ SerialInv /\ [Next]_vars => SerialInv'
<1> SUFFICES ASSUME Alone, TypeOK, SerialInv, [Next]_vars, NEW w \in Workers
             PROVE  Current(w)'
  BY DEF SerialInv
<1>1. pc'[w] = "changeStatus.commit" => seen'[w] = vehicle'[call'[w].vehicle]
  <2> SUFFICES ASSUME pc'[w] = "changeStatus.commit"
               PROVE  seen'[w] = vehicle'[call'[w].vehicle]
    OBVIOUS
  <2>1. CASE ReadVehicle(w)
    BY <2>1 DEF ReadVehicle, TypeOK, StockTypeOK
  <2>2. CASE pc[w] = "changeStatus.commit" /\ call'[w] = call[w] /\ seen'[w] = seen[w]
    <3>1. UNCHANGED vehicle
      BY <2>2, OwnWrites, CommitLeaves
    <3> QED BY <2>2, <3>1 DEF SerialInv, Current
  <2> QED BY <2>1, <2>2, CommitEntered
<1>2. pc'[w] = "expire.free" => vehicle'[VehicleOf(w)'].status = "RESERVED"
  <2> SUFFICES ASSUME pc'[w] = "expire.free"
               PROVE  vehicle'[VehicleOf(w)'].status = "RESERVED"
    OBVIOUS
  <2>1. CASE ExpireReadVehicle(w) /\ vehicle[VehicleOf(w)].status = "RESERVED"
    BY <2>1 DEF ExpireReadVehicle, VehicleOf
  <2>2. CASE /\ pc[w] = "expire.free" /\ UNCHANGED stockVars
             /\ UNCHANGED reservation \/ (\E r \in Reservations : Elapse(r))
    <3>1. VehicleOf(w)' = VehicleOf(w)
      <4>1. ctx[w].reservation \in Reservations
        BY <2>2 DEF TypeOK, HandlerOK, Position, InChangeStatus, ReservationLabels
      <4>2. reservation'[ctx[w].reservation].vehicle = reservation[ctx[w].reservation].vehicle
        BY <2>2, <4>1 DEF Elapse, Exists, TypeOK, ReservationRows
      <4> QED BY <2>2, <4>2 DEF VehicleOf, stockVars, handlerVars
    <3>2. vehicle[VehicleOf(w)].status = "RESERVED"
      BY <2>2 DEF SerialInv, Current
    <3> QED BY <2>2, <3>1, <3>2 DEF stockVars
  <2> QED BY <2>1, <2>2, FreeEntered
<1>3. InChangeStatus(w)' /\ call'[w].reason = "reservation_canceled" =>
          vehicle'[call'[w].vehicle].status = "RESERVED"
  <2> SUFFICES ASSUME InChangeStatus(w)', call'[w].reason = "reservation_canceled"
               PROVE  vehicle'[call'[w].vehicle].status = "RESERVED"
    OBVIOUS
  <2>1. CASE CancelReadsReserved(w)
    BY <2>1 DEF CancelReadsReserved, Invoke, TypeOK
  <2>2. CASE InChangeStatus(w) /\ call'[w] = call[w]
    <3>1. UNCHANGED vehicle
      BY <2>2, OwnWrites, CommitLeaves DEF InChangeStatus
    <3> QED BY <2>2, <3>1 DEF SerialInv, Current
  <2> QED BY <2>1, <2>2, CancelCalled
<1> QED BY <1>1, <1>2, <1>3 DEF Current

LEMMA SerialInit == Init => SerialInv
  BY DEF Init, StockInit, SerialInv, Current, InChangeStatus

-----------------------------------------------------------------------------
(* Only reserved vehicles are freed                                        *)

LEMMA FreeStep ==
    Alone /\ TypeOK /\ SerialInv /\ [Next]_vars =>
        [\A w \in Workers :
            /\ CancelFrees(w) => vehicle[call[w].vehicle].status = "RESERVED"
            /\ ExpiryFrees(w) => vehicle[VehicleOf(w)].status = "RESERVED"]_vars
<1> SUFFICES ASSUME SerialInv, NEW w \in Workers
             PROVE  /\ CancelFrees(w) => vehicle[call[w].vehicle].status = "RESERVED"
                    /\ ExpiryFrees(w) => vehicle[VehicleOf(w)].status = "RESERVED"
  OBVIOUS
<1> QED BY DEF SerialInv, Current, CancelFrees, ExpiryFrees, InChangeStatus

\* One handler at a time, neither a cancelation nor the job takes a vehicle out of a status
\* other than RESERVED ("only if still reserved", reservations.service.ts).
THEOREM OnlyReservedAreFreed == ASSUME Alone PROVE Spec => FreesOnlyReserved
<1>1. Alone
  OBVIOUS
<1> QED BY <1>1, SerialInit, SerialStep, FreeStep, TypeCorrect, PTL DEF Spec, FreesOnlyReserved

-----------------------------------------------------------------------------
(* The vehicles follow their life cycle                                    *)

LEMMA AlwaysArchived == \A s \in VehicleStatuses : IsTransitionAllowed(s, "ARCHIVED")
  BY DEF VehicleStatuses, IsTransitionAllowed, Transitions

LEMMA LifecycleInit == Init => Promise!Init
  BY DEF Init, StockInit, Promise!Init

\* A step that writes one vehicle moves it along the table, or dates its sale.
LEMMA Moves ==
    ASSUME TypeOK, NEW v \in Vehicles, NEW to \in VehicleStatuses,
           IsTransitionAllowed(vehicle[v].status, to),
           vehicle' = [vehicle EXCEPT ![v] =
                         [status |-> to, soldAt |-> vehicle[v].soldAt \/ to = "SOLD"]]
    PROVE  Promise!Next
<1>1. vehicle \in [Vehicles -> VehicleRows]
  BY DEF TypeOK, StockTypeOK
<1>2. [u \in Vehicles |-> vehicle'[u].status] =
          [[u \in Vehicles |-> vehicle[u].status] EXCEPT ![v] = to]
  BY <1>1
<1>3. [u \in Vehicles |-> vehicle'[u].soldAt] =
          [[u \in Vehicles |-> vehicle[u].soldAt] EXCEPT ![v] = @ \/ to = "SOLD"]
  BY <1>1
<1>4. Promise!Move(v, to)
  BY <1>2, <1>3 DEF Promise!Move, Promise!IsTransitionAllowed, IsTransitionAllowed,
     Promise!Transitions, Transitions
<1> QED BY <1>4 DEF Promise!Next, Promise!VehicleStatuses, VehicleStatuses

LEMMA MovesUnsold ==
    ASSUME TypeOK, NEW v \in Vehicles, NEW to \in VehicleStatuses \ {"SOLD"},
           IsTransitionAllowed(vehicle[v].status, to),
           vehicle' = [vehicle EXCEPT ![v].status = to]
    PROVE  Promise!Next
<1>1. vehicle[v] \in VehicleRows
  BY DEF TypeOK, StockTypeOK
<1>2. [vehicle[v] EXCEPT !.status = to] = [status |-> to, soldAt |-> vehicle[v].soldAt]
  BY <1>1 DEF VehicleRows
<1>3. (vehicle[v].soldAt \/ to = "SOLD") = vehicle[v].soldAt
  BY <1>1 DEF VehicleRows
<1>4. vehicle' = [vehicle EXCEPT ![v] =
                    [status |-> to, soldAt |-> vehicle[v].soldAt \/ to = "SOLD"]]
  BY <1>2, <1>3
<1> QED BY <1>4, Moves

LEMMA LifecycleStep ==
    Alone /\ TypeOK /\ LegalInv /\ SerialInv /\ [Next]_vars =>
        [Promise!Next]_(Promise!lifecycleVars)
<1> SUFFICES ASSUME Alone, TypeOK, LegalInv, SerialInv, [Next]_vars, vehicle' # vehicle
             PROVE  Promise!Next
  BY DEF Promise!lifecycleVars
<1>1. vehicle \in [Vehicles -> VehicleRows]
  BY DEF TypeOK, StockTypeOK
<1>2. ASSUME NEW w \in Workers, CommitStatus(w) PROVE Promise!Next
  <2> DEFINE v == call[w].vehicle
             to == call[w].to
  <2>1. pc[w] = "changeStatus.commit" /\ call[w] \in Calls
    BY <1>2 DEF CommitStatus, Committed, TypeOK, HandlerOK, InChangeStatus
  <2>2. v \in Vehicles /\ to \in VehicleStatuses
    BY <2>1 DEF Calls
  <2>3. seen[w] = vehicle[v] /\ IsTransitionAllowed(vehicle[v].status, to)
    BY <2>1 DEF SerialInv, Current, LegalInv, Accepted
  <2>4. vehicle' = [vehicle EXCEPT ![v] =
                      [status |-> to, soldAt |-> to = "SOLD" \/ vehicle[v].soldAt]]
    BY <1>2, <2>3 DEF CommitStatus
  <2>5. (to = "SOLD" \/ vehicle[v].soldAt) = (vehicle[v].soldAt \/ to = "SOLD")
    BY <1>1, <2>2 DEF VehicleRows
  <2> HIDE DEF v, to
  <2> QED BY <2>2, <2>3, <2>4, <2>5, Moves
<1>3. ASSUME NEW w \in Workers, ExpireFree(w) PROVE Promise!Next
  <2> DEFINE v == VehicleOf(w)
  <2>1. pc[w] = "expire.free" /\ vehicle[v].status = "RESERVED"
    BY <1>3 DEF ExpireFree, SerialInv, Current
  <2>2. v \in Vehicles
    BY <2>1 DEF TypeOK, HandlerOK, Position, InChangeStatus, ReservationLabels, Exists,
       ReservationRows, VehicleOf
  <2>3. vehicle' = [vehicle EXCEPT ![v].status = "AVAILABLE"]
    BY <1>3 DEF ExpireFree
  <2> HIDE DEF v
  <2> QED BY <2>1, <2>2, <2>3, ReservedIsFreed, MovesUnsold DEF VehicleStatuses
<1>4. ASSUME NEW w \in Workers, PriceVehicle(w) PROVE Promise!Next
  <2> DEFINE v == ctx[w].vehicle
  <2>1. v \in Vehicles
    BY <1>4 DEF PriceVehicle, TypeOK, HandlerOK, Position, InChangeStatus, SaleLabels, SaleLocals
  <2>2. vehicle' = [vehicle EXCEPT ![v].soldAt = TRUE]
    BY <1>4 DEF PriceVehicle
  <2> HIDE DEF v
  <2>3. [u \in Vehicles |-> vehicle'[u].status] = [u \in Vehicles |-> vehicle[u].status]
    BY <1>1, <2>1, <2>2 DEF VehicleRows
  <2>4. [u \in Vehicles |-> vehicle'[u].soldAt] =
            [[u \in Vehicles |-> vehicle[u].soldAt] EXCEPT ![v] = TRUE]
    BY <1>1, <2>1, <2>2 DEF VehicleRows
  <2> QED BY <2>1, <2>3, <2>4 DEF Promise!Next, Promise!DateSale
<1>5. ASSUME NEW w \in Workers, NEW v \in Vehicles, Archive(w, v) PROVE Promise!Next
  <2>1. IsTransitionAllowed(vehicle[v].status, "ARCHIVED")
    BY <1>1, AlwaysArchived DEF VehicleRows
  <2> QED BY <1>5, <2>1, MovesUnsold DEF Archive, VehicleStatuses
<1> QED BY <1>2, <1>3, <1>4, <1>5, VehicleWritten

\* One handler at a time, the stock, the reservations, the sales and the job implement the
\* abstract life cycle of a vehicle.
THEOREM StockImplementsLifecycle == ASSUME Alone PROVE Spec => KeepsLifecycle
<1>1. Alone
  OBVIOUS
<1>2. Init => LegalInv
  BY DEF Init, StockInit, LegalInv, MovementLegal, Accepted
<1> QED BY <1>1, <1>2, SerialInit, SerialStep, LegalStep, LifecycleInit, LifecycleStep,
           TypeCorrect, PTL DEF Spec, KeepsLifecycle, Promise!Spec


-----------------------------------------------------------------------------
(* What a handler does that is alone and busy                              *)

\* No request is taken while it is at work: the step is its own, or time passes.
LEMMA BusyStep ==
    ASSUME Alone, [Next]_vars, NEW w \in Workers, pc[w] # "idle"
    PROVE  \/ (ChangeStatusStep(w) \/ Fail(w)) /\ UNCHANGED <<reservation, saleVars>>
           \/ (CancelStep(w) \/ ExpiryStep(w)) /\ UNCHANGED saleVars
           \/ (InsertSale(w) \/ WriteCanceled(w) \/ CompletionStep(w)) /\ UNCHANGED reservation
           \/ (\E r \in Reservations : Elapse(r)) /\ UNCHANGED saleVars
           \/ UNCHANGED vars
<1>1. CASE StockNext /\ UNCHANGED <<reservation, saleVars>>
  BY <1>1 DEF Alone, StockNext, RequestStatus, Archive
<1>2. CASE ReservationsNext /\ UNCHANGED saleVars
  BY <1>2 DEF Alone, ReservationsNext, CreateReservation, CancelReservation, StartExpiry
<1>3. CASE SalesNext /\ UNCHANGED reservation
  BY <1>3 DEF Alone, SalesNext, RequestSale, UpdateSale, RequestCompletion, AdvanceSale,
     SetCommission, CancelSale, MarkDelivered
<1> QED BY <1>1, <1>2, <1>3 DEF Next

\* The count of handlers that have died never falls, and rises with each.
LEMMA FailuresGrow ==
    ASSUME TypeOK, [Next]_vars, failures' = 0
    PROVE  failures = 0 /\ \A w \in Workers : ~Fail(w)
<1> USE StockAssumption
<1>1. failures \in Nat
  BY DEF TypeOK, StockTypeOK
<1>2. ASSUME NEW w \in Workers, Fail(w) PROVE FALSE
  BY <1>1, <1>2 DEF Fail
<1>3. UNCHANGED failures
  BY <1>2 DEF Next, vars, stockVars, StockNext, ReservationsNext, SalesNext, ChangeStatusStep,
     CancelStep, ExpiryStep, CompletionStep, RequestStatus, Archive, ReadVehicle, CommitStatus,
     Committed, RejectTransition, CreateReservation, CancelReservation, CancelReadsReserved,
     CancelReadsOther, StartExpiry, ExpireNext, ExpireDone, ExpireReadVehicle, ExpireFree,
     ExpireLog, Elapse, RequestSale, InsertSale, UpdateSale, AdvanceSale, CancelSale,
     WriteCanceled, RequestCompletion, CompleteSale, PriceVehicle, SellVehicle, PostRevenue,
     FindCommission, CreateCommission, SetCommission, MarkDelivered
<1> QED BY <1>2, <1>3

-----------------------------------------------------------------------------
(* A completed sale is booked                                              *)

\* A sale date is never lost: the row changeStatus writes back is the one there is.
LEMMA DatesStay ==
    ASSUME TypeOK, SerialInv, [Next]_vars, NEW v \in Vehicles, vehicle[v].soldAt
    PROVE  vehicle'[v].soldAt
<1>1. vehicle \in [Vehicles -> VehicleRows]
  BY DEF TypeOK, StockTypeOK
<1>2. ASSUME NEW w \in Workers, CommitStatus(w) PROVE vehicle'[v].soldAt
  <2>1. call[w] \in Calls /\ seen[w] = vehicle[call[w].vehicle]
    BY <1>2 DEF CommitStatus, Committed, TypeOK, HandlerOK, InChangeStatus, SerialInv, Current
  <2> QED BY <1>1, <1>2, <2>1 DEF CommitStatus, Calls
<1>3. ASSUME NEW w \in Workers, ExpireFree(w) \/ PriceVehicle(w) PROVE vehicle'[v].soldAt
  BY <1>1, <1>3 DEF ExpireFree, PriceVehicle, VehicleRows
<1>4. ASSUME NEW w \in Workers, NEW u \in Vehicles, Archive(w, u) PROVE vehicle'[v].soldAt
  BY <1>1, <1>4 DEF Archive, VehicleRows
<1> QED BY <1>2, <1>3, <1>4, VehicleWritten

LEMMA CommissionStays ==
    ASSUME TypeOK, [Next]_vars, NEW s \in Sales, commission[s] # NULL
    PROVE  commission'[s] # NULL
<1>1. CASE UNCHANGED commission
  BY <1>1
<1>2. ASSUME NEW w \in Workers, CreateCommission(w) PROVE commission'[s] # NULL
  <2>1. commission' = commission \/ commission[ctx[w].sale] = NULL
    BY <1>2 DEF CreateCommission
  <2>2. commission'[s] = commission[s]
    BY <1>2, <2>1 DEF CreateCommission, TypeOK
  <2> QED BY <2>2
<1>3. ASSUME NEW w \in Workers, NEW x \in Sales, NEW st \in {"APPROVED", "PAID", "CANCELED"},
             SetCommission(w, x, st)
      PROVE  commission'[s] # NULL
  <2>1. commission \in [Sales -> CommissionRows \cup {NULL}]
    BY DEF TypeOK
  <2>2. commission[x] # NULL /\ commission' = [commission EXCEPT ![x].status = st]
    BY <1>3 DEF SetCommission
  <2>3. [commission[x] EXCEPT !.status = st] \in CommissionRows
    BY <2>1, <2>2 DEF CommissionRows
  <2> QED BY <2>1, <2>2, <2>3, NullAssumption
<1> QED BY <1>1, <1>2, <1>3, CommissionWritten


LEMMA BookedStays ==
    ASSUME TypeOK, RevenueInv, SerialInv, [Next]_vars, NEW s \in Sales, sale[s] # NULL, Booked(s)
    PROVE  Booked(s)'
<1>1. \E p \in Prices : posted'[s][p] > 0
  BY PostingsGrow DEF Booked
<1>2. commission'[s] # NULL
  BY CommissionStays DEF Booked
<1>3. sale'[s].vehicle = sale[s].vehicle
  BY SaleKeepsVehicle
<1>4. vehicle'[sale[s].vehicle].soldAt
  <2>1. sale[s].vehicle \in Vehicles
    BY DEF TypeOK, SaleRows
  <2> QED BY <2>1, DatesStay DEF Booked
<1> QED BY <1>1, <1>2, <1>3, <1>4 DEF Booked

\* A sale is completed by the first write of complete alone.
LEMMA CompletedByCompletion ==
    ASSUME TypeOK, [Next]_vars, NEW s \in Sales, sale'[s] # NULL, sale'[s].status = "COMPLETED",
           ~(sale[s] # NULL /\ sale[s].status = "COMPLETED")
    PROVE  \E w \in Workers : CompleteSale(w) /\ ctx[w].sale = s
<1> USE SalesAssumption
<1>1. sale \in [Sales -> SaleRows \cup {NULL}]
  BY DEF TypeOK
<1>2. ASSUME NEW w \in Workers, InsertSale(w) PROVE FALSE
  BY <1>1, <1>2 DEF InsertSale
<1>3. ASSUME NEW w \in Workers, WriteCanceled(w) PROVE FALSE
  <2>1. ctx[w].sale \in Sales /\ sale[ctx[w].sale] \in SaleRows
    BY <1>1, <1>3 DEF WriteCanceled, TypeOK, HandlerOK, Position, InChangeStatus, SaleLabels,
       SaleLocals
  <2> QED BY <1>1, <1>3, <2>1 DEF WriteCanceled, SaleRows
<1>4. ASSUME NEW w \in Workers, NEW x \in Sales, NEW p \in Prices, UpdateSale(w, x, p) PROVE FALSE
  BY <1>1, <1>4 DEF UpdateSale, SaleRows
<1>5. ASSUME NEW w \in Workers, NEW x \in Sales, NEW st \in OpenStatuses, AdvanceSale(w, x, st)
      PROVE  FALSE
  BY <1>1, <1>5 DEF AdvanceSale, SaleRows
<1>6. ASSUME NEW w \in Workers, CompleteSale(w) PROVE ctx[w].sale = s
  <2>1. ctx[w].sale \in Sales
    BY <1>6 DEF CompleteSale, TypeOK, HandlerOK, Position, InChangeStatus, SaleLabels, SaleLocals
  <2> QED BY <1>1, <1>6, <2>1 DEF CompleteSale
<1> QED BY <1>2, <1>3, <1>4, <1>5, <1>6, SaleWritten

\* A completion that is alone goes on to its end, where the commission is there.
LEMMA CompletionGoesOn ==
    ASSUME Alone, TypeOK, TypeOK', BookedInv, [Next]_vars, failures' = 0, NEW w \in Workers,
           Position(w) \in CompletionLabels
    PROVE  \/ Position(w)' \in CompletionLabels \ {"complete.sale"} /\ ctx'[w] = ctx[w]
           \/ pc[w] = "complete.sale" /\ Position(w)' = "complete.sale" /\ ctx'[w] = ctx[w]
           \/ /\ pc[w] \in {"complete.findCommission", "complete.createCommission"}
              /\ commission'[ctx[w].sale] # NULL
<1> USE DEF CompletionLabels, PricedLabels, Position, InChangeStatus
<1>1. /\ pc \in [Workers -> Labels] /\ call \in [Workers -> Calls \cup {NULL}]
      /\ ctx \in [Workers -> ReservationLocals \cup SaleLocals \cup {NULL}]
  BY DEF TypeOK
<1>2. ctx[w].sale \in Sales
  BY DEF TypeOK, HandlerOK, SaleLabels, SaleLocals
<1>3. pc[w] # "idle"
  OBVIOUS
<1>4. CASE ChangeStatusStep(w) /\ UNCHANGED <<reservation, saleVars>>
  <2>1. InChangeStatus(w) /\ call[w] \in Calls /\ call[w].next = "complete.revenue"
    BY <1>4 DEF ChangeStatusStep, ReadVehicle, RejectTransition, CommitStatus, Committed, TypeOK,
       HandlerOK, Calls
  <2>2. CASE ReadVehicle(w)
    BY <1>1, <2>1, <2>2 DEF ReadVehicle, Resume
  <2>3. CASE RejectTransition(w)
    BY <2>1, <2>3 DEF RejectTransition, BookedInv, WillSell
  <2>4. CASE CommitStatus(w)
    BY <1>1, <2>1, <2>4 DEF CommitStatus, Committed, Resume
  <2> QED BY <1>4, <2>2, <2>3, <2>4 DEF ChangeStatusStep
<1>5. CASE CompletionStep(w)
  <2>1. CASE CompleteSale(w)
    BY <1>1, <2>1 DEF CompleteSale, Await, Resume
  <2>2. CASE PriceVehicle(w)
    BY <1>1, <2>2 DEF PriceVehicle, Await, Resume
  <2>3. CASE SellVehicle(w)
    BY <1>1, <2>3 DEF SellVehicle, MoveIfAllowed, Invoke, Await, Resume
  <2>4. CASE PostRevenue(w)
    BY <1>1, <2>4 DEF PostRevenue, Await, Resume
  <2>5. CASE FindCommission(w)
    BY <1>1, <2>5 DEF FindCommission, Await, Resume, Finish, saleVars
  <2>6. CASE CreateCommission(w)
    <3>1. pc[w] = "complete.createCommission"
      BY <2>6 DEF CreateCommission
    <3>2. [status |-> "PENDING", price |-> ctx[w].price] # NULL
      <4>1. ctx[w] \in SaleLocals
        BY <3>1 DEF TypeOK, HandlerOK, SaleLabels
      <4> QED BY <4>1, NullAssumption DEF SaleLocals, CommissionRows
    <3>3. commission'[ctx[w].sale] # NULL
      BY <1>2, <2>6, <3>2 DEF CreateCommission, TypeOK
    <3> QED BY <3>1, <3>3
  <2> QED BY <1>5, <2>1, <2>2, <2>3, <2>4, <2>5, <2>6 DEF CompletionStep
<1>6. CASE (CancelStep(w) \/ ExpiryStep(w) \/ InsertSale(w) \/ WriteCanceled(w))
  <2>1. pc[w] \notin CompletionLabels /\ ~InChangeStatus(w)
    BY <1>6 DEF CancelStep, CancelReadsReserved, CancelReadsOther, ExpiryStep, ExpireNext,
       ExpireDone, ExpireReadVehicle, ExpireFree, ExpireLog, InsertSale, WriteCanceled
  <2> QED BY <2>1
<1>7. CASE (\E r \in Reservations : Elapse(r)) \/ UNCHANGED vars
  <2>1. Position(w) = "complete.sale" => pc[w] = "complete.sale"
    BY DEF TypeOK, HandlerOK, Calls
  <2>2. UNCHANGED <<pc, call, ctx>>
    BY <1>7 DEF Elapse, vars, stockVars, handlerVars
  <2> QED BY <2>1, <2>2
<1> QED BY <1>3, <1>4, <1>5, <1>6, <1>7, BusyStep, FailuresGrow


\* complete asks for SOLD once it has seen that the table allows it.
LEMMA SellCalled ==
    ASSUME Alone, TypeOK, [Next]_vars, NEW w \in Workers, pc'[w] = "changeStatus.read",
           call'[w].next = "complete.revenue"
    PROVE  SellVehicle(w) \/ (pc[w] = "changeStatus.read" /\ call'[w] = call[w])
<1> USE DEF handlerVars, stockVars, MoveIfAllowed, Await, Resume, Finish, Invoke, SetLocals
<1>1. pc \in [Workers -> Labels] /\ call \in [Workers -> Calls \cup {NULL}]
  BY DEF TypeOK
<1>2. CASE pc[w] = "idle"
  <2>1. CASE StockNext
    BY <1>1, <1>2, <2>1 DEF Alone, StockNext, ChangeStatusStep, RequestStatus, Archive,
       ReadVehicle, RejectTransition, CommitStatus, Committed, Fail
  <2>2. CASE ReservationsNext
    <3>1. ASSUME NEW x \in Workers, CancelStep(x) \/ ExpiryStep(x) PROVE FALSE
      BY <1>2, <3>1 DEF Alone, CancelStep, ExpiryStep, CancelReadsReserved, CancelReadsOther,
         ExpireNext, ExpireDone, ExpireReadVehicle, ExpireFree, ExpireLog
    <3>2. ASSUME NEW x \in Workers, NEW r \in Reservations, NEW v \in Vehicles,
                 CreateReservation(x, r, v)
          PROVE  FALSE
      BY <1>1, <3>2 DEF Alone, CreateReservation
    <3>3. ASSUME NEW x \in Workers,
                 StartExpiry(x) \/ \E r \in Reservations : CancelReservation(x, r)
          PROVE  FALSE
      BY <1>1, <3>3 DEF Alone, StartExpiry, CancelReservation
    <3>4. ASSUME NEW r \in Reservations, Elapse(r) PROVE FALSE
      BY <1>2, <3>4 DEF Elapse
    <3> QED BY <2>2, <3>1, <3>2, <3>3, <3>4 DEF ReservationsNext
  <2>3. CASE SalesNext
    <3>1. ASSUME NEW x \in Workers, InsertSale(x) \/ WriteCanceled(x) \/ CompletionStep(x)
          PROVE  FALSE
      <4>1. pc[x] # "idle" /\ x # w
        BY <1>2, <3>1 DEF InsertSale, WriteCanceled, CompletionStep, CompleteSale,
           PriceVehicle, SellVehicle, PostRevenue, FindCommission, CreateCommission
      <4>2. pc'[w] = pc[w]
        BY <1>1, <3>1, <4>1 DEF InsertSale, WriteCanceled, CompletionStep, CompleteSale,
           PriceVehicle, SellVehicle, PostRevenue, FindCommission, CreateCommission
      <4> QED BY <1>2, <4>2
    <3> QED
      BY <1>1, <1>2, <2>3, <3>1 DEF Alone, SalesNext, RequestSale, UpdateSale, AdvanceSale,
         CancelSale, RequestCompletion, SetCommission, MarkDelivered
  <2> QED BY <1>2, <2>1, <2>2, <2>3 DEF Next, vars
<1>3. CASE pc[w] # "idle"
  <2>1. CASE ChangeStatusStep(w) \/ Fail(w)
    <3>1. ASSUME CommitStatus(w) PROVE FALSE
      BY <3>1, CommitLeaves
    <3> QED BY <1>1, <2>1, <3>1 DEF ChangeStatusStep, ReadVehicle, RejectTransition, Fail
  <2>2. CASE CancelStep(w) \/ ExpiryStep(w)
    BY <1>1, <2>2 DEF CancelStep, ExpiryStep, CancelReadsReserved, CancelReadsOther, ExpireNext,
       ExpireDone, ExpireReadVehicle, ExpireFree, ExpireLog
  <2>3. CASE InsertSale(w) \/ WriteCanceled(w) \/ CompletionStep(w)
    BY <1>1, <2>3 DEF InsertSale, WriteCanceled, CompletionStep, CompleteSale, PriceVehicle,
       PostRevenue, FindCommission, CreateCommission
  <2>4. CASE (\E r \in Reservations : Elapse(r)) \/ UNCHANGED vars
    BY <2>4 DEF Elapse, vars
  <2> QED BY <1>3, <2>1, <2>2, <2>3, <2>4, BusyStep
<1> QED BY <1>2, <1>3

LEMMA BookedStep ==
    Alone /\ TypeOK /\ TypeOK' /\ RevenueInv /\ BackedInv /\ SerialInv /\ BookedInv /\ [Next]_vars
          /\ failures' = 0 => BookedInv'
<1> SUFFICES ASSUME Alone, TypeOK, TypeOK', RevenueInv, BackedInv, SerialInv, BookedInv,
                    [Next]_vars, failures' = 0
             PROVE  BookedInv'
  OBVIOUS
<1>1. ASSUME NEW s \in Sales, sale'[s] # NULL, sale'[s].status = "COMPLETED"
      PROVE  Booked(s)' \/ \E w \in Workers : Underway(w, s)'
  <2>1. CASE ~(sale[s] # NULL /\ sale[s].status = "COMPLETED")
    <3>1. PICK w \in Workers : CompleteSale(w) /\ ctx[w].sale = s
      BY <1>1, <2>1, CompletedByCompletion
    <3>2. Underway(w, s)'
      BY <3>1 DEF CompleteSale, Await, Resume, TypeOK, Underway, Position, InChangeStatus,
         CompletionLabels
    <3> QED BY <3>2
  <2>2. CASE sale[s] # NULL /\ Booked(s)
    BY <2>2, BookedStays
  <2>3. ASSUME sale[s] # NULL, NEW w \in Workers, Underway(w, s)
        PROVE  Booked(s)' \/ Underway(w, s)'
    <3>1. Position(w) \in CompletionLabels /\ ctx[w].sale = s
      BY <2>3 DEF Underway
    <3>2. CASE Position(w)' \in CompletionLabels \ {"complete.sale"} /\ ctx'[w] = ctx[w]
      BY <3>1, <3>2 DEF Underway
    <3>3. CASE pc[w] = "complete.sale"
      BY <2>3, <3>3 DEF Underway, Position, InChangeStatus
    <3>4. CASE /\ pc[w] \in {"complete.findCommission", "complete.createCommission"}
               /\ commission'[ctx[w].sale] # NULL
      <4>1. Position(w) \in PricedLabels
        BY <3>4 DEF Position, InChangeStatus, PricedLabels
      <4>2. ctx[w] \in SaleLocals
        BY <4>1 DEF TypeOK, HandlerOK, SaleLabels, PricedLabels
      <4>3. posted'[s][ctx[w].price] > 0
        BY <3>1, <3>4, <4>2, PostingsGrow DEF BackedInv, PostedFirst, SaleLocals
      <4>4. vehicle'[ctx[w].vehicle].soldAt
        BY <4>1, <4>2, DatesStay DEF BookedInv, Dated, SaleLocals
      <4>5. ctx[w].vehicle = sale[s].vehicle
        BY <3>1 DEF RevenueInv, CarriesPrice
      <4>6. sale'[s].vehicle = sale[s].vehicle
        BY <2>3, SaleKeepsVehicle
      <4> QED BY <3>1, <3>4, <4>2, <4>3, <4>4, <4>5, <4>6 DEF Booked, SaleLocals
    <3> QED BY <3>1, <3>2, <3>3, <3>4, CompletionGoesOn
  <2> QED BY <2>1, <2>2, <2>3 DEF BookedInv
<1>2. ASSUME NEW w \in Workers PROVE Dated(w)'
  <2>1. CASE PriceVehicle(w)
    <3>1. ctx[w].vehicle \in Vehicles
      BY <2>1 DEF PriceVehicle, TypeOK, HandlerOK, Position, InChangeStatus, SaleLabels, SaleLocals
    <3>2. vehicle'[ctx[w].vehicle].soldAt /\ UNCHANGED ctx
      BY <2>1, <3>1 DEF PriceVehicle, TypeOK, StockTypeOK, VehicleRows
    <3> QED BY <3>2 DEF Dated
  <2>2. CASE Position(w) \in PricedLabels /\ ctx'[w] = ctx[w]
    <3>1. ctx[w].vehicle \in Vehicles
      BY <2>2 DEF TypeOK, HandlerOK, SaleLabels, PricedLabels, SaleLocals
    <3> QED BY <2>2, <3>1, DatesStay DEF BookedInv, Dated
  <2>3. CASE Position(w)' \notin PricedLabels
    BY <2>3 DEF Dated
  <2> QED BY <2>1, <2>2, <2>3, PricedReached
<1>3. ASSUME NEW w \in Workers PROVE WillSell(w)'
  <2> SUFFICES ASSUME pc'[w] = "changeStatus.read", call'[w].next = "complete.revenue"
               PROVE  IsTransitionAllowed(vehicle'[call'[w].vehicle].status, call'[w].to)
    BY DEF WillSell
  <2>1. CASE SellVehicle(w)
    BY <2>1 DEF SellVehicle, MoveIfAllowed, Invoke, Await, Resume, TypeOK
  <2>2. CASE pc[w] = "changeStatus.read" /\ call'[w] = call[w]
    <3>1. UNCHANGED vehicle
      BY <2>2, OwnWrites
    <3> QED BY <2>2, <3>1 DEF BookedInv, WillSell
  <2> QED BY <2>1, <2>2, SellCalled
<1> QED BY <1>1, <1>2, <1>3 DEF BookedInv


\* One handler at a time, a completed sale is posted, has a commission and a dated vehicle
\* once its handler has returned, as long as no handler has died: complete asks
\* isTransitionAllowed first, so that no changeStatus throws between the sale and its books.
THEOREM CompletedSalesAreBooked ==
    ASSUME Alone PROVE Spec => [](failures = 0 => CompletedIsBooked)
<1> DEFINE Inv == RevenueInv /\ BackedInv /\ SerialInv /\ (failures = 0 => BookedInv)
<1>1. Init => Inv
  <2> SUFFICES ASSUME Init PROVE BookedInv
    BY RevenueInit, BackedInit, SerialInit
  <2> QED BY DEF Init, StockInit, SalesInit, BookedInv, Dated, WillSell, Position, InChangeStatus,
             PricedLabels
<1>2. TypeOK /\ TypeOK' /\ Inv /\ [Next]_vars => Inv'
  <2> SUFFICES ASSUME TypeOK, TypeOK', Inv, [Next]_vars PROVE Inv'
    OBVIOUS
  <2>1. RevenueInv' /\ BackedInv' /\ SerialInv'
    BY RevenueStep, BackedStep, SerialStep
  <2>2. failures' = 0 => BookedInv'
    BY BookedStep, FailuresGrow
  <2> QED BY <2>1, <2>2
<1>3. Inv => (failures = 0 => CompletedIsBooked)
  <2> SUFFICES ASSUME BookedInv, Quiet PROVE CompletedIsBooked
    BY DEF CompletedIsBooked
  <2>1. \A w \in Workers, s \in Sales : ~Underway(w, s)
    BY DEF Quiet, Underway, Position, InChangeStatus, CompletionLabels, PricedLabels
  <2> QED BY <2>1 DEF BookedInv, Booked, CompletedIsBooked
<1> QED BY <1>1, <1>2, <1>3, TypeCorrect, PTL DEF Spec


-----------------------------------------------------------------------------
(* A reserved vehicle is backed by a reservation                           *)

\* A call of changeStatus that is pending was pending before, or has just been made: only
\* create asks for RESERVED unless a user does, only a cancelation calls for a cancelation.
LEMMA CallMade ==
    ASSUME Alone, TypeOK, [Next]_vars, NEW w \in Workers, InChangeStatus(w)',
           "RESERVED" \notin OperatorStatuses
    PROVE  \/ InChangeStatus(w) /\ call'[w] = call[w]
           \/ \E r \in Reservations, v \in Vehicles : CreateReservation(w, r, v)
           \/ CancelReadsReserved(w)
           \/ call'[w].to # "RESERVED" /\ call'[w].reason # "reservation_canceled"
<1> USE DEF InChangeStatus, MoveIfAllowed, Await, Resume, Finish, Invoke, SetLocals
<1>1. pc \in [Workers -> Labels] /\ call \in [Workers -> Calls \cup {NULL}]
  BY DEF TypeOK
<1>2. CASE pc[w] = "idle"
  <2>1. ASSUME StockNext
        PROVE  call'[w].to # "RESERVED" /\ call'[w].reason # "reservation_canceled"
    <3>1. ASSUME NEW x \in Workers, ChangeStatusStep(x) \/ Fail(x) PROVE FALSE
      BY <1>2, <3>1 DEF Alone, ChangeStatusStep, ReadVehicle, RejectTransition, CommitStatus,
         Committed, Fail
    <3>2. ASSUME NEW x \in Workers, NEW v \in Vehicles, Archive(x, v) PROVE FALSE
      BY <1>2, <3>2 DEF Alone, Archive, handlerVars
    <3>3. ASSUME NEW x \in Workers, NEW v \in Vehicles, NEW to \in OperatorStatuses,
                 RequestStatus(x, v, to)
          PROVE  call'[w].to # "RESERVED" /\ call'[w].reason # "reservation_canceled"
      BY <1>1, <3>3 DEF Alone, RequestStatus
    <3> QED BY <2>1, <3>1, <3>2, <3>3 DEF StockNext
  <2>2. ASSUME ReservationsNext
        PROVE  \E r \in Reservations, v \in Vehicles : CreateReservation(w, r, v)
    <3>1. ASSUME NEW x \in Workers, CancelStep(x) \/ ExpiryStep(x) PROVE FALSE
      BY <1>2, <3>1 DEF Alone, CancelStep, ExpiryStep, CancelReadsReserved, CancelReadsOther,
         ExpireNext, ExpireDone, ExpireReadVehicle, ExpireFree, ExpireLog
    <3>2. ASSUME NEW x \in Workers, NEW r \in Reservations, NEW v \in Vehicles,
                 CreateReservation(x, r, v)
          PROVE  CreateReservation(w, r, v)
      BY <3>2 DEF Alone
    <3>3. ASSUME NEW x \in Workers,
                 StartExpiry(x) \/ \E r \in Reservations : CancelReservation(x, r)
          PROVE  FALSE
      BY <1>1, <3>3 DEF Alone, StartExpiry, CancelReservation
    <3>4. ASSUME NEW r \in Reservations, Elapse(r) PROVE FALSE
      BY <1>2, <3>4 DEF Elapse, stockVars, handlerVars
    <3> QED BY <2>2, <3>1, <3>2, <3>3, <3>4 DEF ReservationsNext
  <2>3. ASSUME SalesNext
        PROVE  call'[w].to # "RESERVED" /\ call'[w].reason # "reservation_canceled"
    <3>1. ASSUME NEW x \in Workers, InsertSale(x) \/ WriteCanceled(x) \/ CompletionStep(x)
          PROVE  FALSE
      BY <1>2, <3>1 DEF Alone, InsertSale, WriteCanceled, CompletionStep, CompleteSale,
         PriceVehicle, SellVehicle, PostRevenue, FindCommission, CreateCommission
    <3>2. ASSUME NEW x \in Workers, NEW s \in Sales, CancelSale(x, s) \/ MarkDelivered(x, s)
          PROVE  call'[w].to # "RESERVED" /\ call'[w].reason # "reservation_canceled"
      BY <1>1, <1>2, <3>2 DEF Alone, CancelSale, MarkDelivered
    <3>3. ASSUME NEW x \in Workers, NEW s \in Sales, NEW v \in Vehicles, NEW p \in Prices,
                 RequestSale(x, s, v, p)
          PROVE  FALSE
      BY <1>1, <3>3 DEF Alone, RequestSale
    <3>4. ASSUME NEW x \in Workers, NEW s \in Sales, NEW st, AdvanceSale(x, s, st) PROVE FALSE
      BY <1>2, <3>4 DEF Alone, AdvanceSale, stockVars, handlerVars
    <3>5. ASSUME NEW x \in Workers, NEW s \in Sales, NEW st, SetCommission(x, s, st) PROVE FALSE
      BY <1>2, <3>5 DEF Alone, SetCommission, stockVars, handlerVars
    <3>6. ASSUME NEW x \in Workers, NEW s \in Sales, NEW p \in Prices, RequestCompletion(x, s, p)
          PROVE  FALSE
      BY <1>1, <1>2, <3>6 DEF Alone, RequestCompletion
    <3>7. ASSUME NEW x \in Workers, NEW s \in Sales, NEW p \in Prices, UpdateSale(x, s, p)
          PROVE  FALSE
      BY <1>2, <3>7 DEF Alone, UpdateSale, stockVars, handlerVars
    <3> QED BY <2>3, <3>1, <3>2, <3>3, <3>4, <3>5, <3>6, <3>7 DEF SalesNext
  <2> QED BY <1>2, <2>1, <2>2, <2>3 DEF Next, vars, stockVars, handlerVars
<1>3. CASE pc[w] # "idle"
  <2>1. CASE ChangeStatusStep(w) \/ Fail(w)
    <3>1. ASSUME CommitStatus(w) PROVE FALSE
      BY <3>1, CommitLeaves
    <3> QED BY <1>1, <2>1, <3>1 DEF ChangeStatusStep, ReadVehicle, RejectTransition, Fail
  <2>2. CASE CancelStep(w) \/ ExpiryStep(w)
    BY <1>1, <2>2 DEF CancelStep, ExpiryStep, CancelReadsOther, ExpireNext,
       ExpireDone, ExpireReadVehicle, ExpireFree, ExpireLog
  <2>3. CASE InsertSale(w) \/ WriteCanceled(w) \/ CompletionStep(w)
    BY <1>1, <2>3 DEF InsertSale, WriteCanceled, CompletionStep, CompleteSale, PriceVehicle,
       SellVehicle, PostRevenue, FindCommission, CreateCommission
  <2>4. CASE (\E r \in Reservations : Elapse(r)) \/ UNCHANGED vars
    BY <2>4 DEF Elapse, vars, stockVars, handlerVars
  <2> QED BY <1>3, <2>1, <2>2, <2>3, <2>4, BusyStep
<1> QED BY <1>2, <1>3


\* The handler that is about to free a vehicle is still about to, until it is free.
LEMMA FreeingGoesOn ==
    ASSUME Alone, TypeOK, SerialInv, ReservedInv, [Next]_vars, failures' = 0,
           NEW w \in Workers, NEW v \in Vehicles, Freeing(w, v), UNCHANGED vehicle,
           vehicle[v].status = "RESERVED"
    PROVE  Freeing(w, v)'
<1> USE DEF InChangeStatus
<1>1. /\ pc \in [Workers -> Labels] /\ call \in [Workers -> Calls \cup {NULL}]
      /\ ctx \in [Workers -> ReservationLocals \cup SaleLocals \cup {NULL}]
  BY DEF TypeOK
<1>2. pc[w] # "idle"
  BY DEF Freeing
<1>3. CASE ChangeStatusStep(w) /\ UNCHANGED <<reservation, saleVars>>
  <2>1. /\ InChangeStatus(w) /\ call[w] \in Calls
        /\ call[w].reason = "reservation_canceled" /\ call[w].vehicle = v
        /\ call[w].to = "AVAILABLE"
    BY <1>3 DEF ChangeStatusStep, ReadVehicle, RejectTransition, CommitStatus, Committed, Freeing,
       TypeOK, HandlerOK, ReservedInv, CallBacked
  <2>2. CASE ReadVehicle(w)
    BY <1>1, <2>1, <2>2 DEF ReadVehicle, Resume, Freeing
  <2>3. CASE RejectTransition(w)
    BY <2>1, <2>3, ReservedIsFreed DEF RejectTransition
  <2>4. CASE CommitStatus(w)
    BY <2>1, <2>4 DEF CommitStatus, TypeOK, StockTypeOK
  <2> QED BY <1>3, <2>2, <2>3, <2>4 DEF ChangeStatusStep
<1>4. CASE CancelStep(w) \/ ExpiryStep(w)
  <2>1. pc[w] \in {"cancel.readVehicle", "expire.readVehicle", "expire.free"} /\ VehicleOf(w) = v
    BY <1>4 DEF Freeing, CancelStep, ExpiryStep, CancelReadsReserved, CancelReadsOther, ExpireNext,
       ExpireDone, ExpireReadVehicle, ExpireFree, ExpireLog
  <2>2. CASE CancelReadsReserved(w)
    BY <1>1, <2>1, <2>2 DEF CancelReadsReserved, Invoke, Freeing
  <2>3. CASE ExpireReadVehicle(w)
    BY <1>1, <2>1, <2>3 DEF ExpireReadVehicle, Resume, Freeing, VehicleOf
  <2>4. CASE ExpireFree(w)
    BY <2>1, <2>4 DEF ExpireFree, TypeOK, StockTypeOK, VehicleRows
  <2>5. CASE CancelReadsOther(w) \/ ExpireNext(w) \/ ExpireDone(w) \/ ExpireLog(w)
    BY <2>1, <2>5 DEF CancelReadsOther, ExpireNext, ExpireDone, ExpireLog
  <2> QED BY <1>4, <2>2, <2>3, <2>4, <2>5 DEF CancelStep, ExpiryStep
<1>5. CASE InsertSale(w) \/ WriteCanceled(w) \/ CompletionStep(w)
  BY <1>5 DEF Freeing, InsertSale, WriteCanceled, CompletionStep, CompleteSale, PriceVehicle,
     SellVehicle, PostRevenue, FindCommission, CreateCommission
<1>6. CASE (\E r \in Reservations : Elapse(r)) \/ UNCHANGED vars
  <2>1. UNCHANGED <<pc, call, ctx>>
    BY <1>6 DEF Elapse, vars, stockVars, handlerVars
  <2>2. ASSUME pc[w] \in {"cancel.readVehicle", "expire.readVehicle", "expire.free"}
        PROVE  VehicleOf(w)' = VehicleOf(w)
    <3>1. ctx[w].reservation \in Reservations /\ Exists(ctx[w].reservation)
      BY <2>2 DEF TypeOK, HandlerOK, Position, ReservationLabels
    <3>2. reservation'[ctx[w].reservation].vehicle = reservation[ctx[w].reservation].vehicle
      BY <1>6, <3>1 DEF Elapse, Exists, TypeOK, ReservationRows, vars
    <3> QED BY <2>1, <3>2 DEF VehicleOf
  <2> QED BY <2>1, <2>2 DEF Freeing
<1> QED BY <1>2, <1>3, <1>4, <1>5, <1>6, BusyStep, FailuresGrow

\* An active reservation stays, unless a handler closes it and goes on to free its vehicle.
LEMMA BackingStays ==
    ASSUME TypeOK, [Next]_vars, NEW r \in Reservations, NEW v \in Vehicles, Backs(r, v)
    PROVE  Backs(r, v)' \/ \E w \in Workers : Freeing(w, v)'
<1>1. reservation \in [Reservations -> ReservationRows \cup {NULL}] /\ pc \in [Workers -> Labels]
      /\ ctx \in [Workers -> ReservationLocals \cup SaleLocals \cup {NULL}]
  BY DEF TypeOK
<1>2. reservation[r] \in ReservationRows
  BY <1>1 DEF Backs, Exists
<1>3. CASE UNCHANGED reservation
  BY <1>3 DEF Backs, Exists
<1>4. ASSUME NEW w \in Workers, ExpireNext(w) PROVE Backs(r, v)' \/ Freeing(w, v)'
  <2>1. PICK x \in ctx[w].todo :
            /\ SetStatus(x, "EXPIRED")
            /\ ctx'[w] = [reservation |-> x, todo |-> ctx[w].todo \ {x}]
    BY <1>1, <1>4 DEF ExpireNext, SetLocals
  <2>2. CASE x = r
    <3>1. reservation'[r].vehicle = v
      BY <1>1, <1>2, <2>1, <2>2 DEF SetStatus, ReservationRows, Backs
    <3> QED BY <1>1, <1>4, <2>1, <2>2, <3>1 DEF ExpireNext, Resume, Freeing, VehicleOf
  <2>3. CASE x # r
    BY <1>1, <2>1, <2>3 DEF SetStatus, Backs, Exists
  <2> QED BY <2>2, <2>3
<1>5. ASSUME NEW w \in Workers, NEW x \in Reservations, CancelReservation(w, x)
      PROVE  Backs(r, v)' \/ Freeing(w, v)'
  <2>1. CASE x = r
    <3>1. reservation'[r].vehicle = v
      BY <1>1, <1>2, <1>5, <2>1 DEF CancelReservation, SetStatus, ReservationRows, Backs
    <3> QED BY <1>1, <1>5, <2>1, <3>1 DEF CancelReservation, SetLocals, Resume, Freeing, VehicleOf
  <2>2. CASE x # r
    BY <1>1, <1>5, <2>2 DEF CancelReservation, SetStatus, Backs, Exists
  <2> QED BY <2>1, <2>2
<1>6. ASSUME NEW w \in Workers, NEW x \in Reservations, NEW u \in Vehicles,
             CreateReservation(w, x, u)
      PROVE  Backs(r, v)'
  BY <1>1, <1>6 DEF CreateReservation, Backs, Exists
<1>7. ASSUME NEW x \in Reservations, Elapse(x) PROVE Backs(r, v)'
  <2>1. /\ reservation'[r].status = reservation[r].status
        /\ reservation'[r].vehicle = reservation[r].vehicle
    BY <1>1, <1>2, <1>7 DEF Elapse, ReservationRows
  <2>2. reservation'[r] # NULL
    BY <1>1, <1>2, <1>7, NullAssumption DEF Elapse, ReservationRows, Exists
  <2> QED BY <2>1, <2>2 DEF Backs, Exists
<1> QED BY <1>3, <1>4, <1>5, <1>6, <1>7, ReservationWritten


\* Whoever writes a vehicle that ends up reserved does not stand where it would free it.
LEMMA ReservedWritten ==
    ASSUME Alone, TypeOK, SerialInv, ReservedInv, [Next]_vars, failures' = 0, NEW v \in Vehicles,
           vehicle'[v].status = "RESERVED"
    PROVE  (\E r \in Reservations : Backs(r, v)') \/ (\E w \in Workers : Freeing(w, v)')
<1>1. vehicle \in [Vehicles -> VehicleRows]
  BY DEF TypeOK, StockTypeOK
<1>2. CASE UNCHANGED vehicle
  <2>1. CASE \E r \in Reservations : Backs(r, v)
    BY <2>1, BackingStays
  <2>2. CASE \E w \in Workers : Freeing(w, v)
    BY <1>2, <2>2, FreeingGoesOn
  <2> QED BY <1>2, <2>1, <2>2 DEF ReservedInv
<1>3. ASSUME NEW w \in Workers, vehicle[v].status = "RESERVED", ~Freeing(w, v)
      PROVE  (\E r \in Reservations : Backs(r, v)') \/ (\E x \in Workers : Freeing(x, v)')
  <2>1. \E r \in Reservations : Backs(r, v)
    BY <1>3 DEF ReservedInv, Alone
  <2> QED BY <2>1, BackingStays
<1>4. ASSUME NEW w \in Workers, CommitStatus(w)
      PROVE  (\E r \in Reservations : Backs(r, v)') \/ (\E x \in Workers : Freeing(x, v)')
  <2>1. InChangeStatus(w) /\ call[w] \in Calls /\ pc[w] = "changeStatus.commit"
    BY <1>4 DEF CommitStatus, Committed, TypeOK, HandlerOK, InChangeStatus
  <2>2. CASE call[w].vehicle = v
    <3>1. call[w].to = "RESERVED"
      BY <1>1, <1>4, <2>2 DEF CommitStatus
    <3>2. \E r \in Reservations : Backs(r, v)
      BY <2>1, <2>2, <3>1 DEF ReservedInv, CallBacked
    <3> QED BY <3>2, BackingStays
  <2>3. CASE call[w].vehicle # v
    BY <1>1, <1>3, <1>4, <2>1, <2>3 DEF CommitStatus, Freeing
  <2> QED BY <2>2, <2>3
<1>5. ASSUME NEW w \in Workers, ExpireFree(w)
      PROVE  (\E r \in Reservations : Backs(r, v)') \/ (\E x \in Workers : Freeing(x, v)')
  <2>1. vehicle[v].status = "RESERVED" /\ VehicleOf(w) # v
    BY <1>1, <1>5 DEF ExpireFree, VehicleRows
  <2> QED BY <1>3, <1>5, <2>1 DEF ExpireFree, Freeing, InChangeStatus
<1>6. ASSUME NEW w \in Workers, PriceVehicle(w)
      PROVE  (\E r \in Reservations : Backs(r, v)') \/ (\E x \in Workers : Freeing(x, v)')
  <2>1. vehicle[v].status = "RESERVED"
    BY <1>1, <1>6 DEF PriceVehicle, VehicleRows
  <2> QED BY <1>3, <1>6, <2>1 DEF PriceVehicle, Freeing, InChangeStatus
<1>7. ASSUME NEW w \in Workers, NEW u \in Vehicles, Archive(w, u)
      PROVE  (\E r \in Reservations : Backs(r, v)') \/ (\E x \in Workers : Freeing(x, v)')
  <2>1. vehicle[v].status = "RESERVED"
    BY <1>1, <1>7 DEF Archive, VehicleRows
  <2> QED BY <1>3, <1>7, <2>1 DEF Archive, Freeing, InChangeStatus
<1> QED BY <1>2, <1>4, <1>5, <1>6, <1>7, VehicleWritten

LEMMA CallBackedStep ==
    ASSUME Alone, TypeOK, ReservedInv, [Next]_vars, "RESERVED" \notin OperatorStatuses,
           NEW w \in Workers
    PROVE  CallBacked(w)'
<1> SUFFICES ASSUME InChangeStatus(w)'
             PROVE  /\ call'[w].to = "RESERVED" =>
                           \E r \in Reservations : Backs(r, call[w].vehicle)'
                    /\ call'[w].reason = "reservation_canceled" => call'[w].to = "AVAILABLE"
  BY DEF CallBacked
<1>1. call \in [Workers -> Calls \cup {NULL}]
  BY DEF TypeOK
<1>2. CASE InChangeStatus(w) /\ call'[w] = call[w]
  <2>1. ASSUME NEW r \in Reservations, NEW v \in Vehicles, Backs(r, v) PROVE Backs(r, v)'
    <3>1. ASSUME NEW x \in Workers PROVE x = w
      BY DEF Alone
    <3>2. UNCHANGED reservation \/ \E x \in Reservations : Elapse(x)
      BY <1>2, <3>1, ReservationWritten DEF InChangeStatus, ExpireNext, CreateReservation,
         CancelReservation
    <3>3. ASSUME NEW x \in Reservations, Elapse(x) PROVE Backs(r, v)'
      <4>1. reservation \in [Reservations -> ReservationRows \cup {NULL}]
        BY DEF TypeOK
      <4>2. reservation[r] \in ReservationRows
        BY <2>1, <4>1 DEF Backs, Exists
      <4>3. /\ reservation'[r].status = reservation[r].status
            /\ reservation'[r].vehicle = reservation[r].vehicle
        BY <3>3, <4>1, <4>2 DEF Elapse, ReservationRows
      <4>4. reservation'[r] # NULL
        BY <3>3, <4>1, <4>2, NullAssumption DEF Elapse, ReservationRows, Exists
      <4> QED BY <2>1, <4>3, <4>4 DEF Backs, Exists
    <3> QED BY <2>1, <3>2, <3>3 DEF Backs, Exists
  <2>2. call[w] \in Calls
    BY <1>2 DEF TypeOK, HandlerOK
  <2>3. call[w].vehicle \in Vehicles
    BY <2>2 DEF Calls
  <2>4. ASSUME call[w].to = "RESERVED"
        PROVE  \E r \in Reservations : Backs(r, call[w].vehicle)'
    <3>1. PICK r \in Reservations : Backs(r, call[w].vehicle)
      BY <1>2, <2>4 DEF ReservedInv, CallBacked
    <3> QED BY <1>2, <2>1, <2>3, <3>1 DEF Backs, Exists
  <2> QED BY <1>2, <2>4 DEF ReservedInv, CallBacked
<1>3. ASSUME NEW r \in Reservations, NEW v \in Vehicles, CreateReservation(w, r, v)
      PROVE  /\ call'[w].to = "RESERVED" => \E x \in Reservations : Backs(x, call[w].vehicle)'
             /\ call'[w].reason = "reservation_canceled" => call'[w].to = "AVAILABLE"
  <2>1. /\ call'[w] = [vehicle |-> v, to |-> "RESERVED", reason |-> "reservation_created",
                       next |-> "idle"]
        /\ reservation' = [reservation EXCEPT ![r] =
                             [status |-> "ACTIVE", vehicle |-> v, overdue |-> FALSE]]
    BY <1>1, <1>3 DEF CreateReservation, Invoke
  <2>2. reservation'[r] = [status |-> "ACTIVE", vehicle |-> v, overdue |-> FALSE]
    BY <2>1 DEF TypeOK
  <2>3. [status |-> "ACTIVE", vehicle |-> v, overdue |-> FALSE] \in ReservationRows
    BY DEF ReservationRows
  <2>4. reservation'[r] # NULL
    BY <2>2, <2>3, NullAssumption
  <2>5. reservation'[r].vehicle = call'[w].vehicle /\ reservation'[r].status = "ACTIVE"
    BY <2>1, <2>2
  <2>6. Backs(r, call[w].vehicle)'
    BY <2>4, <2>5 DEF Backs, Exists
  <2> QED BY <2>1, <2>6
<1>4. CASE CancelReadsReserved(w)
  BY <1>1, <1>4 DEF CancelReadsReserved, Invoke
<1>5. CASE call'[w].to # "RESERVED" /\ call'[w].reason # "reservation_canceled"
  BY <1>5
<1> QED BY <1>2, <1>3, <1>4, <1>5, CallMade

\* One handler at a time, and no user setting RESERVED by hand: a vehicle is reserved only
\* while an active reservation stands on it, as long as no handler has died.  A cancelation
\* gives it back, and so does the job ("Cancelamento devolve a AVAILABLE").
THEOREM ReservedVehiclesAreBacked ==
    ASSUME Alone, "RESERVED" \notin OperatorStatuses
    PROVE  Spec => [](failures = 0 => ReservedIsBacked)
<1> DEFINE Inv == SerialInv /\ (failures = 0 => ReservedInv)
<1>1. Init => Inv
  BY SerialInit DEF Init, StockInit, ReservedInv, CallBacked, InChangeStatus
<1>2. TypeOK /\ Inv /\ [Next]_vars => Inv'
  <2> SUFFICES ASSUME TypeOK, Inv, [Next]_vars PROVE Inv'
    OBVIOUS
  <2>1. SerialInv'
    BY SerialStep
  <2>2. ASSUME failures' = 0 PROVE ReservedInv'
    <3>1. ReservedInv
      BY <2>2, FailuresGrow
    <3>2. ASSUME NEW v \in Vehicles, vehicle'[v].status = "RESERVED"
          PROVE  (\E r \in Reservations : Backs(r, v)') \/ (\E w \in Workers : Freeing(w, v)')
      BY <2>2, <3>1, <3>2, ReservedWritten
    <3>3. \A w \in Workers : CallBacked(w)'
      BY <3>1, CallBackedStep
    <3> QED BY <3>2, <3>3 DEF ReservedInv
  <2> QED BY <2>1, <2>2
<1>3. Inv => (failures = 0 => ReservedIsBacked)
  <2> SUFFICES ASSUME ReservedInv, Quiet PROVE ReservedIsBacked
    BY DEF ReservedIsBacked
  <2>1. \A w \in Workers, v \in Vehicles : ~Freeing(w, v)
    BY DEF Quiet, Freeing, InChangeStatus
  <2> QED BY <2>1 DEF ReservedInv, Backs, ReservedIsBacked
<1> QED BY <1>1, <1>2, <1>3, TypeCorrect, PTL DEF Spec
=============================================================================
