-------------------------------- MODULE Sales --------------------------------
(***************************************************************************)
(* SalesService (create, update, updateStatus, complete, markDelivered),   *)
(* the revenue it posts and the commission it generates, over the stock it *)
(* moves vehicles in.                                                      *)
(*                                                                         *)
(* A sale row keeps what handlers look at again: status, vehicle and final *)
(* price.  The dates saleDate and deliveredAt are written and never read.  *)
(***************************************************************************)
EXTENDS Stock

CONSTANTS
    Sales,            \* ids a sale row can get
    Prices,           \* final prices; 0 is "no price" (computeFinal never goes below)
    OpenStatuses,     \* the statuses of a sale that is neither completed nor canceled
    MaxPostings       \* bound: completing a sale is not asked for again after so many

ASSUME SalesAssumption ==
    /\ 0 \in Prices
    /\ "NEGOTIATING" \in OpenStatuses
    /\ OpenStatuses \cap {"COMPLETED", "CANCELED"} = {}
    /\ MaxPostings \in Nat

VARIABLES
    sale,        \* sale[s]: the row, or NULL while there is none
    soldPrice,   \* soldPrice[v]: the column of the vehicle row, 0 while null
    posted,      \* posted[s][p]: revenue entries of amount p posted for sale s
    commission   \* commission[s]: the row of sale s (saleId is unique), or NULL

saleVars == <<sale, soldPrice, posted, commission>>

SaleStatuses == OpenStatuses \cup {"COMPLETED", "CANCELED"}
SaleRows == [status : SaleStatuses, vehicle : Vehicles, price : Prices]

\* price: the final price the commission was computed from
CommissionRows ==
    [status : {"PENDING", "APPROVED", "PAID", "CANCELED"}, price : Prices]

SaleLocals == [sale : Sales, vehicle : Vehicles, price : Prices]

SalesInit ==
    /\ sale       = [s \in Sales |-> NULL]
    /\ soldPrice  = [v \in Vehicles |-> 0]
    /\ posted     = [s \in Sales |-> [p \in Prices |-> 0]]
    /\ commission = [s \in Sales |-> NULL]

\* The handler awaits something other than changeStatus.
Await(w, label) == Resume(w, label) /\ UNCHANGED <<call, seen>>

\* changeStatus is only called if the row just read allows it.
MoveIfAllowed(w, v, to, reason, next) ==
    IF IsTransitionAllowed(vehicle[v].status, to)
    THEN Invoke(w, v, to, reason, next)
    ELSE Await(w, next)

-----------------------------------------------------------------------------
(* create: the vehicle is read, the sale inserted, and the status read     *)
(* before decides whether changeStatus is called.                          *)

RequestSale(w, s, v, p) ==
    /\ pc[w] = "idle"
    /\ sale[s] = NULL
    /\ \A x \in Workers : pc[x] = "createSale.insert" => ctx[x].sale # s
    /\ ctx'  = [ctx EXCEPT ![w] = [sale |-> s, vehicle |-> v, price |-> p]]
    /\ seen' = [seen EXCEPT ![w] = vehicle[v]]
    /\ Resume(w, "createSale.insert")
    /\ UNCHANGED <<vehicle, movement, call, failures, saleVars>>

InsertSale(w) ==
    LET c == ctx[w] IN
    /\ pc[w] = "createSale.insert"
    /\ sale' = [sale EXCEPT ![c.sale] =
                  [status |-> "NEGOTIATING", vehicle |-> c.vehicle, price |-> c.price]]
    /\ \/ /\ IsTransitionAllowed(seen[w].status, "NEGOTIATING")
          /\ Invoke(w, c.vehicle, "NEGOTIATING", "sale_started", "idle")
          /\ ctx' = [ctx EXCEPT ![w] = NULL]
       \/ /\ ~IsTransitionAllowed(seen[w].status, "NEGOTIATING")
          /\ Finish(w)
    /\ UNCHANGED <<vehicle, movement, failures, soldPrice, posted, commission>>

\* update: a new negotiated price or discount, at whatever status
UpdateSale(w, s, p) ==
    /\ pc[w] = "idle"
    /\ sale[s] # NULL
    /\ sale' = [sale EXCEPT ![s].price = p]
    /\ UNCHANGED <<stockVars, soldPrice, posted, commission>>

-----------------------------------------------------------------------------
(* updateStatus: no branch looks at the status the sale has.               *)

AdvanceSale(w, s, st) ==
    /\ pc[w] = "idle"
    /\ sale[s] # NULL
    /\ sale' = [sale EXCEPT ![s].status = st]
    /\ UNCHANGED <<stockVars, soldPrice, posted, commission>>

\* The vehicle goes back first ...
CancelSale(w, s) ==
    /\ pc[w] = "idle"
    /\ sale[s] # NULL
    /\ MoveIfAllowed(w, sale[s].vehicle, "AVAILABLE", "sale_canceled", "cancelSale.write")
    /\ ctx' = [ctx EXCEPT ![w] = [sale |-> s, vehicle |-> sale[s].vehicle, price |-> 0]]
    /\ UNCHANGED <<vehicle, movement, failures, saleVars>>

\* ... and the sale is closed if that did not throw.
WriteCanceled(w) ==
    /\ pc[w] = "cancelSale.write"
    /\ sale' = [sale EXCEPT ![ctx[w].sale].status = "CANCELED"]
    /\ Finish(w)
    /\ UNCHANGED <<vehicle, movement, failures, soldPrice, posted, commission>>

-----------------------------------------------------------------------------
(* complete: the price comes with the request or from the row, and must    *)
(* not be zero; each of the six writes that follow is a step of its own.   *)

RequestCompletion(w, s, p) ==
    /\ pc[w] = "idle"
    /\ sale[s] # NULL
    /\ p # 0
    /\ \A q \in Prices : posted[s][q] < MaxPostings
    /\ ctx' = [ctx EXCEPT ![w] = [sale |-> s, vehicle |-> sale[s].vehicle, price |-> p]]
    /\ Await(w, "complete.sale")
    /\ UNCHANGED <<vehicle, movement, failures, saleVars>>

CompleteSale(w) ==
    /\ pc[w] = "complete.sale"
    /\ sale' = [sale EXCEPT ![ctx[w].sale].status = "COMPLETED",
                            ![ctx[w].sale].price  = ctx[w].price]
    /\ Await(w, "complete.vehicle")
    /\ UNCHANGED <<vehicle, movement, ctx, failures, soldPrice, posted, commission>>

\* Mutant: the price is taken from the sale row as it is by now.
PriceVehicleFromRow(w) ==
    /\ pc[w] = "complete.vehicle"
    /\ soldPrice' = [soldPrice EXCEPT ![ctx[w].vehicle] = sale[ctx[w].sale].price]
    /\ vehicle'   = [vehicle EXCEPT ![ctx[w].vehicle].soldAt = TRUE]
    /\ Await(w, "complete.readVehicle")
    /\ UNCHANGED <<movement, ctx, failures, sale, posted, commission>>

PriceVehicle(w) ==
    /\ pc[w] = "complete.vehicle"
    /\ soldPrice' = [soldPrice EXCEPT ![ctx[w].vehicle] = ctx[w].price]
    /\ vehicle'   = [vehicle EXCEPT ![ctx[w].vehicle].soldAt = TRUE]
    /\ Await(w, "complete.readVehicle")
    /\ UNCHANGED <<movement, ctx, failures, sale, posted, commission>>

\* Mutants: changeStatus is left to decide; what cannot be sold is not posted.
SellUnasked(w) ==
    /\ pc[w] = "complete.readVehicle"
    /\ Invoke(w, ctx[w].vehicle, "SOLD", "sale_completed", "complete.revenue")
    /\ UNCHANGED <<vehicle, movement, ctx, failures, saleVars>>

SellOrSkipPosting(w) ==
    /\ pc[w] = "complete.readVehicle"
    /\ IF IsTransitionAllowed(vehicle[ctx[w].vehicle].status, "SOLD")
       THEN Invoke(w, ctx[w].vehicle, "SOLD", "sale_completed", "complete.revenue")
       ELSE Await(w, "complete.findCommission")
    /\ UNCHANGED <<vehicle, movement, ctx, failures, saleVars>>

SellVehicle(w) ==
    /\ pc[w] = "complete.readVehicle"
    /\ MoveIfAllowed(w, ctx[w].vehicle, "SOLD", "sale_completed", "complete.revenue")
    /\ UNCHANGED <<vehicle, movement, ctx, failures, saleVars>>

\* FinancialService.addAutomaticEntry: nothing asks whether the sale was posted before
PostRevenue(w) ==
    /\ pc[w] = "complete.revenue"
    /\ posted' = [posted EXCEPT ![ctx[w].sale][ctx[w].price] = @ + 1]
    /\ Await(w, "complete.findCommission")
    /\ UNCHANGED <<vehicle, movement, ctx, failures, sale, soldPrice, commission>>

-----------------------------------------------------------------------------
(* CommissionsService.generateForSale                                      *)

FindCommission(w) ==
    /\ pc[w] = "complete.findCommission"
    /\ \/ /\ commission[ctx[w].sale] = NULL
          /\ Await(w, "complete.createCommission")
          /\ UNCHANGED ctx
       \/ /\ commission[ctx[w].sale] # NULL
          /\ Finish(w)
    /\ UNCHANGED <<vehicle, movement, failures, saleVars>>

\* Mutant: an upsert by saleId
ReplaceCommission(w) ==
    /\ pc[w] = "complete.createCommission"
    /\ commission' = [commission EXCEPT ![ctx[w].sale] =
                        [status |-> "PENDING", price |-> ctx[w].price]]
    /\ Finish(w)
    /\ UNCHANGED <<vehicle, movement, failures, sale, soldPrice, posted>>

\* saleId is unique: the second of two concurrent inserts throws
CreateCommission(w) ==
    /\ pc[w] = "complete.createCommission"
    /\ \/ /\ commission[ctx[w].sale] = NULL
          /\ commission' = [commission EXCEPT ![ctx[w].sale] =
                              [status |-> "PENDING", price |-> ctx[w].price]]
       \/ /\ commission[ctx[w].sale] # NULL
          /\ UNCHANGED commission
    /\ Finish(w)
    /\ UNCHANGED <<vehicle, movement, failures, sale, soldPrice, posted>>

\* approve, pay, cancel: each writes its status over any other
SetCommission(w, s, st) ==
    /\ pc[w] = "idle"
    /\ commission[s] # NULL
    /\ commission' = [commission EXCEPT ![s].status = st]
    /\ UNCHANGED <<stockVars, sale, soldPrice, posted>>

-----------------------------------------------------------------------------
\* markDelivered
MarkDelivered(w, s) ==
    /\ pc[w] = "idle"
    /\ sale[s] # NULL
    /\ IsTransitionAllowed(vehicle[sale[s].vehicle].status, "DELIVERED")
    /\ Invoke(w, sale[s].vehicle, "DELIVERED", "delivered", "idle")
    /\ UNCHANGED <<vehicle, movement, ctx, failures, saleVars>>

-----------------------------------------------------------------------------
CompletionStep(w) ==
    \/ CompleteSale(w) \/ PriceVehicle(w) \/ SellVehicle(w) \/ PostRevenue(w)
    \/ FindCommission(w) \/ CreateCommission(w)

SalesNext ==
    \E w \in Workers :
        \/ \E s \in Sales, v \in Vehicles, p \in Prices : RequestSale(w, s, v, p)
        \/ \E s \in Sales, p \in Prices : UpdateSale(w, s, p) \/ RequestCompletion(w, s, p)
        \/ \E s \in Sales, st \in OpenStatuses : AdvanceSale(w, s, st)
        \/ \E s \in Sales, st \in {"APPROVED", "PAID", "CANCELED"} : SetCommission(w, s, st)
        \/ \E s \in Sales : CancelSale(w, s) \/ MarkDelivered(w, s)
        \/ InsertSale(w) \/ WriteCanceled(w)
        \/ CompletionStep(w)

SaleLabels ==
    {"createSale.insert", "cancelSale.write", "complete.sale", "complete.vehicle",
     "complete.readVehicle", "complete.revenue", "complete.findCommission",
     "complete.createCommission"}
=============================================================================
