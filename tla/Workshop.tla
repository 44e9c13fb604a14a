------------------------------ MODULE Workshop ------------------------------
(***************************************************************************)
(* PartsService and MaintenanceService over the books of the vehicles.     *)
(*                                                                         *)
(* A part taken for a maintenance leaves the stock in one transaction; the *)
(* row that records it (an item), the expense and the costs of the         *)
(* maintenance are written by later calls, and taken back in the same      *)
(* order when the part is removed.  The movement log is kept as the sum of *)
(* its quantities per part.                                                *)
(***************************************************************************)
EXTENDS Ledger

CONSTANTS
    Parts,          \* ids of the part rows
    Maintenances,   \* ids of the maintenance rows
    ServicedVehicle,\* ServicedVehicle[m]: the vehicle of maintenance m
    Items,          \* ids for MaintenancePart rows; bound: their number
    Quantities,     \* quantities users ask for
    LaborCosts,     \* labour costs users enter
    UnitCost,       \* UnitCost[p]: averagePrice of part p, which entries at another cost would move
    MaxStock        \* bound: quantity of a part, and sum of its movements, a request may lead to

ASSUME WorkshopAssumption ==
    /\ ServicedVehicle \in [Maintenances -> Vehicles]
    /\ Quantities \subseteq Nat \ {0}
    /\ LaborCosts \subseteq Nat
    /\ UnitCost \in [Parts -> Nat]
    /\ MaxStock \in Nat
    /\ Items \subseteq Nat

MaintenanceStatuses == {"SCHEDULED", "IN_PROGRESS", "AWAITING_PARTS", "COMPLETED", "CANCELED"}

\* No quantity, no item and no maintenance is the value that stands for the absence of a row.
ASSUME AbsenceAssumption ==
    /\ NULL \notin Int
    /\ NULL \notin [maintenance : Maintenances, part : Parts, quantity : Int, reversed : BOOLEAN]
    /\ NULL \notin [status : MaintenanceStatuses, labor : Int, parts : Int, total : Int]

VARIABLES
    quantity,     \* quantity[p]: Part.quantity, or NULL before the part is registered
    log,          \* log[p]: quantities of p's movements, those of maintenances apart
    maintenance,  \* maintenance[m]: the row, or NULL
    item          \* item[i]: the MaintenancePart row, or NULL

shelfVars    == <<quantity, log>>
workVars     == <<maintenance, item>>
workshopVars == <<shelfVars, workVars, ledgerVars>>

WorkshopInit ==
    /\ LedgerInit
    /\ quantity    = [p \in Parts |-> NULL]
    /\ log         = [p \in Parts |-> [net |-> 0, applied |-> 0, reversed |-> 0]]
    /\ maintenance = [m \in Maintenances |-> NULL]
    /\ item        = [i \in Items |-> NULL]

-----------------------------------------------------------------------------
(* PartsService                                                            *)

Increase == {"ENTRY", "RETURN", "CANCEL_RESERVE", "REVERSAL"}
Decrease == {"EXIT", "RESERVE", "APPLY_TO_VEHICLE", "LOSS"}

Known(p) == quantity[p] # NULL

\* POST /parts writes the row, and the ENTRY of its first stock in a second call.
CreatePart(w, p, n) ==
    /\ ~Known(p)
    /\ quantity' = [quantity EXCEPT ![p] = n]
    /\ Begin(w, "part.log", [part |-> p, quantity |-> n])
    /\ UNCHANGED <<log, workVars, bookVars, calc>>

LogFirstStock(w) ==
    LET c == ctx[w] IN
    /\ At(w, "part.log")
    /\ log' = [log EXCEPT ![c.part].net = @ + c.quantity]
    /\ Return(w)
    /\ UNCHANGED <<quantity, workVars, bookVars, calc>>

\* The change of quantity a movement makes; an ADJUSTMENT is signed.
Delta(type, n) ==
    CASE type \in Increase -> n
      [] type \in Decrease -> -n
      [] type = "ADJUSTMENT" -> n

\* POST /parts/:id/movements: the row is read and the new quantity computed ...
RequestMove(w, p, type, n) ==
    LET stock == quantity[p] + Delta(type, n) IN
    /\ Known(p)
    /\ stock \in 0 .. MaxStock
    /\ log[p].net + Delta(type, n) \in -MaxStock .. MaxStock
    /\ Begin(w, "move.write", [part |-> p, stock |-> stock, delta |-> Delta(type, n)])
    /\ UNCHANGED <<shelfVars, workVars, bookVars, calc>>

\* ... and the transaction writes it, with the movement, whatever the row is by now.
Move(w) ==
    LET c == ctx[w] IN
    /\ At(w, "move.write")
    /\ quantity' = [quantity EXCEPT ![c.part] = c.stock]
    /\ log' = [log EXCEPT ![c.part].net = @ + c.delta]
    /\ Return(w)
    /\ UNCHANGED <<workVars, bookVars, calc>>

\* PATCH /parts/:id takes a quantity too, and logs nothing.
EditQuantity(w, p, n) ==
    /\ pc[w] = "idle"
    /\ Known(p)
    /\ n \in 0 .. MaxStock
    /\ quantity' = [quantity EXCEPT ![p] = n]
    /\ UNCHANGED <<log, workVars, ledgerVars>>

\* Mutant: the check is left to the database, which has none.
ConsumeUnchecked(w) ==
    LET c == ctx[w] IN
    /\ At(w, "part.check")
    /\ Goto(w, "part.take")
    /\ UNCHANGED <<shelfVars, workVars, bookVars, calc>>

\* Mutant: what is not in stock is recorded without being taken.
ConsumeOrRecord(w) ==
    LET c == ctx[w] IN
    /\ At(w, "part.check")
    /\ Goto(w, IF quantity[c.part] < c.quantity THEN "part.item" ELSE "part.take")
    /\ UNCHANGED <<shelfVars, workVars, bookVars, calc>>

\* consumeForMaintenance: PART_INSUFFICIENT_STOCK is decided on the row read here ...
ConsumeCheck(w) ==
    LET c == ctx[w] IN
    /\ At(w, "part.check")
    /\ IF quantity[c.part] < c.quantity THEN Return(w) ELSE Goto(w, "part.take")
    /\ UNCHANGED <<shelfVars, workVars, bookVars, calc>>

\* Mutant: a decrement that would pass below zero stops there.
ConsumeToZero(w) ==
    LET c == ctx[w] IN
    /\ At(w, "part.take")
    /\ quantity' = [quantity EXCEPT ![c.part] = IF @ > c.quantity THEN @ - c.quantity ELSE 0]
    /\ log' = [log EXCEPT ![c.part].applied = @ + c.quantity]
    /\ Goto(w, "part.item")
    /\ UNCHANGED <<workVars, bookVars, calc>>

\* ... and the transaction decrements the row there is.
Consume(w) ==
    LET c == ctx[w] IN
    /\ At(w, "part.take")
    /\ quantity' = [quantity EXCEPT ![c.part] = @ - c.quantity]
    /\ log' = [log EXCEPT ![c.part].applied = @ + c.quantity]
    /\ Goto(w, "part.item")
    /\ UNCHANGED <<workVars, bookVars, calc>>

\* reverseMaintenanceConsumption(item i), then go on at label next
GiveBack(w, i, next) ==
    LET p == item[i].part IN
    /\ quantity' = [quantity EXCEPT ![p] = @ + item[i].quantity]
    /\ log' = [log EXCEPT ![p].reversed = @ + item[i].quantity]
    /\ Goto(w, next)
    /\ UNCHANGED <<workVars, bookVars, calc>>

PartsStep(w) == LogFirstStock(w) \/ Move(w) \/ ConsumeCheck(w) \/ Consume(w)

-----------------------------------------------------------------------------
(* MaintenanceService                                                      *)

Open(m) == maintenance[m] # NULL

\* The unreversed items of m, as findMany returns them
ItemsOf(m) ==
    {i \in Items : item[i] # NULL /\ item[i].maintenance = m /\ ~item[i].reversed}

Cost(i) == item[i].quantity * UnitCost[item[i].part]

CreateMaintenance(w, m, labor) ==
    /\ pc[w] = "idle"
    /\ maintenance[m] = NULL
    /\ maintenance' = [maintenance EXCEPT ![m] =
          [status |-> "SCHEDULED", labor |-> labor, parts |-> 0, total |-> labor]]
    /\ UNCHANGED <<shelfVars, item, ledgerVars>>

\* recomputeCosts(m) reads the items, then the labour, and writes the costs
RecomputeReadItems(w) ==
    /\ At(w, "costs.items")
    /\ GotoWith(w, "costs.labor",
                [maintenance |-> ctx[w].maintenance,
                 parts |-> MapThenSumSet(Cost, ItemsOf(ctx[w].maintenance))])
    /\ UNCHANGED <<shelfVars, workVars, bookVars, calc>>

RecomputeReadLabor(w) ==
    /\ At(w, "costs.labor")
    /\ GotoWith(w, "costs.write",
                [maintenance |-> ctx[w].maintenance,
                 parts |-> ctx[w].parts,
                 total |-> ctx[w].parts + maintenance[ctx[w].maintenance].labor])
    /\ UNCHANGED <<shelfVars, workVars, bookVars, calc>>

RecomputeWrite(w) ==
    LET c == ctx[w] IN
    /\ At(w, "costs.write")
    /\ maintenance' = [maintenance EXCEPT ![c.maintenance].parts = c.parts,
                                          ![c.maintenance].total = c.total]
    /\ Return(w)
    /\ calc' = [calc EXCEPT ![w] = NULL]
    /\ UNCHANGED <<shelfVars, item, bookVars>>

\* POST /maintenances/:id/parts: refused when the maintenance read is closed
RequestAddPart(w, m, p, n) ==
    /\ Open(m)
    /\ Known(p)
    /\ maintenance[m].status \notin {"COMPLETED", "CANCELED"}
    /\ Begin(w, "part.check", [maintenance |-> m, part |-> p, quantity |-> n])
    /\ UNCHANGED <<shelfVars, workVars, bookVars, calc>>

CreateItem(w) ==
    LET c == ctx[w] IN
    \E i \in Items :
       /\ At(w, "part.item")
       /\ item[i] = NULL
       /\ \A j \in Items : item[j] = NULL => i <= j
       /\ item' = [item EXCEPT ![i] =
             [maintenance |-> c.maintenance, part |-> c.part,
              quantity |-> c.quantity, reversed |-> FALSE]]
       /\ GotoWith(w, "part.post", [maintenance |-> c.maintenance, item |-> i])
       /\ UNCHANGED <<shelfVars, maintenance, bookVars, calc>>

PostItem(w) ==
    LET i == ctx[w].item
        m == ctx[w].maintenance
    IN
    /\ At(w, "part.post")
    /\ Post(w, Entry(ServicedVehicle[m], "expense", <<"parts", i>>, Cost(i)), "costs.items")
    /\ UNCHANGED <<shelfVars, workVars, ctx, failures>>

\* DELETE /maintenances/:id/parts/:item: reversed is looked at here ...
RequestRemovePart(w, i) ==
    /\ item[i] # NULL
    /\ ~item[i].reversed
    /\ Begin(w, "remove.return", [maintenance |-> item[i].maintenance, item |-> i])
    /\ UNCHANGED <<shelfVars, workVars, bookVars, calc>>

RemoveReturn(w) ==
    /\ At(w, "remove.return")
    /\ GiveBack(w, ctx[w].item, "remove.withdraw")

RemoveWithdraw(w) ==
    LET c == ctx[w] IN
    /\ At(w, "remove.withdraw")
    /\ Withdraw(w, <<"parts", c.item>>, ServicedVehicle[c.maintenance], "remove.mark")
    /\ UNCHANGED <<shelfVars, workVars, ctx, failures>>

\* ... and set two calls later.
RemoveMark(w) ==
    /\ At(w, "remove.mark")
    /\ item' = [item EXCEPT ![ctx[w].item].reversed = TRUE]
    /\ Goto(w, "costs.items")
    /\ UNCHANGED <<shelfVars, maintenance, bookVars, calc>>

\* POST /maintenances/:id/complete refuses nothing but a completed one.  A labour cost
\* that is not sent (NULL) is the one of the row read here.
RequestComplete(w, m, labor) ==
    /\ Open(m)
    /\ maintenance[m].status # "COMPLETED"
    /\ PostingsOf(<<"maintenance", m>>) < MaxEntries
    /\ Begin(w, "complete.write",
             [maintenance |-> m, labor |-> IF labor = NULL THEN maintenance[m].labor ELSE labor])
    /\ UNCHANGED <<shelfVars, workVars, bookVars, calc>>

CompleteWrite(w) ==
    LET c == ctx[w] IN
    /\ At(w, "complete.write")
    /\ maintenance' = [maintenance EXCEPT ![c.maintenance].status = "COMPLETED",
                                          ![c.maintenance].labor  = c.labor]
    /\ Goto(w, IF c.labor > 0 THEN "complete.post" ELSE "costs.items")
    /\ UNCHANGED <<shelfVars, item, bookVars, calc>>

CompletePost(w) ==
    LET c == ctx[w] IN
    /\ At(w, "complete.post")
    /\ Post(w, Entry(ServicedVehicle[c.maintenance], "expense",
                     <<"maintenance", c.maintenance>>, c.labor), "costs.items")
    /\ UNCHANGED <<shelfVars, workVars, ctx, failures>>

\* POST /maintenances/:id/cancel: the items to take back are those read here
RequestCancel(w, m) ==
    /\ Open(m)
    /\ Begin(w, "cancel.next", [maintenance |-> m, todo |-> ItemsOf(m)])
    /\ UNCHANGED <<shelfVars, workVars, bookVars, calc>>

\* The first of those that are left, in the order they were created
FirstOf(todo) == CHOOSE i \in todo : \A j \in todo : i <= j

CancelReturn(w) ==
    /\ At(w, "cancel.next")
    /\ ctx[w].todo # {}
    /\ GiveBack(w, FirstOf(ctx[w].todo), "cancel.withdraw")

CancelWithdraw(w) ==
    LET c == ctx[w] IN
    /\ At(w, "cancel.withdraw")
    /\ Withdraw(w, <<"parts", FirstOf(c.todo)>>, ServicedVehicle[c.maintenance], "cancel.mark")
    /\ UNCHANGED <<shelfVars, workVars, ctx, failures>>

CancelMark(w) ==
    LET c == ctx[w] IN
    /\ At(w, "cancel.mark")
    /\ item' = [item EXCEPT ![FirstOf(c.todo)].reversed = TRUE]
    /\ GotoWith(w, "cancel.next", [c EXCEPT !.todo = @ \ {FirstOf(@)}])
    /\ UNCHANGED <<shelfVars, maintenance, bookVars, calc>>

CancelWrite(w) ==
    /\ At(w, "cancel.next")
    /\ ctx[w].todo = {}
    /\ maintenance' = [maintenance EXCEPT ![ctx[w].maintenance].status = "CANCELED"]
    /\ Return(w)
    /\ calc' = [calc EXCEPT ![w] = NULL]
    /\ UNCHANGED <<shelfVars, item, bookVars>>

MaintenanceStep(w) ==
    \/ RecomputeReadItems(w) \/ RecomputeReadLabor(w) \/ RecomputeWrite(w)
    \/ CreateItem(w) \/ PostItem(w)
    \/ RemoveReturn(w) \/ RemoveWithdraw(w) \/ RemoveMark(w)
    \/ CompleteWrite(w) \/ CompletePost(w)
    \/ CancelReturn(w) \/ CancelWithdraw(w) \/ CancelMark(w) \/ CancelWrite(w)

-----------------------------------------------------------------------------
\* What a user of the stock room and of the workshop may ask for
RegisterPart(w, quantities) == \E p \in Parts, n \in quantities : CreatePart(w, p, n)

PartsRequest(w) ==
    \E p \in Parts, n \in Quantities :
       \/ \E type \in {"ENTRY", "EXIT"} : RequestMove(w, p, type, n)
       \/ RequestMove(w, p, "ADJUSTMENT", -n)
       \/ EditQuantity(w, p, n)

MaintenanceRequest(w, quantities, laborCosts) ==
    \/ \E m \in Maintenances, labor \in laborCosts : CreateMaintenance(w, m, labor)
    \/ \E m \in Maintenances, p \in Parts, n \in quantities : RequestAddPart(w, m, p, n)
    \/ \E i \in Items : RequestRemovePart(w, i)
    \/ \E m \in Maintenances, labor \in laborCosts \cup {NULL} : RequestComplete(w, m, labor)
    \/ \E m \in Maintenances : RequestCancel(w, m)

WorkshopStep(w) ==
    \/ PartsStep(w)
    \/ MaintenanceStep(w)
    \/ LedgerStep(w) /\ UNCHANGED <<shelfVars, workVars>>

WorkshopDie(w) == LedgerDie(w) /\ UNCHANGED <<shelfVars, workVars>>

-----------------------------------------------------------------------------
(* The stock, whatever overlaps and whatever dies                          *)

\* Prisma increments and decrements in the transaction that logs the movement.  As long as
\* nobody moves or edits a quantity by hand, the log explains the stock to the unit, however
\* the maintenances overlap and wherever they stop (parts.service.ts:222-268).
StockIsLogged ==
    \A p \in Parts :
      Known(p) /\ failures = 0 /\ (\A w \in Workers : At(w, "part.log") => ctx[w].part # p)
        => quantity[p] = log[p].net + log[p].reversed - log[p].applied

QuantityOf(p, items) ==
    MapThenSumSet(LAMBDA i : item[i].quantity,
                  {i \in items : item[i] # NULL /\ item[i].part = p})

\* A maintenance never records a part that has not left the stock, nor marks one as reversed
\* that has not come back: the stock is changed first, and a handler that dies in between
\* leaves the shop with more in its log than in its maintenances
\* (maintenance.service.ts:144-160, 196-210).
ItemsAreAccounted ==
    \A p \in Parts :
       /\ QuantityOf(p, Items) <= log[p].applied
       /\ QuantityOf(p, {i \in Items : item[i] # NULL /\ item[i].reversed}) <= log[p].reversed

-----------------------------------------------------------------------------
(* One handler at a time                                                   *)

\* Every handler on its own puts parts on vehicles and takes them back as Shelf does.
Shelved ==
    INSTANCE Shelf WITH
        shelf  <- [p \in Parts |-> IF quantity[p] = NULL THEN 0 ELSE quantity[p]],
        fitted <- [p \in Parts |-> log[p].applied - log[p].reversed]


\* Between two handlers an item on a vehicle has one expense in the books of that vehicle and
\* counts in the costs of its maintenance; a reversed one has none and does not
\* (BUSINESS_RULES.md:27-34).  The costs of a canceled maintenance are not written again.
BooksFollowItems ==
    Quiet =>
      /\ \A i \in Items : item[i] # NULL =>
           PostingsOf(<<"parts", i>>) = IF item[i].reversed THEN 0 ELSE 1
      /\ \A m \in Maintenances : Open(m) /\ maintenance[m].status # "CANCELED" =>
           /\ maintenance[m].parts = MapThenSumSet(Cost, ItemsOf(m))
           /\ maintenance[m].total = maintenance[m].parts + maintenance[m].labor
=============================================================================
