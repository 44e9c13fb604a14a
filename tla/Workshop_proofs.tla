--------------------------- MODULE Workshop_proofs ---------------------------
(***************************************************************************)
(* The workshop, one request at a time, for any number of parts,           *)
(* maintenances and items: stock room and workshop together implement      *)
(* Shelf, and entries and costs follow the items.                          *)
(*                                                                         *)
(* Fresh says that what a handler has looked at is still so when it acts   *)
(* on it.  An expense is posted after its item is recorded and withdrawn   *)
(* before it is marked: Pending are the items in between, and an item has  *)
(* one expense exactly when it is on a vehicle and not pending.  The costs *)
(* of a maintenance are those of its items, or a handler is Settling them: *)
(* it has them written, or the maintenance canceled, before it ends.       *)
(***************************************************************************)
EXTENDS Books_proofs

-----------------------------------------------------------------------------
(* One handler at a time: the shelf                                        *)

Alone == \A w, x \in Workers : pc[w] # "idle" /\ pc[x] # "idle" => w = x

Stocked == \A p \in Parts : Known(p) => quantity[p] \in Nat

\* What handler w has looked at is still so when it acts on it.
Fresh(w) ==
    /\ pc[w] = "part.take" => ctx[w].quantity <= quantity[ctx[w].part]
    /\ Place(w) = "remove.return" => ~item[ctx[w].item].reversed
    /\ Place(w) = "cancel.next" => \A i \in ctx[w].todo : ~item[i].reversed
    /\ Place(w) \in {"cancel.withdraw", "cancel.mark"} =>
          \A i \in ctx[w].todo \ {FirstOf(ctx[w].todo)} : ~item[i].reversed

SerialInv ==
    /\ Alone
    /\ Stocked
    /\ Exact
    /\ \A w \in Workers : Fresh(w)

LEMMA StepMoves ==
    ASSUME ShopInv, NEW w \in Workers, WorkshopStep(w)
    PROVE  OnlyMoves(w) /\ pc[w] # "idle"
<1>1. CASE Consume(w)
  BY <1>1, Continues DEF Consume, At, ShopLabels
<1>2. CASE CreateItem(w)
  <2>1. PICK i : /\ pc[w] = "part.item" /\ UNCHANGED calc
                 /\ GotoWith(w, "part.post", [maintenance |-> ctx[w].maintenance, item |-> i])
    BY <1>2 DEF CreateItem, At
  <2> QED BY <2>1, Continues DEF ShopLabels
<1>3. CASE RemoveReturn(w) \/ CancelReturn(w)
  <2>1. PICK next \in {"remove.withdraw", "cancel.withdraw"} :
          pc[w] # "idle" /\ Goto(w, next) /\ UNCHANGED calc
    BY <1>3 DEF RemoveReturn, CancelReturn, GiveBack, At
  <2> QED BY <2>1, Continues DEF ShopLabels
<1>4. CASE RemoveMark(w) \/ CancelMark(w)
  <2>1. CASE RemoveMark(w)
    BY <2>1, Continues DEF RemoveMark, At, ShopLabels
  <2>2. CASE CancelMark(w)
    BY <2>2, Continues DEF CancelMark, At, ShopLabels
  <2> QED BY <1>4, <2>1, <2>2
<1>5. CASE \/ LogFirstStock(w) \/ Move(w) \/ ConsumeCheck(w)
           \/ RecomputeReadItems(w) \/ RecomputeReadLabor(w) \/ RecomputeWrite(w)
           \/ PostItem(w) \/ RemoveWithdraw(w) \/ CompleteWrite(w) \/ CompletePost(w)
           \/ CancelWithdraw(w) \/ CancelWrite(w)
  <2>1. pc[w] # "idle"
    BY <1>5 DEF LogFirstStock, Move, ConsumeCheck, RecomputeReadItems, RecomputeReadLabor,
       RecomputeWrite, PostItem, RemoveWithdraw, CompleteWrite, CompletePost, CancelWithdraw,
       CancelWrite, At
  <2> QED BY <1>5, <2>1, CalmStep DEF Calm
<1>6. CASE LedgerStep(w) /\ UNCHANGED <<shelfVars, workVars>>
  <2>1. DreStep(w)
    BY <1>6, OtherLabels DEF LedgerStep
  <2>2. pc[w] # "idle"
    BY <2>1 DEF DreStep, DreReadVehicle, DreReadEntries, DreReadCommissions, DreSave, At
  <2> QED BY <1>6, <2>2, CalmStep DEF Calm
<1> QED BY <1>1, <1>2, <1>3, <1>4, <1>5, <1>6 DEF WorkshopStep, PartsStep, MaintenanceStep

LEMMA Turn ==
    ASSUME NEW w \in Workers, OnlyMoves(w), Fresh(w)', \A x \in Workers \ {w} : pc[x] = "idle"
    PROVE  Alone' /\ \A x \in Workers : Fresh(x)'
<1>1. \A x \in Workers \ {w} : pc'[x] = "idle"
  BY DEF OnlyMoves
<1>2. \A x \in Workers \ {w} : Fresh(x)'
  BY <1>1 DEF Fresh, Place, DreLabels
<1> QED BY <1>1, <1>2 DEF Alone

LEMMA FreshRequest ==
    ASSUME ShopInv, NEW w \in Workers, Request(w), schedule # "ledger"
    PROVE  Fresh(w)'
<1>1. ASSUME NEW label \in {"part.log", "move.write", "part.check", "complete.write"}, NEW l,
             Begin(w, label, l), UNCHANGED calc
      PROVE  Fresh(w)'
  <2>1. pc'[w] = label
    BY <1>1, Starts DEF ShopLabels
  <2> QED BY <2>1 DEF Fresh, Place, DreLabels
<1>2. ASSUME pc[w] = "idle", pc' = pc PROVE Fresh(w)'
  BY <1>2 DEF Fresh, Place, DreLabels
<1>3. CASE \E quantities : RegisterPart(w, quantities)
  BY <1>1, <1>3 DEF RegisterPart, CreatePart
<1>4. CASE PartsRequest(w)
  BY <1>1, <1>2, <1>4 DEF PartsRequest, RequestMove, EditQuantity, ledgerVars, handlerVars
<1>5. CASE \E quantities, laborCosts : MaintenanceRequest(w, quantities, laborCosts)
  <2>1. PICK quantities, laborCosts : MaintenanceRequest(w, quantities, laborCosts)
    BY <1>5
  <2>2. CASE \E m \in Maintenances, labor \in laborCosts : CreateMaintenance(w, m, labor)
    BY <1>2, <2>2 DEF CreateMaintenance, ledgerVars, handlerVars
  <2>3. CASE \E m \in Maintenances, p \in Parts, n \in quantities : RequestAddPart(w, m, p, n)
    BY <1>1, <2>3 DEF RequestAddPart
  <2>4. CASE \E i \in Items : RequestRemovePart(w, i)
    <3>1. PICK i \in Items : RequestRemovePart(w, i)
      BY <2>4
    <3>2. PICK l : l = [maintenance |-> item[i].maintenance, item |-> i]
      OBVIOUS
    <3>3. /\ Begin(w, "remove.return", l) /\ l.item = i
          /\ ~item[i].reversed /\ item' = item /\ UNCHANGED calc
      BY <3>1, <3>2 DEF RequestRemovePart, workVars
    <3>4. pc'[w] = "remove.return" /\ ctx'[w] = l
      BY <3>3, Starts DEF ShopLabels
    <3> QED BY <3>3, <3>4 DEF Fresh, Place, DreLabels
  <2>5. CASE \E m \in Maintenances, labor \in laborCosts \cup {NULL} : RequestComplete(w, m, labor)
    BY <1>1, <2>5 DEF RequestComplete
  <2>6. CASE \E m \in Maintenances : RequestCancel(w, m)
    <3>1. PICK m \in Maintenances : RequestCancel(w, m)
      BY <2>6
    <3>2. PICK l : l = [maintenance |-> m, todo |-> ItemsOf(m)]
      OBVIOUS
    <3>3. /\ Begin(w, "cancel.next", l) /\ l.todo = ItemsOf(m)
          /\ item' = item /\ UNCHANGED calc
      BY <3>1, <3>2 DEF RequestCancel, workVars
    <3>4. pc'[w] = "cancel.next" /\ ctx'[w] = l
      BY <3>3, Starts DEF ShopLabels
    <3> QED BY <3>3, <3>4 DEF Fresh, Place, DreLabels, ItemsOf
  <2> QED BY <2>1, <2>2, <2>3, <2>4, <2>5, <2>6 DEF MaintenanceRequest
<1> QED BY <1>3, <1>4, <1>5 DEF Request

LEMMA FreshStep ==
    ASSUME ShopInv, NEW w \in Workers, Fresh(w), WorkshopStep(w)
    PROVE  Fresh(w)'
<1>1. OnlyMoves(w) /\ Fresh(w) /\ DOMAIN pc = Workers /\ DOMAIN ctx = Workers /\ DOMAIN calc = Workers
  BY StepMoves DEF ShopInv, FramesOK
<1>2. ASSUME NEW label \in {"idle", "part.item", "part.post", "costs.items", "costs.labor",
                            "costs.write", "complete.post", "remove.withdraw"},
             pc' = [pc EXCEPT ![w] = label]
      PROVE  Fresh(w)'
  <2>1. pc'[w] = label
    BY <1>1, <1>2
  <2> QED BY <2>1 DEF Fresh, Place, DreLabels
<1>3. CASE LogFirstStock(w) \/ Move(w) \/ Consume(w)
  BY <1>2, <1>3 DEF LogFirstStock, Move, Consume, Return, Goto
<1>4. CASE ConsumeCheck(w)
  <2>1. CASE Return(w)
    BY <1>2, <2>1 DEF Return
  <2>2. CASE Goto(w, "part.take")
    <3>1. /\ pc[w] = "part.check" /\ ~(quantity[ctx[w].part] < ctx[w].quantity)
          /\ quantity' = quantity /\ pc'[w] = "part.take" /\ ctx' = ctx
      BY <1>1, <1>4, <2>2 DEF ConsumeCheck, Goto, Return, At, shelfVars
    <3>2. ctx[w] \in AddLocals /\ Known(ctx[w].part) /\ TablesOK
      BY <3>1 DEF ShopInv, WorkOK
    <3>3. quantity[ctx[w].part] \in Int /\ ctx[w].quantity \in Int
      BY <3>2 DEF AddLocals, Known, TablesOK, Positive
    <3>4. ctx[w].quantity <= quantity[ctx[w].part]
      BY <3>1, <3>3
    <3> QED BY <3>1, <3>4 DEF Fresh, Place, DreLabels
  <2> QED BY <1>4, <2>1, <2>2 DEF ConsumeCheck
<1>5. CASE RecomputeReadItems(w) \/ RecomputeReadLabor(w) \/ RecomputeWrite(w)
  BY <1>2, <1>5 DEF RecomputeReadItems, RecomputeReadLabor, RecomputeWrite, GotoWith, Return
<1>6. CASE CreateItem(w) \/ RemoveReturn(w) \/ RemoveMark(w) \/ CompleteWrite(w) \/ CancelWrite(w)
  BY <1>2, <1>6 DEF CreateItem, RemoveReturn, RemoveMark, CompleteWrite, CancelWrite, GiveBack,
     GotoWith, Goto, Return
<1>7. ASSUME NEW v, NEW next \in NextLabels, Recalculate(w, v, next), UNCHANGED <<item, ctx>>,
             next = "cancel.mark" => pc[w] = "cancel.withdraw"
      PROVE  Fresh(w)'
  <2>1. pc'[w] = "dre.vehicle" /\ calc'[w].next = next
    BY <1>1, <1>7 DEF Recalculate
  <2>2. Place(w)' = next
    BY <2>1 DEF Place, DreLabels
  <2>3. next = "cancel.mark" => \A i \in ctx[w].todo \ {FirstOf(ctx[w].todo)} : ~item[i].reversed
    BY <1>1, <1>7 DEF Fresh, Place, DreLabels
  <2> QED BY <1>7, <2>1, <2>2, <2>3 DEF Fresh, NextLabels
<1>8. CASE PostItem(w) \/ CompletePost(w) \/ RemoveWithdraw(w)
  <2>1. PICK v, next : /\ Recalculate(w, v, next) /\ next \in {"costs.items", "remove.mark"}
                       /\ UNCHANGED <<item, ctx>>
    BY <1>8 DEF PostItem, CompletePost, RemoveWithdraw, Post, Withdraw, workVars
  <2> QED BY <1>7, <2>1 DEF NextLabels
<1>9. CASE CancelWithdraw(w)
  <2>1. PICK v : Recalculate(w, v, "cancel.mark") /\ UNCHANGED <<item, ctx>>
                 /\ pc[w] = "cancel.withdraw"
    BY <1>9 DEF CancelWithdraw, Withdraw, At, workVars
  <2> QED BY <1>7, <2>1 DEF NextLabels
<1>10. CASE CancelReturn(w)
  <2>1. /\ pc[w] = "cancel.next" /\ pc'[w] = "cancel.withdraw" /\ ctx' = ctx /\ item' = item
    BY <1>1, <1>10 DEF CancelReturn, GiveBack, Goto, At, workVars
  <2>2. \A i \in ctx[w].todo : ~item[i].reversed
    BY <1>1, <2>1 DEF Fresh, Place, DreLabels
  <2> QED BY <2>1, <2>2 DEF Fresh, Place, DreLabels
<1>11. CASE CancelMark(w)
  <2>1. PICK f, l : f = FirstOf(ctx[w].todo) /\ l = [ctx[w] EXCEPT !.todo = @ \ {FirstOf(@)}]
    OBVIOUS
  <2>2. /\ pc[w] = "cancel.mark" /\ pc'[w] = "cancel.next" /\ ctx'[w] = l
        /\ item' = [item EXCEPT ![f].reversed = TRUE]
    BY <1>1, <1>11, <2>1 DEF CancelMark, GotoWith, At
  <2>3. ctx[w] \in CancelLocals
    BY <2>2 DEF ShopInv, WorkOK, Place, DreLabels
  <2>4. l.todo = ctx[w].todo \ {f} /\ ctx[w].todo \subseteq Items
    BY <2>1, <2>3 DEF CancelLocals
  <2>5. \A i \in l.todo : item'[i] = item[i]
    BY <2>2, <2>4 DEF ShopInv, TablesOK
  <2>6. \A i \in ctx[w].todo \ {f} : ~item[i].reversed
    BY <1>1, <2>1, <2>2 DEF Fresh, Place, DreLabels
  <2>7. \A i \in l.todo : ~item'[i].reversed
    BY <2>4, <2>5, <2>6
  <2> QED BY <2>2, <2>7 DEF Fresh, Place, DreLabels
<1>12. CASE LedgerStep(w) /\ UNCHANGED <<shelfVars, workVars>>
  <2>1. DreStep(w)
    BY <1>12, OtherLabels DEF LedgerStep
  <2>2. /\ pc[w] \in DreLabels /\ "next" \in DOMAIN calc[w] /\ calc[w].next \in NextLabels
        /\ item' = item
    BY <1>12, <2>1 DEF DreStep, DreReadVehicle, DreReadEntries, DreReadCommissions, DreSave, At,
       ShopInv, WorkOK, DreLabels, workVars
  <2>3. \/ pc'[w] \in DreLabels /\ calc'[w].next = calc[w].next
        \/ pc'[w] = calc[w].next
    <3>1. CASE DreSave(w)
      BY <1>1, <2>2, <3>1 DEF DreSave, Goto, NextLabels
    <3>2. CASE DreReadVehicle(w)
      BY <1>1, <2>2, <3>2 DEF DreReadVehicle, Goto, DreLabels
    <3>3. CASE DreReadEntries(w)
      BY <1>1, <2>2, <3>3 DEF DreReadEntries, Goto, DreLabels
    <3>4. CASE DreReadCommissions(w)
      BY <1>1, <2>2, <3>4 DEF DreReadCommissions, Goto, DreLabels
    <3> QED BY <2>1, <3>1, <3>2, <3>3, <3>4 DEF DreStep
  <2>4. ctx'[w] = ctx[w]
    BY <2>1, <2>2 DEF DreStep, DreReadVehicle, DreReadEntries, DreReadCommissions, DreSave, Goto,
       NextLabels
  <2>5. Place(w)' = Place(w) /\ Place(w) \in NextLabels /\ pc'[w] # "part.take"
    BY <2>2, <2>3 DEF Place, NextLabels, DreLabels
  <2> QED BY <1>1, <2>2, <2>4, <2>5 DEF Fresh, NextLabels
<1> QED BY <1>3, <1>4, <1>5, <1>6, <1>8, <1>9, <1>10, <1>11, <1>12
        DEF WorkshopStep, PartsStep, MaintenanceStep

\* The shelf of a shop, as Shelf sees it
ShelfNow  == [p \in Parts |-> IF quantity[p] = NULL THEN 0 ELSE quantity[p]]
FittedNow == [p \in Parts |-> log[p].applied - log[p].reversed]

LEMMA ShelfSteps ==
    ASSUME NEW p \in Parts,
           \/ \E n \in Nat : ShelfNow' = [ShelfNow EXCEPT ![p] = n] /\ FittedNow' = FittedNow
           \/ \E n \in Int : /\ n \in 1 .. ShelfNow[p] /\ ShelfNow[p] \in Int
                             /\ ShelfNow' = [ShelfNow EXCEPT ![p] = @ - n]
                             /\ FittedNow' = [FittedNow EXCEPT ![p] = @ + n]
           \/ \E n \in Int : /\ n \in 1 .. FittedNow[p] /\ ShelfNow[p] \in Int
                             /\ ShelfNow' = [ShelfNow EXCEPT ![p] = @ + n]
                             /\ FittedNow' = [FittedNow EXCEPT ![p] = @ - n]
    PROVE  Shelved!Next
<1>1. CASE \E n \in Nat : ShelfNow' = [ShelfNow EXCEPT ![p] = n] /\ FittedNow' = FittedNow
  <2>1. PICK n \in Nat : ShelfNow' = [ShelfNow EXCEPT ![p] = n] /\ FittedNow' = FittedNow
    BY <1>1
  <2>2. ShelfNow'[p] = n
    BY <2>1 DEF ShelfNow
  <2>3. Shelved!Restock(p, ShelfNow'[p])
    BY <2>1, <2>2 DEF Shelved!Restock, ShelfNow, FittedNow
  <2> QED BY <2>3 DEF Shelved!Next, ShelfNow
<1>2. CASE \E n \in Int : /\ n \in 1 .. ShelfNow[p] /\ ShelfNow[p] \in Int
                          /\ ShelfNow' = [ShelfNow EXCEPT ![p] = @ - n]
                          /\ FittedNow' = [FittedNow EXCEPT ![p] = @ + n]
  <2>1. PICK n \in Int : /\ n \in 1 .. ShelfNow[p] /\ ShelfNow[p] \in Int
                         /\ ShelfNow' = [ShelfNow EXCEPT ![p] = @ - n]
                         /\ FittedNow' = [FittedNow EXCEPT ![p] = @ + n]
    BY <1>2
  <2>2. ShelfNow'[p] = ShelfNow[p] - n
    BY <2>1 DEF ShelfNow
  <2>3. ShelfNow[p] - ShelfNow'[p] = n
    BY <2>1, <2>2
  <2>4. Shelved!Fit(p, ShelfNow[p] - ShelfNow'[p])
    BY <2>1, <2>3 DEF Shelved!Fit, ShelfNow, FittedNow
  <2> QED BY <2>4 DEF Shelved!Next, ShelfNow
<1>3. CASE \E n \in Int : /\ n \in 1 .. FittedNow[p] /\ ShelfNow[p] \in Int
                          /\ ShelfNow' = [ShelfNow EXCEPT ![p] = @ + n]
                          /\ FittedNow' = [FittedNow EXCEPT ![p] = @ - n]
  <2>1. PICK n \in Int : /\ n \in 1 .. FittedNow[p] /\ ShelfNow[p] \in Int
                         /\ ShelfNow' = [ShelfNow EXCEPT ![p] = @ + n]
                         /\ FittedNow' = [FittedNow EXCEPT ![p] = @ - n]
    BY <1>3
  <2>2. ShelfNow'[p] = ShelfNow[p] + n
    BY <2>1 DEF ShelfNow
  <2>3. ShelfNow'[p] - ShelfNow[p] = n
    BY <2>1, <2>2
  <2>4. Shelved!GiveBack(p, ShelfNow'[p] - ShelfNow[p])
    BY <2>1, <2>3 DEF Shelved!GiveBack, ShelfNow, FittedNow
  <2> QED BY <2>4 DEF Shelved!Next, ShelfNow
<1> QED BY <1>1, <1>2, <1>3

LogStays == \A p \in Parts : log'[p].applied = log[p].applied /\ log'[p].reversed = log[p].reversed

LEMMA ShelfTyped ==
    ASSUME ShopInv, Stocked, NEW p \in Parts
    PROVE  /\ ShelfNow[p] \in Nat /\ (Known(p) => ShelfNow[p] = quantity[p])
           /\ FittedNow[p] = log[p].applied - log[p].reversed
           /\ log[p].applied \in Int /\ log[p].reversed \in Int
BY DEF ShopInv, TablesOK, Stocked, ShelfNow, FittedNow, LogRows, Known

LEMMA ShelfStays ==
    ASSUME ShopInv, Stocked, Parts # {}, quantity' = quantity, LogStays
    PROVE  Stocked' /\ Shelved!Next
<1>1. ShelfNow' = ShelfNow /\ FittedNow' = FittedNow
  BY DEF ShelfNow, FittedNow, LogStays
<1>2. PICK p \in Parts : TRUE
  OBVIOUS
<1>3. ShelfNow[p] \in Nat
  BY ShelfTyped
<1>4. ShelfNow' = [ShelfNow EXCEPT ![p] = ShelfNow[p]]
  BY <1>1 DEF ShelfNow
<1>5. Shelved!Next
  BY <1>1, <1>3, <1>4, ShelfSteps
<1> QED BY <1>5 DEF Stocked, Known

LEMMA ShelfIsSet ==
    ASSUME ShopInv, Stocked, NEW p \in Parts, NEW n \in Nat,
           quantity' = [quantity EXCEPT ![p] = n], LogStays
    PROVE  Stocked' /\ Shelved!Next
<1>1. \A q \in Parts : quantity'[q] = IF q = p THEN n ELSE quantity[q]
  BY DEF ShopInv, TablesOK
<1>2. n # NULL
  BY AbsenceAssumption
<1>3. ShelfNow' = [ShelfNow EXCEPT ![p] = n]
  BY <1>1, <1>2 DEF ShelfNow
<1>4. FittedNow' = FittedNow
  BY DEF FittedNow, LogStays
<1>5. Shelved!Next
  BY <1>3, <1>4, ShelfSteps
<1>6. Stocked'
  BY <1>1 DEF Stocked, Known
<1> QED BY <1>5, <1>6

LEMMA ShelfRequest ==
    ASSUME ShopInv, Stocked, Parts # {}, NEW w \in Workers, Request(w), schedule # "ledger"
    PROVE  Stocked' /\ Shelved!Next
<1>1. LogStays
  BY CalmRequest DEF Calm, LogStays
<1>2. CASE \E p \in Parts, n \in Nat : quantity' = [quantity EXCEPT ![p] = n]
  BY <1>1, <1>2, ShelfIsSet
<1>3. CASE quantity' = quantity
  BY <1>1, <1>3, ShelfStays
<1>4. CASE RegisterPart(w, Quantities) \/ RegisterPart(w, OverlapQuantities)
  <2>1. \E p \in Parts, n \in Nat : quantity' = [quantity EXCEPT ![p] = n]
    BY <1>4, WorkshopAssumption, BooksAssumption DEF RegisterPart, CreatePart
  <2> QED BY <1>2, <2>1
<1>5. CASE PartsRequest(w)
  <2>1. Quantities \subseteq Nat
    BY WorkshopAssumption
  <2>2. (\E p \in Parts, n \in Nat : quantity' = [quantity EXCEPT ![p] = n]) \/ quantity' = quantity
    BY <1>5, <2>1 DEF PartsRequest, RequestMove, EditQuantity, shelfVars
  <2> QED BY <1>2, <1>3, <2>2
<1>6. CASE \E quantities, laborCosts : MaintenanceRequest(w, quantities, laborCosts)
  <2>1. quantity' = quantity
    BY <1>6 DEF MaintenanceRequest, CreateMaintenance, RequestAddPart, RequestRemovePart,
       RequestComplete, RequestCancel, shelfVars
  <2> QED BY <1>3, <2>1
<1> QED BY <1>4, <1>5, <1>6 DEF Request

LEMMA ShelfTaken ==
    ASSUME ShopInv, SerialInv, NEW w \in Workers, Consume(w)
    PROVE  Stocked' /\ Shelved!Next
<1>1. PICK p, n : p = ctx[w].part /\ n = ctx[w].quantity
  OBVIOUS
<1>2. /\ pc[w] = "part.take" /\ quantity' = [quantity EXCEPT ![p] = @ - n]
      /\ log' = [log EXCEPT ![p].applied = @ + n]
  BY <1>1 DEF Consume, At
<1>3. p \in Parts /\ n \in Positive /\ Known(p) /\ n <= quantity[p] /\ Stocked
  BY <1>1, <1>2 DEF ShopInv, SerialInv, Fresh, WorkOK, AddLocals
<1>4. quantity[p] \in Nat /\ ShelfNow[p] = quantity[p] /\ n \in 1 .. ShelfNow[p]
  BY <1>3, ShelfTyped DEF Positive, Stocked
<1>5. quantity[p] - n \in Nat /\ quantity[p] - n # NULL
  BY <1>3, <1>4, AbsenceAssumption DEF Positive
<1>6. \A q \in Parts : quantity'[q] = IF q = p THEN quantity[p] - n ELSE quantity[q]
  BY <1>2 DEF ShopInv, TablesOK
<1>7. Stocked'
  BY <1>3, <1>5, <1>6 DEF Stocked, Known
<1>8. ShelfNow' = [ShelfNow EXCEPT ![p] = @ - n]
  <2>1. \A q \in Parts : (IF quantity'[q] = NULL THEN 0 ELSE quantity'[q]) =
           IF q = p THEN ShelfNow[p] - n ELSE ShelfNow[q]
    BY <1>4, <1>5, <1>6 DEF ShelfNow
  <2> QED BY <2>1 DEF ShelfNow
<1>9. FittedNow' = [FittedNow EXCEPT ![p] = @ + n]
  <2>1. \A q \in Parts : log'[q].reversed = log[q].reversed
           /\ log'[q].applied = IF q = p THEN log[q].applied + n ELSE log[q].applied
    BY <1>2, <1>3 DEF ShopInv, TablesOK, LogRows
  <2>2. \A q \in Parts : log[q].applied \in Int /\ log[q].reversed \in Int /\ n \in Int
    BY <1>3, ShelfTyped DEF Positive
  <2>3. \A q \in Parts : log'[q].applied - log'[q].reversed =
           IF q = p THEN FittedNow[p] + n ELSE FittedNow[q]
    BY <2>1, <2>2 DEF FittedNow
  <2> QED BY <2>3 DEF FittedNow
<1>10. n \in Int /\ ShelfNow[p] \in Int
  BY <1>3, <1>4 DEF Positive
<1>11. Shelved!Next
  BY <1>3, <1>4, <1>8, <1>9, <1>10, ShelfSteps
<1> QED BY <1>7, <1>11

\* An item that comes back was on a vehicle.
LEMMA WasFitted ==
    ASSUME ShopInv, AccountsInv, Exact, NEW i, Recorded(i), i \notin BackItems(item[i].part)
    PROVE  item[i].quantity \in 1 .. FittedNow[item[i].part]
<1>1. PICK p, n : p = item[i].part /\ n = item[i].quantity
  OBVIOUS
<1>2. p \in Parts /\ n \in Positive /\ i \in ItemsFor(p) /\ ItemQuantity[i] = n
  BY <1>1, NoItem DEF Recorded, ItemRows, ItemsFor, ItemQuantity
<1>3. /\ IsFiniteSet(ItemsFor(p)) /\ IsFiniteSet(BackItems(p))
      /\ BackItems(p) \subseteq ItemsFor(p)
      /\ \A j \in ItemsFor(p) : ItemQuantity[j] \in Positive
      /\ SumOver(ItemQuantity, ItemsFor(p)) \in Nat
      /\ SumOver(Load, Flying(p)) \in Nat
      /\ GivenUp(p) \in Nat /\ log[p] \in LogRows
  BY <1>2, AccountsTyped DEF AccountsInv
<1>4. \A j \in ItemsFor(p) : ItemQuantity[j] \in Nat /\ ItemQuantity[j] \in Int
  BY <1>3 DEF Positive
<1>5. SumOver(ItemQuantity, BackItems(p) \cup {i}) = n + GivenUp(p)
  BY <1>1, <1>2, <1>3, <1>4, SumAdd DEF GivenUp
<1>6. SumOver(ItemQuantity, BackItems(p) \cup {i}) <= SumOver(ItemQuantity, ItemsFor(p))
  BY <1>2, <1>3, <1>4, SumGrows
<1>7. Recording(p) <= log[p].applied /\ log[p].reversed <= GivenUp(p)
  BY <1>2 DEF AccountsInv, Exact
<1>8. log[p].applied \in Int /\ log[p].reversed \in Int /\ n \in Nat /\ n >= 1
  BY <1>2, <1>3 DEF LogRows, Positive
<1>9. n <= log[p].applied - log[p].reversed
  BY <1>3, <1>5, <1>6, <1>7, <1>8 DEF Recording
<1>10. FittedNow[p] = log[p].applied - log[p].reversed
  BY <1>2 DEF FittedNow
<1> QED BY <1>1, <1>8, <1>9, <1>10

\* Alone, a handler gives back what nobody has given back before.
LEMMA NotBack ==
    ASSUME ShopInv, SerialInv, NEW w \in Workers, RemoveReturn(w) \/ CancelReturn(w)
    PROVE  Recorded(AtHand(w)) /\ AtHand(w) \notin BackItems(item[AtHand(w)].part)
<1>1. PICK i : i = AtHand(w)
  OBVIOUS
<1>2. pc[w] \in {"remove.return", "cancel.next"}
  BY DEF RemoveReturn, CancelReturn, At
<1>3. \A j : ~Returning(w, j)
  BY <1>2 DEF Returning, Place, DreLabels
<1>4. \A x \in Workers \ {w} : pc[x] = "idle"
  BY <1>2 DEF SerialInv, Alone
<1>5. \A x \in Workers \ {w} : \A j : ~Returning(x, j)
  BY <1>4 DEF Returning, Place, DreLabels
<1>6. Recorded(i) /\ ~item[i].reversed
  <2>1. CASE RemoveReturn(w)
    <3>1. Place(w) = "remove.return"
      BY <2>1 DEF RemoveReturn, At, Place, DreLabels
    <3> QED BY <1>1, <3>1 DEF SerialInv, Fresh, ShopInv, WorkOK, AtHand
  <2>2. CASE CancelReturn(w)
    <3>1. Place(w) = "cancel.next" /\ ctx[w].todo # {}
      BY <2>2 DEF CancelReturn, At, Place, DreLabels
    <3>2. /\ ctx[w] \in CancelLocals /\ \A j \in ctx[w].todo : Recorded(j)
          /\ \A j \in ctx[w].todo : ~item[j].reversed
      BY <3>1 DEF SerialInv, Fresh, ShopInv, WorkOK
    <3>3. i \in ctx[w].todo
      BY <1>1, <3>1, <3>2, FirstOfMany DEF AtHand, CancelLocals
    <3> QED BY <3>2, <3>3
  <2> QED BY <2>1, <2>2
<1>7. i \notin BackItems(item[i].part)
  BY <1>3, <1>5, <1>6 DEF BackItems
<1> QED BY <1>1, <1>6, <1>7

LEMMA ShelfReturned ==
    ASSUME ShopInv, AccountsInv, SerialInv, NEW w \in Workers, RemoveReturn(w) \/ CancelReturn(w)
    PROVE  Stocked' /\ Shelved!Next
<1>1. PICK i : i = AtHand(w)
  OBVIOUS
<1>2. Recorded(i) /\ i \notin BackItems(item[i].part)
  BY <1>1, NotBack
<1>3. \E next : GiveBack(w, i, next)
  <2>1. CASE RemoveReturn(w)
    BY <1>1, <2>1 DEF RemoveReturn, At, AtHand, Place, DreLabels
  <2>2. CASE CancelReturn(w)
    BY <1>1, <2>2 DEF CancelReturn, At, AtHand, Place, DreLabels
  <2> QED BY <2>1, <2>2
<1>4. PICK p, n : p = item[i].part /\ n = item[i].quantity
  OBVIOUS
<1>5. /\ quantity' = [quantity EXCEPT ![p] = @ + n]
      /\ log' = [log EXCEPT ![p].reversed = @ + n]
  BY <1>3, <1>4 DEF GiveBack
<1>6. p \in Parts /\ n \in Nat /\ Known(p) /\ Stocked
  BY <1>2, <1>4 DEF Recorded, ItemRows, Positive, ShopInv, TablesOK, SerialInv
<1>7. n \in 1 .. FittedNow[p]
  BY <1>2, <1>4, WasFitted DEF SerialInv
<1>8. quantity[p] \in Nat /\ ShelfNow[p] = quantity[p]
  BY <1>6, ShelfTyped DEF Stocked
<1>9. quantity[p] + n \in Nat /\ quantity[p] + n # NULL
  BY <1>6, <1>8, AbsenceAssumption
<1>10. \A q \in Parts : quantity'[q] = IF q = p THEN quantity[p] + n ELSE quantity[q]
  BY <1>5 DEF ShopInv, TablesOK
<1>11. Stocked'
  BY <1>6, <1>9, <1>10 DEF Stocked, Known
<1>12. ShelfNow' = [ShelfNow EXCEPT ![p] = @ + n]
  <2>1. \A q \in Parts : (IF quantity'[q] = NULL THEN 0 ELSE quantity'[q]) =
           IF q = p THEN ShelfNow[p] + n ELSE ShelfNow[q]
    BY <1>8, <1>9, <1>10 DEF ShelfNow
  <2> QED BY <2>1 DEF ShelfNow
<1>13. FittedNow' = [FittedNow EXCEPT ![p] = @ - n]
  <2>1. \A q \in Parts : log'[q].applied = log[q].applied
           /\ log'[q].reversed = IF q = p THEN log[q].reversed + n ELSE log[q].reversed
    BY <1>5, <1>6 DEF ShopInv, TablesOK, LogRows
  <2>2. \A q \in Parts : log[q].applied \in Int /\ log[q].reversed \in Int
    BY <1>6, ShelfTyped
  <2>3. \A q \in Parts : log'[q].applied - log'[q].reversed =
           IF q = p THEN FittedNow[p] - n ELSE FittedNow[q]
    BY <1>6, <2>1, <2>2 DEF FittedNow
  <2> QED BY <2>3 DEF FittedNow
<1>14. n \in Int /\ ShelfNow[p] \in Int
  BY <1>6, <1>8
<1>15. Shelved!Next
  BY <1>6, <1>7, <1>12, <1>13, <1>14, ShelfSteps
<1> QED BY <1>11, <1>15

LEMMA ShelfStep ==
    ASSUME ShopInv, AccountsInv, SerialInv, Parts # {}, NEW w \in Workers, WorkshopStep(w)
    PROVE  Stocked' /\ Shelved!Next
<1>1. CASE Consume(w)
  BY <1>1, ShelfTaken
<1>2. CASE RemoveReturn(w) \/ CancelReturn(w)
  BY <1>2, ShelfReturned
<1>3. CASE Move(w)
  <2>1. ctx[w].part \in Parts /\ ctx[w].stock \in Nat
    BY <1>3 DEF Move, At, ShopInv, WorkOK, MoveLocals
  <2>2. quantity' = [quantity EXCEPT ![ctx[w].part] = ctx[w].stock]
    BY <1>3 DEF Move
  <2>3. LogStays
    BY <1>3, CalmStep DEF Calm, LogStays
  <2> QED BY <2>1, <2>2, <2>3, ShelfIsSet DEF SerialInv
<1>4. CASE CreateItem(w) \/ RemoveMark(w) \/ CancelMark(w)
  <2>1. quantity' = quantity /\ LogStays
    BY <1>4 DEF CreateItem, RemoveMark, CancelMark, shelfVars, LogStays
  <2> QED BY <2>1, ShelfStays DEF SerialInv
<1>5. CASE \/ LogFirstStock(w) \/ ConsumeCheck(w)
           \/ RecomputeReadItems(w) \/ RecomputeReadLabor(w) \/ RecomputeWrite(w)
           \/ PostItem(w) \/ RemoveWithdraw(w) \/ CompleteWrite(w) \/ CompletePost(w)
           \/ CancelWithdraw(w) \/ CancelWrite(w)
           \/ LedgerStep(w) /\ UNCHANGED <<shelfVars, workVars>>
  <2>1. LogStays
    BY <1>5, CalmStep DEF Calm, LogStays
  <2>2. quantity' = quantity
    BY <1>5 DEF LogFirstStock, ConsumeCheck, RecomputeReadItems, RecomputeReadLabor,
       RecomputeWrite, PostItem, RemoveWithdraw, CompleteWrite, CompletePost, CancelWithdraw,
       CancelWrite, shelfVars
  <2> QED BY <2>1, <2>2, ShelfStays DEF SerialInv
<1> QED BY <1>1, <1>2, <1>3, <1>4, <1>5 DEF WorkshopStep, PartsStep, MaintenanceStep

LEMMA SerialKept ==
    ASSUME ShopInv, ShopInv', AccountsInv, SerialInv, Parts # {}, schedule = "workshop",
           NEW w \in Workers, Request(w) \/ WorkshopStep(w)
    PROVE  SerialInv' /\ Shelved!Next
<1>1. CASE Request(w)
  <2>1. \A x \in Workers \ {w} : pc[x] = "idle"
    BY <1>1 DEF Request, Quiet
  <2>2. OnlyMoves(w) /\ Fresh(w)'
    BY <1>1, CalmRequest, FreshRequest DEF Calm
  <2>3. Exact'
    BY <1>1, AccountsRequest DEF SerialInv
  <2>4. Stocked' /\ Shelved!Next
    BY <1>1, ShelfRequest DEF SerialInv
  <2> QED BY <2>1, <2>2, <2>3, <2>4, Turn DEF SerialInv
<1>2. CASE WorkshopStep(w)
  <2>1. OnlyMoves(w) /\ pc[w] # "idle" /\ Fresh(w)'
    BY <1>2, StepMoves, FreshStep DEF SerialInv
  <2>2. \A x \in Workers \ {w} : pc[x] = "idle"
    BY <2>1 DEF SerialInv, Alone
  <2>3. Exact'
    BY <1>2, AccountsStep, NotBack DEF SerialInv
  <2>4. Stocked' /\ Shelved!Next
    BY <1>2, ShelfStep
  <2> QED BY <2>1, <2>2, <2>3, <2>4, Turn DEF SerialInv
<1> QED BY <1>1, <1>2

ShelfInv == ItemsInv /\ (schedule = "workshop" => SerialInv)

LEMMA ShelfStart == ASSUME BooksInit PROVE ShelfInv /\ Shelved!Init
<1> USE DEF BooksInit, WorkshopInit, LedgerInit, HandlersInit
<1>1. ItemsInv
  BY ItemsStart
<1>2. Alone /\ Stocked
  BY DEF Alone, Stocked, Known
<1>3. \A w \in Workers : Fresh(w)
  BY DEF Fresh, Place, DreLabels
<1>4. \A p \in Parts : log[p].reversed = 0 /\ BackItems(p) = {}
  BY DEF BackItems, ItemsFor
<1>5. SumOver(ItemQuantity, {}) = 0
  BY SumEmpty
<1>6. Exact
  <2>1. ASSUME NEW p \in Parts PROVE log[p].reversed <= GivenUp(p)
    <3>1. GivenUp(p) = 0
      BY <1>4, <1>5 DEF GivenUp
    <3> QED BY <1>4, <3>1
  <2> QED BY <2>1 DEF Exact
<1>7. Shelved!Init
  BY DEF Shelved!Init
<1> QED BY <1>1, <1>2, <1>3, <1>6, <1>7 DEF ShelfInv, SerialInv

LEMMA ShelfKept ==
    ASSUME Parts # {}, ShelfInv, [BooksNext]_booksVars
    PROVE  ShelfInv' /\ [schedule = "workshop" => Shelved!Next]_booksVars
<1>1. ItemsInv'
  BY ItemsKept DEF ShelfInv
<1>2. CASE UNCHANGED booksVars
  <2> USE <1>2 DEF booksVars, workshopVars, shelfVars, workVars, ledgerVars, bookVars, handlerVars
  <2>1. schedule' = schedule /\ (Alone => Alone') /\ (Stocked => Stocked')
    BY DEF Alone, Stocked, Known
  <2>2. \A w \in Workers : Fresh(w) => Fresh(w)'
    BY DEF Fresh, Place
  <2>3. ASSUME Exact PROVE Exact'
    <3>1. ItemQuantity' = ItemQuantity
      BY DEF ItemQuantity
    <3>2. ASSUME NEW p \in Parts PROVE GivenUp(p)' = GivenUp(p)
      <4>1. \A x \in Workers : \A i : Returning(x, i)' <=> Returning(x, i)
        BY DEF Returning, Place
      <4>2. BackItems(p)' = BackItems(p)
        BY <4>1 DEF BackItems, ItemsFor
      <4> QED BY <3>1, <4>2, AccountsNext DEF GivenUp
    <3> QED BY <2>3, <3>2 DEF Exact
  <2> QED BY <1>1, <2>1, <2>2, <2>3 DEF ShelfInv, SerialInv
<1>3. CASE BooksNext
  <2>1. PICK w \in Workers : /\ \/ Request(w) \/ WorkshopStep(w)
                                \/ schedule # "workshop" /\ WorkshopDie(w)
                             /\ schedule' = schedule
    BY <1>3 DEF BooksNext
  <2>2. ASSUME schedule = "workshop" PROVE SerialInv' /\ Shelved!Next
    <3>1. ShopInv /\ ShopInv' /\ AccountsInv /\ SerialInv
      BY <1>1, <2>1, <2>2 DEF BooksInv, ItemsInv, ShelfInv
    <3> QED BY <2>1, <2>2, <3>1, SerialKept
  <2> QED BY <1>1, <2>1, <2>2 DEF ShelfInv
<1> QED BY <1>2, <1>3

\* Stock room and workshop, one handler at a time, implement Shelf: no part is put on a vehicle
\* that was not on the shelf, and none comes back that was not on a vehicle
\* (src/docs/BUSINESS_RULES.md:22-34).  A shop has some part.
THEOREM WorkshopKeepsShelf == Parts # {} => (BooksSpec => KeepsShelf)
<1> SUFFICES ASSUME Parts # {} PROVE BooksSpec => KeepsShelf
  OBVIOUS
<1>1. BooksInit => ShelfInv /\ (schedule = "workshop" => Shelved!Init)
  BY ShelfStart
<1>2. ShelfInv /\ [BooksNext]_booksVars => ShelfInv' /\ [schedule = "workshop" => Shelved!Next]_booksVars
  BY ShelfKept
<1> QED BY <1>1, <1>2, PTL DEF BooksSpec, KeepsShelf

-----------------------------------------------------------------------------
(* One handler at a time: entries and costs follow the items               *)

MaintenanceRows == [status : MaintenanceStatuses, labor : Int, parts : Int, total : Int]

Booking(i)  == {e \in DOMAIN entries : e.ref = <<"parts", i>>}
Unposted(i) == Booking(i) = {}
Posted(i)   == \E e \in DOMAIN entries : Booking(i) = {e} /\ entries[e] = 1

\* Handler w has recorded item i and posts its expense next, or it has withdrawn the expense
\* and marks the item next.
Pending(w, i) ==
    \/ Place(w) \in {"part.post", "remove.mark"} /\ i = ctx[w].item
    \/ Place(w) = "cancel.mark" /\ i = FirstOf(ctx[w].todo)

ItemBooked(i) ==
    IF item[i] = NULL \/ item[i].reversed \/ (\E w \in Workers : Pending(w, i))
    THEN Unposted(i)
    ELSE Posted(i)

ItemCost  == [i \in Items |-> Cost(i)]
CostOf(m) == SumOver(ItemCost, ItemsOf(m))

CostRight(m) ==
    /\ maintenance[m].parts = CostOf(m)
    /\ maintenance[m].total = maintenance[m].parts + maintenance[m].labor

SettlingPlaces ==
    {"part.post", "costs.items", "costs.labor", "costs.write", "complete.post",
     "cancel.next", "cancel.withdraw", "cancel.mark"}

\* Handler w writes the costs of m again before it ends, or cancels m.
Settling(w, m) == Place(w) \in SettlingPlaces /\ ctx[w].maintenance = m

CostSettled(m) ==
    Open(m) /\ maintenance[m].status # "CANCELED" =>
       CostRight(m) \/ \E w \in Workers : Settling(w, m)

MaintenancePlaces ==
    {"part.check", "part.take", "part.item", "part.post", "costs.items", "costs.labor",
     "costs.write", "remove.return", "remove.withdraw", "remove.mark", "complete.write",
     "complete.post", "cancel.next", "cancel.withdraw", "cancel.mark"}

\* What handler w holds of the maintenance it works on
Serves(w) ==
    /\ Place(w) \in MaintenancePlaces =>
          ctx[w].maintenance \in Maintenances /\ Open(ctx[w].maintenance)
    /\ Place(w) = "part.post" => Recorded(ctx[w].item) /\ ~item[ctx[w].item].reversed
    /\ Place(w) \in {"remove.return", "remove.withdraw", "remove.mark"} =>
          item[ctx[w].item].maintenance = ctx[w].maintenance
    /\ Place(w) \in {"cancel.next", "cancel.withdraw", "cancel.mark"} =>
          \A i \in ctx[w].todo : item[i].maintenance = ctx[w].maintenance
    /\ Place(w) \in {"costs.labor", "costs.write"} => ctx[w].parts = CostOf(ctx[w].maintenance)
    /\ Place(w) = "costs.write" =>
          ctx[w].total = ctx[w].parts + maintenance[ctx[w].maintenance].labor
    /\ Place(w) \in {"complete.write", "complete.post"} => ctx[w].labor \in Int

WorkOf(w) == Fresh(w) /\ Serves(w)

WorkTables ==
    /\ maintenance \in [Maintenances -> MaintenanceRows \cup {NULL}]
    /\ \A i \in Items : item[i] # NULL => Open(item[i].maintenance)

WorkInv ==
    /\ Alone
    /\ WorkTables
    /\ \A w \in Workers : WorkOf(w)
    /\ \A i \in Items : ItemBooked(i)
    /\ \A m \in Maintenances : CostSettled(m)

-----------------------------------------------------------------------------
(* The sums of the costs and of the postings                               *)

LEMMA CostIsSum ==
    ASSUME ShopInv, IsFiniteSet(Rows), NEW m
    PROVE  /\ IsFiniteSet(ItemsOf(m))
           /\ \A i \in ItemsOf(m) : i \in Items /\ ItemCost[i] = Cost(i) /\ ItemCost[i] \in Int
           /\ CostOf(m) \in Int
           /\ MapThenSumSet(Cost, ItemsOf(m)) = CostOf(m)
<1> DEFINE S == ItemsOf(m)
           Adds(f) == f = [s \in SUBSET S |->
                      IF s = {} THEN 0
                      ELSE Cost(CHOOSE x \in s : TRUE) + f[s \ {CHOOSE x \in s : TRUE}]]
           iter == CHOOSE f : Adds(f)
<1>1. MapThenSumSet(Cost, S) = iter[S]
  BY DEF MapThenSumSet, MapThenFoldSet
<1>2. S \in SUBSET Rows /\ IsFiniteSet(S)
  <2>1. S \in SUBSET Rows
    BY DEF ItemsOf, Rows
  <2> QED BY <2>1, FS_Subset
<1>3. \A i \in S : i \in Items /\ item[i] \in ItemRows
  BY DEF ItemsOf, ShopInv, TablesOK
<1>4. \A i \in S : i \in Items /\ ItemCost[i] = Cost(i) /\ ItemCost[i] \in Int
  <2> SUFFICES ASSUME NEW i \in S
               PROVE  i \in Items /\ ItemCost[i] = Cost(i) /\ ItemCost[i] \in Int
    OBVIOUS
  <2>1. item[i].quantity \in Int /\ item[i].part \in Parts
    BY <1>3 DEF ItemRows, Positive
  <2>2. UnitCost[item[i].part] \in Int
    BY <2>1, WorkshopAssumption
  <2>3. Cost(i) \in Int
    BY <2>1, <2>2 DEF Cost
  <2> QED BY <1>3, <2>3 DEF ItemCost
<1> HIDE DEF S
<1>5. \A f : Chosen(f, ItemCost, S) <=> Adds(f)
  <2>1. \A s \in SUBSET S : s # {} => ItemCost[CHOOSE x \in s : TRUE] = Cost(CHOOSE x \in s : TRUE)
    BY <1>4
  <2> QED BY <2>1 DEF Chosen
<1> HIDE DEF Adds
<1>6. \E f : Adds(f)
  BY <1>2, <1>4, <1>5, ChosenExists
<1>7. Adds(iter)
  BY <1>6
<1> HIDE DEF iter
<1>8. iter[S] = SumOver(ItemCost, S) /\ SumOver(ItemCost, S) \in Int
  BY <1>2, <1>4, <1>5, <1>7, ChosenIsSum, SumInt
<1> QED BY <1>1, <1>2, <1>4, <1>8 DEF CostOf, S

LEMMA SameCost ==
    ASSUME ShopInv, IsFiniteSet(Rows), NEW m, ItemsOf(m)' = ItemsOf(m),
           \A i \in ItemsOf(m) : item'[i] = item[i]
    PROVE  CostOf(m)' = CostOf(m)
<1>1. CostOf(m)' = SumOver(ItemCost', ItemsOf(m)')
  BY DEF CostOf, SumOver, SumTable
<1>2. \A i \in ItemsOf(m) : ItemCost'[i] = ItemCost[i] /\ ItemCost[i] \in Int
  <2>1. \A i \in ItemsOf(m) : i \in Items /\ ItemCost[i] \in Int
    BY CostIsSum
  <2> QED BY <2>1 DEF ItemCost, Cost
<1>3. IsFiniteSet(ItemsOf(m))
  BY CostIsSum
<1>4. SumOver(ItemCost', ItemsOf(m)) = SumOver(ItemCost, ItemsOf(m))
  BY <1>2, <1>3, SumSame
<1> QED BY <1>1, <1>4 DEF CostOf

LEMMA PostingsCount ==
    ASSUME NEW i
    PROVE  /\ Unposted(i) => PostingsOf(<<"parts", i>>) = 0
           /\ Posted(i)   => PostingsOf(<<"parts", i>>) = 1
<1> DEFINE S == Booking(i)
           Adds(f) == f = [s \in SUBSET S |->
                      IF s = {} THEN 0
                      ELSE entries[CHOOSE x \in s : TRUE] + f[s \ {CHOOSE x \in s : TRUE}]]
           iter == CHOOSE f : Adds(f)
<1>1. PostingsOf(<<"parts", i>>) = iter[S]
  BY DEF PostingsOf, MapThenSumSet, MapThenFoldSet, Booking
<1>2. \A f : Chosen(f, entries, S) <=> Adds(f)
  BY DEF Chosen
<1>3. ASSUME IsFiniteSet(S), \A e \in S : entries[e] \in Int
      PROVE  PostingsOf(<<"parts", i>>) = SumOver(entries, S)
  <2> HIDE DEF Adds, S
  <2>1. \E f : Adds(f)
    BY <1>2, <1>3, ChosenExists
  <2>2. Adds(iter)
    BY <2>1
  <2> HIDE DEF iter
  <2> QED BY <1>1, <1>2, <1>3, <2>2, ChosenIsSum
<1>4. CASE Unposted(i)
  <2>1. S = {} /\ ~Posted(i)
    BY <1>4 DEF Unposted, Posted
  <2>2. PostingsOf(<<"parts", i>>) = SumOver(entries, {})
    BY <1>3, <2>1, FS_EmptySet
  <2> QED BY <2>1, <2>2, SumEmpty
<1>5. CASE Posted(i)
  <2>1. PICK e \in DOMAIN entries : S = {e} /\ entries[e] = 1
    BY <1>5 DEF Posted
  <2>2. IsFiniteSet({}) /\ IsFiniteSet({e}) /\ {e} = {} \cup {e}
    BY FS_EmptySet, FS_Singleton
  <2>3. PostingsOf(<<"parts", i>>) = SumOver(entries, {e})
    BY <1>3, <2>1, <2>2
  <2>4. SumOver(entries, {} \cup {e}) = entries[e] + SumOver(entries, {})
    BY <2>1, <2>2, SumAdd
  <2>5. ~Unposted(i)
    BY <2>1 DEF Unposted
  <2> QED BY <2>1, <2>2, <2>3, <2>4, <2>5, SumEmpty
<1> QED BY <1>4, <1>5

\* Between two handlers the workshop half of BooksBalance holds.
LEMMA WorkFollows ==
    ASSUME ShopInv, IsFiniteSet(Rows), WorkInv
    PROVE  BooksFollowItems
<1> SUFFICES ASSUME Quiet
             PROVE  /\ \A i \in Items : item[i] # NULL =>
                         PostingsOf(<<"parts", i>>) = IF item[i].reversed THEN 0 ELSE 1
                    /\ \A m \in Maintenances : Open(m) /\ maintenance[m].status # "CANCELED" =>
                         /\ maintenance[m].parts = MapThenSumSet(Cost, ItemsOf(m))
                         /\ maintenance[m].total = maintenance[m].parts + maintenance[m].labor
  BY DEF BooksFollowItems
<1>1. \A x \in Workers : Place(x) = "idle"
  BY DEF Quiet, Place, DreLabels
<1>2. ASSUME NEW i \in Items, item[i] # NULL
      PROVE  PostingsOf(<<"parts", i>>) = IF item[i].reversed THEN 0 ELSE 1
  <2>1. \A x \in Workers : ~Pending(x, i)
    BY <1>1 DEF Pending
  <2>2. IF item[i].reversed THEN Unposted(i) ELSE Posted(i)
    BY <1>2, <2>1 DEF WorkInv, ItemBooked
  <2> QED BY <2>2, PostingsCount
<1>3. ASSUME NEW m \in Maintenances, Open(m), maintenance[m].status # "CANCELED"
      PROVE  /\ maintenance[m].parts = MapThenSumSet(Cost, ItemsOf(m))
             /\ maintenance[m].total = maintenance[m].parts + maintenance[m].labor
  <2>1. \A x \in Workers : ~Settling(x, m)
    BY <1>1 DEF Settling, SettlingPlaces
  <2>2. CostRight(m)
    BY <1>3, <2>1 DEF WorkInv, CostSettled
  <2>3. MapThenSumSet(Cost, ItemsOf(m)) = CostOf(m)
    BY CostIsSum
  <2> QED BY <2>2, <2>3 DEF CostRight
<1> QED BY <1>2, <1>3

-----------------------------------------------------------------------------
(* What handler w does while the others wait for nothing                   *)

BookedBy(w, i) ==
    IF item[i] = NULL \/ item[i].reversed \/ Pending(w, i) THEN Unposted(i) ELSE Posted(i)

SettledBy(w, m) ==
    Open(m) /\ maintenance[m].status # "CANCELED" => CostRight(m) \/ Settling(w, m)

OthersIdle(w) == \A x \in Workers \ {w} : pc[x] = "idle"

LEMMA WorkOfOne ==
    ASSUME NEW w \in Workers, OthersIdle(w)
    PROVE  /\ \A i : ItemBooked(i) <=> BookedBy(w, i)
           /\ \A m : CostSettled(m) <=> SettledBy(w, m)
           /\ \A x \in Workers \ {w} : WorkOf(x)
<1>1. \A x \in Workers \ {w} : Place(x) = "idle" /\ pc[x] = "idle"
  BY DEF OthersIdle, Place, DreLabels
<1>2. \A i : (\E x \in Workers : Pending(x, i)) <=> Pending(w, i)
  BY <1>1 DEF Pending
<1>3. \A m : (\E x \in Workers : Settling(x, m)) <=> Settling(w, m)
  BY <1>1 DEF Settling, SettlingPlaces
<1>4. \A x \in Workers \ {w} : WorkOf(x)
  BY <1>1 DEF WorkOf, Fresh, Serves, MaintenancePlaces
<1> QED BY <1>2, <1>3, <1>4 DEF ItemBooked, BookedBy, CostSettled, SettledBy

LEMMA WorkTurn ==
    ASSUME NEW w \in Workers, OthersIdle(w), OnlyMoves(w), WorkTables', WorkOf(w)',
           \A i \in Items : BookedBy(w, i)',
           \A m \in Maintenances : SettledBy(w, m)'
    PROVE  WorkInv'
<1>1. OthersIdle(w)'
  BY DEF OthersIdle, OnlyMoves
<1>2. \A x \in Workers \ {w} : Place(x)' = "idle" /\ pc'[x] = "idle"
  BY <1>1 DEF OthersIdle, Place, DreLabels
<1>3. ASSUME NEW i \in Items PROVE ItemBooked(i)'
  <2>1. (\E x \in Workers : Pending(x, i)') <=> Pending(w, i)'
    BY <1>2 DEF Pending
  <2>2. BookedBy(w, i)'
    OBVIOUS
  <2> QED BY <2>1, <2>2 DEF ItemBooked, BookedBy
<1>4. ASSUME NEW m \in Maintenances PROVE CostSettled(m)'
  <2>1. SettledBy(w, m)'
    OBVIOUS
  <2> QED BY <2>1 DEF CostSettled, SettledBy
<1>5. \A x \in Workers : WorkOf(x)'
  <2>1. \A x \in Workers \ {w} : WorkOf(x)'
    BY <1>2 DEF WorkOf, Fresh, Serves, MaintenancePlaces
  <2> QED BY <2>1
<1>6. Alone'
  BY <1>2 DEF Alone
<1> QED BY <1>3, <1>4, <1>5, <1>6 DEF WorkInv

\* Item i and its expense stay, and so does what w has in mind with them.
ItemStays(w, i) ==
    /\ item'[i] = item[i]
    /\ Booking(i)' = Booking(i) /\ \A e \in Booking(i) : entries[e] = 1 => entries'[e] = 1
    /\ Pending(w, i)' <=> Pending(w, i)

LEMMA StaysBooked ==
    ASSUME NEW w \in Workers, NEW i, BookedBy(w, i), ItemStays(w, i)
    PROVE  BookedBy(w, i)'
<1>1. Unposted(i)' <=> Unposted(i)
  BY DEF ItemStays, Unposted
<1>2. ASSUME Posted(i) PROVE Posted(i)'
  <2>1. PICK e \in DOMAIN entries : Booking(i) = {e} /\ entries[e] = 1
    BY <1>2 DEF Posted
  <2>2. Booking(i)' = {e} /\ entries'[e] = 1
    BY <2>1 DEF ItemStays
  <2>3. e \in DOMAIN entries'
    <3>1. e \in Booking(i)'
      BY <2>2
    <3> QED BY <3>1 DEF Booking
  <2> QED BY <2>2, <2>3 DEF Posted
<1> QED BY <1>1, <1>2 DEF BookedBy, ItemStays

\* The row of maintenance m and what its items cost stay.
CostStays(m) == maintenance'[m] = maintenance[m] /\ CostOf(m)' = CostOf(m)

LEMMA StaysSettled ==
    ASSUME NEW w \in Workers, NEW m, SettledBy(w, m), CostStays(m),
           Settling(w, m) => Settling(w, m)'
    PROVE  SettledBy(w, m)'
BY DEF SettledBy, CostStays, CostRight, Open

\* A step that leaves items, maintenances and entries as they are
LEMMA WorkBeside ==
    ASSUME ShopInv, IsFiniteSet(Rows), WorkInv, NEW w \in Workers, OthersIdle(w), OnlyMoves(w),
           UNCHANGED <<item, maintenance, entries>>, WorkOf(w)',
           \A i : Pending(w, i)' <=> Pending(w, i),
           \A m \in Maintenances : Settling(w, m) => Settling(w, m)'
    PROVE  WorkInv'
<1>1. \A i : Booking(i)' = Booking(i)
  BY DEF Booking
<1>2. \A i \in Items : BookedBy(w, i)'
  <2> SUFFICES ASSUME NEW i \in Items PROVE BookedBy(w, i)'
    OBVIOUS
  <2>1. BookedBy(w, i)
    BY WorkOfOne DEF WorkInv
  <2>2. ItemStays(w, i)
    BY <1>1 DEF ItemStays
  <2> QED BY <2>1, <2>2, StaysBooked
<1>3. \A m \in Maintenances : SettledBy(w, m)'
  <2> SUFFICES ASSUME NEW m \in Maintenances PROVE SettledBy(w, m)'
    OBVIOUS
  <2>1. SettledBy(w, m)
    BY WorkOfOne DEF WorkInv
  <2>2. ItemsOf(m)' = ItemsOf(m)
    BY DEF ItemsOf
  <2>3. CostStays(m)
    BY <2>2, SameCost DEF CostStays
  <2> QED BY <2>1, <2>3, StaysSettled
<1>4. WorkTables'
  BY DEF WorkInv, WorkTables, Open
<1> QED BY <1>2, <1>3, <1>4, WorkTurn

-----------------------------------------------------------------------------
(* Requests                                                                *)

\* A maintenance that is opened has no items yet.
LEMMA MaintenanceOpened ==
    ASSUME ShopInv, IsFiniteSet(Rows), WorkInv, NEW w \in Workers, OthersIdle(w), OnlyMoves(w),
           Fresh(w)', NEW m \in Maintenances, NEW labor \in LaborCosts,
           CreateMaintenance(w, m, labor)
    PROVE  WorkInv'
<1>1. PICK row : row = [status |-> "SCHEDULED", labor |-> labor, parts |-> 0, total |-> labor]
  OBVIOUS
<1>2. /\ pc[w] = "idle" /\ maintenance[m] = NULL
      /\ maintenance' = [maintenance EXCEPT ![m] = row]
      /\ UNCHANGED <<item, entries, pc, ctx, calc>>
  BY <1>1 DEF CreateMaintenance, ledgerVars, bookVars, handlerVars
<1>3. labor \in Int /\ row \in MaintenanceRows /\ row # NULL
  BY <1>1, WorkshopAssumption, AbsenceAssumption DEF MaintenanceRows, MaintenanceStatuses
<1>4. \A n \in Maintenances : maintenance'[n] = IF n = m THEN row ELSE maintenance[n]
  BY <1>2 DEF WorkInv, WorkTables
<1>5. WorkTables'
  BY <1>2, <1>3, <1>4 DEF WorkInv, WorkTables, Open
<1>6. \A i : ItemStays(w, i)
  BY <1>2 DEF ItemStays, Booking, Pending, Place
<1>7. \A n : ItemsOf(n)' = ItemsOf(n)
  BY <1>2 DEF ItemsOf
<1>8. \A n : CostOf(n)' = CostOf(n)
  BY <1>2, <1>7, SameCost
<1>9. ASSUME NEW n \in Maintenances PROVE SettledBy(w, n)'
  <2>1. CASE n = m
    <3>1. ItemsOf(m) = {}
      BY <1>2 DEF WorkInv, WorkTables, ItemsOf, Open
    <3>2. CostOf(m)' = 0
      BY <1>8, <3>1, SumEmpty DEF CostOf
    <3>3. row.parts = 0 /\ row.total = labor /\ row.labor = labor
      BY <1>1
    <3>4. row.total = row.parts + row.labor
      BY <1>3, <3>3
    <3> QED BY <1>4, <2>1, <3>2, <3>3, <3>4 DEF SettledBy, CostRight
  <2>2. CASE n # m
    <3>1. SettledBy(w, n)
      BY WorkOfOne DEF WorkInv
    <3>2. CostStays(n) /\ (Settling(w, n) => Settling(w, n)')
      BY <1>2, <1>4, <1>8, <2>2 DEF CostStays, Settling, Place
    <3> QED BY <3>1, <3>2, StaysSettled
  <2> QED BY <2>1, <2>2
<1>10. \A i \in Items : BookedBy(w, i)'
  BY <1>6, WorkOfOne, StaysBooked DEF WorkInv
<1>11. Serves(w)'
  BY <1>2 DEF Serves, Place, DreLabels, MaintenancePlaces
<1> QED BY <1>5, <1>9, <1>10, <1>11, WorkTurn DEF WorkOf

LEMMA WorkAsked ==
    ASSUME ShopInv, IsFiniteSet(Rows), WorkInv, NEW w \in Workers, Request(w),
           schedule = "workshop"
    PROVE  WorkInv'
<1>1. OthersIdle(w) /\ pc[w] = "idle"
  BY DEF Request, Quiet, OthersIdle
<1>2. OnlyMoves(w) /\ Fresh(w)'
  BY CalmRequest, FreshRequest DEF Calm
<1>3. Place(w) = "idle"
  BY <1>1 DEF Place, DreLabels
<1>4. \A i : ~Pending(w, i)
  BY <1>3 DEF Pending
<1>5. \A m : ~Settling(w, m)
  BY <1>3 DEF Settling, SettlingPlaces
<1>6. ASSUME NEW label \in {"part.log", "move.write", "part.check", "remove.return",
                            "complete.write", "cancel.next"}, NEW l,
             Begin(w, label, l), UNCHANGED <<item, maintenance, entries, calc>>,
             label \in MaintenancePlaces => l.maintenance \in Maintenances /\ Open(l.maintenance),
             label = "remove.return" => item[l.item].maintenance = l.maintenance,
             label = "cancel.next" => \A i \in l.todo : item[i].maintenance = l.maintenance,
             label = "complete.write" => l.labor \in Int
      PROVE  WorkInv'
  <2>1. pc'[w] = label /\ ctx'[w] = l
    BY <1>6, Starts DEF ShopLabels
  <2>2. Place(w)' = label
    BY <2>1 DEF Place, DreLabels
  <2>3. \A i : ~Pending(w, i)'
    BY <2>2 DEF Pending
  <2>4. Serves(w)'
    BY <1>6, <2>1, <2>2 DEF Serves, Open
  <2> QED BY <1>1, <1>2, <1>4, <1>5, <1>6, <2>3, <2>4, WorkBeside DEF WorkOf
<1>7. CASE RegisterPart(w, Quantities)
  <2>1. PICK p, n : CreatePart(w, p, n)
    BY <1>7 DEF RegisterPart
  <2>2. /\ Begin(w, "part.log", [part |-> p, quantity |-> n])
        /\ UNCHANGED <<item, maintenance, entries, calc>>
    BY <2>1 DEF CreatePart, workVars, bookVars
  <2> QED BY <1>6, <2>2 DEF MaintenancePlaces
<1>8. CASE PartsRequest(w)
  <2>1. CASE \E p, type, n : RequestMove(w, p, type, n)
    <3>1. PICK l : Begin(w, "move.write", l) /\ UNCHANGED <<item, maintenance, entries, calc>>
      BY <2>1 DEF RequestMove, workVars, bookVars
    <3> QED BY <1>6, <3>1 DEF MaintenancePlaces
  <2>2. CASE \E p, n : EditQuantity(w, p, n)
    <3>1. UNCHANGED <<item, maintenance, entries, calc, pc, ctx>>
      BY <2>2 DEF EditQuantity, workVars, ledgerVars, bookVars, handlerVars
    <3>2. Place(w)' = "idle"
      BY <1>3, <3>1 DEF Place
    <3>3. \A i : ~Pending(w, i)'
      BY <3>2 DEF Pending
    <3>4. Serves(w)'
      BY <3>2 DEF Serves, MaintenancePlaces
    <3> QED BY <1>1, <1>2, <1>4, <1>5, <3>1, <3>3, <3>4, WorkBeside DEF WorkOf
  <2> QED BY <1>8, <2>1, <2>2 DEF PartsRequest
<1>9. CASE MaintenanceRequest(w, Quantities, LaborCosts)
  <2>1. CASE \E m \in Maintenances, labor \in LaborCosts : CreateMaintenance(w, m, labor)
    BY <1>1, <1>2, <2>1, MaintenanceOpened
  <2>2. CASE \E m \in Maintenances, p \in Parts, n \in Quantities : RequestAddPart(w, m, p, n)
    <3>1. PICK m \in Maintenances, p \in Parts, n \in Quantities : RequestAddPart(w, m, p, n)
      BY <2>2
    <3>2. PICK l : l = [maintenance |-> m, part |-> p, quantity |-> n]
      OBVIOUS
    <3>3. /\ Begin(w, "part.check", l) /\ l.maintenance = m /\ Open(m)
          /\ UNCHANGED <<item, maintenance, entries, calc>>
      BY <3>1, <3>2 DEF RequestAddPart, workVars, bookVars
    <3> QED BY <1>6, <3>3
  <2>3. CASE \E i \in Items : RequestRemovePart(w, i)
    <3>1. PICK i \in Items : RequestRemovePart(w, i)
      BY <2>3
    <3>2. PICK l : l = [maintenance |-> item[i].maintenance, item |-> i]
      OBVIOUS
    <3>3. /\ Begin(w, "remove.return", l) /\ l.maintenance = item[i].maintenance /\ l.item = i
          /\ item[i] # NULL /\ UNCHANGED <<item, maintenance, entries, calc>>
      BY <3>1, <3>2 DEF RequestRemovePart, workVars, bookVars
    <3>4. item[i].maintenance \in Maintenances /\ Open(item[i].maintenance)
      BY <3>3 DEF WorkInv, WorkTables, ShopInv, TablesOK, ItemRows
    <3> QED BY <1>6, <3>3, <3>4
  <2>4. CASE \E m \in Maintenances, labor \in LaborCosts \cup {NULL} : RequestComplete(w, m, labor)
    <3>1. PICK m \in Maintenances, labor \in LaborCosts \cup {NULL} : RequestComplete(w, m, labor)
      BY <2>4
    <3>2. PICK k, l : /\ k = (IF labor = NULL THEN maintenance[m].labor ELSE labor)
                      /\ l = [maintenance |-> m, labor |-> k]
      OBVIOUS
    <3>3. /\ Begin(w, "complete.write", l) /\ l.maintenance = m /\ l.labor = k /\ Open(m)
          /\ UNCHANGED <<item, maintenance, entries, calc>>
      BY <3>1, <3>2 DEF RequestComplete, workVars, bookVars
    <3>4. maintenance[m].labor \in Int
      BY <3>3 DEF WorkInv, WorkTables, Open, MaintenanceRows
    <3>5. k \in Int
      BY <3>2, <3>4, WorkshopAssumption
    <3> QED BY <1>6, <3>3, <3>5
  <2>5. CASE \E m \in Maintenances : RequestCancel(w, m)
    <3>1. PICK m \in Maintenances : RequestCancel(w, m)
      BY <2>5
    <3>2. PICK l : l = [maintenance |-> m, todo |-> ItemsOf(m)]
      OBVIOUS
    <3>3. /\ Begin(w, "cancel.next", l) /\ l.maintenance = m /\ l.todo = ItemsOf(m) /\ Open(m)
          /\ UNCHANGED <<item, maintenance, entries, calc>>
      BY <3>1, <3>2 DEF RequestCancel, workVars, bookVars
    <3>4. \A i \in l.todo : item[i].maintenance = l.maintenance
      BY <3>3 DEF ItemsOf
    <3> QED BY <1>6, <3>3, <3>4
  <2> QED BY <1>9, <2>1, <2>2, <2>3, <2>4, <2>5 DEF MaintenanceRequest
<1> QED BY <1>7, <1>8, <1>9 DEF Request

-----------------------------------------------------------------------------
(* Steps beside items, maintenances and entries                            *)

Quitting == {"part.post", "remove.mark", "cancel.mark"}

LEMMA PassesBy ==
    ASSUME ShopInv, IsFiniteSet(Rows), WorkInv, NEW w \in Workers, OthersIdle(w), OnlyMoves(w),
           UNCHANGED <<item, maintenance, entries>>, WorkOf(w)',
           Place(w) \notin Quitting, Place(w)' \notin Quitting,
           Place(w) \in SettlingPlaces =>
              Place(w)' \in SettlingPlaces /\ ctx'[w].maintenance = ctx[w].maintenance
    PROVE  WorkInv'
<1>1. \A i : ~Pending(w, i) /\ ~Pending(w, i)'
  BY DEF Pending, Quitting
<1>2. \A m : Settling(w, m) => Settling(w, m)'
  BY DEF Settling
<1> QED BY <1>1, <1>2, WorkBeside

\* recalculate comes back to where it was called.
LEMMA DreStays ==
    ASSUME ShopInv, NEW w \in Workers, DreStep(w)
    PROVE  Place(w)' = Place(w) /\ ctx'[w] = ctx[w] /\ UNCHANGED entries
<1>1. pc[w] \in DreLabels /\ "next" \in DOMAIN calc[w] /\ calc[w].next \in NextLabels
  BY DEF DreStep, DreReadVehicle, DreReadEntries, DreReadCommissions, DreSave, At, ShopInv,
     WorkOK, DreLabels
<1>2. DOMAIN calc = Workers /\ DOMAIN pc = Workers
  BY DEF ShopInv, FramesOK
<1>3. \/ pc'[w] \in DreLabels /\ calc'[w].next = calc[w].next
      \/ pc'[w] = calc[w].next
  <2>1. CASE DreSave(w)
    BY <1>1, <1>2, <2>1 DEF DreSave, Goto, NextLabels
  <2>2. CASE DreReadVehicle(w)
    BY <1>1, <1>2, <2>2 DEF DreReadVehicle, Goto, DreLabels
  <2>3. CASE DreReadEntries(w)
    BY <1>1, <1>2, <2>3 DEF DreReadEntries, Goto, DreLabels
  <2>4. CASE DreReadCommissions(w)
    BY <1>1, <1>2, <2>4 DEF DreReadCommissions, Goto, DreLabels
  <2> QED BY <2>1, <2>2, <2>3, <2>4 DEF DreStep
<1>4. ctx'[w] = ctx[w] /\ UNCHANGED entries
  BY <1>1 DEF DreStep, DreReadVehicle, DreReadEntries, DreReadCommissions, DreSave, Goto,
     NextLabels, bookVars
<1>5. Place(w)' = Place(w)
  BY <1>1, <1>3 DEF Place, NextLabels, DreLabels
<1> QED BY <1>4, <1>5

LEMMA SameCosts ==
    ASSUME ShopInv, IsFiniteSet(Rows), item' = item, NEW m
    PROVE  CostOf(m)' = CostOf(m)
<1>1. ItemsOf(m)' = ItemsOf(m)
  BY DEF ItemsOf
<1> QED BY <1>1, SameCost

LEMMA BesideWork ==
    ASSUME ShopInv, IsFiniteSet(Rows), WorkInv, NEW w \in Workers, OthersIdle(w), OnlyMoves(w),
           Fresh(w)',
           \/ LogFirstStock(w) \/ Move(w) \/ ConsumeCheck(w) \/ Consume(w)
           \/ RecomputeReadItems(w) \/ RecomputeReadLabor(w)
           \/ RemoveReturn(w) \/ CancelReturn(w)
           \/ DreStep(w) /\ UNCHANGED workVars
    PROVE  WorkInv'
<1>1. /\ DOMAIN pc = Workers /\ DOMAIN ctx = Workers
      /\ UNCHANGED <<item, maintenance, entries>>
  <2>1. UNCHANGED <<item, maintenance>>
    BY DEF LogFirstStock, Move, ConsumeCheck, Consume, RecomputeReadItems, RecomputeReadLabor,
       RemoveReturn, CancelReturn, GiveBack, workVars
  <2>2. UNCHANGED entries
    BY DreStays DEF LogFirstStock, Move, ConsumeCheck, Consume, RecomputeReadItems,
       RecomputeReadLabor, RemoveReturn, CancelReturn, GiveBack, bookVars
  <2> QED BY <2>1, <2>2 DEF ShopInv, FramesOK
<1>2. Serves(w)
  BY DEF WorkInv, WorkOf
<1>3. \A m : (Open(m)' <=> Open(m)) /\ CostOf(m)' = CostOf(m)
  BY <1>1, SameCosts DEF Open
<1>4. ASSUME NEW from \in {"part.log", "move.write", "part.check"}, pc[w] = from, Return(w)
      PROVE  WorkInv'
  <2>1. Place(w) = from /\ Place(w)' = "idle"
    BY <1>1, <1>4 DEF Return, Place, DreLabels
  <2>2. Serves(w)'
    BY <2>1 DEF Serves, MaintenancePlaces
  <2> QED BY <1>1, <2>1, <2>2, PassesBy DEF WorkOf, Quitting, SettlingPlaces
<1>5. CASE LogFirstStock(w) \/ Move(w)
  BY <1>4, <1>5 DEF LogFirstStock, Move, At
<1>6. CASE ConsumeCheck(w) \/ Consume(w)
  <2>1. CASE ConsumeCheck(w) /\ Return(w)
    BY <1>4, <2>1 DEF ConsumeCheck, At
  <2>2. CASE (ConsumeCheck(w) /\ Goto(w, "part.take")) \/ Consume(w)
    <3>1. Place(w) \in {"part.check", "part.take"} /\ Place(w)' \in {"part.take", "part.item"}
          /\ ctx' = ctx
      BY <1>1, <2>2 DEF ConsumeCheck, Consume, Goto, At, Place, DreLabels
    <3>2. Serves(w)'
      BY <1>2, <1>3, <3>1 DEF Serves, MaintenancePlaces
    <3> QED BY <1>1, <3>1, <3>2, PassesBy DEF WorkOf, Quitting, SettlingPlaces
  <2> QED BY <1>6, <2>1, <2>2 DEF ConsumeCheck
<1>7. CASE RecomputeReadItems(w)
  <2>1. PICK m, l : /\ m = ctx[w].maintenance
                    /\ l = [maintenance |-> m, parts |-> MapThenSumSet(Cost, ItemsOf(m))]
    OBVIOUS
  <2>2. pc[w] = "costs.items" /\ pc'[w] = "costs.labor" /\ ctx'[w] = l
    BY <1>1, <1>7, <2>1 DEF RecomputeReadItems, GotoWith, At
  <2>3. Place(w) = "costs.items" /\ Place(w)' = "costs.labor"
    BY <2>2 DEF Place, DreLabels
  <2>4. l.maintenance = m /\ l.parts = CostOf(m)
    BY <2>1, CostIsSum
  <2>5. Serves(w)'
    BY <1>2, <1>3, <2>1, <2>2, <2>3, <2>4 DEF Serves, MaintenancePlaces
  <2> QED BY <1>1, <2>1, <2>2, <2>3, <2>4, <2>5, PassesBy DEF WorkOf, Quitting, SettlingPlaces
<1>8. CASE RecomputeReadLabor(w)
  <2>1. PICK c, l : /\ c = ctx[w]
                    /\ l = [maintenance |-> c.maintenance, parts |-> c.parts,
                            total |-> c.parts + maintenance[c.maintenance].labor]
    OBVIOUS
  <2>2. pc[w] = "costs.labor" /\ pc'[w] = "costs.write" /\ ctx'[w] = l
    BY <1>1, <1>8, <2>1 DEF RecomputeReadLabor, GotoWith, At
  <2>3. Place(w) = "costs.labor" /\ Place(w)' = "costs.write"
    BY <2>2 DEF Place, DreLabels
  <2>4. /\ l.maintenance = c.maintenance /\ l.parts = c.parts
        /\ l.total = l.parts + maintenance[l.maintenance].labor
    BY <2>1
  <2>5. Serves(w)'
    BY <1>1, <1>2, <1>3, <2>1, <2>2, <2>3, <2>4 DEF Serves, MaintenancePlaces
  <2> QED BY <1>1, <2>1, <2>2, <2>3, <2>4, <2>5, PassesBy DEF WorkOf, Quitting, SettlingPlaces
<1>9. CASE RemoveReturn(w)
  <2>1. Place(w) = "remove.return" /\ Place(w)' = "remove.withdraw" /\ ctx' = ctx
    BY <1>1, <1>9 DEF RemoveReturn, GiveBack, Goto, At, Place, DreLabels
  <2>2. Serves(w)'
    BY <1>1, <1>2, <1>3, <2>1 DEF Serves, MaintenancePlaces
  <2> QED BY <1>1, <2>1, <2>2, PassesBy DEF WorkOf, Quitting, SettlingPlaces
<1>10. CASE CancelReturn(w)
  <2>1. Place(w) = "cancel.next" /\ Place(w)' = "cancel.withdraw" /\ ctx' = ctx
    BY <1>1, <1>10 DEF CancelReturn, GiveBack, Goto, At, Place, DreLabels
  <2>2. Serves(w)'
    BY <1>1, <1>2, <1>3, <2>1 DEF Serves, MaintenancePlaces
  <2> QED BY <1>1, <2>1, <2>2, PassesBy DEF WorkOf, Quitting, SettlingPlaces
<1>11. CASE DreStep(w) /\ UNCHANGED workVars
  <2>1. Place(w)' = Place(w) /\ ctx'[w] = ctx[w]
    BY <1>11, DreStays
  <2>2. Serves(w)'
    BY <1>1, <1>2, <1>3, <2>1 DEF Serves, Recorded
  <2>3. \A i : Pending(w, i)' <=> Pending(w, i)
    BY <2>1 DEF Pending
  <2>4. \A m : Settling(w, m) => Settling(w, m)'
    BY <2>1 DEF Settling
  <2> QED BY <1>1, <2>2, <2>3, <2>4, WorkBeside DEF WorkOf
<1> QED BY <1>5, <1>6, <1>7, <1>8, <1>9, <1>10, <1>11

-----------------------------------------------------------------------------
(* Steps that post an entry or withdraw it                                 *)

LEMMA PostedFor ==
    ASSUME NEW e, NEW i, Insert(e)
    PROVE  /\ e.ref # <<"parts", i>> =>
                /\ Booking(i)' = Booking(i)
                /\ \A x \in Booking(i) : entries[x] = 1 => entries'[x] = 1
           /\ e.ref = <<"parts", i>> /\ Unposted(i) => Posted(i)'
<1>1. entries' = [x \in DOMAIN entries \cup {e} |->
                     (IF x \in DOMAIN entries THEN entries[x] ELSE 0) + (IF x \in {e} THEN 1 ELSE 0)]
  BY DEF Insert, (+), SetToBag
<1>2. DOMAIN entries' = DOMAIN entries \cup {e}
  BY <1>1
<1>3. ASSUME e.ref # <<"parts", i>>
      PROVE  Booking(i)' = Booking(i) /\ \A x \in Booking(i) : entries[x] = 1 => entries'[x] = 1
  <2>1. Booking(i)' = Booking(i)
    BY <1>2, <1>3 DEF Booking
  <2>2. ASSUME NEW x \in Booking(i), entries[x] = 1 PROVE entries'[x] = 1
    <3>1. x \in DOMAIN entries /\ x # e
      BY <1>3 DEF Booking
    <3> QED BY <1>1, <2>2, <3>1
  <2> QED BY <2>1, <2>2
<1>4. ASSUME e.ref = <<"parts", i>>, Unposted(i)
      PROVE  Posted(i)'
  <2>1. e \notin DOMAIN entries
    BY <1>4 DEF Unposted, Booking
  <2>2. entries'[e] = 1
    BY <1>1, <2>1
  <2>3. Booking(i)' = {e}
    BY <1>2, <1>4 DEF Unposted, Booking
  <2> QED BY <1>2, <2>2, <2>3 DEF Posted
<1> QED BY <1>3, <1>4

LEMMA WithdrawnFor ==
    ASSUME NEW ref, NEW i, DeleteByRef(ref)
    PROVE  /\ ref # <<"parts", i>> =>
                /\ Booking(i)' = Booking(i)
                /\ \A x \in Booking(i) : entries[x] = 1 => entries'[x] = 1
           /\ ref = <<"parts", i>> => Unposted(i)'
<1>1. /\ DOMAIN entries' = {x \in DOMAIN entries : x.ref # ref}
      /\ \A x \in DOMAIN entries' : entries'[x] = entries[x]
  BY DEF DeleteByRef
<1>2. ASSUME ref # <<"parts", i>>
      PROVE  Booking(i)' = Booking(i) /\ \A x \in Booking(i) : entries[x] = 1 => entries'[x] = 1
  <2>1. Booking(i)' = Booking(i)
    BY <1>1, <1>2 DEF Booking
  <2>2. \A x \in Booking(i) : x \in DOMAIN entries'
    BY <1>1, <1>2 DEF Booking
  <2> QED BY <1>1, <2>1, <2>2
<1>3. ASSUME ref = <<"parts", i>> PROVE Unposted(i)'
  BY <1>1, <1>3 DEF Unposted, Booking
<1> QED BY <1>2, <1>3

LEMMA GoesToDre ==
    ASSUME ShopInv, NEW w \in Workers, NEW v, NEW next, Recalculate(w, v, next)
    PROVE  Place(w)' = next
BY DEF Recalculate, ShopInv, FramesOK, Place, DreLabels

\* A step that leaves the rows as they are and changes the expense of item i alone
LEMMA EntryChanged ==
    ASSUME ShopInv, IsFiniteSet(Rows), WorkInv, NEW w \in Workers, OthersIdle(w), OnlyMoves(w),
           UNCHANGED <<item, maintenance>>, WorkOf(w)',
           NEW i, i \in Items => BookedBy(w, i)',
           \A j : j # i => /\ Booking(j)' = Booking(j)
                           /\ \A x \in Booking(j) : entries[x] = 1 => entries'[x] = 1
                           /\ Pending(w, j)' <=> Pending(w, j),
           \A m : Settling(w, m) => Settling(w, m)'
    PROVE  WorkInv'
<1>1. ASSUME NEW j \in Items PROVE BookedBy(w, j)'
  <2>1. CASE j = i
    BY <2>1
  <2>2. CASE j # i
    <3>1. ItemStays(w, j)
      BY <2>2 DEF ItemStays
    <3>2. BookedBy(w, j)
      BY WorkOfOne DEF WorkInv
    <3> QED BY <3>1, <3>2, StaysBooked
  <2> QED BY <2>1, <2>2
<1>2. ASSUME NEW m \in Maintenances PROVE SettledBy(w, m)'
  <2>1. SettledBy(w, m)
    BY WorkOfOne DEF WorkInv
  <2>2. CostStays(m)
    BY SameCosts DEF CostStays
  <2> QED BY <2>1, <2>2, StaysSettled
<1>3. WorkTables'
  BY DEF WorkInv, WorkTables, Open
<1> QED BY <1>1, <1>2, <1>3, WorkTurn

LEMMA PostWork ==
    ASSUME ShopInv, IsFiniteSet(Rows), WorkInv, NEW w \in Workers, OthersIdle(w), OnlyMoves(w),
           Fresh(w)', PostItem(w) \/ CompletePost(w)
    PROVE  WorkInv'
<1>1. Serves(w) /\ UNCHANGED <<item, maintenance, ctx>>
  BY DEF WorkInv, WorkOf, PostItem, CompletePost, workVars
<1>2. \A m : (Open(m)' <=> Open(m)) /\ CostOf(m)' = CostOf(m)
  BY <1>1, SameCosts DEF Open
<1>3. /\ Place(w) \in {"part.post", "complete.post"} /\ Place(w) = pc[w]
      /\ Place(w)' = "costs.items"
  <2>1. PICK v : Recalculate(w, v, "costs.items")
    BY DEF PostItem, CompletePost, Post
  <2>2. pc[w] \in {"part.post", "complete.post"}
    BY DEF PostItem, CompletePost, At
  <2> QED BY <2>1, <2>2, GoesToDre DEF Place, DreLabels
<1>4. WorkOf(w)'
  BY <1>1, <1>2, <1>3 DEF WorkOf, Serves, MaintenancePlaces
<1>5. \A m : Settling(w, m) => Settling(w, m)'
  BY <1>1, <1>3 DEF Settling, SettlingPlaces
<1>6. \A j : ~Pending(w, j)'
  BY <1>3 DEF Pending
<1>7. CASE PostItem(w)
  <2>1. PICK i, v, a : /\ i = ctx[w].item /\ v = ServicedVehicle[ctx[w].maintenance] /\ a = Cost(i)
    OBVIOUS
  <2>2. PICK e : e = Entry(v, "expense", <<"parts", i>>, a)
    OBVIOUS
  <2>3. pc[w] = "part.post" /\ Insert(e) /\ e.ref = <<"parts", i>>
    BY <1>7, <2>1, <2>2 DEF PostItem, Post, At, Entry
  <2>4. \A j : Pending(w, j) <=> j = i
    BY <1>3, <2>1, <2>3 DEF Pending
  <2>5. ASSUME i \in Items PROVE BookedBy(w, i)'
    <3>1. BookedBy(w, i)
      BY <2>5, WorkOfOne DEF WorkInv
    <3>2. Unposted(i)
      BY <2>4, <3>1 DEF BookedBy
    <3>3. Posted(i)'
      BY <2>3, <3>2, PostedFor
    <3>4. item[i] # NULL /\ ~item[i].reversed
      BY <1>1, <1>3, <2>1, <2>3, NoItem DEF Serves, Recorded
    <3> QED BY <1>1, <1>6, <3>3, <3>4 DEF BookedBy
  <2>6. ASSUME NEW j, j # i
        PROVE  /\ Booking(j)' = Booking(j)
               /\ \A x \in Booking(j) : entries[x] = 1 => entries'[x] = 1
               /\ Pending(w, j)' <=> Pending(w, j)
    <3>1. e.ref # <<"parts", j>>
      BY <2>3, <2>6
    <3> QED BY <1>6, <2>3, <2>4, <2>6, <3>1, PostedFor
  <2> QED BY <1>1, <1>4, <1>5, <2>5, <2>6, EntryChanged
<1>8. CASE CompletePost(w)
  <2>1. PICK m, v, a : m = ctx[w].maintenance /\ v = ServicedVehicle[m] /\ a = ctx[w].labor
    OBVIOUS
  <2>2. PICK e : e = Entry(v, "expense", <<"maintenance", m>>, a)
    OBVIOUS
  <2>3. pc[w] = "complete.post" /\ Insert(e) /\ e.ref = <<"maintenance", m>>
    BY <1>8, <2>1, <2>2 DEF CompletePost, Post, At, Entry
  <2>4. \A j : ~Pending(w, j)
    BY <1>3, <2>3 DEF Pending
  <2>5. ASSUME NEW j
        PROVE  /\ Booking(j)' = Booking(j)
               /\ \A x \in Booking(j) : entries[x] = 1 => entries'[x] = 1
               /\ Pending(w, j)' <=> Pending(w, j)
    <3>1. e.ref # <<"parts", j>>
      BY <2>3
    <3> QED BY <1>6, <2>3, <2>4, <3>1, PostedFor
  <2>6. ASSUME NEW j \in Items PROVE BookedBy(w, j)'
    <3>1. ItemStays(w, j) /\ BookedBy(w, j)
      BY <1>1, <2>5, WorkOfOne DEF ItemStays, WorkInv
    <3> QED BY <3>1, StaysBooked
  <2> QED BY <1>1, <1>4, <1>5, <2>5, <2>6, EntryChanged
<1> QED BY <1>7, <1>8

LEMMA WithdrawWork ==
    ASSUME ShopInv, IsFiniteSet(Rows), WorkInv, NEW w \in Workers, OthersIdle(w), OnlyMoves(w),
           Fresh(w)', RemoveWithdraw(w) \/ CancelWithdraw(w)
    PROVE  WorkInv'
<1>1. Serves(w) /\ UNCHANGED <<item, maintenance, ctx>>
  BY DEF WorkInv, WorkOf, RemoveWithdraw, CancelWithdraw, workVars
<1>2. \A m : (Open(m)' <=> Open(m)) /\ CostOf(m)' = CostOf(m)
  BY <1>1, SameCosts DEF Open
<1>3. ASSUME NEW i, NEW v, NEW ref, NEW next, ref = <<"parts", i>>, Withdraw(w, ref, v, next),
             \/ Place(w) = "remove.withdraw" /\ next = "remove.mark" /\ i = ctx[w].item
             \/ Place(w) = "cancel.withdraw" /\ next = "cancel.mark" /\ i = FirstOf(ctx[w].todo)
      PROVE  WorkInv'
  <2>1. Place(w)' = next /\ DeleteByRef(ref)
    BY <1>3, GoesToDre DEF Withdraw
  <2>2. \A j : ~Pending(w, j)
    BY <1>3 DEF Pending
  <2>3. \A j : Pending(w, j)' <=> j = i
    BY <1>1, <1>3, <2>1 DEF Pending, FirstOf
  <2>4. WorkOf(w)'
    BY <1>1, <1>2, <1>3, <2>1 DEF WorkOf, Serves, MaintenancePlaces
  <2>5. \A m : Settling(w, m) => Settling(w, m)'
    BY <1>1, <1>3, <2>1 DEF Settling, SettlingPlaces
  <2>6. ASSUME i \in Items PROVE BookedBy(w, i)'
    <3>1. Unposted(i)'
      BY <1>3, <2>1, WithdrawnFor
    <3> QED BY <2>3, <3>1 DEF BookedBy
  <2>7. ASSUME NEW j, j # i
        PROVE  /\ Booking(j)' = Booking(j)
               /\ \A x \in Booking(j) : entries[x] = 1 => entries'[x] = 1
               /\ Pending(w, j)' <=> Pending(w, j)
    <3>1. ref # <<"parts", j>>
      BY <1>3, <2>7
    <3> QED BY <2>1, <2>2, <2>3, <2>7, <3>1, WithdrawnFor
  <2> QED BY <1>1, <2>4, <2>5, <2>6, <2>7, EntryChanged
<1>4. CASE RemoveWithdraw(w)
  <2>1. PICK i, v, ref : /\ i = ctx[w].item /\ v = ServicedVehicle[ctx[w].maintenance]
                         /\ ref = <<"parts", i>>
    OBVIOUS
  <2>2. Withdraw(w, ref, v, "remove.mark") /\ Place(w) = "remove.withdraw"
    BY <1>4, <2>1 DEF RemoveWithdraw, At, Place, DreLabels
  <2> QED BY <1>3, <2>1, <2>2
<1>5. CASE CancelWithdraw(w)
  <2>1. PICK i, v, ref : /\ i = FirstOf(ctx[w].todo) /\ v = ServicedVehicle[ctx[w].maintenance]
                         /\ ref = <<"parts", i>>
    OBVIOUS
  <2>2. Withdraw(w, ref, v, "cancel.mark") /\ Place(w) = "cancel.withdraw"
    BY <1>5, <2>1 DEF CancelWithdraw, At, Place, DreLabels
  <2> QED BY <1>3, <2>1, <2>2
<1> QED BY <1>4, <1>5

-----------------------------------------------------------------------------
(* Steps that write an item                                                *)

\* Item i of maintenance m is written, and w will write the costs of m again.
LEMMA ItemWritten ==
    ASSUME ShopInv, IsFiniteSet(Rows), WorkInv, NEW w \in Workers, OthersIdle(w), OnlyMoves(w),
           UNCHANGED <<maintenance, entries>>, WorkOf(w)',
           NEW i \in Items, NEW row, item' = [item EXCEPT ![i] = row],
           row # NULL, Open(row.maintenance),
           item[i] = NULL \/ item[i].maintenance = row.maintenance,
           Settling(w, row.maintenance)',
           \A m : Settling(w, m) => Settling(w, m)',
           BookedBy(w, i)',
           \A j : j # i => (Pending(w, j)' <=> Pending(w, j))
    PROVE  WorkInv'
<1>1. \A j \in Items : item'[j] = IF j = i THEN row ELSE item[j]
  BY DEF ShopInv, TablesOK
<1>2. \A j : Booking(j)' = Booking(j)
  BY DEF Booking
<1>3. ASSUME NEW j \in Items PROVE BookedBy(w, j)'
  <2>1. CASE j = i
    BY <2>1
  <2>2. CASE j # i
    <3>1. ItemStays(w, j)
      BY <1>1, <1>2, <2>2 DEF ItemStays
    <3>2. BookedBy(w, j)
      BY WorkOfOne DEF WorkInv
    <3> QED BY <3>1, <3>2, StaysBooked
  <2> QED BY <2>1, <2>2
<1>4. ASSUME NEW m \in Maintenances PROVE SettledBy(w, m)'
  <2>1. CASE m = row.maintenance
    BY <2>1 DEF SettledBy
  <2>2. CASE m # row.maintenance
    <3>1. ItemsOf(m)' = ItemsOf(m) /\ \A j \in ItemsOf(m) : item'[j] = item[j]
      BY <1>1, <2>2 DEF ItemsOf
    <3>2. CostStays(m)
      BY <3>1, SameCost DEF CostStays
    <3>3. SettledBy(w, m)
      BY WorkOfOne DEF WorkInv
    <3> QED BY <3>2, <3>3, StaysSettled
  <2> QED BY <2>1, <2>2
<1>5. WorkTables'
  BY <1>1 DEF WorkInv, WorkTables, Open
<1> QED BY <1>3, <1>4, <1>5, WorkTurn

LEMMA ItemWork ==
    ASSUME ShopInv, ShopInv', IsFiniteSet(Rows), WorkInv, NEW w \in Workers, OthersIdle(w),
           OnlyMoves(w), Fresh(w)', CreateItem(w) \/ RemoveMark(w) \/ CancelMark(w)
    PROVE  WorkInv'
<1>1. /\ UNCHANGED <<maintenance, entries>> /\ \A m : Open(m)' <=> Open(m)
      /\ DOMAIN pc = Workers /\ DOMAIN ctx = Workers
  BY DEF CreateItem, RemoveMark, CancelMark, bookVars, ShopInv, FramesOK, Open
<1>2. Serves(w) /\ WorkOK(w)
  BY DEF WorkInv, WorkOf, ShopInv
<1>3. \A j : Unposted(j)' <=> Unposted(j)
  BY <1>1 DEF Unposted, Booking
<1>4. CASE CreateItem(w)
  <2>1. PICK m, row : /\ m = ctx[w].maintenance
                      /\ row = [maintenance |-> m, part |-> ctx[w].part,
                                quantity |-> ctx[w].quantity, reversed |-> FALSE]
    OBVIOUS
  <2>2. PICK i \in Items : /\ pc[w] = "part.item" /\ item[i] = NULL
                           /\ item' = [item EXCEPT ![i] = row]
                           /\ GotoWith(w, "part.post", [maintenance |-> m, item |-> i])
    BY <1>4, <2>1 DEF CreateItem, At
  <2>3. PICK l : l = [maintenance |-> m, item |-> i]
    OBVIOUS
  <2>4. /\ Place(w) = "part.item" /\ Place(w)' = "part.post" /\ ctx'[w] = l
        /\ l.maintenance = m /\ l.item = i
    BY <1>1, <2>2, <2>3 DEF GotoWith, Place, DreLabels
  <2>5. row \in ItemRows /\ row.maintenance = m /\ ~row.reversed /\ m \in Maintenances
    BY <1>2, <2>1, <2>2 DEF WorkOK, AddLocals, ItemRows
  <2>6. Open(m)
    BY <1>2, <2>1, <2>4 DEF Serves, MaintenancePlaces
  <2>7. item'[i] = row
    BY <2>2 DEF ShopInv, TablesOK
  <2>8. WorkOf(w)'
    BY <1>1, <2>4, <2>5, <2>6, <2>7 DEF WorkOf, Serves, Recorded, MaintenancePlaces
  <2>9. \A j : ~Pending(w, j) /\ (Pending(w, j)' <=> j = i)
    BY <2>4 DEF Pending
  <2>10. \A n : ~Settling(w, n) /\ (n = m => Settling(w, n)')
    BY <2>4 DEF Settling, SettlingPlaces
  <2>11. BookedBy(w, i)'
    <3>1. BookedBy(w, i)
      BY WorkOfOne DEF WorkInv
    <3>2. Unposted(i)'
      BY <1>3, <2>2, <3>1 DEF BookedBy
    <3> QED BY <2>9, <3>2 DEF BookedBy
  <2> QED BY <1>1, <2>2, <2>5, <2>6, <2>8, <2>9, <2>10, <2>11, NoItem, ItemWritten
<1>5. CASE RemoveMark(w)
  <2>1. PICK i, m : i = ctx[w].item /\ m = ctx[w].maintenance
    OBVIOUS
  <2>2. /\ pc[w] = "remove.mark" /\ Place(w) = "remove.mark" /\ Place(w)' = "costs.items"
        /\ item' = [item EXCEPT ![i].reversed = TRUE] /\ ctx' = ctx
    BY <1>1, <1>5, <2>1 DEF RemoveMark, At, Goto, Place, DreLabels
  <2>3. /\ i \in Items /\ item[i] \in ItemRows /\ item[i].maintenance = m
        /\ m \in Maintenances /\ Open(m)
    BY <1>2, <2>1, <2>2 DEF WorkOK, Recorded, Serves, MaintenancePlaces
  <2>4. PICK row : row = [item[i] EXCEPT !.reversed = TRUE]
    OBVIOUS
  <2>5. row \in ItemRows /\ row.maintenance = m /\ row.reversed
    BY <2>3, <2>4 DEF ItemRows
  <2>6. item' = [item EXCEPT ![i] = row] /\ item'[i] = row
    BY <2>2, <2>3, <2>4 DEF ShopInv, TablesOK
  <2>7. WorkOf(w)'
    BY <1>1, <2>1, <2>2, <2>3 DEF WorkOf, Serves, MaintenancePlaces
  <2>8. \A j : (Pending(w, j) <=> j = i) /\ ~Pending(w, j)'
    BY <2>1, <2>2 DEF Pending
  <2>9. \A n : ~Settling(w, n) /\ (n = m => Settling(w, n)')
    BY <2>1, <2>2 DEF Settling, SettlingPlaces
  <2>10. BookedBy(w, i)'
    <3>1. BookedBy(w, i)
      BY <2>3, WorkOfOne DEF WorkInv
    <3>2. Unposted(i)'
      BY <1>3, <2>8, <3>1 DEF BookedBy
    <3> QED BY <2>5, <2>6, <3>2 DEF BookedBy
  <2> QED BY <1>1, <2>3, <2>5, <2>6, <2>7, <2>8, <2>9, <2>10, NoItem, ItemWritten
<1>6. CASE CancelMark(w)
  <2>1. PICK i, m, l : /\ i = FirstOf(ctx[w].todo) /\ m = ctx[w].maintenance
                       /\ l = [ctx[w] EXCEPT !.todo = @ \ {FirstOf(@)}]
    OBVIOUS
  <2>2. /\ pc[w] = "cancel.mark" /\ Place(w) = "cancel.mark" /\ Place(w)' = "cancel.next"
        /\ item' = [item EXCEPT ![i].reversed = TRUE] /\ ctx'[w] = l
    BY <1>1, <1>6, <2>1 DEF CancelMark, At, GotoWith, Place, DreLabels
  <2>3. /\ ctx[w] \in CancelLocals /\ \A j \in ctx[w].todo : Recorded(j)
        /\ ctx[w].todo # {} /\ ctx[w].todo \subseteq Items
    BY <1>2, <2>2 DEF WorkOK, CancelLocals
  <2>4. i \in ctx[w].todo
    BY <2>1, <2>3, FirstOfMany
  <2>5. /\ i \in Items /\ item[i] \in ItemRows /\ item[i].maintenance = m
        /\ m \in Maintenances /\ Open(m)
    BY <1>2, <2>1, <2>2, <2>3, <2>4 DEF Recorded, Serves, MaintenancePlaces
  <2>6. PICK row : row = [item[i] EXCEPT !.reversed = TRUE]
    OBVIOUS
  <2>7. row \in ItemRows /\ row.maintenance = m /\ row.reversed
    BY <2>5, <2>6 DEF ItemRows
  <2>8. item' = [item EXCEPT ![i] = row] /\ item'[i] = row
        /\ \A j \in Items : j # i => item'[j] = item[j]
    BY <2>2, <2>5, <2>6 DEF ShopInv, TablesOK
  <2>9. l.maintenance = m /\ l.todo = ctx[w].todo \ {i}
    BY <2>1, <2>3 DEF CancelLocals
  <2>10. \A j \in l.todo : item'[j].maintenance = m
    <3>1. \A j \in ctx[w].todo : item[j].maintenance = m
      BY <1>2, <2>1, <2>2 DEF Serves
    <3> QED BY <2>3, <2>8, <2>9, <3>1
  <2>11. WorkOf(w)'
    BY <1>1, <2>2, <2>5, <2>9, <2>10 DEF WorkOf, Serves, MaintenancePlaces
  <2>12. \A j : (Pending(w, j) <=> j = i) /\ ~Pending(w, j)'
    BY <2>1, <2>2 DEF Pending
  <2>13. \A n : (Settling(w, n) => n = m) /\ (n = m => Settling(w, n)')
    BY <2>1, <2>2, <2>9 DEF Settling, SettlingPlaces
  <2>14. BookedBy(w, i)'
    <3>1. BookedBy(w, i)
      BY <2>5, WorkOfOne DEF WorkInv
    <3>2. Unposted(i)'
      BY <1>3, <2>12, <3>1 DEF BookedBy
    <3> QED BY <2>7, <2>8, <3>2 DEF BookedBy
  <2> QED BY <1>1, <2>5, <2>7, <2>8, <2>11, <2>12, <2>13, <2>14, NoItem, ItemWritten
<1> QED BY <1>4, <1>5, <1>6

-----------------------------------------------------------------------------
(* Steps that write a maintenance                                          *)

LEMMA MaintenanceWritten ==
    ASSUME ShopInv, IsFiniteSet(Rows), WorkInv, NEW w \in Workers, OthersIdle(w), OnlyMoves(w),
           UNCHANGED <<item, entries>>, WorkOf(w)',
           NEW m, NEW row \in MaintenanceRows, maintenance' = [maintenance EXCEPT ![m] = row],
           SettledBy(w, m)', \A n : n # m => ~Settling(w, n),
           \A i : ~Pending(w, i) /\ ~Pending(w, i)'
    PROVE  WorkInv'
<1>1. \A n \in Maintenances : maintenance'[n] = IF n = m THEN row ELSE maintenance[n]
  BY DEF WorkInv, WorkTables
<1>2. row # NULL
  BY AbsenceAssumption DEF MaintenanceRows
<1>3. WorkTables'
  BY <1>1, <1>2 DEF WorkInv, WorkTables, Open, ShopInv, TablesOK, ItemRows
<1>4. ASSUME NEW i \in Items PROVE BookedBy(w, i)'
  <2>1. ItemStays(w, i)
    BY DEF ItemStays, Booking
  <2>2. BookedBy(w, i)
    BY WorkOfOne DEF WorkInv
  <2> QED BY <2>1, <2>2, StaysBooked
<1>5. ASSUME NEW n \in Maintenances PROVE SettledBy(w, n)'
  <2>1. CASE n = m
    BY <2>1
  <2>2. CASE n # m
    <3>1. CostStays(n)
      BY <1>1, <2>2, SameCosts DEF CostStays
    <3>2. SettledBy(w, n) /\ ~Settling(w, n)
      BY <2>2, WorkOfOne DEF WorkInv
    <3> QED BY <3>1, <3>2, StaysSettled
  <2> QED BY <2>1, <2>2
<1> QED BY <1>3, <1>4, <1>5, WorkTurn

LEMMA MaintenanceWork ==
    ASSUME ShopInv, IsFiniteSet(Rows), WorkInv, NEW w \in Workers, OthersIdle(w), OnlyMoves(w),
           Fresh(w)', RecomputeWrite(w) \/ CompleteWrite(w) \/ CancelWrite(w)
    PROVE  WorkInv'
<1>1. UNCHANGED <<item, entries>> /\ DOMAIN pc = Workers /\ DOMAIN ctx = Workers
  BY DEF RecomputeWrite, CompleteWrite, CancelWrite, bookVars, ShopInv, FramesOK
<1>2. Place(w) = pc[w] /\ pc[w] \in {"costs.write", "complete.write", "cancel.next"}
  BY DEF RecomputeWrite, CompleteWrite, CancelWrite, At, Place, DreLabels
<1>3. PICK m, c : m = ctx[w].maintenance /\ c = ctx[w]
  OBVIOUS
<1>4. Serves(w) /\ m \in Maintenances /\ Open(m) /\ maintenance[m] \in MaintenanceRows
  BY <1>2, <1>3 DEF WorkInv, WorkOf, WorkTables, Serves, Open, MaintenancePlaces
<1>5. CostOf(m)' = CostOf(m) /\ CostOf(m) \in Int
  BY <1>1, SameCosts, CostIsSum
<1>6. DOMAIN maintenance = Maintenances
  BY DEF WorkInv, WorkTables
<1>7. /\ \A n : n # m => ~Settling(w, n)
      /\ \A i : ~Pending(w, i)
  BY <1>2, <1>3 DEF Settling, Pending
<1>8. CASE RecomputeWrite(w)
  <2>1. /\ pc[w] = "costs.write" /\ Place(w)' = "idle"
        /\ maintenance' = [maintenance EXCEPT ![m].parts = c.parts, ![m].total = c.total]
    BY <1>1, <1>3, <1>8 DEF RecomputeWrite, At, Return, Place, DreLabels
  <2>2. c.parts = CostOf(m) /\ c.total = c.parts + maintenance[m].labor
    BY <1>2, <1>3, <1>4, <2>1 DEF Serves
  <2>3. PICK row : row = [[maintenance[m] EXCEPT !.parts = c.parts] EXCEPT !.total = c.total]
    OBVIOUS
  <2>4. /\ row \in MaintenanceRows /\ row.parts = CostOf(m)
        /\ row.total = row.parts + row.labor
    <3>1. PICK old : old = maintenance[m]
      OBVIOUS
    <3>2. PICK parts, total : parts = c.parts /\ total = c.total
      OBVIOUS
    <3>3. old \in MaintenanceRows /\ old.labor \in Int
      BY <1>4, <3>1 DEF MaintenanceRows
    <3>4. parts \in Int /\ parts = CostOf(m) /\ total = parts + old.labor /\ total \in Int
      BY <1>5, <2>2, <3>1, <3>2, <3>3
    <3>5. PICK half : half = [old EXCEPT !.parts = parts]
      OBVIOUS
    <3>6. half \in MaintenanceRows /\ half.parts = parts /\ half.labor = old.labor
      BY <3>3, <3>4, <3>5 DEF MaintenanceRows
    <3>7. row = [half EXCEPT !.total = total]
      BY <2>3, <3>1, <3>2, <3>5
    <3>8. /\ row \in MaintenanceRows /\ row.parts = parts /\ row.total = total
          /\ row.labor = old.labor
      BY <3>4, <3>6, <3>7 DEF MaintenanceRows
    <3> QED BY <3>4, <3>8
  <2>5. maintenance' = [maintenance EXCEPT ![m] = row] /\ maintenance'[m] = row
    BY <1>4, <1>6, <2>1, <2>3
  <2>6. SettledBy(w, m)'
    BY <1>5, <2>4, <2>5 DEF SettledBy, CostRight
  <2>7. WorkOf(w)' /\ \A i : ~Pending(w, i)'
    BY <2>1 DEF WorkOf, Serves, MaintenancePlaces, Pending
  <2> QED BY <1>1, <1>7, <2>4, <2>5, <2>6, <2>7, MaintenanceWritten
<1>9. CASE CompleteWrite(w)
  <2>1. /\ pc[w] = "complete.write" /\ ctx' = ctx
        /\ Place(w)' \in {"complete.post", "costs.items"}
        /\ maintenance' = [maintenance EXCEPT ![m].status = "COMPLETED", ![m].labor = c.labor]
    BY <1>1, <1>3, <1>9 DEF CompleteWrite, At, Goto, Place, DreLabels
  <2>2. c.labor \in Int
    BY <1>2, <1>3, <1>4, <2>1 DEF Serves
  <2>3. PICK row : row = [[maintenance[m] EXCEPT !.status = "COMPLETED"] EXCEPT !.labor = c.labor]
    OBVIOUS
  <2>4. row \in MaintenanceRows
    BY <1>4, <2>2, <2>3 DEF MaintenanceRows, MaintenanceStatuses
  <2>5. maintenance' = [maintenance EXCEPT ![m] = row] /\ maintenance'[m] = row
    BY <1>4, <1>6, <2>1, <2>3
  <2>6. SettledBy(w, m)'
    BY <1>3, <2>1 DEF SettledBy, Settling, SettlingPlaces
  <2>7. row # NULL
    BY <2>4, AbsenceAssumption DEF MaintenanceRows
  <2>8. WorkOf(w)' /\ \A i : ~Pending(w, i)'
    BY <1>3, <1>4, <2>1, <2>2, <2>5, <2>7 DEF WorkOf, Serves, MaintenancePlaces, Pending, Open
  <2> QED BY <1>1, <1>7, <2>4, <2>5, <2>6, <2>8, MaintenanceWritten
<1>10. CASE CancelWrite(w)
  <2>1. /\ pc[w] = "cancel.next" /\ Place(w)' = "idle"
        /\ maintenance' = [maintenance EXCEPT ![m].status = "CANCELED"]
    BY <1>1, <1>3, <1>10 DEF CancelWrite, At, Return, Place, DreLabels
  <2>2. PICK row : row = [maintenance[m] EXCEPT !.status = "CANCELED"]
    OBVIOUS
  <2>3. row \in MaintenanceRows /\ row.status = "CANCELED"
    BY <1>4, <2>2 DEF MaintenanceRows, MaintenanceStatuses
  <2>4. maintenance' = [maintenance EXCEPT ![m] = row] /\ maintenance'[m] = row
    BY <1>4, <1>6, <2>1, <2>2
  <2>5. SettledBy(w, m)'
    BY <2>3, <2>4 DEF SettledBy
  <2>6. WorkOf(w)' /\ \A i : ~Pending(w, i)'
    BY <2>1 DEF WorkOf, Serves, MaintenancePlaces, Pending
  <2> QED BY <1>1, <1>7, <2>3, <2>4, <2>5, <2>6, MaintenanceWritten
<1> QED BY <1>8, <1>9, <1>10

-----------------------------------------------------------------------------
(* The workshop, step by step                                              *)

LEMMA WorkKeeps ==
    ASSUME ShopInv, ShopInv', IsFiniteSet(Rows), WorkInv, schedule = "workshop",
           NEW w \in Workers, Request(w) \/ WorkshopStep(w)
    PROVE  WorkInv'
<1>1. CASE Request(w)
  BY <1>1, WorkAsked
<1>2. CASE WorkshopStep(w)
  <2>1. OnlyMoves(w) /\ pc[w] # "idle" /\ Fresh(w)'
    BY <1>2, StepMoves, FreshStep DEF WorkInv, WorkOf
  <2>2. OthersIdle(w)
    BY <2>1 DEF WorkInv, Alone, OthersIdle
  <2>3. CASE \/ LogFirstStock(w) \/ Move(w) \/ ConsumeCheck(w) \/ Consume(w)
             \/ RecomputeReadItems(w) \/ RecomputeReadLabor(w)
             \/ RemoveReturn(w) \/ CancelReturn(w)
    BY <2>1, <2>2, <2>3, BesideWork
  <2>4. CASE PostItem(w) \/ CompletePost(w)
    BY <2>1, <2>2, <2>4, PostWork
  <2>5. CASE RemoveWithdraw(w) \/ CancelWithdraw(w)
    BY <2>1, <2>2, <2>5, WithdrawWork
  <2>6. CASE CreateItem(w) \/ RemoveMark(w) \/ CancelMark(w)
    BY <2>1, <2>2, <2>6, ItemWork
  <2>7. CASE RecomputeWrite(w) \/ CompleteWrite(w) \/ CancelWrite(w)
    BY <2>1, <2>2, <2>7, MaintenanceWork
  <2>8. CASE LedgerStep(w) /\ UNCHANGED <<shelfVars, workVars>>
    <3>1. DreStep(w) /\ UNCHANGED workVars
      BY <2>8, OtherLabels DEF LedgerStep
    <3> QED BY <2>1, <2>2, <3>1, BesideWork
  <2> QED BY <1>2, <2>3, <2>4, <2>5, <2>6, <2>7, <2>8 DEF WorkshopStep, PartsStep, MaintenanceStep
<1> QED BY <1>1, <1>2

WorkTrue == schedule = "workshop" => WorkInv

LEMMA WorkStart == ASSUME BooksInit PROVE WorkInv
<1> USE DEF BooksInit, WorkshopInit, LedgerInit, HandlersInit
<1>1. \A w \in Workers : pc[w] = "idle" /\ Place(w) = "idle"
  BY DEF Place, DreLabels
<1>2. Alone /\ \A w \in Workers : WorkOf(w)
  BY <1>1 DEF Alone, WorkOf, Fresh, Serves, MaintenancePlaces
<1>3. WorkTables
  BY DEF WorkTables, Open
<1>4. \A i \in Items : ItemBooked(i)
  BY DEF ItemBooked, Unposted, Booking, EmptyBag, SetToBag
<1>5. \A m \in Maintenances : CostSettled(m)
  BY DEF CostSettled, Open
<1> QED BY <1>2, <1>3, <1>4, <1>5 DEF WorkInv

LEMMA WorkTrueKept == ASSUME ItemsInv, ItemsInv', WorkTrue, [BooksNext]_booksVars PROVE WorkTrue'
<1>1. CASE BooksNext
  <2>1. PICK w \in Workers : /\ \/ Request(w) \/ WorkshopStep(w)
                                \/ schedule # "workshop" /\ WorkshopDie(w)
                             /\ schedule' = schedule
    BY <1>1 DEF BooksNext
  <2>2. ASSUME schedule = "workshop" PROVE WorkInv'
    <3>1. ShopInv /\ ShopInv' /\ IsFiniteSet(Rows) /\ WorkInv
      BY <2>1, <2>2 DEF BooksInv, ItemsInv, AccountsInv, WorkTrue
    <3> QED BY <2>1, <2>2, <3>1, WorkKeeps
  <2> QED BY <2>1, <2>2 DEF WorkTrue
<1>2. CASE UNCHANGED booksVars
  <2>1. UNCHANGED <<pc, ctx, calc, item, maintenance, entries, quantity, schedule>>
    BY <1>2 DEF booksVars, workshopVars, shelfVars, workVars, ledgerVars, bookVars, handlerVars
  <2>2. ASSUME schedule = "workshop" PROVE WorkInv'
    <3>1. ShopInv /\ IsFiniteSet(Rows) /\ WorkInv
      BY <2>2 DEF BooksInv, ItemsInv, AccountsInv, WorkTrue
    <3>2. \A m : CostOf(m)' = CostOf(m) /\ (Open(m)' <=> Open(m))
      BY <2>1, <3>1, SameCosts DEF Open
    <3>3. \A x \in Workers : (Place(x)' = Place(x)) /\ WorkOf(x)
      BY <2>1, <3>1 DEF Place, WorkInv
    <3>4. \A x \in Workers : WorkOf(x)'
      BY <2>1, <3>2, <3>3 DEF WorkOf, Fresh, Serves, Recorded
    <3>5. \A x \in Workers : \A i : Pending(x, i)' <=> Pending(x, i)
      BY <2>1, <3>3 DEF Pending
    <3>6. \A x \in Workers : \A m : Settling(x, m)' <=> Settling(x, m)
      BY <2>1, <3>3 DEF Settling
    <3>7. \A i \in Items : ItemBooked(i)'
      BY <2>1, <3>1, <3>5 DEF WorkInv, ItemBooked, Unposted, Posted, Booking
    <3>8. \A m \in Maintenances : CostSettled(m)'
      BY <2>1, <3>1, <3>2, <3>6 DEF WorkInv, CostSettled, CostRight
    <3>9. Alone' /\ WorkTables'
      BY <2>1, <3>1, <3>2 DEF WorkInv, Alone, WorkTables
    <3> QED BY <3>4, <3>7, <3>8, <3>9 DEF WorkInv
  <2> QED BY <2>1, <2>2 DEF WorkTrue
<1> QED BY <1>1, <1>2

LEMMA WorkStays == BooksSpec => [](ItemsInv /\ WorkTrue)
<1>1. BooksInit => WorkTrue
  BY WorkStart DEF WorkTrue
<1>2. ItemsInv /\ ItemsInv' /\ WorkTrue /\ [BooksNext]_booksVars => WorkTrue'
  BY WorkTrueKept
<1> QED BY <1>1, <1>2, ItemsStay, PTL DEF BooksSpec

LEMMA WorkshopFollows == ASSUME ItemsInv, WorkTrue, schedule = "workshop" PROVE BooksFollowItems
<1>1. ShopInv /\ IsFiniteSet(Rows) /\ WorkInv
  BY DEF ItemsInv, BooksInv, AccountsInv, WorkTrue
<1> QED BY <1>1, WorkFollows
=============================================================================
