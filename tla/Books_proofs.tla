----------------------------- MODULE Books_proofs -----------------------------
(***************************************************************************)
(* The stock of parts, its movement log and what the items of the          *)
(* maintenances record of it, for any number of parts, maintenances, items *)
(* and requests of the workshop that overlap and die.                      *)
(*                                                                         *)
(* The log explains the stock of a part exactly, but for a part that is    *)
(* being registered: its quantity is there before the movement of its      *)
(* first stock.  The invariant says by how much stock and log differ then, *)
(* and that no two requests register the same part.  Everything else a     *)
(* request does to the stock is one transaction with its movement; what    *)
(* must be shown is that the quantities it takes and returns are those of  *)
(* rows that exist, whatever it has waited for in between.                 *)
(*                                                                         *)
(* What is recorded never runs ahead of the log because a handler takes    *)
(* first and records later: Flying are the handlers in between, and with   *)
(* their loads the sum is inductive.  BackItems plays the same part when   *)
(* an item is given back before it is marked.                              *)
(*                                                                         *)
(* The library adds up a set by choosing its elements one after another; a *)
(* table of the sums of all subsets says the same whatever is chosen.      *)
(* That a table exists, that two tables agree and that the library         *)
(* computes one is shown on a smallest subset for which it would fail.     *)
(***************************************************************************)
EXTENDS Books, FiniteSetTheorems, WellFoundedInduction, TLAPS

DreLabels == {"dre.vehicle", "dre.entries", "dre.commissions", "dre.save"}

ShopLabels ==
    {"part.log", "move.write", "part.check", "part.take", "part.item", "part.post",
     "costs.items", "costs.labor", "costs.write",
     "remove.return", "remove.withdraw", "remove.mark",
     "complete.write", "complete.post",
     "cancel.next", "cancel.withdraw", "cancel.mark"} \cup DreLabels

\* Where a handler of the workshop goes on after recalculate
NextLabels == {"costs.items", "remove.mark", "cancel.mark"}

Positive == Nat \ {0}

LogRows  == [net : Int, applied : Int, reversed : Int]
ItemRows == [maintenance : Maintenances, part : Parts, quantity : Positive, reversed : BOOLEAN]

TablesOK ==
    /\ quantity \in [Parts -> Int \cup {NULL}]
    /\ log \in [Parts -> LogRows]
    /\ item \in [Items -> ItemRows \cup {NULL}]
    /\ \A i \in Items : item[i] \in ItemRows => Known(item[i].part)

FramesOK ==
    /\ pc \in [Workers -> {"idle"} \cup ShopLabels]
    /\ DOMAIN ctx = Workers
    /\ DOMAIN calc = Workers

Recorded(i) == i \in Items /\ item[i] \in ItemRows

\* The place in the workshop of a handler that may be in recalculate
Place(w) == IF pc[w] \in DreLabels THEN calc[w].next ELSE pc[w]

RegisterLocals == [part : Parts, quantity : Positive]
MoveLocals     == [part : Parts, stock : Nat, delta : Int]
AddLocals      == [maintenance : Maintenances, part : Parts, quantity : Positive]
CancelLocals   == [maintenance : Maintenances, todo : SUBSET Items]

WorkOK(w) ==
    /\ pc[w] \in DreLabels => "next" \in DOMAIN calc[w] /\ calc[w].next \in NextLabels
    /\ pc[w] = "part.log" => ctx[w] \in RegisterLocals /\ Known(ctx[w].part)
    /\ pc[w] = "move.write" => ctx[w] \in MoveLocals /\ Known(ctx[w].part)
    /\ pc[w] \in {"part.check", "part.take", "part.item"} =>
          ctx[w] \in AddLocals /\ Known(ctx[w].part)
    /\ Place(w) \in {"remove.return", "remove.withdraw", "remove.mark"} => Recorded(ctx[w].item)
    /\ Place(w) \in {"cancel.next", "cancel.withdraw", "cancel.mark"} =>
          ctx[w] \in CancelLocals /\ \A i \in ctx[w].todo : Recorded(i)
    /\ Place(w) \in {"cancel.withdraw", "cancel.mark"} => ctx[w].todo # {}

\* Handler w has registered part p and not logged its first stock.
Registers(w, p) == pc[w] = "part.log" /\ ctx[w].part = p

Unexplained(p) == quantity[p] + log[p].applied - log[p].reversed - log[p].net

Explained(p) ==
    /\ ~Known(p) => log[p] = [net |-> 0, applied |-> 0, reversed |-> 0]
    /\ Known(p) /\ (\A w \in Workers : ~Registers(w, p)) => Unexplained(p) = 0
    /\ \A w \in Workers : Registers(w, p) =>
          /\ Unexplained(p) = ctx[w].quantity
          /\ \A x \in Workers \ {w} : ~Registers(x, p)

ShopInv ==
    /\ TablesOK
    /\ FramesOK
    /\ \A w \in Workers : WorkOK(w)

AllExplained == \A p \in Parts : Explained(p)

\* The stock room moves and edits quantities when the workshop has the shop to itself.
NoMoves == \A w \in Workers : pc[w] # "move.write"

BooksInv ==
    /\ failures \in Nat
    /\ schedule # "ledger" => ShopInv
    /\ schedule = "overlap" => NoMoves
    /\ schedule = "overlap" /\ failures = 0 => AllExplained

-----------------------------------------------------------------------------
(* Numbers                                                                 *)

LEMMA SmallestNumber ==
    ASSUME NEW T \in SUBSET Nat, T # {}
    PROVE  \E x \in T : \A y \in T : x <= y
<1> DEFINE R == OpToRel(<, Nat)
<1>1. IsWellFoundedOn(R, Nat)
  BY NatLessThanWellFounded
<1>2. \A x, y \in Nat : y < x => <<y, x>> \in R
  BY DEF OpToRel
<1> HIDE DEF R
<1>3. PICK x \in T : \A y \in T : <<y, x>> \notin R
  BY <1>1, WFMin
<1>4. ASSUME NEW y \in T PROVE x <= y
  <2>1. ~(y < x)
    BY <1>2, <1>3
  <2> QED
    BY <2>1
<1> QED
  BY <1>4

LEMMA FirstOfMany ==
    ASSUME NEW T \in SUBSET Items, T # {}
    PROVE  FirstOf(T) \in T
<1>1. \E i \in T : \A j \in T : i <= j
  BY SmallestNumber, WorkshopAssumption
<1> QED
  BY <1>1 DEF FirstOf

\* No row of an item is the value that stands for its absence.
LEMMA NoItem == NULL \notin ItemRows
BY AbsenceAssumption DEF ItemRows, Positive

-----------------------------------------------------------------------------
(* What one handler does is no business of the others                      *)

OnlyMoves(w) ==
    /\ FramesOK'
    /\ \A x \in Workers \ {w} : pc'[x] = pc[x] /\ ctx'[x] = ctx[x] /\ calc'[x] = calc[x]

RowsKept ==
    /\ \A p \in Parts : Known(p) => Known(p)'
    /\ \A i \in Items : item[i] \in ItemRows => item'[i] \in ItemRows

LEMMA WorkKept ==
    ASSUME ShopInv, RowsKept, NEW w \in Workers, OnlyMoves(w), WorkOK(w)'
    PROVE  \A x \in Workers : WorkOK(x)'
<1>1. ASSUME NEW x \in Workers, x # w PROVE WorkOK(x)'
  <2>1. pc'[x] = pc[x] /\ ctx'[x] = ctx[x] /\ calc'[x] = calc[x] /\ WorkOK(x)
    BY <1>1 DEF OnlyMoves, ShopInv
  <2>2. \A i : Recorded(i) => Recorded(i)'
    BY DEF RowsKept, Recorded
  <2> QED
    BY <2>1, <2>2 DEF WorkOK, Place, RowsKept, RegisterLocals, MoveLocals, AddLocals
<1> QED
  BY <1>1

\* A step that neither touches the stock nor has to do with a registration
Aside(w) ==
    /\ UNCHANGED shelfVars
    /\ TablesOK'
    /\ \A i \in Items : item[i] \in ItemRows => item'[i] \in ItemRows
    /\ OnlyMoves(w)
    /\ pc[w] # "part.log" /\ pc'[w] # "part.log"
    /\ WorkOK(w)'

LEMMA AsideKept ==
    ASSUME ShopInv, NEW w \in Workers, Aside(w)
    PROVE  ShopInv' /\ (AllExplained => AllExplained')
<1>1. RowsKept
  BY DEF Aside, RowsKept, Known, shelfVars
<1>2. TablesOK'
  BY DEF Aside
<1>3. ASSUME NEW p \in Parts, AllExplained PROVE Explained(p)'
  <2>1. \A x \in Workers : Registers(x, p)' = Registers(x, p)
                           /\ (Registers(x, p) => ctx'[x] = ctx[x])
    BY DEF Aside, OnlyMoves, Registers
  <2> QED
    BY <1>3, <2>1 DEF AllExplained, Explained, Unexplained, Known, Aside, shelfVars
<1> QED
  BY <1>1, <1>2, <1>3, WorkKept DEF Aside, OnlyMoves, ShopInv, AllExplained

-----------------------------------------------------------------------------
(* Steps beside the stock                                                  *)

LEMMA SameTables ==
    ASSUME ShopInv, UNCHANGED <<shelfVars, item>>
    PROVE  TablesOK' /\ \A i \in Items : item[i] \in ItemRows => item'[i] \in ItemRows
BY DEF ShopInv, TablesOK, shelfVars, Known

\* A handler that goes on, or ends, keeps its frame.
LEMMA Went ==
    ASSUME ShopInv, NEW w \in Workers, NEW label \in {"idle"} \cup ShopLabels,
           pc' = [pc EXCEPT ![w] = label],
           \/ UNCHANGED ctx \/ \E l : ctx' = [ctx EXCEPT ![w] = l],
           \/ UNCHANGED calc \/ \E f : calc' = [calc EXCEPT ![w] = f]
    PROVE  OnlyMoves(w) /\ pc'[w] = label
BY DEF ShopInv, FramesOK, OnlyMoves

LEMMA IdleIsFine ==
    ASSUME NEW w \in Workers, pc[w] = "idle"
    PROVE  WorkOK(w)
BY DEF WorkOK, Place, DreLabels

\* Beside the stock, a handler that ends
LEMMA EndsAside ==
    ASSUME ShopInv, NEW w \in Workers, pc[w] # "part.log", Return(w),
           UNCHANGED <<shelfVars, item>>,
           \/ UNCHANGED calc \/ \E f : calc' = [calc EXCEPT ![w] = f]
    PROVE  Aside(w)
<1>1. OnlyMoves(w) /\ pc'[w] = "idle"
  BY Went DEF Return
<1>2. WorkOK(w)'
  BY <1>1 DEF WorkOK, Place, DreLabels
<1> QED
  BY <1>1, <1>2, SameTables DEF Aside

\* Beside the stock, a handler that calls recalculate
LEMMA RecalculatesAside ==
    ASSUME ShopInv, NEW w \in Workers, NEW v, NEW next \in NextLabels, pc[w] # "part.log",
           Recalculate(w, v, next), UNCHANGED <<shelfVars, item, ctx>>,
           next = "remove.mark" => Place(w) = "remove.withdraw",
           next = "cancel.mark" => Place(w) = "cancel.withdraw"
    PROVE  Aside(w)
<1>1. /\ pc' = [pc EXCEPT ![w] = "dre.vehicle"]
      /\ calc' = [calc EXCEPT ![w] = [vehicle |-> v, next |-> next, price |-> 0, sums |-> NoDre]]
  BY DEF Recalculate
<1>2. OnlyMoves(w) /\ pc'[w] = "dre.vehicle"
  BY <1>1, Went DEF ShopLabels, DreLabels
<1>3. "next" \in DOMAIN calc'[w] /\ calc'[w].next = next
  BY <1>1 DEF ShopInv, FramesOK
<1>4. Place(w)' = next
  BY <1>2, <1>3 DEF Place, DreLabels
<1>5. WorkOK(w)
  BY DEF ShopInv
<1>6. WorkOK(w)'
  BY <1>2, <1>3, <1>4, <1>5 DEF WorkOK, NextLabels, Recorded, DreLabels
<1> QED
  BY <1>2, <1>6, SameTables DEF Aside

LEMMA DreAside ==
    ASSUME ShopInv, NEW w \in Workers, DreStep(w), UNCHANGED <<shelfVars, workVars>>
    PROVE  Aside(w)
<1>1. pc[w] \in DreLabels /\ "next" \in DOMAIN calc[w] /\ calc[w].next \in NextLabels
  BY DEF DreStep, DreReadVehicle, DreReadEntries, DreReadCommissions, DreSave, At, ShopInv,
     WorkOK, DreLabels
<1>2. WorkOK(w) /\ UNCHANGED <<shelfVars, item>> /\ pc[w] # "part.log"
  BY <1>1 DEF ShopInv, workVars, DreLabels
<1>3. ASSUME NEW label \in DreLabels, pc' = [pc EXCEPT ![w] = label], UNCHANGED ctx,
             NEW f, calc' = [calc EXCEPT ![w] = f], "next" \in DOMAIN f, f.next = calc[w].next
      PROVE  Aside(w)
  <2>1. OnlyMoves(w) /\ pc'[w] = label
    BY <1>3, Went DEF ShopLabels
  <2>2. calc'[w] = f
    BY <1>3 DEF ShopInv, FramesOK
  <2>3. Place(w)' = Place(w)
    BY <1>1, <1>3, <2>1, <2>2 DEF Place
  <2>4. WorkOK(w)'
    BY <1>1, <1>2, <1>3, <2>1, <2>2, <2>3 DEF WorkOK, Recorded, DreLabels
  <2> QED
    BY <1>2, <1>3, <2>1, <2>4, SameTables DEF Aside, DreLabels
<1>4. CASE DreReadVehicle(w)
  <2> DEFINE f == [calc[w] EXCEPT !.price = purchasePrice[calc[w].vehicle]]
  <2>1. calc' = [calc EXCEPT ![w] = f] /\ pc' = [pc EXCEPT ![w] = "dre.entries"] /\ UNCHANGED ctx
    BY <1>4 DEF DreReadVehicle, Goto
  <2>2. "next" \in DOMAIN f /\ f.next = calc[w].next
    BY <1>1
  <2> QED
    BY <1>3, <2>1, <2>2 DEF DreLabels
<1>5. CASE DreReadEntries(w)
  <2> DEFINE v == calc[w].vehicle
             f == [calc[w] EXCEPT
                     !.sums.revenue  = Sum(v, {"revenue"}),
                     !.sums.expenses = Sum(v, {"purchase", "expense"})
                        + (IF Sum(v, {"purchase"}) = 0 THEN calc[w].price ELSE 0)]
  <2>1. calc' = [calc EXCEPT ![w] = f]
        /\ pc' = [pc EXCEPT ![w] = "dre.commissions"] /\ UNCHANGED ctx
    BY <1>5 DEF DreReadEntries, Goto
  <2>2. "next" \in DOMAIN f /\ f.next = calc[w].next
    BY <1>1
  <2> QED
    BY <1>3, <2>1, <2>2 DEF DreLabels
<1>6. CASE DreReadCommissions(w)
  <2> DEFINE f == [calc[w] EXCEPT
                     !.sums.commission = MapThenSumSet(LAMBDA s : commission[s].amount,
                                                       OpenCommissions(calc[w].vehicle))]
  <2>1. calc' = [calc EXCEPT ![w] = f] /\ pc' = [pc EXCEPT ![w] = "dre.save"] /\ UNCHANGED ctx
    BY <1>6 DEF DreReadCommissions, Goto
  <2>2. "next" \in DOMAIN f /\ f.next = calc[w].next
    BY <1>1
  <2> QED
    BY <1>3, <2>1, <2>2 DEF DreLabels
<1>7. CASE DreSave(w)
  <2>1. pc' = [pc EXCEPT ![w] = calc[w].next] /\ UNCHANGED <<ctx, calc>>
    BY <1>1, <1>7 DEF DreSave, Goto, NextLabels
  <2>2. OnlyMoves(w) /\ pc'[w] = calc[w].next
    BY <1>1, <2>1, Went DEF ShopLabels, NextLabels
  <2>3. WorkOK(w)'
    BY <1>1, <1>2, <2>1, <2>2 DEF WorkOK, Place, Recorded, DreLabels, NextLabels
  <2> QED
    BY <1>1, <1>2, <2>2, <2>3, SameTables DEF Aside, NextLabels
<1> QED
  BY <1>4, <1>5, <1>6, <1>7 DEF DreStep

\* A request that starts takes its locals along.
LEMMA Starts ==
    ASSUME ShopInv, NEW w \in Workers, NEW label \in ShopLabels, NEW locals,
           Begin(w, label, locals), UNCHANGED calc
    PROVE  OnlyMoves(w) /\ pc[w] = "idle" /\ pc'[w] = label /\ ctx'[w] = locals
BY DEF Begin, ShopInv, FramesOK, OnlyMoves

LEMMA RequestAside ==
    ASSUME ShopInv, NEW w \in Workers,
           \/ \E m \in Maintenances, labor \in Nat : CreateMaintenance(w, m, labor)
           \/ \E m \in Maintenances, p \in Parts, n \in Quantities : RequestAddPart(w, m, p, n)
           \/ \E i \in Items : RequestRemovePart(w, i)
           \/ \E m \in Maintenances, labor \in LaborCosts \cup {NULL} : RequestComplete(w, m, labor)
           \/ \E m \in Maintenances : RequestCancel(w, m)
    PROVE  Aside(w)
<1>1. ASSUME NEW m \in Maintenances, NEW labor \in Nat, CreateMaintenance(w, m, labor)
      PROVE  Aside(w)
  <2>1. pc[w] = "idle" /\ UNCHANGED <<shelfVars, item, pc, ctx, calc>>
    BY <1>1 DEF CreateMaintenance, ledgerVars, handlerVars
  <2>2. WorkOK(w)'
    BY <2>1 DEF WorkOK, Place, DreLabels
  <2> QED
    BY <2>1, <2>2, SameTables DEF Aside, OnlyMoves, ShopInv, FramesOK
<1>2. ASSUME NEW m \in Maintenances, NEW p \in Parts, NEW n \in Quantities,
             RequestAddPart(w, m, p, n)
      PROVE  Aside(w)
  <2> DEFINE locals == [maintenance |-> m, part |-> p, quantity |-> n]
  <2>1. Begin(w, "part.check", locals) /\ UNCHANGED <<shelfVars, item, calc>> /\ Known(p)
    BY <1>2 DEF RequestAddPart, workVars
  <2>6. n \in Positive
    BY WorkshopAssumption DEF Positive
  <2>2. locals \in AddLocals /\ locals.part = p
    BY <2>6 DEF AddLocals
  <2>5. Known(p)'
    BY <2>1 DEF Known, shelfVars
  <2> HIDE DEF locals
  <2>3. OnlyMoves(w) /\ pc[w] = "idle" /\ pc'[w] = "part.check" /\ ctx'[w] = locals
    BY <2>1, Starts DEF ShopLabels
  <2>4. WorkOK(w)'
    BY <2>2, <2>3, <2>5 DEF WorkOK, Place, DreLabels, Known
  <2> QED
    BY <2>1, <2>3, <2>4, SameTables DEF Aside
<1>3. ASSUME NEW i \in Items, RequestRemovePart(w, i)
      PROVE  Aside(w)
  <2> DEFINE locals == [maintenance |-> item[i].maintenance, item |-> i]
  <2>1. /\ Begin(w, "remove.return", locals)
        /\ UNCHANGED <<shelfVars, item, calc>> /\ item[i] # NULL
    BY <1>3 DEF RequestRemovePart, workVars
  <2>2. locals.item = i /\ Recorded(i)'
    BY <2>1 DEF ShopInv, TablesOK, Recorded
  <2> HIDE DEF locals
  <2>3. OnlyMoves(w) /\ pc[w] = "idle" /\ pc'[w] = "remove.return" /\ ctx'[w] = locals
    BY <2>1, Starts DEF ShopLabels
  <2>4. WorkOK(w)'
    BY <2>2, <2>3 DEF WorkOK, Place, DreLabels, Recorded
  <2> QED
    BY <2>1, <2>3, <2>4, SameTables DEF Aside
<1>4. ASSUME NEW m \in Maintenances, NEW labor \in LaborCosts \cup {NULL},
             RequestComplete(w, m, labor)
      PROVE  Aside(w)
  <2> DEFINE locals == [maintenance |-> m,
                        labor |-> IF labor = NULL THEN maintenance[m].labor ELSE labor]
  <2>1. Begin(w, "complete.write", locals) /\ UNCHANGED <<shelfVars, item, calc>>
    BY <1>4 DEF RequestComplete, workVars
  <2> HIDE DEF locals
  <2>2. OnlyMoves(w) /\ pc[w] = "idle" /\ pc'[w] = "complete.write"
    BY <2>1, Starts DEF ShopLabels
  <2>3. WorkOK(w)'
    BY <2>2 DEF WorkOK, Place, DreLabels
  <2> QED
    BY <2>1, <2>2, <2>3, SameTables DEF Aside
<1>5. ASSUME NEW m \in Maintenances, RequestCancel(w, m)
      PROVE  Aside(w)
  <2> DEFINE locals == [maintenance |-> m, todo |-> ItemsOf(m)]
  <2>1. Begin(w, "cancel.next", locals) /\ UNCHANGED <<shelfVars, item, calc>>
    BY <1>5 DEF RequestCancel, workVars
  <2>2. locals \in CancelLocals /\ \A i \in locals.todo : Recorded(i)'
    BY <2>1 DEF CancelLocals, ItemsOf, Recorded, ShopInv, TablesOK
  <2> HIDE DEF locals
  <2>3. OnlyMoves(w) /\ pc[w] = "idle" /\ pc'[w] = "cancel.next" /\ ctx'[w] = locals
    BY <2>1, Starts DEF ShopLabels
  <2>4. WorkOK(w)'
    BY <2>2, <2>3 DEF WorkOK, Place, DreLabels
  <2> QED
    BY <2>1, <2>3, <2>4, SameTables DEF Aside
<1> QED
  BY <1>1, <1>2, <1>3, <1>4, <1>5

\* The handler goes on, with the locals it had or with others; recalculate is not in it.
LEMMA Continues ==
    ASSUME ShopInv, NEW w \in Workers, NEW label \in ShopLabels, NEW locals,
           \/ GotoWith(w, label, locals)
           \/ Goto(w, label) /\ ctx[w] = locals,
           UNCHANGED calc
    PROVE  OnlyMoves(w) /\ pc'[w] = label /\ ctx'[w] = locals
BY DEF Goto, GotoWith, ShopInv, FramesOK, OnlyMoves

LEMMA PartAside ==
    ASSUME ShopInv, NEW w \in Workers, ConsumeCheck(w) \/ CreateItem(w) \/ PostItem(w)
    PROVE  Aside(w)
<1>1. CASE ConsumeCheck(w)
  <2>1. pc[w] = "part.check" /\ UNCHANGED <<shelfVars, item, calc>>
    BY <1>1 DEF ConsumeCheck, At, workVars
  <2>2. CASE Return(w)
    BY <2>1, <2>2, EndsAside
  <2>3. CASE Goto(w, "part.take")
    <3>1. OnlyMoves(w) /\ pc'[w] = "part.take" /\ ctx'[w] = ctx[w]
      BY <2>1, <2>3, Continues DEF ShopLabels
    <3>2. WorkOK(w) /\ WorkOK(w)'
      BY <2>1, <3>1 DEF ShopInv, WorkOK, Place, DreLabels, Known, shelfVars
    <3> QED
      BY <2>1, <3>1, <3>2, SameTables DEF Aside
  <2> QED
    BY <1>1, <2>2, <2>3 DEF ConsumeCheck
<1>2. CASE CreateItem(w)
  <2>7. PICK row : row = [maintenance |-> ctx[w].maintenance, part |-> ctx[w].part,
                          quantity |-> ctx[w].quantity, reversed |-> FALSE]
    OBVIOUS
  <2>1. PICK i \in Items :
        /\ pc[w] = "part.item" /\ item[i] = NULL
        /\ item' = [item EXCEPT ![i] = row]
        /\ GotoWith(w, "part.post", [maintenance |-> ctx[w].maintenance, item |-> i])
        /\ UNCHANGED <<shelfVars, calc>>
    BY <1>2, <2>7 DEF CreateItem, At
  <2>2. ctx[w] \in AddLocals /\ Known(ctx[w].part)
    BY <2>1 DEF ShopInv, WorkOK
  <2>3. row \in ItemRows /\ row.part = ctx[w].part
    BY <2>2, <2>7 DEF AddLocals, ItemRows
  <2>4. TablesOK' /\ \A j \in Items : item[j] \in ItemRows => item'[j] \in ItemRows
    <3>1. quantity' = quantity /\ log' = log
      BY <2>1 DEF shelfVars
    <3>2. Known(row.part)
      BY <2>2, <2>3
    <3>3. item' \in [Items -> ItemRows \cup {NULL}]
      BY <2>1, <2>3 DEF ShopInv, TablesOK
    <3>4. \A j \in Items : item'[j] = IF j = i THEN row ELSE item[j]
      BY <2>1 DEF ShopInv, TablesOK
    <3>5. \A j \in Items : item'[j] \in ItemRows => Known(item'[j].part)
      BY <3>2, <3>4 DEF ShopInv, TablesOK
    <3> QED
      BY <2>3, <3>1, <3>3, <3>4, <3>5 DEF ShopInv, TablesOK, Known
  <2>5. OnlyMoves(w) /\ pc'[w] = "part.post"
    BY <2>1, Continues DEF ShopLabels
  <2>6. WorkOK(w)'
    BY <2>5 DEF WorkOK, Place, DreLabels
  <2> QED
    BY <2>1, <2>4, <2>5, <2>6 DEF Aside
<1>3. CASE PostItem(w)
  <2>1. PICK v : pc[w] = "part.post" /\ Recalculate(w, v, "costs.items")
                 /\ UNCHANGED <<shelfVars, item, ctx>>
    BY <1>3 DEF PostItem, Post, At, workVars
  <2> QED
    BY <2>1, RecalculatesAside DEF NextLabels
<1> QED
  BY <1>1, <1>2, <1>3

LEMMA CostsAside ==
    ASSUME ShopInv, NEW w \in Workers,
           RecomputeReadItems(w) \/ RecomputeReadLabor(w) \/ RecomputeWrite(w)
    PROVE  Aside(w)
<1>1. CASE RecomputeReadItems(w) \/ RecomputeReadLabor(w)
  <2>1. PICK label, locals :
        /\ label \in {"costs.labor", "costs.write"}
        /\ pc[w] # "part.log" /\ GotoWith(w, label, locals)
        /\ UNCHANGED <<shelfVars, item, calc>>
    BY <1>1 DEF RecomputeReadItems, RecomputeReadLabor, At, workVars
  <2>2. OnlyMoves(w) /\ pc'[w] = label
    BY <2>1, Continues DEF ShopLabels
  <2>3. WorkOK(w)'
    BY <2>1, <2>2 DEF WorkOK, Place, DreLabels
  <2> QED
    BY <2>1, <2>2, <2>3, SameTables DEF Aside
<1>2. CASE RecomputeWrite(w)
  <2>1. /\ pc[w] # "part.log" /\ Return(w) /\ UNCHANGED <<shelfVars, item>>
        /\ calc' = [calc EXCEPT ![w] = NULL]
    BY <1>2 DEF RecomputeWrite, At
  <2> QED
    BY <2>1, EndsAside
<1> QED
  BY <1>1, <1>2

\* An item that is marked as reversed keeps the rest of its row.
LEMMA Marked ==
    ASSUME ShopInv, NEW i, Recorded(i), item' = [item EXCEPT ![i].reversed = TRUE],
           UNCHANGED shelfVars
    PROVE  TablesOK' /\ \A j \in Items : item[j] \in ItemRows => item'[j] \in ItemRows
<1>1. PICK row : row = [item[i] EXCEPT !.reversed = TRUE]
  OBVIOUS
<1>2. row \in ItemRows /\ row.part = item[i].part
  BY <1>1 DEF Recorded, ItemRows
<1>3. quantity' = quantity /\ log' = log
  BY DEF shelfVars
<1>4. item' \in [Items -> ItemRows \cup {NULL}]
  BY <1>1, <1>2 DEF Recorded, ShopInv, TablesOK
<1>5. \A j \in Items : item'[j] = IF j = i THEN row ELSE item[j]
  BY <1>1 DEF Recorded, ShopInv, TablesOK
<1>6. \A j \in Items : item'[j] \in ItemRows => Known(item'[j].part)
  BY <1>2, <1>5 DEF Recorded, ShopInv, TablesOK
<1> QED
  BY <1>2, <1>3, <1>4, <1>5, <1>6 DEF ShopInv, TablesOK, Known

LEMMA RemoveAside ==
    ASSUME ShopInv, NEW w \in Workers, RemoveWithdraw(w) \/ RemoveMark(w)
    PROVE  Aside(w)
<1>1. CASE RemoveWithdraw(w)
  <2>1. PICK v : pc[w] = "remove.withdraw" /\ Recalculate(w, v, "remove.mark")
                 /\ UNCHANGED <<shelfVars, item, ctx>>
    BY <1>1 DEF RemoveWithdraw, Withdraw, At, workVars
  <2>2. Place(w) = "remove.withdraw"
    BY <2>1 DEF Place, DreLabels
  <2> QED
    BY <2>1, <2>2, RecalculatesAside DEF NextLabels
<1>2. CASE RemoveMark(w)
  <2>1. /\ pc[w] = "remove.mark" /\ Goto(w, "costs.items")
        /\ item' = [item EXCEPT ![ctx[w].item].reversed = TRUE]
        /\ UNCHANGED shelfVars /\ UNCHANGED calc
    BY <1>2 DEF RemoveMark, At
  <2>2. Recorded(ctx[w].item)
    BY <2>1 DEF ShopInv, WorkOK, Place, DreLabels
  <2>3. OnlyMoves(w) /\ pc'[w] = "costs.items"
    BY <2>1, Continues DEF ShopLabels
  <2>4. WorkOK(w)'
    BY <2>3 DEF WorkOK, Place, DreLabels
  <2> QED
    BY <2>1, <2>2, <2>3, <2>4, Marked DEF Aside
<1> QED
  BY <1>1, <1>2

LEMMA CompleteAside ==
    ASSUME ShopInv, NEW w \in Workers, CompleteWrite(w) \/ CompletePost(w)
    PROVE  Aside(w)
<1>1. CASE CompleteWrite(w)
  <2>1. PICK label \in {"complete.post", "costs.items"} :
        /\ pc[w] # "part.log" /\ Goto(w, label)
        /\ UNCHANGED <<shelfVars, item, calc>>
    BY <1>1 DEF CompleteWrite, At
  <2>2. OnlyMoves(w) /\ pc'[w] = label
    BY <2>1, Continues DEF ShopLabels
  <2>3. WorkOK(w)'
    BY <2>2 DEF WorkOK, Place, DreLabels
  <2> QED
    BY <2>1, <2>2, <2>3, SameTables DEF Aside
<1>2. CASE CompletePost(w)
  <2>1. PICK v : pc[w] = "complete.post" /\ Recalculate(w, v, "costs.items")
                 /\ UNCHANGED <<shelfVars, item, ctx>>
    BY <1>2 DEF CompletePost, Post, At, workVars
  <2> QED
    BY <2>1, RecalculatesAside DEF NextLabels
<1> QED
  BY <1>1, <1>2

LEMMA CancelAside ==
    ASSUME ShopInv, NEW w \in Workers, CancelWithdraw(w) \/ CancelMark(w) \/ CancelWrite(w)
    PROVE  Aside(w)
<1>1. CASE CancelWithdraw(w)
  <2>1. PICK v : pc[w] = "cancel.withdraw" /\ Recalculate(w, v, "cancel.mark")
                 /\ UNCHANGED <<shelfVars, item, ctx>>
    BY <1>1 DEF CancelWithdraw, Withdraw, At, workVars
  <2>2. Place(w) = "cancel.withdraw"
    BY <2>1 DEF Place, DreLabels
  <2> QED
    BY <2>1, <2>2, RecalculatesAside DEF NextLabels
<1>2. CASE CancelMark(w)
  <2>1. PICK locals :
        /\ pc[w] = "cancel.mark" /\ GotoWith(w, "cancel.next", locals)
        /\ locals = [ctx[w] EXCEPT !.todo = @ \ {FirstOf(@)}]
        /\ item' = [item EXCEPT ![FirstOf(ctx[w].todo)].reversed = TRUE]
        /\ UNCHANGED shelfVars /\ UNCHANGED calc
    BY <1>2 DEF CancelMark, At
  <2>2. ctx[w] \in CancelLocals /\ ctx[w].todo # {} /\ \A i \in ctx[w].todo : Recorded(i)
    BY <2>1 DEF ShopInv, WorkOK, Place, DreLabels
  <2>3. FirstOf(ctx[w].todo) \in ctx[w].todo
    BY <2>2, FirstOfMany DEF CancelLocals
  <2>4. TablesOK' /\ \A j \in Items : item[j] \in ItemRows => item'[j] \in ItemRows
    BY <2>1, <2>2, <2>3, Marked
  <2>5. OnlyMoves(w) /\ pc'[w] = "cancel.next" /\ ctx'[w] = locals
    BY <2>1, Continues DEF ShopLabels
  <2>6. locals \in CancelLocals /\ locals.todo \subseteq ctx[w].todo
    BY <2>1, <2>2 DEF CancelLocals
  <2>7. WorkOK(w)'
    BY <2>2, <2>4, <2>5, <2>6 DEF WorkOK, Place, DreLabels, Recorded
  <2> QED
    BY <2>1, <2>4, <2>5, <2>7 DEF Aside
<1>3. CASE CancelWrite(w)
  <2>1. /\ pc[w] # "part.log" /\ Return(w) /\ UNCHANGED <<shelfVars, item>>
        /\ calc' = [calc EXCEPT ![w] = NULL]
    BY <1>3 DEF CancelWrite, At
  <2> QED
    BY <2>1, EndsAside
<1> QED
  BY <1>1, <1>2, <1>3

-----------------------------------------------------------------------------
(* Steps of the stock                                                      *)

LEMMA Registered ==
    ASSUME ShopInv, NEW w \in Workers, NEW p \in Parts, NEW n \in Positive, CreatePart(w, p, n)
    PROVE  ShopInv' /\ (AllExplained => AllExplained')
<1> DEFINE locals == [part |-> p, quantity |-> n]
<1>0. n \in Int
  BY DEF Positive
<1>1. /\ ~Known(p) /\ quantity' = [quantity EXCEPT ![p] = n] /\ log' = log
      /\ Begin(w, "part.log", locals) /\ UNCHANGED item /\ UNCHANGED calc
  BY DEF CreatePart, workVars
<1>2. locals \in RegisterLocals /\ locals.part = p /\ locals.quantity = n
  BY DEF RegisterLocals
<1> HIDE DEF locals
<1>3. OnlyMoves(w) /\ pc[w] = "idle" /\ pc'[w] = "part.log" /\ ctx'[w] = locals
  BY <1>1, Starts DEF ShopLabels
<1>4. \A q \in Parts : quantity'[q] = IF q = p THEN n ELSE quantity[q]
  BY <1>1 DEF ShopInv, TablesOK
<1>5. \A q \in Parts : Known(q) => Known(q)'
  BY <1>0, <1>4, AbsenceAssumption DEF Known
<1>6. Known(p)'
  BY <1>0, <1>4, AbsenceAssumption DEF Known
<1>7. TablesOK'
  <2>1. quantity' \in [Parts -> Int \cup {NULL}]
    BY <1>0, <1>1 DEF ShopInv, TablesOK
  <2>2. ASSUME NEW i \in Items, item'[i] \in ItemRows PROVE quantity'[item'[i].part] # NULL
    <3>1. Known(item[i].part) /\ item[i].part \in Parts
      BY <1>1, <2>2 DEF ShopInv, TablesOK, ItemRows
    <3> QED
      BY <1>1, <1>5, <3>1 DEF Known
  <2> QED
    BY <1>1, <2>1, <2>2 DEF ShopInv, TablesOK, Known
<1>8. WorkOK(w)'
  BY <1>2, <1>3, <1>6 DEF WorkOK, Place, DreLabels
<1>9. \A x \in Workers : WorkOK(x)'
  BY <1>1, <1>3, <1>5, <1>8, WorkKept DEF RowsKept
<1>10. \A x \in Workers : Registers(x, p) => FALSE
  BY <1>1 DEF ShopInv, WorkOK, Registers
<1>11. ASSUME NEW q \in Parts, AllExplained PROVE Explained(q)'
  <2>1. \A x \in Workers \ {w} : Registers(x, q)' = Registers(x, q) /\ ctx'[x] = ctx[x]
    BY <1>3 DEF OnlyMoves, Registers
  <2>2. Registers(w, q)' = (q = p) /\ ~Registers(w, q)
    BY <1>2, <1>3 DEF Registers
  <2>3. Explained(q) /\ log'[q] = log[q]
    BY <1>1, <1>11 DEF AllExplained
  <2>4. CASE q = p
    <3>1. log[p] = [net |-> 0, applied |-> 0, reversed |-> 0]
      BY <1>1, <2>3, <2>4 DEF Explained
    <3>2. Unexplained(p)' = n
      BY <1>0, <1>1, <1>4, <3>1 DEF Unexplained
    <3>3. \A x \in Workers : Registers(x, p)' => x = w
      BY <1>10, <2>1, <2>4
    <3> QED
      BY <1>2, <1>3, <1>6, <2>2, <2>4, <3>2, <3>3 DEF Explained
  <2>5. CASE q # p
    <3>1. Unexplained(q)' = Unexplained(q) /\ Known(q)' = Known(q)
      BY <1>4, <2>3, <2>5 DEF Unexplained, Known
    <3> QED
      BY <2>1, <2>2, <2>3, <2>5, <3>1 DEF Explained
  <2> QED
    BY <2>4, <2>5
<1> QED
  BY <1>3, <1>7, <1>9, <1>11 DEF ShopInv, AllExplained, OnlyMoves

LEMMA FirstLogged ==
    ASSUME ShopInv, NEW w \in Workers, LogFirstStock(w)
    PROVE  ShopInv' /\ (AllExplained => AllExplained')
<1>1. PICK p, n : p = ctx[w].part /\ n = ctx[w].quantity
  OBVIOUS
<1>2. /\ pc[w] = "part.log" /\ Return(w)
      /\ log' = [log EXCEPT ![p].net = @ + n]
      /\ quantity' = quantity /\ UNCHANGED item /\ UNCHANGED calc
  BY <1>1 DEF LogFirstStock, At, workVars
<1>3. p \in Parts /\ n \in Int /\ Known(p) /\ Registers(w, p)
  BY <1>1, <1>2 DEF ShopInv, WorkOK, RegisterLocals, Positive, Registers
<1>4. OnlyMoves(w) /\ pc'[w] = "idle"
  BY <1>2, Went DEF Return
<1>5. /\ \A q \in Parts \ {p} : log'[q] = log[q]
      /\ log'[p] = [log[p] EXCEPT !.net = @ + n]
      /\ log[p] \in LogRows
  BY <1>2, <1>3 DEF ShopInv, TablesOK
<1>6. log'[p] = [net |-> log[p].net + n, applied |-> log[p].applied, reversed |-> log[p].reversed]
  BY <1>5 DEF LogRows
<1>7. TablesOK'
  <2>1. log' \in [Parts -> LogRows]
    BY <1>2, <1>3, <1>5, <1>6 DEF LogRows, ShopInv, TablesOK
  <2> QED
    BY <1>2, <2>1 DEF ShopInv, TablesOK, Known
<1>8. \A x \in Workers : WorkOK(x)'
  <2>1. WorkOK(w)'
    BY <1>4 DEF WorkOK, Place, DreLabels
  <2> QED
    BY <1>2, <1>4, <2>1, WorkKept DEF RowsKept, Known
<1>9. ASSUME NEW q \in Parts, AllExplained PROVE Explained(q)'
  <2>1. \A x \in Workers \ {w} : Registers(x, q)' = Registers(x, q) /\ ctx'[x] = ctx[x]
    BY <1>4 DEF OnlyMoves, Registers
  <2>2. ~Registers(w, q)' /\ (Registers(w, q) => q = p)
    BY <1>1, <1>4 DEF Registers
  <2>3. Explained(q) /\ Known(q)' = Known(q)
    BY <1>2, <1>9 DEF AllExplained, Known
  <2>4. CASE q = p
    <3>1. Unexplained(p) = n /\ \A x \in Workers \ {w} : ~Registers(x, p)
      BY <1>1, <1>3, <2>3, <2>4 DEF Explained
    <3>2. quantity[p] \in Int
      BY <1>3 DEF ShopInv, TablesOK, Known
    <3>3. Unexplained(p)' = 0
      BY <1>2, <1>3, <1>5, <1>6, <3>1, <3>2 DEF Unexplained, LogRows
    <3> QED
      BY <1>3, <2>1, <2>2, <2>3, <2>4, <3>1, <3>3 DEF Explained
  <2>5. CASE q # p
    <3>1. Unexplained(q)' = Unexplained(q) /\ log'[q] = log[q]
      BY <1>2, <1>5, <2>5 DEF Unexplained
    <3> QED
      BY <2>1, <2>2, <2>3, <2>5, <3>1 DEF Explained
  <2> QED
    BY <2>4, <2>5
<1> QED
  BY <1>4, <1>7, <1>8, <1>9 DEF ShopInv, AllExplained, OnlyMoves

\* A transaction that changes the quantity of a part by d and logs as much
LEMMA Balanced ==
    ASSUME ShopInv, NEW w \in Workers, NEW p \in Parts, NEW d \in Int, NEW row \in LogRows,
           Known(p),
           quantity' = [quantity EXCEPT ![p] = @ + d], log' = [log EXCEPT ![p] = row],
           row.net = log[p].net,
           row.applied - row.reversed = log[p].applied - log[p].reversed - d,
           UNCHANGED item, OnlyMoves(w), pc[w] # "part.log", pc'[w] # "part.log", WorkOK(w)'
    PROVE  ShopInv' /\ (AllExplained => AllExplained')
<1>1. quantity[p] \in Int /\ log[p] \in LogRows
  BY DEF ShopInv, TablesOK, Known
<1>2. \A q \in Parts : /\ quantity'[q] = IF q = p THEN quantity[q] + d ELSE quantity[q]
                       /\ log'[q] = IF q = p THEN row ELSE log[q]
  BY DEF ShopInv, TablesOK
<1>3. \A q \in Parts : Known(q)' = Known(q)
  BY <1>1, <1>2, AbsenceAssumption DEF Known
<1>4. TablesOK'
  <2>1. quantity' \in [Parts -> Int \cup {NULL}] /\ log' \in [Parts -> LogRows]
    BY <1>1 DEF ShopInv, TablesOK
  <2>2. ASSUME NEW i \in Items, item'[i] \in ItemRows PROVE quantity'[item'[i].part] # NULL
    <3>1. Known(item[i].part) /\ item[i].part \in Parts
      BY <2>2 DEF ShopInv, TablesOK, ItemRows
    <3> QED
      BY <1>3, <3>1 DEF Known
  <2> QED
    BY <2>1, <2>2 DEF ShopInv, TablesOK, Known
<1>5. \A x \in Workers : WorkOK(x)'
  BY <1>3, WorkKept DEF RowsKept
<1>6. ASSUME NEW q \in Parts, AllExplained PROVE Explained(q)'
  <2>1. \A x \in Workers : Registers(x, q)' = Registers(x, q)
                           /\ (Registers(x, q) => ctx'[x] = ctx[x])
    BY DEF OnlyMoves, Registers
  <2>2. Explained(q)
    BY <1>6 DEF AllExplained
  <2>3. Unexplained(q)' = Unexplained(q)
    BY <1>1, <1>2 DEF Unexplained, LogRows
  <2>4. ~Known(q)' => log'[q] = log[q]
    BY <1>2, <1>3
  <2> QED
    BY <1>3, <2>1, <2>2, <2>3, <2>4 DEF Explained
<1> QED
  BY <1>4, <1>5, <1>6 DEF ShopInv, AllExplained, OnlyMoves

LEMMA Consumed ==
    ASSUME ShopInv, NEW w \in Workers, Consume(w)
    PROVE  ShopInv' /\ (AllExplained => AllExplained')
<1>1. PICK p, n : p = ctx[w].part /\ n = ctx[w].quantity
  OBVIOUS
<1>2. /\ pc[w] = "part.take" /\ Goto(w, "part.item")
      /\ quantity' = [quantity EXCEPT ![p] = @ - n]
      /\ log' = [log EXCEPT ![p].applied = @ + n]
      /\ UNCHANGED item /\ UNCHANGED calc
  BY <1>1 DEF Consume, At, workVars
<1>3. p \in Parts /\ n \in Int /\ Known(p) /\ WorkOK(w)
  BY <1>1, <1>2 DEF ShopInv, WorkOK, AddLocals, Positive
<1>4. quantity[p] \in Int /\ log[p] \in LogRows
  BY <1>3 DEF ShopInv, TablesOK, Known
<1>5. PICK d, row :
      /\ d = -n
      /\ row = [net |-> log[p].net, applied |-> log[p].applied + n, reversed |-> log[p].reversed]
  OBVIOUS
<1>10. d \in Int /\ row \in LogRows
  BY <1>3, <1>4, <1>5 DEF LogRows
<1>6. quantity' = [quantity EXCEPT ![p] = @ + d] /\ log' = [log EXCEPT ![p] = row]
  <2>1. quantity[p] - n = quantity[p] + d
    BY <1>3, <1>4, <1>5
  <2>2. [log[p] EXCEPT !.applied = @ + n] = row
    BY <1>4, <1>5 DEF LogRows
  <2> QED
    BY <1>2, <2>1, <2>2
<1>7. OnlyMoves(w) /\ pc'[w] = "part.item" /\ ctx'[w] = ctx[w]
  BY <1>2, Continues DEF ShopLabels
<1>8. WorkOK(w)'
  <2>1. Known(p)'
    BY <1>3, <1>4, <1>5, <1>6, AbsenceAssumption DEF Known, ShopInv, TablesOK
  <2> QED
    BY <1>1, <1>2, <1>3, <1>7, <2>1 DEF WorkOK, Place, DreLabels, Known
<1>9. row.net = log[p].net /\ row.applied - row.reversed = log[p].applied - log[p].reversed - d
  BY <1>3, <1>4, <1>5 DEF LogRows
<1> QED
  BY <1>2, <1>3, <1>6, <1>7, <1>8, <1>9, <1>10, Balanced

LEMMA GivenBack ==
    ASSUME ShopInv, NEW w \in Workers, NEW i, Recorded(i), NEW next \in ShopLabels,
           GiveBack(w, i, next), pc[w] # "part.log", next # "part.log",
           OnlyMoves(w), pc'[w] = next, WorkOK(w)'
    PROVE  ShopInv' /\ (AllExplained => AllExplained')
<1>1. PICK p, n : p = item[i].part /\ n = item[i].quantity
  OBVIOUS
<1>2. /\ quantity' = [quantity EXCEPT ![p] = @ + n]
      /\ log' = [log EXCEPT ![p].reversed = @ + n]
      /\ UNCHANGED item
  BY <1>1 DEF GiveBack, workVars
<1>3. p \in Parts /\ n \in Int /\ Known(p)
  BY <1>1 DEF Recorded, ItemRows, Positive, ShopInv, TablesOK
<1>4. log[p] \in LogRows
  BY <1>3 DEF ShopInv, TablesOK
<1>5. PICK row :
      row = [net |-> log[p].net, applied |-> log[p].applied, reversed |-> log[p].reversed + n]
  OBVIOUS
<1>8. row \in LogRows
  BY <1>3, <1>4, <1>5 DEF LogRows
<1>6. log' = [log EXCEPT ![p] = row]
  <2>1. [log[p] EXCEPT !.reversed = @ + n] = row
    BY <1>4, <1>5 DEF LogRows
  <2> QED
    BY <1>2, <2>1
<1>7. row.net = log[p].net /\ row.applied - row.reversed = log[p].applied - log[p].reversed - n
  BY <1>3, <1>4, <1>5 DEF LogRows
<1> QED
  BY <1>2, <1>3, <1>6, <1>7, <1>8, Balanced

LEMMA ReturnedWhole ==
    ASSUME ShopInv, NEW w \in Workers, RemoveReturn(w) \/ CancelReturn(w)
    PROVE  ShopInv' /\ (AllExplained => AllExplained')
<1>1. CASE RemoveReturn(w)
  <2>1. /\ pc[w] = "remove.return" /\ GiveBack(w, ctx[w].item, "remove.withdraw")
        /\ Goto(w, "remove.withdraw") /\ UNCHANGED <<item, calc>>
    BY <1>1 DEF RemoveReturn, GiveBack, At, workVars
  <2>2. Recorded(ctx[w].item)
    BY <2>1 DEF ShopInv, WorkOK, Place, DreLabels
  <2>3. OnlyMoves(w) /\ pc'[w] = "remove.withdraw" /\ ctx'[w] = ctx[w]
    BY <2>1, Continues DEF ShopLabels
  <2>4. WorkOK(w)'
    BY <2>1, <2>2, <2>3 DEF WorkOK, Place, DreLabels, Recorded
  <2> QED
    BY <2>1, <2>2, <2>3, <2>4, GivenBack DEF ShopLabels
<1>2. CASE CancelReturn(w)
  <2>1. /\ pc[w] = "cancel.next" /\ GiveBack(w, FirstOf(ctx[w].todo), "cancel.withdraw")
        /\ ctx[w].todo # {}
        /\ Goto(w, "cancel.withdraw") /\ UNCHANGED <<item, calc>>
    BY <1>2 DEF CancelReturn, GiveBack, At, workVars
  <2>2. ctx[w] \in CancelLocals /\ \A i \in ctx[w].todo : Recorded(i)
    BY <2>1 DEF ShopInv, WorkOK, Place, DreLabels
  <2>3. Recorded(FirstOf(ctx[w].todo))
    BY <2>1, <2>2, FirstOfMany DEF CancelLocals
  <2>4. OnlyMoves(w) /\ pc'[w] = "cancel.withdraw" /\ ctx'[w] = ctx[w]
    BY <2>1, Continues DEF ShopLabels
  <2>5. WorkOK(w)'
    BY <2>1, <2>2, <2>4 DEF WorkOK, Place, DreLabels, Recorded
  <2> QED
    BY <2>1, <2>3, <2>4, <2>5, GivenBack DEF ShopLabels
<1> QED
  BY <1>1, <1>2

-----------------------------------------------------------------------------
(* Moves of the stock room                                                 *)

LEMMA MoveRequested ==
    ASSUME ShopInv, NEW w \in Workers, NEW p \in Parts, NEW type \in {"ENTRY", "EXIT", "ADJUSTMENT"},
           NEW n \in Int, RequestMove(w, p, type, n)
    PROVE  Aside(w)
<1> DEFINE locals == [part |-> p, stock |-> quantity[p] + Delta(type, n), delta |-> Delta(type, n)]
<1>1. /\ Known(p) /\ quantity[p] + Delta(type, n) \in 0 .. MaxStock
      /\ Begin(w, "move.write", locals) /\ UNCHANGED <<shelfVars, item, calc>>
  BY DEF RequestMove, workVars
<1>2. Delta(type, n) \in Int
  BY DEF Delta, Increase, Decrease
<1>3. locals \in MoveLocals /\ locals.part = p
  BY <1>1, <1>2, WorkshopAssumption DEF MoveLocals
<1>4. Known(p)'
  BY <1>1 DEF Known, shelfVars
<1> HIDE DEF locals
<1>5. OnlyMoves(w) /\ pc[w] = "idle" /\ pc'[w] = "move.write" /\ ctx'[w] = locals
  BY <1>1, Starts DEF ShopLabels
<1>6. WorkOK(w)'
  BY <1>3, <1>4, <1>5 DEF WorkOK, Place, DreLabels, Known
<1> QED
  BY <1>1, <1>5, <1>6, SameTables DEF Aside

\* A quantity that is written over
LEMMA Written ==
    ASSUME ShopInv, NEW w \in Workers, NEW p \in Parts, Known(p), NEW n \in Nat, NEW row \in LogRows,
           quantity' = [quantity EXCEPT ![p] = n], log' = [log EXCEPT ![p] = row],
           UNCHANGED item, OnlyMoves(w), WorkOK(w)'
    PROVE  ShopInv'
<1>1. \A q \in Parts : quantity'[q] = IF q = p THEN n ELSE quantity[q]
  BY DEF ShopInv, TablesOK
<1>2. \A q \in Parts : Known(q)' = Known(q)
  BY <1>1, AbsenceAssumption DEF Known
<1>3. TablesOK'
  <2>1. quantity' \in [Parts -> Int \cup {NULL}] /\ log' \in [Parts -> LogRows]
    BY DEF ShopInv, TablesOK
  <2>2. ASSUME NEW i \in Items, item'[i] \in ItemRows PROVE quantity'[item'[i].part] # NULL
    <3>1. Known(item[i].part) /\ item[i].part \in Parts
      BY <2>2 DEF ShopInv, TablesOK, ItemRows
    <3> QED
      BY <1>2, <3>1 DEF Known
  <2> QED
    BY <2>1, <2>2 DEF ShopInv, TablesOK, Known
<1>4. \A x \in Workers : WorkOK(x)'
  BY <1>2, WorkKept DEF RowsKept
<1> QED
  BY <1>3, <1>4 DEF ShopInv, OnlyMoves

LEMMA Moved ==
    ASSUME ShopInv, NEW w \in Workers, Move(w)
    PROVE  ShopInv'
<1>1. PICK p, n, d : p = ctx[w].part /\ n = ctx[w].stock /\ d = ctx[w].delta
  OBVIOUS
<1>2. /\ pc[w] = "move.write" /\ Return(w)
      /\ quantity' = [quantity EXCEPT ![p] = n]
      /\ log' = [log EXCEPT ![p].net = @ + d]
      /\ UNCHANGED item /\ UNCHANGED calc
  BY <1>1 DEF Move, At, workVars
<1>3. p \in Parts /\ n \in Nat /\ d \in Int /\ Known(p)
  BY <1>1, <1>2 DEF ShopInv, WorkOK, MoveLocals
<1>4. log[p] \in LogRows
  BY <1>3 DEF ShopInv, TablesOK
<1>5. PICK row :
      row = [net |-> log[p].net + d, applied |-> log[p].applied, reversed |-> log[p].reversed]
  OBVIOUS
<1>6. row \in LogRows
  BY <1>3, <1>4, <1>5 DEF LogRows
<1>7. log' = [log EXCEPT ![p] = row]
  <2>1. [log[p] EXCEPT !.net = @ + d] = row
    BY <1>4, <1>5 DEF LogRows
  <2> QED
    BY <1>2, <2>1
<1>8. OnlyMoves(w) /\ pc'[w] = "idle"
  BY <1>2, Went DEF Return
<1>9. WorkOK(w)'
  BY <1>8 DEF WorkOK, Place, DreLabels
<1> QED
  BY <1>2, <1>3, <1>6, <1>7, <1>8, <1>9, Written

LEMMA Edited ==
    ASSUME ShopInv, NEW w \in Workers, NEW p \in Parts, NEW n \in Nat, EditQuantity(w, p, n)
    PROVE  ShopInv'
<1>1. /\ pc[w] = "idle" /\ Known(p) /\ quantity' = [quantity EXCEPT ![p] = n]
      /\ log' = log /\ UNCHANGED <<item, pc, ctx, calc>>
  BY DEF EditQuantity, workVars, ledgerVars, handlerVars
<1>2. PICK row : row = log[p]
  OBVIOUS
<1>3. row \in LogRows /\ log' = [log EXCEPT ![p] = row]
  BY <1>1, <1>2 DEF ShopInv, TablesOK
<1>4. OnlyMoves(w)
  BY <1>1 DEF OnlyMoves, ShopInv, FramesOK
<1>5. WorkOK(w)'
  BY <1>1 DEF WorkOK, Place, DreLabels
<1> QED
  BY <1>1, <1>3, <1>4, <1>5, Written

-----------------------------------------------------------------------------
(* Every step of the workshop                                              *)

\* The other handlers of the ledger are not at work then.
LEMMA OtherLabels ==
    ASSUME ShopInv, NEW w \in Workers
    PROVE  ~(EntryStep(w) \/ AcquisitionStep(w) \/ CommissionStep(w))
<1>1. pc[w] \in {"idle"} \cup ShopLabels
  BY DEF ShopInv, FramesOK
<1> QED
  BY <1>1 DEF ShopLabels, DreLabels, EntryStep, DeleteEntry, DeleteEntryGone,
     AcquisitionStep, AcquisitionPrice, AcquisitionPost, AcquisitionPostExtra,
     CommissionStep, FindCommission, ResolveRule, CreateCommission, At

LEMMA PartRegistered ==
    ASSUME ShopInv, NEW w \in Workers, NEW quantities \in SUBSET Quantities,
           RegisterPart(w, quantities)
    PROVE  ShopInv' /\ (AllExplained => AllExplained')
<1>1. PICK p \in Parts, n \in quantities : CreatePart(w, p, n)
  BY DEF RegisterPart
<1>2. n \in Positive
  BY WorkshopAssumption DEF Positive
<1> QED
  BY <1>1, <1>2, Registered

LEMMA MaintenanceRequested ==
    ASSUME ShopInv, NEW w \in Workers, NEW quantities \in SUBSET Quantities,
           NEW laborCosts \in SUBSET LaborCosts, MaintenanceRequest(w, quantities, laborCosts)
    PROVE  Aside(w)
<1>1. laborCosts \subseteq Nat
  BY WorkshopAssumption
<1>2. \/ \E m \in Maintenances, labor \in Nat : CreateMaintenance(w, m, labor)
      \/ \E m \in Maintenances, p \in Parts, n \in Quantities : RequestAddPart(w, m, p, n)
      \/ \E i \in Items : RequestRemovePart(w, i)
      \/ \E m \in Maintenances, labor \in LaborCosts \cup {NULL} : RequestComplete(w, m, labor)
      \/ \E m \in Maintenances : RequestCancel(w, m)
  BY <1>1 DEF MaintenanceRequest
<1> QED
  BY <1>2, RequestAside

LEMMA PartsRequested ==
    ASSUME ShopInv, NEW w \in Workers, PartsRequest(w)
    PROVE  ShopInv'
<1>1. PICK p \in Parts, n \in Quantities :
        \/ \E type \in {"ENTRY", "EXIT"} : RequestMove(w, p, type, n)
        \/ RequestMove(w, p, "ADJUSTMENT", -n)
        \/ EditQuantity(w, p, n)
  BY DEF PartsRequest
<1>2. n \in Nat /\ -n \in Int
  BY WorkshopAssumption
<1>3. CASE EditQuantity(w, p, n)
  BY <1>2, <1>3, Edited
<1>4. CASE \E type \in {"ENTRY", "EXIT"} : RequestMove(w, p, type, n)
  <2>1. PICK type \in {"ENTRY", "EXIT"} : RequestMove(w, p, type, n)
    BY <1>4
  <2> QED
    BY <1>2, <2>1, MoveRequested, AsideKept
<1>5. CASE RequestMove(w, p, "ADJUSTMENT", -n)
  BY <1>2, <1>5, MoveRequested, AsideKept
<1> QED
  BY <1>1, <1>3, <1>4, <1>5

LEMMA ShopRequest ==
    ASSUME ShopInv, NEW w \in Workers, Request(w), schedule # "ledger"
    PROVE  ShopInv' /\ (AllExplained /\ schedule = "overlap" => AllExplained')
<1>1. /\ OverlapQuantities \in SUBSET Quantities /\ OverlapLaborCosts \in SUBSET LaborCosts
      /\ Quantities \in SUBSET Quantities /\ LaborCosts \in SUBSET LaborCosts
  BY BooksAssumption
<1>2. CASE RegisterPart(w, Quantities) \/ RegisterPart(w, OverlapQuantities)
  BY <1>1, <1>2, PartRegistered
<1>3. CASE \/ MaintenanceRequest(w, Quantities, LaborCosts)
           \/ MaintenanceRequest(w, OverlapQuantities, OverlapLaborCosts)
  BY <1>1, <1>3, MaintenanceRequested, AsideKept
<1>4. CASE schedule = "workshop" /\ PartsRequest(w)
  BY <1>4, PartsRequested
<1> QED
  BY <1>2, <1>3, <1>4 DEF Request

LEMMA ShopStep ==
    ASSUME ShopInv, NEW w \in Workers, WorkshopStep(w)
    PROVE  ShopInv' /\ (AllExplained /\ NoMoves => AllExplained')
<1>1. CASE PartsStep(w)
  <2>1. CASE Move(w)
    BY <2>1, Moved DEF Move, NoMoves, At
  <2>2. CASE LogFirstStock(w) \/ Consume(w)
    BY <2>2, FirstLogged, Consumed
  <2>3. CASE ConsumeCheck(w)
    BY <2>3, PartAside, AsideKept
  <2> QED
    BY <1>1, <2>1, <2>2, <2>3 DEF PartsStep
<1>2. CASE MaintenanceStep(w)
  <2>1. CASE RemoveReturn(w) \/ CancelReturn(w)
    BY <2>1, ReturnedWhole
  <2>2. CASE RecomputeReadItems(w) \/ RecomputeReadLabor(w) \/ RecomputeWrite(w)
    BY <2>2, CostsAside, AsideKept
  <2>3. CASE CreateItem(w) \/ PostItem(w)
    BY <2>3, PartAside, AsideKept
  <2>4. CASE RemoveWithdraw(w) \/ RemoveMark(w)
    BY <2>4, RemoveAside, AsideKept
  <2>5. CASE CompleteWrite(w) \/ CompletePost(w)
    BY <2>5, CompleteAside, AsideKept
  <2>6. CASE CancelWithdraw(w) \/ CancelMark(w) \/ CancelWrite(w)
    BY <2>6, CancelAside, AsideKept
  <2> QED
    BY <1>2, <2>1, <2>2, <2>3, <2>4, <2>5, <2>6 DEF MaintenanceStep
<1>3. CASE LedgerStep(w) /\ UNCHANGED <<shelfVars, workVars>>
  <2>1. DreStep(w)
    BY <1>3, OtherLabels DEF LedgerStep
  <2> QED
    BY <1>3, <2>1, DreAside, AsideKept
<1> QED
  BY <1>1, <1>2, <1>3 DEF WorkshopStep

LEMMA ShopDied ==
    ASSUME ShopInv, NEW w \in Workers, WorkshopDie(w)
    PROVE  ShopInv'
<1>1. /\ pc' = [pc EXCEPT ![w] = "idle"] /\ ctx' = [ctx EXCEPT ![w] = NULL]
      /\ calc' = [calc EXCEPT ![w] = NULL] /\ UNCHANGED <<shelfVars, item>>
  BY DEF WorkshopDie, LedgerDie, Die, workVars
<1>2. OnlyMoves(w) /\ pc'[w] = "idle"
  BY <1>1, Went
<1>3. WorkOK(w)'
  BY <1>2 DEF WorkOK, Place, DreLabels
<1>4. RowsKept /\ TablesOK'
  BY <1>1, SameTables DEF RowsKept, Known, shelfVars
<1> QED
  BY <1>2, <1>3, <1>4, WorkKept DEF ShopInv, OnlyMoves

\* Nobody moves a quantity by hand while maintenances overlap.
LEMMA NobodyMoves ==
    ASSUME ShopInv, NoMoves, schedule = "overlap", NEW w \in Workers,
           Request(w) \/ WorkshopStep(w) \/ WorkshopDie(w)
    PROVE  NoMoves'
<1> SUFFICES \E label : label # "move.write" /\ (pc' = [pc EXCEPT ![w] = label] \/ pc' = pc)
  BY DEF NoMoves, ShopInv, FramesOK
<1>1. CASE WorkshopDie(w)
  BY <1>1 DEF WorkshopDie, LedgerDie, Die
<1>2. CASE Request(w)
  BY <1>2 DEF Request, RegisterPart, CreatePart, MaintenanceRequest, CreateMaintenance,
     RequestAddPart, RequestRemovePart, RequestComplete, RequestCancel, Begin,
     ledgerVars, handlerVars
<1>3. CASE PartsStep(w)
  BY <1>3 DEF PartsStep, LogFirstStock, Move, ConsumeCheck, Consume, Return, Goto
<1>4. CASE MaintenanceStep(w)
  BY <1>4 DEF MaintenanceStep, RecomputeReadItems, RecomputeReadLabor, RecomputeWrite,
     CreateItem, PostItem, RemoveReturn, RemoveWithdraw, RemoveMark, CompleteWrite,
     CompletePost, CancelReturn, CancelWithdraw, CancelMark, CancelWrite, GiveBack,
     Goto, GotoWith, Return, Post, Withdraw, Recalculate
<1>5. CASE LedgerStep(w)
  <2>1. DreStep(w) /\ calc[w].next # "move.write"
    <3>1. DreStep(w)
      BY <1>5, OtherLabels DEF LedgerStep
    <3> QED
      BY <3>1 DEF DreStep, DreReadVehicle, DreReadEntries, DreReadCommissions, DreSave, At,
         ShopInv, WorkOK, DreLabels, NextLabels
  <2> QED
    BY <2>1 DEF DreStep, DreReadVehicle, DreReadEntries, DreReadCommissions, DreSave, Goto, Return
<1> QED
  BY <1>1, <1>2, <1>3, <1>4, <1>5 DEF WorkshopStep

-----------------------------------------------------------------------------
(* The theorem                                                             *)

LEMMA BooksStart == ASSUME BooksInit PROVE BooksInv
<1> USE DEF BooksInit, WorkshopInit, LedgerInit, HandlersInit
<1>1. TablesOK
  BY NoItem DEF TablesOK, LogRows
<1>2. FramesOK
  BY DEF FramesOK
<1>3. \A w \in Workers : WorkOK(w)
  BY IdleIsFine
<1>4. \A p \in Parts : Explained(p)
  BY DEF Explained, Registers, Known
<1> QED
  BY <1>1, <1>2, <1>3, <1>4 DEF BooksInv, ShopInv, AllExplained, NoMoves

\* Of what a step does to the number of failures, only that a death adds one counts.
LEMMA FailuresCount ==
    ASSUME failures \in Nat, NEW w \in Workers,
           Request(w) \/ WorkshopStep(w) \/ WorkshopDie(w)
    PROVE  /\ failures' \in Nat
           /\ failures' = 0 => failures = 0 /\ ~WorkshopDie(w)
<1>1. CASE WorkshopDie(w)
  BY <1>1 DEF WorkshopDie, LedgerDie, Die
<1>2. CASE Request(w)
  <2>1. failures' = failures
    BY <1>2 DEF Request, LedgerRequest, CreateManual, RemoveEntry, CreateAcquisition, BookSale,
       SettleCommission, CancelCommission, AdjustCommission, RegisterPart, CreatePart,
       PartsRequest, RequestMove, EditQuantity, MaintenanceRequest, CreateMaintenance,
       RequestAddPart, RequestRemovePart, RequestComplete, RequestCancel, Begin,
       ledgerVars, handlerVars
  <2> QED
    BY <2>1 DEF WorkshopDie, LedgerDie, Die
<1>3. CASE WorkshopStep(w)
  <2>1. ASSUME PartsStep(w) PROVE failures' = failures
    BY <2>1 DEF PartsStep, LogFirstStock, Move, ConsumeCheck, Consume, Return, Goto
  <2>2. ASSUME MaintenanceStep(w) PROVE failures' = failures
    BY <2>2 DEF MaintenanceStep, RecomputeReadItems, RecomputeReadLabor, RecomputeWrite,
       CreateItem, PostItem, RemoveReturn, RemoveWithdraw, RemoveMark, CompleteWrite,
       CompletePost, CancelReturn, CancelWithdraw, CancelMark, CancelWrite, GiveBack,
       Goto, GotoWith, Return
  <2>3. ASSUME DreStep(w) PROVE failures' = failures
    BY <2>3 DEF DreStep, DreReadVehicle, DreReadEntries, DreReadCommissions, DreSave, Goto,
       Return
  <2>4. ASSUME EntryStep(w) \/ AcquisitionStep(w) PROVE failures' = failures
    BY <2>4 DEF EntryStep, DeleteEntry, DeleteEntryGone, AcquisitionStep, AcquisitionPrice,
       AcquisitionPost, AcquisitionPostExtra, Goto, Return
  <2>5. ASSUME CommissionStep(w) PROVE failures' = failures
    BY <2>5 DEF CommissionStep, FindCommission, ResolveRule, CreateCommission, Goto, Return
  <2>6. failures' = failures
    BY <1>3, <2>1, <2>2, <2>3, <2>4, <2>5 DEF WorkshopStep, LedgerStep
  <2> QED
    BY <2>6 DEF WorkshopDie, LedgerDie, Die
<1> QED
  BY <1>1, <1>2, <1>3

LEMMA BooksKept == ASSUME BooksInv, [BooksNext]_booksVars PROVE BooksInv'
<1>1. CASE UNCHANGED booksVars
  BY <1>1 DEF booksVars, workshopVars, shelfVars, workVars, ledgerVars, bookVars, handlerVars,
     BooksInv, ShopInv, AllExplained, NoMoves, TablesOK, FramesOK, WorkOK, Place, Explained,
     Unexplained, Registers, Known, Recorded
<1>2. CASE BooksNext
  <2>1. PICK w \in Workers : /\ Request(w) \/ WorkshopStep(w) \/ WorkshopDie(w)
                             /\ UNCHANGED schedule
    BY <1>2 DEF BooksNext
  <2>2. failures' \in Nat /\ (failures' = 0 => failures = 0 /\ ~WorkshopDie(w))
    BY <2>1, FailuresCount DEF BooksInv
  <2>3. schedule # "ledger" => ShopInv'
    BY <2>1, ShopRequest, ShopStep, ShopDied DEF BooksInv
  <2>4. schedule = "overlap" => NoMoves'
    BY <2>1, NobodyMoves DEF BooksInv
  <2>5. ASSUME schedule = "overlap", failures' = 0 PROVE AllExplained'
    BY <2>1, <2>2, <2>5, ShopRequest, ShopStep DEF BooksInv
  <2> QED
    BY <2>1, <2>2, <2>3, <2>4, <2>5 DEF BooksInv
<1> QED
  BY <1>1, <1>2

LEMMA BooksStay == BooksSpec => []BooksInv
BY BooksStart, BooksKept, PTL DEF BooksSpec

\* However maintenances overlap, and as long as none of them dies half-way, the movement log of
\* a part explains its stock to the unit (parts.service.ts:222-268).
THEOREM StockIsExplained == BooksSpec => []MaintenanceStockIsLogged
<1>1. BooksInv => MaintenanceStockIsLogged
  <2> SUFFICES ASSUME BooksInv, schedule = "overlap", NEW p \in Parts, Known(p), failures = 0,
                      \A w \in Workers : At(w, "part.log") => ctx[w].part # p
               PROVE  quantity[p] = log[p].net + log[p].reversed - log[p].applied
    BY DEF MaintenanceStockIsLogged, StockIsLogged
  <2>1. TablesOK /\ Explained(p)
    BY DEF BooksInv, ShopInv, AllExplained
  <2>2. Unexplained(p) = 0
    BY <2>1 DEF Explained, Registers, At
  <2>3. quantity[p] \in Int /\ log[p] \in LogRows
    BY <2>1 DEF TablesOK, Known
  <2>4. log[p].net \in Int /\ log[p].applied \in Int /\ log[p].reversed \in Int
    BY <2>3 DEF LogRows
  <2> QED
    BY <2>2, <2>3, <2>4 DEF Unexplained
<1> QED
  BY <1>1, BooksStay, PTL

-----------------------------------------------------------------------------
(* What the items record                                                   *)

\* The rows of a part, and those whose part is back on the shelf, marked or not yet
ItemsFor(p) == {i \in Items : item[i] # NULL /\ item[i].part = p}

\* Handler w has put item i back on the shelf and not marked it.
Returning(w, i) ==
    \/ Place(w) \in {"remove.withdraw", "remove.mark"} /\ i = ctx[w].item
    \/ Place(w) \in {"cancel.withdraw", "cancel.mark"} /\ i = FirstOf(ctx[w].todo)

BackItems(p) ==
    {i \in ItemsFor(p) : item[i].reversed \/ \E w \in Workers : Returning(w, i)}

\* Handlers that have taken p from the shelf and recorded nothing yet
Flying(p) == {w \in Workers : pc[w] = "part.item" /\ ctx[w].part = p}

ItemQuantity == [i \in Items |-> item[i].quantity]
Load         == [w \in Workers |-> ctx[w].quantity]

-----------------------------------------------------------------------------
(* Sums over finite sets                                                   *)

SumTable(t, g, S) ==
    /\ t \in [SUBSET S -> Int]
    /\ t[{}] = 0
    /\ \A s \in SUBSET S : \A x \in s : t[s] = g[x] + t[s \ {x}]

\* What the library computes, one chosen element after another
Chosen(iter, g, S) ==
    iter = [s \in SUBSET S |->
               IF s = {} THEN 0
               ELSE g[CHOOSE x \in s : TRUE] + iter[s \ {CHOOSE x \in s : TRUE}]]

SumOver(g, S) == (CHOOSE t : SumTable(t, g, S))[S]

LEMMA SmallestSet ==
    ASSUME NEW F, F # {}, \A s \in F : IsFiniteSet(s)
    PROVE  \E s \in F : \A r \in F : Cardinality(s) <= Cardinality(r)
<1> DEFINE T == {Cardinality(s) : s \in F}
<1>1. T \in SUBSET Nat /\ T # {}
  BY FS_CardinalityType
<1>2. PICK n \in T : \A k \in T : n <= k
  BY <1>1, SmallestNumber
<1> QED BY <1>2

LEMMA OneLess ==
    ASSUME NEW S, IsFiniteSet(S), NEW x \in S
    PROVE  /\ IsFiniteSet(S \ {x})
           /\ Cardinality(S) \in Nat /\ Cardinality(S \ {x}) \in Nat
           /\ Cardinality(S \ {x}) < Cardinality(S)
<1>1. IsFiniteSet(S \ {x}) /\ Cardinality(S \ {x}) = Cardinality(S) - 1
  BY FS_RemoveElement
<1> QED BY <1>1, FS_CardinalityType

LEMMA TableExists ==
    ASSUME NEW S, IsFiniteSet(S), NEW g, \A x \in S : g[x] \in Int
    PROVE  \E t : SumTable(t, g, S)
<1> DEFINE F == {s \in SUBSET S : ~\E t : SumTable(t, g, s)}
<1> SUFFICES ASSUME F # {} PROVE FALSE
  OBVIOUS
<1>1. \A s \in F : IsFiniteSet(s)
  BY FS_Subset
<1>2. PICK s \in F : \A r \in F : Cardinality(s) <= Cardinality(r)
  BY <1>1, SmallestSet
<1>3. s # {}
  <2> DEFINE t == [r \in SUBSET {} |-> 0]
  <2>1. SumTable(t, g, {})
    BY DEF SumTable
  <2> QED BY <2>1
<1>4. PICK x \in s : TRUE
  BY <1>3
<1>5. s \ {x} \notin F
  <2>1. Cardinality(s \ {x}) < Cardinality(s) /\ Cardinality(s) \in Nat
        /\ Cardinality(s \ {x}) \in Nat
    BY <1>1, OneLess
  <2> QED BY <1>2, <2>1
<1>6. PICK t : SumTable(t, g, s \ {x})
  BY <1>5
<1> DEFINE u == [r \in SUBSET s |-> IF x \in r THEN g[x] + t[r \ {x}] ELSE t[r]]
<1>7. \A r \in SUBSET s : r \ {x} \in SUBSET (s \ {x}) /\ t[r \ {x}] \in Int
  BY <1>6 DEF SumTable
<1>8. u \in [SUBSET s -> Int]
  <2> SUFFICES ASSUME NEW r \in SUBSET s
               PROVE  (IF x \in r THEN g[x] + t[r \ {x}] ELSE t[r]) \in Int
    OBVIOUS
  <2>1. CASE x \in r
    BY <1>7, <2>1
  <2>2. CASE x \notin r
    <3>1. r \ {x} = r
      BY <2>2
    <3> QED BY <1>7, <2>2, <3>1
  <2> QED BY <2>1, <2>2
<1>9. u[{}] = 0
  BY <1>6 DEF SumTable
<1>10. ASSUME NEW r \in SUBSET s, NEW y \in r
       PROVE  u[r] = g[y] + u[r \ {y}]
  <2>1. CASE y = x
    <3>1. x \notin r \ {x} /\ (r \ {x}) \ {x} = r \ {x}
      OBVIOUS
    <3>2. u[r] = g[x] + t[r \ {x}]
      BY <2>1
    <3>3. u[r \ {x}] = t[r \ {x}]
      BY <3>1
    <3> HIDE DEF u
    <3> QED BY <2>1, <3>2, <3>3
  <2>2. CASE y # x /\ x \in r
    <3>1. u[r] = g[x] + t[r \ {x}] /\ u[r \ {y}] = g[x] + t[(r \ {y}) \ {x}]
      BY <2>2
    <3>2. (r \ {y}) \ {x} = (r \ {x}) \ {y} /\ y \in r \ {x}
      BY <2>2
    <3>3. t[r \ {x}] = g[y] + t[(r \ {x}) \ {y}]
      BY <1>6, <1>7, <3>2 DEF SumTable
    <3>4. t[(r \ {y}) \ {x}] \in Int
      BY <1>7
    <3>5. g[x] \in Int /\ g[y] \in Int
      OBVIOUS
    <3>6. t[(r \ {y}) \ {x}] = t[(r \ {x}) \ {y}]
      BY <3>2
    <3> HIDE DEF u
    <3> QED BY <3>1, <3>3, <3>4, <3>5, <3>6
  <2>3. CASE x \notin r
    <3>1. u[r] = t[r] /\ u[r \ {y}] = t[r \ {y}] /\ r \in SUBSET (s \ {x})
      BY <2>3
    <3> QED BY <1>6, <3>1 DEF SumTable
  <2> QED BY <2>1, <2>2, <2>3
<1>11. SumTable(u, g, s)
  <2> HIDE DEF u
  <2> QED BY <1>8, <1>9, <1>10 DEF SumTable
<1> QED BY <1>11

\* Two tables agree on what they both speak of.
LEMMA TablesAgree ==
    ASSUME NEW S, IsFiniteSet(S), NEW g, NEW t, SumTable(t, g, S),
           NEW R, NEW h, NEW u, SumTable(u, h, R), \A x \in S \cap R : g[x] = h[x],
           NEW s \in SUBSET (S \cap R)
    PROVE  t[s] = u[s]
<1> DEFINE F == {r \in SUBSET (S \cap R) : t[r] # u[r]}
<1> SUFFICES ASSUME F # {} PROVE FALSE
  OBVIOUS
<1>1. \A r \in F : IsFiniteSet(r)
  BY FS_Subset
<1>2. PICK r \in F : \A q \in F : Cardinality(r) <= Cardinality(q)
  BY <1>1, SmallestSet
<1>3. r # {}
  BY DEF SumTable
<1>4. PICK x \in r : TRUE
  BY <1>3
<1>5. r \ {x} \notin F
  <2>1. Cardinality(r \ {x}) < Cardinality(r) /\ Cardinality(r) \in Nat
        /\ Cardinality(r \ {x}) \in Nat
    BY <1>1, OneLess
  <2> QED BY <1>2, <2>1
<1>6. t[r \ {x}] = u[r \ {x}]
  BY <1>5
<1> QED BY <1>6 DEF SumTable

\* The table is the sum of what it is asked for.
LEMMA SumIs ==
    ASSUME NEW S, IsFiniteSet(S), NEW g, NEW t, SumTable(t, g, S), NEW R \in SUBSET S
    PROVE  SumOver(g, R) = t[R] /\ SumOver(g, R) \in Int
<1> DEFINE u == CHOOSE u : SumTable(u, g, R)
<1>1. IsFiniteSet(R)
  BY FS_Subset
<1>2. SumTable([r \in SUBSET R |-> t[r]], g, R)
  BY DEF SumTable
<1>3. SumTable(u, g, R)
  BY <1>2
<1> HIDE DEF u
<1>4. u[R] = t[R]
  BY <1>1, <1>3, TablesAgree
<1>5. SumOver(g, R) = u[R]
  BY DEF SumOver, u
<1> QED BY <1>4, <1>5 DEF SumTable

LEMMA SumInt ==
    ASSUME NEW S, IsFiniteSet(S), NEW g, \A x \in S : g[x] \in Int
    PROVE  SumOver(g, S) \in Int
BY TableExists, SumIs

LEMMA SumEmpty ==
    ASSUME NEW g
    PROVE  SumOver(g, {}) = 0
<1>1. PICK t : SumTable(t, g, {})
  BY FS_EmptySet, TableExists
<1>2. IsFiniteSet({})
  BY FS_EmptySet
<1>3. t[{}] = 0
  BY <1>1 DEF SumTable
<1>4. SumOver(g, {}) = t[{}]
  BY <1>1, <1>2, SumIs
<1> QED BY <1>3, <1>4

LEMMA SumRemove ==
    ASSUME NEW S, IsFiniteSet(S), NEW g, \A x \in S : g[x] \in Int, NEW x \in S
    PROVE  SumOver(g, S) = g[x] + SumOver(g, S \ {x})
<1>1. PICK t : SumTable(t, g, S)
  BY TableExists
<1>2. SumOver(g, S) = t[S] /\ SumOver(g, S \ {x}) = t[S \ {x}]
  BY <1>1, SumIs
<1> QED BY <1>1, <1>2 DEF SumTable

LEMMA SumAdd ==
    ASSUME NEW S, IsFiniteSet(S), NEW g, \A y \in S : g[y] \in Int,
           NEW x, x \notin S, g[x] \in Int
    PROVE  SumOver(g, S \cup {x}) = g[x] + SumOver(g, S)
<1>1. IsFiniteSet(S \cup {x}) /\ (S \cup {x}) \ {x} = S
  BY FS_AddElement
<1>2. SumOver(g, S \cup {x}) = g[x] + SumOver(g, (S \cup {x}) \ {x})
  BY <1>1, SumRemove
<1> QED BY <1>1, <1>2

LEMMA SumSame ==
    ASSUME NEW S, IsFiniteSet(S), NEW g, NEW h, \A x \in S : g[x] \in Int /\ h[x] = g[x]
    PROVE  SumOver(h, S) = SumOver(g, S)
<1> S \in SUBSET (S \cap S)
  OBVIOUS
<1>1. PICK t : SumTable(t, g, S)
  BY TableExists
<1>2. PICK u : SumTable(u, h, S)
  BY TableExists
<1>3. t[S] = u[S]
  BY <1>1, <1>2, TablesAgree
<1>4. SumOver(g, S) = t[S] /\ SumOver(h, S) = u[S]
  BY <1>1, <1>2, SumIs
<1> QED BY <1>3, <1>4

\* Sums of naturals grow with the set.
LEMMA SumGrows ==
    ASSUME NEW S, IsFiniteSet(S), NEW g, \A x \in S : g[x] \in Nat, NEW R \in SUBSET S
    PROVE  SumOver(g, R) \in Nat /\ SumOver(g, R) <= SumOver(g, S)
<1>1. \A r \in SUBSET S : SumOver(g, r) \in Int /\ IsFiniteSet(r)
  BY FS_Subset, SumInt
<1>2. ASSUME NEW r \in SUBSET S, NEW Q \in SUBSET r
      PROVE  SumOver(g, Q) <= SumOver(g, r)
  <2> DEFINE F == {s \in SUBSET r : Q \subseteq s /\ SumOver(g, s) < SumOver(g, Q)}
  <2>1. CASE F = {}
    <3>1. r \notin F
      BY <2>1
    <3> QED BY <1>1, <3>1
  <2>2. CASE F # {}
    <3>1. \A s \in F : IsFiniteSet(s)
      BY <1>1
    <3>2. PICK s \in F : \A q \in F : Cardinality(s) <= Cardinality(q)
      BY <2>2, <3>1, SmallestSet
    <3>3. PICK x \in s : x \notin Q
      BY <1>1, <3>2
    <3>4. s \ {x} \notin F
      <4>1. Cardinality(s \ {x}) < Cardinality(s) /\ Cardinality(s) \in Nat
            /\ Cardinality(s \ {x}) \in Nat
        BY <3>1, OneLess
      <4> QED BY <3>2, <4>1
    <3>5. SumOver(g, s) = g[x] + SumOver(g, s \ {x})
      BY <1>1, SumRemove
    <3>6. g[x] \in Nat /\ SumOver(g, s \ {x}) \in Int /\ SumOver(g, Q) \in Int
      BY <1>1
    <3>7. ~(SumOver(g, s \ {x}) < SumOver(g, Q)) /\ SumOver(g, s) < SumOver(g, Q)
      BY <3>3, <3>4
    <3> HIDE DEF F
    <3> QED BY <3>5, <3>6, <3>7
  <2> QED BY <2>1, <2>2
<1>3. SumOver(g, {}) <= SumOver(g, R)
  BY <1>2
<1> QED BY <1>1, <1>2, <1>3, SumEmpty

LEMMA ChosenIsSum ==
    ASSUME NEW S, IsFiniteSet(S), NEW g, \A x \in S : g[x] \in Int, NEW iter, Chosen(iter, g, S)
    PROVE  iter[S] = SumOver(g, S)
<1>1. PICK t : SumTable(t, g, S)
  BY TableExists
<1> DEFINE F == {s \in SUBSET S : iter[s] # t[s]}
<1>2. CASE F = {}
  <2>1. S \notin F
    BY <1>2
  <2> QED BY <1>1, <2>1, SumIs
<1>3. CASE F # {}
  <2>1. \A s \in F : IsFiniteSet(s)
    BY FS_Subset
  <2>2. PICK s \in F : \A r \in F : Cardinality(s) <= Cardinality(r)
    BY <1>3, <2>1, SmallestSet
  <2>3. s # {}
    BY <1>1 DEF SumTable, Chosen
  <2> DEFINE x == CHOOSE x \in s : TRUE
  <2>4. x \in s
    BY <2>3
  <2>5. iter[s] = g[x] + iter[s \ {x}]
    BY <2>3 DEF Chosen
  <2> HIDE DEF x
  <2>6. s \ {x} \notin F
    <3>1. Cardinality(s \ {x}) < Cardinality(s) /\ Cardinality(s) \in Nat
          /\ Cardinality(s \ {x}) \in Nat
      BY <2>1, <2>4, OneLess
    <3>2. ~(Cardinality(s) <= Cardinality(s \ {x}))
      BY <3>1
    <3> QED BY <2>2, <3>2
  <2>7. t[s] = g[x] + t[s \ {x}]
    BY <1>1, <2>4 DEF SumTable
  <2> QED BY <2>4, <2>5, <2>6, <2>7
<1> QED BY <1>2, <1>3

LEMMA ChosenExists ==
    ASSUME NEW S, IsFiniteSet(S), NEW g, \A x \in S : g[x] \in Int
    PROVE  \E iter : Chosen(iter, g, S)
<1>1. PICK t : SumTable(t, g, S)
  BY TableExists
<1>2. ASSUME NEW s \in SUBSET S, s # {}
      PROVE  (CHOOSE x \in s : TRUE) \in s
  BY <1>2
<1>3. \A s \in SUBSET S : t[s] = IF s = {} THEN 0
          ELSE g[CHOOSE x \in s : TRUE] + t[s \ {CHOOSE x \in s : TRUE}]
  BY <1>1, <1>2 DEF SumTable
<1>4. t = [s \in SUBSET S |-> t[s]]
  BY <1>1 DEF SumTable
<1>5. Chosen(t, g, S)
  BY <1>3, <1>4 DEF Chosen
<1> QED BY <1>5

LEMMA QuantityIsSum ==
    ASSUME NEW p, NEW items \in SUBSET Items,
           NEW S, S = {i \in items : item[i] # NULL /\ item[i].part = p}, IsFiniteSet(S),
           \A i \in S : item[i].quantity \in Int
    PROVE  QuantityOf(p, items) = SumOver(ItemQuantity, S)
<1> DEFINE Adds(f) == f = [s \in SUBSET S |->
                      IF s = {} THEN 0
                      ELSE item[CHOOSE x \in s : TRUE].quantity + f[s \ {CHOOSE x \in s : TRUE}]]
           iter == CHOOSE f : Adds(f)
<1>1. QuantityOf(p, items) = iter[S]
  BY DEF QuantityOf, MapThenSumSet, MapThenFoldSet
<1>2. S \subseteq Items /\ \A x \in S : ItemQuantity[x] = item[x].quantity
  BY DEF ItemQuantity
<1>3. \A s \in SUBSET S : s # {} =>
          ItemQuantity[CHOOSE x \in s : TRUE] = item[CHOOSE x \in s : TRUE].quantity
  BY <1>2
<1>4. \A f : Chosen(f, ItemQuantity, S) <=> Adds(f)
  BY <1>3 DEF Chosen
<1>5. \A x \in S : ItemQuantity[x] \in Int
  BY <1>2
<1> HIDE DEF Adds
<1>6. \E f : Adds(f)
  BY <1>4, <1>5, ChosenExists
<1>7. Adds(iter)
  BY <1>6
<1> HIDE DEF iter
<1>8. iter[S] = SumOver(ItemQuantity, S)
  BY <1>4, <1>5, <1>7, ChosenIsSum
<1> QED BY <1>1, <1>8

-----------------------------------------------------------------------------
(* What the steps do to the items                                          *)

\* Nothing is taken, recorded, given back or marked; and w ends or leaves its items as they are.
Calm(w) ==
    /\ OnlyMoves(w)
    /\ item' = item
    /\ \A p \in Parts : log'[p].applied = log[p].applied /\ log'[p].reversed = log[p].reversed
    /\ pc'[w] # "part.item"
    /\ \A i : Returning(w, i)' => Returning(w, i)

LEMMA CalmRequest ==
    ASSUME ShopInv, NEW w \in Workers, Request(w), schedule # "ledger"
    PROVE  Calm(w) /\ \A i : ~Returning(w, i)
<1> DEFINE Labels == {"part.log", "move.write", "part.check", "remove.return", "complete.write",
                      "cancel.next"}
           Goes == /\ pc[w] = "idle" /\ item' = item /\ log' = log /\ UNCHANGED calc
                   /\ \/ UNCHANGED <<pc, ctx>>
                      \/ \E label \in Labels : \E locals : Begin(w, label, locals)
<1>1. Goes
  <2>1. CASE \E quantities : RegisterPart(w, quantities)
    BY <2>1 DEF RegisterPart, CreatePart, Begin, workVars
  <2>2. CASE PartsRequest(w)
    BY <2>2 DEF PartsRequest, RequestMove, EditQuantity, Begin, shelfVars, workVars, ledgerVars,
       handlerVars
  <2>3. CASE \E quantities, laborCosts : MaintenanceRequest(w, quantities, laborCosts)
    <3>1. PICK quantities, laborCosts : MaintenanceRequest(w, quantities, laborCosts)
      BY <2>3
    <3>2. CASE \E m \in Maintenances, labor \in laborCosts : CreateMaintenance(w, m, labor)
      BY <3>2 DEF CreateMaintenance, shelfVars, ledgerVars, handlerVars
    <3>3. CASE \E m \in Maintenances, p \in Parts, n \in quantities : RequestAddPart(w, m, p, n)
      BY <3>3 DEF RequestAddPart, Begin, shelfVars, workVars
    <3>4. CASE \E i \in Items : RequestRemovePart(w, i)
      BY <3>4 DEF RequestRemovePart, Begin, shelfVars, workVars
    <3>5. CASE \E m \in Maintenances, labor \in laborCosts \cup {NULL} : RequestComplete(w, m, labor)
      BY <3>5 DEF RequestComplete, Begin, shelfVars, workVars
    <3>6. CASE \E m \in Maintenances : RequestCancel(w, m)
      BY <3>6 DEF RequestCancel, Begin, shelfVars, workVars
    <3> QED BY <3>1, <3>2, <3>3, <3>4, <3>5, <3>6 DEF MaintenanceRequest
  <2> QED BY <2>1, <2>2, <2>3 DEF Request
<1>2. ~(pc[w] \in DreLabels) /\ \A i : ~Returning(w, i)
  BY <1>1 DEF DreLabels, Returning, Place
<1>3. CASE UNCHANGED <<pc, ctx>>
  BY <1>1, <1>2, <1>3 DEF Calm, OnlyMoves, ShopInv, FramesOK, Returning, Place
<1>4. ASSUME NEW label, NEW locals,
             label \in {"part.log", "move.write", "part.check", "remove.return",
                        "complete.write", "cancel.next"}, Begin(w, label, locals)
      PROVE  Calm(w)
  <2>1. OnlyMoves(w) /\ pc'[w] = label
    BY <1>1, <1>4, Starts DEF ShopLabels
  <2>2. \A i : ~Returning(w, i)'
    BY <1>4, <2>1 DEF Returning, Place, DreLabels
  <2> QED BY <1>1, <1>4, <2>1, <2>2 DEF Calm
<1> QED BY <1>1, <1>2, <1>3, <1>4

\* Steps of a handler that go on at a place where nothing is on its way back, or where what is
\* has been before
LEMMA CalmStep ==
    ASSUME ShopInv, NEW w \in Workers,
           \/ LogFirstStock(w) \/ Move(w) \/ ConsumeCheck(w)
           \/ RecomputeReadItems(w) \/ RecomputeReadLabor(w) \/ RecomputeWrite(w)
           \/ PostItem(w) \/ RemoveWithdraw(w) \/ CompleteWrite(w) \/ CompletePost(w)
           \/ CancelWithdraw(w) \/ CancelWrite(w)
           \/ LedgerStep(w) /\ UNCHANGED <<shelfVars, workVars>>
    PROVE  Calm(w) /\ \A i : Returning(w, i)' <=> Returning(w, i)
<1>1. CASE LogFirstStock(w) \/ Move(w)
  <2>1. /\ pc[w] \in {"part.log", "move.write"} /\ Return(w) /\ UNCHANGED <<item, calc>>
        /\ ctx[w].part \in Parts
    BY <1>1 DEF LogFirstStock, Move, At, workVars, ShopInv, WorkOK, RegisterLocals, MoveLocals
  <2>2. OnlyMoves(w) /\ pc'[w] = "idle"
    BY <2>1, Went DEF Return
  <2>3. \A i : ~Returning(w, i) /\ ~Returning(w, i)'
    BY <2>1, <2>2 DEF Returning, Place, DreLabels
  <2>4. \A p \in Parts : log'[p].applied = log[p].applied /\ log'[p].reversed = log[p].reversed
    BY <1>1 DEF LogFirstStock, Move, ShopInv, TablesOK, LogRows
  <2> QED BY <2>1, <2>2, <2>3, <2>4 DEF Calm
<1>2. CASE \/ ConsumeCheck(w) \/ RecomputeReadItems(w) \/ RecomputeReadLabor(w)
           \/ RecomputeWrite(w) \/ CompleteWrite(w) \/ CancelWrite(w)
  <2>1. /\ pc[w] \in {"part.check", "costs.items", "costs.labor", "costs.write",
                      "complete.write", "cancel.next"}
        /\ UNCHANGED <<log, item>>
        /\ \E label \in {"idle", "part.take", "costs.labor", "costs.write", "complete.post",
                         "costs.items"} : pc' = [pc EXCEPT ![w] = label]
    BY <1>2 DEF ConsumeCheck, RecomputeReadItems, RecomputeReadLabor, RecomputeWrite,
       CompleteWrite, CancelWrite, At, Goto, GotoWith, Return, shelfVars, workVars
  <2>2. PICK label \in {"idle", "part.take", "costs.labor", "costs.write", "complete.post",
                        "costs.items"} : pc' = [pc EXCEPT ![w] = label]
    BY <2>1
  <2>3. (UNCHANGED ctx \/ \E l : ctx' = [ctx EXCEPT ![w] = l])
        /\ (UNCHANGED calc \/ \E f : calc' = [calc EXCEPT ![w] = f])
    BY <1>2 DEF ConsumeCheck, RecomputeReadItems, RecomputeReadLabor, RecomputeWrite,
       CompleteWrite, CancelWrite, Goto, GotoWith, Return
  <2>4. OnlyMoves(w) /\ pc'[w] = label
    BY <2>2, <2>3, Went DEF ShopLabels
  <2>5. \A i : ~Returning(w, i) /\ ~Returning(w, i)'
    BY <2>1, <2>2, <2>4 DEF Returning, Place, DreLabels
  <2> QED BY <2>1, <2>2, <2>4, <2>5 DEF Calm
<1>3. ASSUME NEW v, NEW next \in NextLabels, Recalculate(w, v, next),
             UNCHANGED <<shelfVars, item, ctx>>,
             \/ next = "costs.items" /\ pc[w] \in {"part.post", "complete.post"}
             \/ next = "remove.mark" /\ pc[w] = "remove.withdraw"
             \/ next = "cancel.mark" /\ pc[w] = "cancel.withdraw"
      PROVE  Calm(w) /\ \A i : Returning(w, i)' <=> Returning(w, i)
  <2>1. /\ pc' = [pc EXCEPT ![w] = "dre.vehicle"]
        /\ calc' = [calc EXCEPT ![w] = [vehicle |-> v, next |-> next, price |-> 0, sums |-> NoDre]]
    BY <1>3 DEF Recalculate
  <2>2. OnlyMoves(w) /\ pc'[w] = "dre.vehicle"
    BY <1>3, <2>1, Went DEF ShopLabels, DreLabels
  <2>3. calc'[w].next = next /\ ctx'[w] = ctx[w]
    BY <1>3, <2>1 DEF ShopInv, FramesOK
  <2>4. Place(w)' = next /\ Place(w) = pc[w]
    BY <1>3, <2>2, <2>3 DEF Place, DreLabels
  <2>5. \A i : Returning(w, i)' <=> Returning(w, i)
    BY <1>3, <2>3, <2>4 DEF Returning
  <2> QED BY <1>3, <2>2, <2>5 DEF Calm, shelfVars
<1>4. CASE PostItem(w) \/ CompletePost(w)
  <2>1. PICK v : Recalculate(w, v, "costs.items") /\ UNCHANGED <<shelfVars, item, ctx>>
                 /\ pc[w] \in {"part.post", "complete.post"}
    BY <1>4 DEF PostItem, CompletePost, Post, At, workVars
  <2> QED BY <1>3, <2>1 DEF NextLabels
<1>5. CASE RemoveWithdraw(w)
  <2>1. PICK v : Recalculate(w, v, "remove.mark") /\ UNCHANGED <<shelfVars, item, ctx>>
                 /\ pc[w] = "remove.withdraw"
    BY <1>5 DEF RemoveWithdraw, Withdraw, At, workVars
  <2> QED BY <1>3, <2>1 DEF NextLabels
<1>6. CASE CancelWithdraw(w)
  <2>1. PICK v : Recalculate(w, v, "cancel.mark") /\ UNCHANGED <<shelfVars, item, ctx>>
                 /\ pc[w] = "cancel.withdraw"
    BY <1>6 DEF CancelWithdraw, Withdraw, At, workVars
  <2> QED BY <1>3, <2>1 DEF NextLabels
<1>7. CASE LedgerStep(w) /\ UNCHANGED <<shelfVars, workVars>>
  <2>1. DreStep(w)
    BY <1>7, OtherLabels DEF LedgerStep
  <2>2. OnlyMoves(w)
    BY <1>7, <2>1, DreAside DEF Aside
  <2>3. /\ pc[w] \in DreLabels /\ "next" \in DOMAIN calc[w] /\ calc[w].next \in NextLabels
        /\ WorkOK(w)
    BY <2>1 DEF DreStep, DreReadVehicle, DreReadEntries, DreReadCommissions, DreSave, At, ShopInv,
       WorkOK, DreLabels
  <2>4. \/ pc'[w] \in DreLabels /\ calc'[w].next = calc[w].next
        \/ pc'[w] = calc[w].next
    <3>1. DOMAIN calc = Workers /\ DOMAIN pc = Workers
      BY DEF ShopInv, FramesOK
    <3>2. CASE DreSave(w)
      BY <2>3, <3>1, <3>2 DEF DreSave, Goto, NextLabels
    <3>3. CASE DreReadVehicle(w)
      BY <2>3, <3>1, <3>3 DEF DreReadVehicle, Goto, DreLabels
    <3>4. CASE DreReadEntries(w)
      BY <2>3, <3>1, <3>4 DEF DreReadEntries, Goto, DreLabels
    <3>5. CASE DreReadCommissions(w)
      BY <2>3, <3>1, <3>5 DEF DreReadCommissions, Goto, DreLabels
    <3> QED BY <2>1, <3>2, <3>3, <3>4, <3>5 DEF DreStep
  <2>5. ctx'[w] = ctx[w]
    BY <2>1, <2>3 DEF DreStep, DreReadVehicle, DreReadEntries, DreReadCommissions, DreSave, Goto,
       NextLabels
  <2>6. Place(w)' = Place(w)
    BY <2>3, <2>4 DEF Place, NextLabels, DreLabels
  <2>7. \A i : Returning(w, i)' <=> Returning(w, i)
    BY <2>5, <2>6 DEF Returning
  <2>8. pc'[w] # "part.item"
    BY <2>3, <2>4 DEF NextLabels, DreLabels
  <2> QED BY <1>7, <2>2, <2>7, <2>8 DEF Calm, shelfVars, workVars
<1> QED BY <1>1, <1>2, <1>4, <1>5, <1>6, <1>7

LEMMA CalmDeath ==
    ASSUME ShopInv, NEW w \in Workers, WorkshopDie(w)
    PROVE  Calm(w)
<1>1. /\ pc' = [pc EXCEPT ![w] = "idle"] /\ ctx' = [ctx EXCEPT ![w] = NULL]
      /\ calc' = [calc EXCEPT ![w] = NULL] /\ UNCHANGED <<log, item>>
  BY DEF WorkshopDie, LedgerDie, Die, workVars, shelfVars
<1>2. OnlyMoves(w) /\ pc'[w] = "idle"
  BY <1>1, Went
<1>3. \A i : ~Returning(w, i)'
  BY <1>2 DEF Returning, Place, DreLabels
<1> QED BY <1>1, <1>2, <1>3 DEF Calm

-----------------------------------------------------------------------------
(* The accounts                                                            *)

Rows == {i \in Items : item[i] # NULL}

\* What the maintenances have recorded of part p and what they are about to record; and what
\* they have recorded and put back
Recording(p) == SumOver(ItemQuantity, ItemsFor(p)) + SumOver(Load, Flying(p))
GivenUp(p)   == SumOver(ItemQuantity, BackItems(p))

AccountsInv ==
    /\ IsFiniteSet(Rows)
    /\ \A p \in Parts : Recording(p) <= log[p].applied /\ GivenUp(p) <= log[p].reversed

\* As long as handlers come one by one, only what is back has been put back.
Exact == \A p \in Parts : log[p].reversed <= GivenUp(p)

LEMMA AccountsTyped ==
    ASSUME ShopInv, IsFiniteSet(Rows), NEW p \in Parts
    PROVE  /\ IsFiniteSet(ItemsFor(p)) /\ IsFiniteSet(BackItems(p)) /\ IsFiniteSet(Flying(p))
           /\ BackItems(p) \subseteq ItemsFor(p)
           /\ \A i \in ItemsFor(p) : Recorded(i) /\ ItemQuantity[i] \in Positive
           /\ \A x \in Flying(p) : x \in Workers /\ Load[x] \in Positive
           /\ Recording(p) \in Nat /\ GivenUp(p) \in Nat
           /\ SumOver(ItemQuantity, ItemsFor(p)) \in Nat
           /\ SumOver(Load, Flying(p)) \in Nat
           /\ log[p] \in LogRows
<1>1. ItemsFor(p) \subseteq Rows /\ BackItems(p) \subseteq ItemsFor(p) /\ Flying(p) \subseteq Workers
  BY DEF ItemsFor, Rows, BackItems, Flying
<1>2. IsFiniteSet(ItemsFor(p)) /\ IsFiniteSet(BackItems(p)) /\ IsFiniteSet(Flying(p))
  BY <1>1, FS_Subset, HandlersAssumption
<1>3. \A i \in ItemsFor(p) : Recorded(i) /\ ItemQuantity[i] \in Positive
  BY DEF ItemsFor, ItemQuantity, Recorded, ShopInv, TablesOK, ItemRows
<1>4. \A x \in Flying(p) : x \in Workers /\ Load[x] \in Positive
  BY DEF Flying, Load, ShopInv, WorkOK, AddLocals
<1>5. \A i \in ItemsFor(p) : ItemQuantity[i] \in Nat
  BY <1>3 DEF Positive
<1>6. \A x \in Flying(p) : Load[x] \in Nat
  BY <1>4 DEF Positive
<1>7. SumOver(ItemQuantity, ItemsFor(p)) \in Nat /\ GivenUp(p) \in Nat
  BY <1>1, <1>2, <1>5, SumGrows DEF GivenUp
<1>8. SumOver(Load, Flying(p)) \in Nat
  BY <1>2, <1>6, SumGrows
<1>9. log[p] \in LogRows
  BY DEF ShopInv, TablesOK
<1> QED BY <1>1, <1>2, <1>3, <1>4, <1>7, <1>8, <1>9 DEF Recording

LEMMA AccountsNext ==
    ASSUME NEW p
    PROVE  /\ Recording(p)' = SumOver(ItemQuantity', ItemsFor(p)') + SumOver(Load', Flying(p)')
           /\ GivenUp(p)' = SumOver(ItemQuantity', BackItems(p)')
BY DEF Recording, GivenUp, SumOver, SumTable

\* A step that keeps the rows, their quantities and their parts, and makes nobody take anything
LEMMA RowsStay ==
    ASSUME ShopInv, ShopInv', IsFiniteSet(Rows), NEW w \in Workers, OnlyMoves(w),
           pc'[w] # "part.item",
           \A i \in Items : /\ (item'[i] = NULL) <=> (item[i] = NULL)
                            /\ item[i] # NULL => /\ item'[i].part = item[i].part
                                                 /\ item'[i].quantity = item[i].quantity,
           NEW p \in Parts
    PROVE  /\ Rows' = Rows
           /\ Recording(p)' \in Nat /\ Recording(p)' <= Recording(p)
           /\ ItemsFor(p)' = ItemsFor(p)
           /\ \A S \in SUBSET ItemsFor(p) : SumOver(ItemQuantity', S) = SumOver(ItemQuantity, S)
<1>1. Rows' = Rows /\ ItemsFor(p)' = ItemsFor(p)
  BY DEF Rows, ItemsFor
<1>2. \A i \in ItemsFor(p) : ItemQuantity'[i] = ItemQuantity[i]
  BY DEF ItemsFor, ItemQuantity
<1>3. /\ IsFiniteSet(ItemsFor(p)) /\ IsFiniteSet(Flying(p))
      /\ \A i \in ItemsFor(p) : ItemQuantity[i] \in Positive
      /\ \A x \in Flying(p) : x \in Workers /\ Load[x] \in Positive
      /\ SumOver(ItemQuantity, ItemsFor(p)) \in Nat
  BY AccountsTyped
<1>4. \A i \in ItemsFor(p) : ItemQuantity[i] \in Int
  BY <1>3 DEF Positive
<1>5. \A x \in Flying(p) : Load[x] \in Nat /\ Load[x] \in Int
  BY <1>3 DEF Positive
<1>6. ASSUME NEW S \in SUBSET ItemsFor(p)
      PROVE  SumOver(ItemQuantity', S) = SumOver(ItemQuantity, S)
  <2>1. IsFiniteSet(S)
    BY <1>3, FS_Subset
  <2> QED BY <1>2, <1>4, <2>1, SumSame
<1>7. Flying(p)' \subseteq Flying(p) /\ \A x \in Flying(p)' : Load'[x] = Load[x]
  BY DEF Flying, Load, OnlyMoves
<1>8. IsFiniteSet(Flying(p)')
  BY <1>3, <1>7, FS_Subset
<1>9. SumOver(Load', Flying(p)') = SumOver(Load, Flying(p)')
  BY <1>5, <1>7, <1>8, SumSame
<1>10. SumOver(Load, Flying(p)') <= SumOver(Load, Flying(p)) /\ SumOver(Load, Flying(p)') \in Nat
  BY <1>3, <1>5, <1>7, SumGrows
<1>11. SumOver(Load, Flying(p)) \in Nat
  BY <1>3, <1>5, SumGrows
<1>12. Recording(p)' = SumOver(ItemQuantity, ItemsFor(p)) + SumOver(Load, Flying(p)')
  BY <1>1, <1>6, <1>9, AccountsNext
<1> QED BY <1>1, <1>3, <1>6, <1>10, <1>11, <1>12 DEF Recording

LEMMA OthersReturn ==
    ASSUME NEW w \in Workers, OnlyMoves(w), NEW x \in Workers \ {w}, NEW i
    PROVE  Returning(x, i)' <=> Returning(x, i)
BY DEF OnlyMoves, Returning, Place

\* Back is what is marked or being returned by the handler that moves, or by another.
BackBy(w, i) == item[i].reversed \/ Returning(w, i)

LEMMA BackStays ==
    ASSUME ShopInv, ShopInv', IsFiniteSet(Rows), NEW w \in Workers, OnlyMoves(w),
           NEW p \in Parts, ItemsFor(p)' = ItemsFor(p),
           \A S \in SUBSET ItemsFor(p) : SumOver(ItemQuantity', S) = SumOver(ItemQuantity, S),
           \A i \in ItemsFor(p) : BackBy(w, i)' => BackBy(w, i),
           \A i \in ItemsFor(p) : item[i].reversed => item'[i].reversed
    PROVE  /\ GivenUp(p)' \in Nat /\ GivenUp(p)' <= GivenUp(p)
           /\ (\A i \in ItemsFor(p) : Returning(w, i) => BackBy(w, i)') => GivenUp(p)' = GivenUp(p)
<1>1. \A i : i \in BackItems(p) <=>
         i \in ItemsFor(p) /\ (BackBy(w, i) \/ \E x \in Workers \ {w} : Returning(x, i))
  BY DEF BackItems, BackBy
<1>2. \A i : i \in BackItems(p)' <=>
         i \in ItemsFor(p) /\ (BackBy(w, i)' \/ \E x \in Workers \ {w} : Returning(x, i)')
  BY DEF BackItems, BackBy
<1>3. BackItems(p)' \subseteq BackItems(p)
  BY <1>1, <1>2, OthersReturn
<1>4. /\ BackItems(p) \subseteq ItemsFor(p) /\ IsFiniteSet(BackItems(p))
      /\ \A i \in ItemsFor(p) : ItemQuantity[i] \in Positive
  BY AccountsTyped
<1>5. GivenUp(p)' = SumOver(ItemQuantity, BackItems(p)')
  BY <1>3, <1>4, AccountsNext
<1>6. GivenUp(p)' \in Nat /\ GivenUp(p)' <= GivenUp(p)
  <2>1. \A i \in BackItems(p) : ItemQuantity[i] \in Nat
    BY <1>4 DEF Positive
  <2> QED BY <1>3, <1>4, <1>5, <2>1, SumGrows DEF GivenUp
<1>7. ASSUME \A i \in ItemsFor(p) : Returning(w, i) => BackBy(w, i)'
      PROVE  GivenUp(p)' = GivenUp(p)
  <2>1. \A i \in ItemsFor(p) : BackBy(w, i) => BackBy(w, i)'
    BY <1>7 DEF BackBy
  <2>2. BackItems(p)' = BackItems(p)
    BY <1>1, <1>2, <2>1, OthersReturn
  <2> QED BY <1>5, <2>2 DEF GivenUp
<1> QED BY <1>6, <1>7

LEMMA CalmKept ==
    ASSUME ShopInv, ShopInv', AccountsInv, NEW w \in Workers, Calm(w)
    PROVE  /\ AccountsInv'
           /\ (\A i : Returning(w, i)' <=> Returning(w, i)) /\ Exact => Exact'
<1>1. ASSUME NEW p \in Parts
      PROVE  /\ Rows' = Rows /\ Recording(p)' <= Recording(p) /\ GivenUp(p)' <= GivenUp(p)
             /\ Recording(p)' \in Nat /\ GivenUp(p)' \in Nat
             /\ (\A i : Returning(w, i)' <=> Returning(w, i)) => GivenUp(p)' = GivenUp(p)
  <2>1. /\ Rows' = Rows
        /\ Recording(p)' \in Nat /\ Recording(p)' <= Recording(p)
        /\ ItemsFor(p)' = ItemsFor(p)
        /\ \A S \in SUBSET ItemsFor(p) : SumOver(ItemQuantity', S) = SumOver(ItemQuantity, S)
    BY RowsStay DEF Calm, AccountsInv
  <2>2. \A i \in ItemsFor(p) : BackBy(w, i)' => BackBy(w, i)
    BY DEF BackBy, Calm
  <2>3. \A i \in ItemsFor(p) : item[i].reversed => item'[i].reversed
    BY DEF Calm
  <2>4. (\A i : Returning(w, i)' <=> Returning(w, i)) =>
           \A i \in ItemsFor(p) : Returning(w, i) => BackBy(w, i)'
    BY DEF BackBy
  <2> QED BY <2>1, <2>2, <2>3, <2>4, BackStays DEF Calm, AccountsInv
<1>2. Rows' = Rows
  BY DEF Calm, Rows
<1>3. ASSUME NEW p \in Parts
      PROVE  Recording(p)' <= log'[p].applied /\ GivenUp(p)' <= log'[p].reversed
  <2>1. Recording(p) \in Nat /\ GivenUp(p) \in Nat /\ log[p] \in LogRows
    BY AccountsTyped DEF AccountsInv
  <2>2. Recording(p)' \in Nat /\ GivenUp(p)' \in Nat
    BY <1>1
  <2>3. log'[p].applied = log[p].applied /\ log'[p].reversed = log[p].reversed
    BY DEF Calm
  <2>4. log[p].applied \in Int /\ log[p].reversed \in Int
    BY <2>1 DEF LogRows
  <2>5. Recording(p) <= log[p].applied /\ GivenUp(p) <= log[p].reversed
    BY DEF AccountsInv
  <2>6. Recording(p)' <= Recording(p) /\ GivenUp(p)' <= GivenUp(p)
    BY <1>1
  <2> QED BY <2>1, <2>2, <2>3, <2>4, <2>5, <2>6
<1>4. ASSUME \A i : Returning(w, i)' <=> Returning(w, i), Exact
      PROVE  Exact'
  <2>1. ASSUME NEW p \in Parts PROVE log'[p].reversed <= GivenUp(p)'
    BY <1>1, <1>4 DEF Exact, Calm
  <2> QED BY <2>1 DEF Exact
<1> QED BY <1>1, <1>2, <1>3, <1>4 DEF AccountsInv

LEMMA ConsumeKept ==
    ASSUME ShopInv, ShopInv', AccountsInv, NEW w \in Workers, Consume(w)
    PROVE  AccountsInv' /\ (Exact => Exact')
<1>1. PICK p0, n : p0 = ctx[w].part /\ n = ctx[w].quantity
  OBVIOUS
<1>2. /\ pc[w] = "part.take" /\ Goto(w, "part.item") /\ item' = item
      /\ log' = [log EXCEPT ![p0].applied = @ + n]
      /\ UNCHANGED calc
  BY <1>1 DEF Consume, At, workVars
<1>3. p0 \in Parts /\ n \in Positive
  BY <1>1, <1>2 DEF ShopInv, WorkOK, AddLocals
<1>4. OnlyMoves(w) /\ pc'[w] = "part.item" /\ ctx'[w] = ctx[w]
  BY <1>2, Continues DEF ShopLabels
<1>5. \A i : ~Returning(w, i) /\ ~Returning(w, i)'
  BY <1>2, <1>4 DEF Returning, Place, DreLabels
<1>6. ASSUME NEW p \in Parts
      PROVE  /\ Recording(p)' <= log'[p].applied
             /\ GivenUp(p)' <= log'[p].reversed
             /\ log'[p].reversed = log[p].reversed /\ GivenUp(p)' = GivenUp(p)
  <2>1. /\ IsFiniteSet(Flying(p)) /\ \A x \in Flying(p) : x \in Workers /\ Load[x] \in Positive
        /\ SumOver(ItemQuantity, ItemsFor(p)) \in Nat /\ SumOver(Load, Flying(p)) \in Nat
        /\ log[p] \in LogRows
    BY AccountsTyped DEF AccountsInv
  <2>2. ItemsFor(p)' = ItemsFor(p) /\ ItemQuantity' = ItemQuantity /\ BackItems(p)' = BackItems(p)
    <3>1. \A x \in Workers : \A i : Returning(x, i)' <=> Returning(x, i)
      BY <1>4, <1>5, OthersReturn
    <3> QED BY <1>2, <3>1 DEF ItemsFor, ItemQuantity, BackItems
  <2>3. \A x \in Flying(p) : Load'[x] = Load[x] /\ Load[x] \in Int
    BY <1>2, <1>4, <2>1 DEF Flying, Load, OnlyMoves, Positive
  <2>4. GivenUp(p)' = GivenUp(p)
    BY <2>2, AccountsNext DEF GivenUp
  <2>5. SumOver(Load', Flying(p)) = SumOver(Load, Flying(p))
    BY <2>1, <2>3, SumSame
  <2>6. log'[p].reversed = log[p].reversed
        /\ log'[p].applied = IF p = p0 THEN log[p].applied + n ELSE log[p].applied
    BY <1>2, <1>3, <2>1 DEF ShopInv, TablesOK, LogRows
  <2>7. CASE p = p0
    <3>1. w \notin Flying(p) /\ Flying(p)' = Flying(p) \cup {w} /\ Load'[w] = n
      BY <1>1, <1>2, <1>4, <2>7 DEF Flying, Load, OnlyMoves
    <3>2. n \in Int /\ \A x \in Flying(p) : Load'[x] \in Int
      BY <1>3, <2>3 DEF Positive
    <3>3. SumOver(Load', Flying(p)') = n + SumOver(Load, Flying(p))
      BY <2>1, <2>5, <3>1, <3>2, SumAdd
    <3> QED BY <2>1, <2>2, <2>4, <2>6, <2>7, <3>2, <3>3, AccountsNext DEF AccountsInv, Recording,
               LogRows
  <2>8. CASE p # p0
    <3>1. Flying(p)' = Flying(p)
      BY <1>1, <1>2, <1>4, <2>8 DEF Flying, OnlyMoves
    <3> QED BY <2>1, <2>2, <2>4, <2>5, <2>6, <2>8, <3>1, AccountsNext DEF AccountsInv, Recording
  <2> QED BY <2>7, <2>8
<1>7. Rows' = Rows
  BY <1>2 DEF Rows
<1> QED BY <1>6, <1>7 DEF AccountsInv, Exact

LEMMA CreateKept ==
    ASSUME ShopInv, ShopInv', AccountsInv, NEW w \in Workers, CreateItem(w)
    PROVE  AccountsInv' /\ (Exact => Exact')
<1>1. PICK p0, n : p0 = ctx[w].part /\ n = ctx[w].quantity
  OBVIOUS
<1>2. PICK i0 \in Items :
        /\ pc[w] = "part.item" /\ item[i0] = NULL
        /\ item' = [item EXCEPT ![i0] = [maintenance |-> ctx[w].maintenance, part |-> p0,
                                         quantity |-> n, reversed |-> FALSE]]
        /\ GotoWith(w, "part.post", [maintenance |-> ctx[w].maintenance, item |-> i0])
        /\ log' = log /\ UNCHANGED calc
  BY <1>1 DEF CreateItem, At, shelfVars
<1>3. p0 \in Parts /\ n \in Positive
  BY <1>1, <1>2 DEF ShopInv, WorkOK, AddLocals
<1>4. OnlyMoves(w) /\ pc'[w] = "part.post"
  BY <1>2, Continues DEF ShopLabels
<1>5. /\ item'[i0] # NULL /\ item'[i0].part = p0 /\ item'[i0].quantity = n
      /\ ~item'[i0].reversed
      /\ \A i \in Items : i # i0 => item'[i] = item[i]
  <2>1. item'[i0] = [maintenance |-> ctx[w].maintenance, part |-> p0, quantity |-> n,
                     reversed |-> FALSE]
        /\ \A i \in Items : i # i0 => item'[i] = item[i]
    BY <1>2 DEF ShopInv, TablesOK
  <2>2. ctx[w].maintenance \in Maintenances
    BY <1>2 DEF ShopInv, WorkOK, AddLocals
  <2>3. item'[i0] \in ItemRows
    BY <1>3, <2>1, <2>2 DEF ItemRows
  <2>4. item'[i0] # NULL
    BY <2>3, NoItem
  <2>5. item'[i0].part = p0 /\ item'[i0].quantity = n /\ ~item'[i0].reversed
    BY <2>1
  <2> QED BY <2>1, <2>4, <2>5
<1>6. \A x \in Workers : ~Returning(x, i0) /\ \A i : Returning(x, i)' <=> Returning(x, i)
  <2>1. \A i : ~Returning(w, i) /\ ~Returning(w, i)'
    BY <1>2, <1>4 DEF Returning, Place, DreLabels
  <2>2. ~Recorded(i0)
    BY <1>2, NoItem DEF Recorded
  <2>3. ASSUME NEW x \in Workers, Returning(x, i0) PROVE Recorded(i0)
    <3>1. CASE Place(x) \in {"remove.withdraw", "remove.mark"} /\ i0 = ctx[x].item
      BY <3>1 DEF ShopInv, WorkOK
    <3>2. CASE Place(x) \in {"cancel.withdraw", "cancel.mark"} /\ i0 = FirstOf(ctx[x].todo)
      <4>1. /\ ctx[x].todo \in SUBSET Items /\ ctx[x].todo # {}
            /\ \A i \in ctx[x].todo : Recorded(i)
        BY <3>2 DEF ShopInv, WorkOK, CancelLocals
      <4> QED BY <3>2, <4>1, FirstOfMany
    <3> QED BY <2>3, <3>1, <3>2 DEF Returning
  <2> QED BY <1>4, <2>1, <2>2, <2>3, OthersReturn
<1>7. ASSUME NEW p \in Parts
      PROVE  Recording(p)' = Recording(p) /\ GivenUp(p)' = GivenUp(p)
  <2>1. /\ IsFiniteSet(Flying(p)) /\ \A x \in Flying(p) : x \in Workers /\ Load[x] \in Positive
        /\ SumOver(ItemQuantity, ItemsFor(p)) \in Nat /\ SumOver(Load, Flying(p)) \in Nat
        /\ IsFiniteSet(ItemsFor(p)) /\ \A i \in ItemsFor(p) : ItemQuantity[i] \in Positive
        /\ BackItems(p) \subseteq ItemsFor(p) /\ IsFiniteSet(BackItems(p))
    BY AccountsTyped DEF AccountsInv
  <2>2. i0 \notin ItemsFor(p)
    BY <1>2 DEF ItemsFor
  <2>3. \A i \in ItemsFor(p) : ItemQuantity'[i] = ItemQuantity[i] /\ ItemQuantity[i] \in Int
    BY <1>5, <2>1, <2>2 DEF ItemsFor, ItemQuantity, Positive
  <2>4. SumOver(ItemQuantity', ItemsFor(p)) = SumOver(ItemQuantity, ItemsFor(p))
    BY <2>1, <2>3, SumSame
  <2>5. GivenUp(p)' = GivenUp(p)
    <3>1. BackItems(p)' = BackItems(p)
      BY <1>2, <1>5, <1>6 DEF BackItems, ItemsFor
    <3>2. SumOver(ItemQuantity', BackItems(p)) = SumOver(ItemQuantity, BackItems(p))
      BY <2>1, <2>3, SumSame
    <3> QED BY <3>1, <3>2, AccountsNext DEF GivenUp
  <2>6. CASE p = p0
    <3>1. ItemsFor(p)' = ItemsFor(p) \cup {i0} /\ ItemQuantity'[i0] = n
      BY <1>2, <1>5, <2>6 DEF ItemsFor, ItemQuantity
    <3>2. n \in Int /\ \A i \in ItemsFor(p) : ItemQuantity'[i] \in Int
      BY <1>3, <2>3 DEF Positive
    <3>3. SumOver(ItemQuantity', ItemsFor(p)') = n + SumOver(ItemQuantity, ItemsFor(p))
      BY <2>1, <2>2, <2>4, <3>1, <3>2, SumAdd
    <3>4. w \in Flying(p) /\ Flying(p)' = Flying(p) \ {w} /\ Load[w] = n
      BY <1>1, <1>2, <1>4, <2>6 DEF Flying, Load, OnlyMoves
    <3>5. \A x \in Flying(p)' : Load'[x] = Load[x]
      BY <1>4, <2>1, <3>4 DEF Load, OnlyMoves
    <3>6. \A x \in Flying(p) : Load[x] \in Int
      BY <2>1 DEF Positive
    <3>7. SumOver(Load, Flying(p)) = n + SumOver(Load, Flying(p)')
      BY <2>1, <3>4, <3>6, SumRemove
    <3>8. IsFiniteSet(Flying(p)')
      BY <2>1, <3>4, FS_Subset
    <3>9. SumOver(Load', Flying(p)') = SumOver(Load, Flying(p)')
      BY <3>4, <3>5, <3>6, <3>8, SumSame
    <3>10. SumOver(Load, Flying(p)') \in Int
      BY <3>4, <3>6, <3>8, SumInt
    <3> QED BY <2>1, <2>5, <3>2, <3>3, <3>7, <3>9, <3>10, AccountsNext DEF Recording
  <2>7. CASE p # p0
    <3>1. ItemsFor(p)' = ItemsFor(p)
      BY <1>2, <1>5, <2>7 DEF ItemsFor
    <3>2. Flying(p)' = Flying(p)
      BY <1>1, <1>2, <1>4, <2>7 DEF Flying, OnlyMoves
    <3>3. \A x \in Flying(p) : Load'[x] = Load[x] /\ Load[x] \in Int
      BY <1>1, <1>4, <2>1, <2>7 DEF Flying, Load, OnlyMoves, Positive
    <3>4. SumOver(Load', Flying(p)) = SumOver(Load, Flying(p))
      BY <2>1, <3>3, SumSame
    <3> QED BY <2>4, <2>5, <3>1, <3>2, <3>4, AccountsNext DEF Recording
  <2> QED BY <2>6, <2>7
<1>8. (IsFiniteSet(Rows))'
  <2>1. Rows' = Rows \cup {i0}
    BY <1>2, <1>5 DEF Rows
  <2> QED BY <2>1, FS_AddElement DEF AccountsInv
<1> QED BY <1>2, <1>7, <1>8 DEF AccountsInv, Exact

\* The item that handler w has before it on the way back
AtHand(w) == IF Place(w) = "cancel.next" THEN FirstOf(ctx[w].todo) ELSE ctx[w].item

LEMMA GivenBackKept ==
    ASSUME ShopInv, ShopInv', AccountsInv, NEW w \in Workers, NEW i0, Recorded(i0),
           NEW next, GiveBack(w, i0, next), OnlyMoves(w),
           \A i : ~Returning(w, i), \A i : Returning(w, i)' <=> i = i0, pc'[w] # "part.item"
    PROVE  AccountsInv' /\ (Exact /\ i0 \notin BackItems(item[i0].part) => Exact')
<1>1. PICK p0, n : p0 = item[i0].part /\ n = item[i0].quantity
  OBVIOUS
<1>2. log' = [log EXCEPT ![p0].reversed = @ + n] /\ item' = item
  BY <1>1 DEF GiveBack, workVars
<1>3. p0 \in Parts /\ n \in Positive /\ item[i0] # NULL /\ i0 \in Items
  BY <1>1, NoItem DEF Recorded, ItemRows
<1>4. ASSUME NEW p \in Parts
      PROVE  /\ Recording(p)' <= log'[p].applied
             /\ GivenUp(p)' <= log'[p].reversed
             /\ Exact /\ i0 \notin BackItems(p0) => log'[p].reversed <= GivenUp(p)'
  <2>1. /\ BackItems(p) \subseteq ItemsFor(p) /\ IsFiniteSet(BackItems(p))
        /\ \A i \in ItemsFor(p) : ItemQuantity[i] \in Positive
        /\ log[p] \in LogRows /\ Recording(p) \in Nat /\ GivenUp(p) \in Nat
    BY AccountsTyped DEF AccountsInv
  <2>2. Recording(p)' \in Nat /\ Recording(p)' <= Recording(p) /\ ItemQuantity' = ItemQuantity
    <3>1. Recording(p)' \in Nat /\ Recording(p)' <= Recording(p)
      BY <1>2, RowsStay DEF AccountsInv
    <3> QED BY <1>2, <3>1 DEF ItemQuantity
  <2>3. log'[p].applied = log[p].applied
        /\ log'[p].reversed = IF p = p0 THEN log[p].reversed + n ELSE log[p].reversed
    BY <1>2, <1>3, <2>1 DEF ShopInv, TablesOK, LogRows
  <2>4. Recording(p) <= log[p].applied /\ GivenUp(p) <= log[p].reversed
    BY DEF AccountsInv
  <2>5. log[p].applied \in Int /\ log[p].reversed \in Int /\ n \in Nat
    BY <1>3, <2>1 DEF LogRows, Positive
  <2>6. BackItems(p)' = IF p = p0 THEN BackItems(p) \cup {i0} ELSE BackItems(p)
    <3>1. \A i : (\E x \in Workers : Returning(x, i)') <=> i = i0 \/ \E x \in Workers : Returning(x, i)
      BY OthersReturn
    <3>2. \A i : i \in BackItems(p)' <=>
             /\ i \in ItemsFor(p)
             /\ item[i].reversed \/ i = i0 \/ \E x \in Workers : Returning(x, i)
      BY <1>2, <3>1 DEF BackItems, ItemsFor
    <3>3. i0 \in ItemsFor(p) <=> p = p0
      BY <1>1, <1>3 DEF ItemsFor
    <3>4. \A i : i \in BackItems(p) <=>
             i \in ItemsFor(p) /\ (item[i].reversed \/ \E x \in Workers : Returning(x, i))
      BY DEF BackItems
    <3> QED BY <3>2, <3>3, <3>4
  <2>7. \A i \in BackItems(p) : ItemQuantity[i] \in Int
    BY <2>1 DEF Positive
  <2>8. CASE p # p0 \/ i0 \in BackItems(p0)
    <3>1. GivenUp(p)' = GivenUp(p)
      BY <2>2, <2>6, <2>8, AccountsNext DEF GivenUp
    <3> QED BY <2>1, <2>2, <2>3, <2>4, <2>5, <2>8, <3>1 DEF Exact
  <2>9. CASE p = p0 /\ i0 \notin BackItems(p0)
    <3>1. ItemQuantity[i0] = n
      BY <1>1, <1>3 DEF ItemQuantity
    <3>2. GivenUp(p)' = n + GivenUp(p)
      BY <2>1, <2>2, <2>5, <2>6, <2>7, <2>9, <3>1, SumAdd, AccountsNext DEF GivenUp
    <3>3. Exact => log[p].reversed <= GivenUp(p)
      BY DEF Exact
    <3> QED BY <2>1, <2>2, <2>3, <2>4, <2>5, <2>9, <3>2, <3>3
  <2> QED BY <2>8, <2>9
<1>5. Rows' = Rows
  BY <1>2 DEF Rows
<1> QED BY <1>1, <1>4, <1>5 DEF AccountsInv, Exact

LEMMA ReturnKept ==
    ASSUME ShopInv, ShopInv', AccountsInv, NEW w \in Workers, RemoveReturn(w) \/ CancelReturn(w)
    PROVE  /\ AccountsInv'
           /\ Exact /\ AtHand(w) \notin BackItems(item[AtHand(w)].part) => Exact'
<1>1. PICK i0, next :
        /\ GiveBack(w, i0, next) /\ i0 = AtHand(w) /\ Recorded(i0)
        /\ \/ pc[w] = "remove.return" /\ next = "remove.withdraw" /\ i0 = ctx[w].item
           \/ pc[w] = "cancel.next" /\ next = "cancel.withdraw" /\ i0 = FirstOf(ctx[w].todo)
  <2>1. CASE RemoveReturn(w)
    <3>1. pc[w] = "remove.return" /\ GiveBack(w, ctx[w].item, "remove.withdraw")
      BY <2>1 DEF RemoveReturn, At
    <3>2. Recorded(ctx[w].item) /\ AtHand(w) = ctx[w].item
      BY <3>1 DEF ShopInv, WorkOK, Place, DreLabels, AtHand
    <3> QED BY <3>1, <3>2
  <2>2. CASE CancelReturn(w)
    <3>1. /\ pc[w] = "cancel.next" /\ GiveBack(w, FirstOf(ctx[w].todo), "cancel.withdraw")
          /\ ctx[w].todo # {}
      BY <2>2 DEF CancelReturn, At
    <3>2. Place(w) = "cancel.next"
      BY <3>1 DEF Place, DreLabels
    <3>3. ctx[w] \in CancelLocals /\ \A i \in ctx[w].todo : Recorded(i)
      BY <3>2 DEF ShopInv, WorkOK
    <3>4. Recorded(FirstOf(ctx[w].todo)) /\ AtHand(w) = FirstOf(ctx[w].todo)
      BY <3>1, <3>2, <3>3, FirstOfMany DEF CancelLocals, AtHand
    <3> QED BY <3>1, <3>4
  <2> QED BY <2>1, <2>2
<1>2. Goto(w, next) /\ UNCHANGED calc
  BY <1>1 DEF GiveBack
<1>3. OnlyMoves(w) /\ pc'[w] = next /\ ctx'[w] = ctx[w]
  BY <1>1, <1>2, Continues DEF ShopLabels
<1>4. \A i : ~Returning(w, i)
  BY <1>1 DEF Returning, Place, DreLabels
<1>5. \A i : Returning(w, i)' <=> i = i0
  BY <1>1, <1>3 DEF Returning, Place, DreLabels
<1> QED BY <1>1, <1>3, <1>4, <1>5, GivenBackKept

LEMMA MarkKept ==
    ASSUME ShopInv, ShopInv', AccountsInv, NEW w \in Workers, RemoveMark(w) \/ CancelMark(w)
    PROVE  AccountsInv' /\ (Exact => Exact')
<1>1. PICK i0 :
        /\ Recorded(i0) /\ item' = [item EXCEPT ![i0].reversed = TRUE] /\ log' = log
        /\ OnlyMoves(w) /\ pc'[w] # "part.item"
        /\ \A i : Returning(w, i) <=> i = i0
        /\ \A i : ~Returning(w, i)'
  <2>1. CASE RemoveMark(w)
    <3>1. /\ pc[w] = "remove.mark" /\ Goto(w, "costs.items")
          /\ item' = [item EXCEPT ![ctx[w].item].reversed = TRUE]
          /\ log' = log /\ UNCHANGED calc
      BY <2>1 DEF RemoveMark, At, shelfVars
    <3>2. Recorded(ctx[w].item)
      BY <3>1 DEF ShopInv, WorkOK, Place, DreLabels
    <3>3. OnlyMoves(w) /\ pc'[w] = "costs.items"
      BY <3>1, Continues DEF ShopLabels
    <3>4. \A i : Returning(w, i) <=> i = ctx[w].item
      BY <3>1 DEF Returning, Place, DreLabels
    <3>5. \A i : ~Returning(w, i)'
      BY <3>3 DEF Returning, Place, DreLabels
    <3> QED BY <3>1, <3>2, <3>3, <3>4, <3>5
  <2>2. CASE CancelMark(w)
    <3>1. /\ pc[w] = "cancel.mark"
          /\ GotoWith(w, "cancel.next", [ctx[w] EXCEPT !.todo = @ \ {FirstOf(@)}])
          /\ item' = [item EXCEPT ![FirstOf(ctx[w].todo)].reversed = TRUE]
          /\ log' = log /\ UNCHANGED calc
      BY <2>2 DEF CancelMark, At, shelfVars
    <3>2. Place(w) = "cancel.mark"
      BY <3>1 DEF Place, DreLabels
    <3>3. ctx[w] \in CancelLocals /\ ctx[w].todo # {} /\ \A i \in ctx[w].todo : Recorded(i)
      BY <3>2 DEF ShopInv, WorkOK
    <3>4. Recorded(FirstOf(ctx[w].todo))
      BY <3>3, FirstOfMany DEF CancelLocals
    <3>5. OnlyMoves(w) /\ pc'[w] = "cancel.next"
      BY <3>1, Continues DEF ShopLabels
    <3>6. \A i : Returning(w, i) <=> i = FirstOf(ctx[w].todo)
      BY <3>2 DEF Returning
    <3>7. \A i : ~Returning(w, i)'
      BY <3>5 DEF Returning, Place, DreLabels
    <3> QED BY <3>1, <3>4, <3>5, <3>6, <3>7
  <2> QED BY <2>1, <2>2
<1>2. item[i0] \in ItemRows /\ i0 \in Items
  BY <1>1 DEF Recorded
<1>3. \A i \in Items :
        /\ item'[i] = NULL <=> item[i] = NULL
        /\ item[i] # NULL => item'[i].part = item[i].part /\ item'[i].quantity = item[i].quantity
        /\ item[i] # NULL => (item'[i].reversed <=> item[i].reversed \/ i = i0)
  <2>1. \A i \in Items : item'[i] = IF i = i0 THEN [item[i0] EXCEPT !.reversed = TRUE] ELSE item[i]
    BY <1>1 DEF ShopInv, TablesOK
  <2>2. [item[i0] EXCEPT !.reversed = TRUE] \in ItemRows
    BY <1>2 DEF ItemRows
  <2>3. /\ [item[i0] EXCEPT !.reversed = TRUE].part = item[i0].part
        /\ [item[i0] EXCEPT !.reversed = TRUE].quantity = item[i0].quantity
        /\ [item[i0] EXCEPT !.reversed = TRUE].reversed
    BY <1>2 DEF ItemRows
  <2> QED BY <1>2, <2>1, <2>2, <2>3, NoItem
<1>4. ASSUME NEW p \in Parts
      PROVE  /\ Recording(p)' \in Nat /\ Recording(p)' <= Recording(p) /\ GivenUp(p)' = GivenUp(p)
             /\ Rows' = Rows
  <2>1. /\ Rows' = Rows
        /\ Recording(p)' \in Nat /\ Recording(p)' <= Recording(p)
        /\ ItemsFor(p)' = ItemsFor(p)
        /\ \A S \in SUBSET ItemsFor(p) : SumOver(ItemQuantity', S) = SumOver(ItemQuantity, S)
    BY <1>1, <1>3, RowsStay DEF AccountsInv
  <2>2. \A i \in ItemsFor(p) : BackBy(w, i)' <=> BackBy(w, i)
    BY <1>1, <1>3 DEF BackBy, ItemsFor
  <2>3. \A i \in ItemsFor(p) : item[i].reversed => item'[i].reversed
    BY <1>3 DEF ItemsFor
  <2>4. \A i \in ItemsFor(p) : Returning(w, i) => BackBy(w, i)'
    BY <2>2 DEF BackBy
  <2> QED BY <1>1, <2>1, <2>2, <2>3, <2>4, BackStays DEF AccountsInv
<1>5. Rows' = Rows
  BY <1>3 DEF Rows
<1>6. ASSUME NEW p \in Parts PROVE Recording(p)' <= log'[p].applied
  <2>1. Recording(p) \in Nat /\ log[p].applied \in Int
    BY AccountsTyped DEF AccountsInv, LogRows
  <2> QED BY <1>1, <1>4, <2>1 DEF AccountsInv
<1> QED BY <1>1, <1>4, <1>5, <1>6 DEF AccountsInv, Exact

LEMMA AccountsRequest ==
    ASSUME ShopInv, ShopInv', AccountsInv, NEW w \in Workers, Request(w), schedule # "ledger"
    PROVE  AccountsInv' /\ (Exact => Exact')
<1>1. Calm(w) /\ \A i : ~Returning(w, i)
  BY CalmRequest
<1>2. \A i : Returning(w, i)' <=> Returning(w, i)
  BY <1>1 DEF Calm
<1> QED BY <1>1, <1>2, CalmKept

LEMMA AccountsStep ==
    ASSUME ShopInv, ShopInv', AccountsInv, NEW w \in Workers, WorkshopStep(w)
    PROVE  /\ AccountsInv'
           /\ (RemoveReturn(w) \/ CancelReturn(w) => AtHand(w) \notin BackItems(item[AtHand(w)].part))
                /\ Exact => Exact'
<1>1. CASE Consume(w)
  BY <1>1, ConsumeKept
<1>2. CASE CreateItem(w)
  BY <1>2, CreateKept
<1>3. CASE RemoveReturn(w) \/ CancelReturn(w)
  BY <1>3, ReturnKept
<1>4. CASE RemoveMark(w) \/ CancelMark(w)
  BY <1>4, MarkKept
<1>5. CASE \/ LogFirstStock(w) \/ Move(w) \/ ConsumeCheck(w)
           \/ RecomputeReadItems(w) \/ RecomputeReadLabor(w) \/ RecomputeWrite(w)
           \/ PostItem(w) \/ RemoveWithdraw(w) \/ CompleteWrite(w) \/ CompletePost(w)
           \/ CancelWithdraw(w) \/ CancelWrite(w)
           \/ LedgerStep(w) /\ UNCHANGED <<shelfVars, workVars>>
  BY <1>5, CalmStep, CalmKept
<1> QED BY <1>1, <1>2, <1>3, <1>4, <1>5 DEF WorkshopStep, PartsStep, MaintenanceStep

LEMMA AccountsDeath ==
    ASSUME ShopInv, ShopInv', AccountsInv, NEW w \in Workers, WorkshopDie(w)
    PROVE  AccountsInv'
BY CalmDeath, CalmKept

-----------------------------------------------------------------------------
(* Handlers of the ledger leave the shop alone                             *)

LedgerLabels ==
    DreLabels \cup {"entry.delete", "acquisition.price", "acquisition.purchase",
                    "acquisition.extra", "commission.find", "commission.rule",
                    "commission.create"}

\* Where a handler of the ledger goes on after recalculate
AfterLabels == {"idle", "acquisition.extra", "commission.find", "commission.create"}

LedgerFrames ==
    /\ pc \in [Workers -> {"idle"} \cup LedgerLabels]
    /\ DOMAIN ctx = Workers /\ DOMAIN calc = Workers
    /\ \A w \in Workers : pc[w] \in DreLabels =>
          "next" \in DOMAIN calc[w] /\ calc[w].next \in AfterLabels

ShopClosed ==
    /\ item = [i \in Items |-> NULL]
    /\ log  = [p \in Parts |-> [net |-> 0, applied |-> 0, reversed |-> 0]]

LEMMA NobodyServices ==
    ASSUME LedgerFrames, NEW w \in Workers
    PROVE  ~PartsStep(w) /\ ~MaintenanceStep(w)
<1>1. pc[w] \in {"idle"} \cup LedgerLabels
  BY DEF LedgerFrames
<1>2. ~PartsStep(w)
  BY <1>1 DEF LedgerLabels, DreLabels, PartsStep, LogFirstStock, Move, ConsumeCheck, Consume, At
<1>3. ~MaintenanceStep(w)
  BY <1>1 DEF LedgerLabels, DreLabels, MaintenanceStep, RecomputeReadItems, RecomputeReadLabor,
     RecomputeWrite, CreateItem, PostItem, RemoveReturn, RemoveWithdraw, RemoveMark, CompleteWrite,
     CompletePost, CancelReturn, CancelWithdraw, CancelMark, CancelWrite, At
<1> QED BY <1>2, <1>3

\* A handler that goes on at a label of the ledger
LEMMA Proceeds ==
    ASSUME LedgerFrames, NEW w \in Workers, NEW label \in {"idle"} \cup LedgerLabels,
           pc' = [pc EXCEPT ![w] = label],
           \/ UNCHANGED ctx \/ \E l : ctx' = [ctx EXCEPT ![w] = l],
           \/ UNCHANGED calc \/ \E f : calc' = [calc EXCEPT ![w] = f],
           label \in DreLabels => "next" \in DOMAIN calc'[w] /\ calc'[w].next \in AfterLabels
    PROVE  LedgerFrames'
<1>1. ASSUME NEW x \in Workers, pc'[x] \in DreLabels
      PROVE  "next" \in DOMAIN calc'[x] /\ calc'[x].next \in AfterLabels
  <2>1. CASE x = w
    BY <1>1, <2>1 DEF LedgerFrames
  <2>2. CASE x # w
    BY <1>1, <2>2 DEF LedgerFrames
  <2> QED BY <2>1, <2>2
<1> QED BY <1>1 DEF LedgerFrames

LEMMA ProceedsToRecalculate ==
    ASSUME LedgerFrames, NEW w \in Workers, NEW v, NEW next \in AfterLabels,
           Recalculate(w, v, next),
           \/ UNCHANGED ctx \/ \E l : ctx' = [ctx EXCEPT ![w] = l]
    PROVE  LedgerFrames'
<1>1. /\ pc' = [pc EXCEPT ![w] = "dre.vehicle"]
      /\ calc' = [calc EXCEPT ![w] = [vehicle |-> v, next |-> next, price |-> 0, sums |-> NoDre]]
  BY DEF Recalculate
<1>2. "next" \in DOMAIN calc'[w] /\ calc'[w].next \in AfterLabels
  BY <1>1 DEF LedgerFrames
<1> QED BY <1>1, <1>2, Proceeds DEF LedgerLabels, DreLabels

LEMMA LedgerFramesRequest ==
    ASSUME LedgerFrames, NEW w \in Workers, LedgerRequest(w)
    PROVE  LedgerFrames'
<1>1. CASE \/ \E v \in Vehicles, kind \in EntryKinds, amount \in SmallAmounts : CreateManual(w, v, kind, amount)
           \/ \E s \in Sales, price \in Amounts : BookSale(w, s, price)
           \/ \E s \in Sales : CancelCommission(w, s)
           \/ \E s \in Sales, amount \in SmallAmounts : AdjustCommission(w, s, amount)
  <2>1. PICK v, next : next \in AfterLabels /\
          Recalculate(w, v, next) /\ (UNCHANGED ctx \/ \E l : ctx' = [ctx EXCEPT ![w] = l])
    BY <1>1 DEF CreateManual, Post, BookSale, CancelCommission, AdjustCommission, AfterLabels
  <2> QED BY <2>1, ProceedsToRecalculate
<1>2. CASE \/ \E e \in DOMAIN entries : RemoveEntry(w, e)
           \/ \E v \in Vehicles, price \in Amounts, extra \in SmallAmounts \cup {0}, confirm \in BOOLEAN :
                 CreateAcquisition(w, v, price, extra, confirm)
  <2>1. UNCHANGED calc /\ (\/ \E l : Begin(w, "entry.delete", l)
                           \/ \E l : Begin(w, "acquisition.price", l))
    BY <1>2 DEF RemoveEntry, CreateAcquisition
  <2>2. ASSUME NEW label \in {"entry.delete", "acquisition.price"}, NEW l, Begin(w, label, l)
        PROVE  LedgerFrames'
    BY <2>1, <2>2, Proceeds DEF Begin, LedgerLabels, DreLabels
  <2> QED BY <2>1, <2>2
<1>3. CASE \E s \in Sales, status \in {"APPROVED", "PAID"} : SettleCommission(w, s, status)
  BY <1>3 DEF SettleCommission, handlerVars, LedgerFrames
<1> QED BY <1>1, <1>2, <1>3 DEF LedgerRequest

LEMMA LedgerFramesStep ==
    ASSUME LedgerFrames, NEW w \in Workers, LedgerStep(w)
    PROVE  LedgerFrames'
<1>1. CASE DreStep(w)
  <2>1. /\ pc[w] \in DreLabels /\ "next" \in DOMAIN calc[w] /\ calc[w].next \in AfterLabels
    BY <1>1 DEF DreStep, DreReadVehicle, DreReadEntries, DreReadCommissions, DreSave, At,
       LedgerFrames, DreLabels
  <2>2. ASSUME NEW label \in DreLabels, pc' = [pc EXCEPT ![w] = label], UNCHANGED ctx,
               NEW f, calc' = [calc EXCEPT ![w] = f], "next" \in DOMAIN f, f.next = calc[w].next
        PROVE  LedgerFrames'
    <3>1. calc'[w] = f
      BY <2>2 DEF LedgerFrames
    <3> QED BY <2>1, <2>2, <3>1, Proceeds DEF LedgerLabels
  <2>3. CASE DreReadVehicle(w)
    <3> DEFINE f == [calc[w] EXCEPT !.price = purchasePrice[calc[w].vehicle]]
    <3>1. calc' = [calc EXCEPT ![w] = f] /\ pc' = [pc EXCEPT ![w] = "dre.entries"] /\ UNCHANGED ctx
      BY <2>3 DEF DreReadVehicle, Goto
    <3>2. "next" \in DOMAIN f /\ f.next = calc[w].next
      BY <2>1
    <3> QED BY <2>2, <3>1, <3>2 DEF DreLabels
  <2>4. CASE DreReadEntries(w)
    <3> DEFINE v == calc[w].vehicle
               f == [calc[w] EXCEPT
                       !.sums.revenue  = Sum(v, {"revenue"}),
                       !.sums.expenses = Sum(v, {"purchase", "expense"})
                          + (IF Sum(v, {"purchase"}) = 0 THEN calc[w].price ELSE 0)]
    <3>1. calc' = [calc EXCEPT ![w] = f]
          /\ pc' = [pc EXCEPT ![w] = "dre.commissions"] /\ UNCHANGED ctx
      BY <2>4 DEF DreReadEntries, Goto
    <3>2. "next" \in DOMAIN f /\ f.next = calc[w].next
      BY <2>1
    <3> QED BY <2>2, <3>1, <3>2 DEF DreLabels
  <2>5. CASE DreReadCommissions(w)
    <3> DEFINE f == [calc[w] EXCEPT
                       !.sums.commission = MapThenSumSet(LAMBDA s : commission[s].amount,
                                                         OpenCommissions(calc[w].vehicle))]
    <3>1. calc' = [calc EXCEPT ![w] = f] /\ pc' = [pc EXCEPT ![w] = "dre.save"] /\ UNCHANGED ctx
      BY <2>5 DEF DreReadCommissions, Goto
    <3>2. "next" \in DOMAIN f /\ f.next = calc[w].next
      BY <2>1
    <3> QED BY <2>2, <3>1, <3>2 DEF DreLabels
  <2>6. CASE DreSave(w)
    <3>1. /\ calc[w].next \in {"idle"} \cup LedgerLabels /\ calc[w].next \notin DreLabels
      BY <2>1 DEF AfterLabels, LedgerLabels, DreLabels
    <3>2. CASE calc[w].next = "idle"
      BY <2>6, <3>1, <3>2, Proceeds DEF DreSave, Return
    <3>3. CASE calc[w].next # "idle"
      BY <2>6, <3>1, <3>3, Proceeds DEF DreSave, Goto
    <3> QED BY <3>2, <3>3
  <2> QED BY <1>1, <2>3, <2>4, <2>5, <2>6 DEF DreStep
<1>2. ASSUME NEW v, NEW next \in AfterLabels, Recalculate(w, v, next),
             UNCHANGED ctx \/ \E l : ctx' = [ctx EXCEPT ![w] = l]
      PROVE  LedgerFrames'
  BY <1>2, ProceedsToRecalculate
<1>3. ASSUME NEW label \in {"idle", "acquisition.purchase", "commission.rule", "commission.create"},
             pc' = [pc EXCEPT ![w] = label],
             UNCHANGED ctx \/ \E l : ctx' = [ctx EXCEPT ![w] = l],
             UNCHANGED calc \/ \E f : calc' = [calc EXCEPT ![w] = f]
      PROVE  LedgerFrames'
  <2>1. label \in {"idle"} \cup LedgerLabels /\ label \notin DreLabels
    BY DEF LedgerLabels, DreLabels
  <2> QED BY <1>3, <2>1, Proceeds
<1>4. CASE EntryStep(w)
  <2>1. CASE DeleteEntry(w)
    BY <1>2, <2>1 DEF DeleteEntry, AfterLabels
  <2>2. CASE DeleteEntryGone(w)
    BY <1>3, <2>2 DEF DeleteEntryGone, Return
  <2> QED BY <1>4, <2>1, <2>2 DEF EntryStep
<1>5. CASE AcquisitionStep(w)
  <2>1. CASE AcquisitionPrice(w)
    BY <1>3, <2>1 DEF AcquisitionPrice, Return, Goto
  <2>2. CASE AcquisitionPost(w)
    <3>1. PICK v, next : next \in AfterLabels /\ Recalculate(w, v, next) /\ UNCHANGED ctx
      BY <2>2 DEF AcquisitionPost, Post, AfterLabels
    <3> QED BY <1>2, <3>1
  <2>3. CASE AcquisitionPostExtra(w)
    <3>1. PICK v, next : next \in AfterLabels /\ Recalculate(w, v, next) /\ UNCHANGED ctx
      BY <2>3 DEF AcquisitionPostExtra, Post, AfterLabels
    <3> QED BY <1>2, <3>1
  <2> QED BY <1>5, <2>1, <2>2, <2>3 DEF AcquisitionStep
<1>6. CASE CommissionStep(w)
  <2>1. CASE FindCommission(w)
    BY <1>3, <2>1 DEF FindCommission, Return, Goto
  <2>2. CASE ResolveRule(w)
    BY <1>2, <1>3, <2>2 DEF ResolveRule, AfterLabels
  <2>3. CASE CreateCommission(w)
    BY <1>2, <1>3, <2>3 DEF CreateCommission, Return, AfterLabels
  <2> QED BY <1>6, <2>1, <2>2, <2>3 DEF CommissionStep
<1> QED BY <1>1, <1>4, <1>5, <1>6 DEF LedgerStep

LEMMA LedgerFramesDeath ==
    ASSUME LedgerFrames, NEW w \in Workers, LedgerDie(w)
    PROVE  LedgerFrames'
BY Proceeds DEF LedgerDie, Die, DreLabels

-----------------------------------------------------------------------------
(* Every item is accounted for                                             *)

ItemsInv ==
    /\ BooksInv
    /\ schedule # "ledger" => AccountsInv
    /\ schedule = "ledger" => LedgerFrames /\ ShopClosed

LEMMA ItemsStart == ASSUME BooksInit PROVE ItemsInv
<1> USE DEF BooksInit, WorkshopInit, LedgerInit, HandlersInit
<1>1. BooksInv
  BY BooksStart
<1>2. Rows = {} /\ \A p \in Parts : ItemsFor(p) = {} /\ BackItems(p) = {} /\ Flying(p) = {}
  BY DEF Rows, ItemsFor, BackItems, Flying
<1>3. \A p \in Parts : Recording(p) = 0 /\ GivenUp(p) = 0
  <2>1. SumOver(ItemQuantity, {}) = 0 /\ SumOver(Load, {}) = 0
    BY SumEmpty
  <2>2. ASSUME NEW p \in Parts PROVE Recording(p) = 0 /\ GivenUp(p) = 0
    <3>1. ItemsFor(p) = {} /\ BackItems(p) = {} /\ Flying(p) = {}
      BY <1>2
    <3>2. Recording(p) = 0 + 0
      BY <2>1, <3>1 DEF Recording
    <3>3. GivenUp(p) = 0
      BY <2>1, <3>1 DEF GivenUp
    <3> QED BY <3>2, <3>3
  <2> QED BY <2>2
<1>4. AccountsInv
  BY <1>2, <1>3, FS_EmptySet DEF AccountsInv
<1>5. LedgerFrames /\ ShopClosed
  BY DEF LedgerFrames, ShopClosed, DreLabels
<1> QED BY <1>1, <1>4, <1>5 DEF ItemsInv

LEMMA ItemsKept == ASSUME ItemsInv, [BooksNext]_booksVars PROVE ItemsInv'
<1>1. BooksInv'
  BY BooksKept DEF ItemsInv
<1>2. CASE UNCHANGED booksVars
  <2> USE <1>2 DEF booksVars, workshopVars, shelfVars, workVars, ledgerVars, bookVars, handlerVars
  <2>1. (LedgerFrames => LedgerFrames') /\ (ShopClosed => ShopClosed') /\ schedule' = schedule
    BY DEF LedgerFrames, ShopClosed
  <2>2. ASSUME AccountsInv PROVE AccountsInv'
    <3>1. Rows' = Rows /\ ItemQuantity' = ItemQuantity /\ Load' = Load
      BY DEF Rows, ItemQuantity, Load
    <3>2. ASSUME NEW p \in Parts PROVE Recording(p)' = Recording(p) /\ GivenUp(p)' = GivenUp(p)
      <4>1. \A x \in Workers : \A i : Returning(x, i)' <=> Returning(x, i)
        BY DEF Returning, Place
      <4>2. ItemsFor(p)' = ItemsFor(p) /\ BackItems(p)' = BackItems(p) /\ Flying(p)' = Flying(p)
        BY <4>1 DEF ItemsFor, BackItems, Flying
      <4> QED BY <3>1, <4>2, AccountsNext DEF Recording, GivenUp
    <3> QED BY <2>2, <3>1, <3>2 DEF AccountsInv
  <2> QED BY <1>1, <2>1, <2>2 DEF ItemsInv
<1>3. CASE BooksNext
  <2>1. PICK w \in Workers : /\ Request(w) \/ WorkshopStep(w) \/ WorkshopDie(w)
                             /\ schedule' = schedule
    BY <1>3 DEF BooksNext
  <2>2. ASSUME schedule # "ledger" PROVE AccountsInv'
    <3>1. ShopInv /\ ShopInv' /\ AccountsInv
      BY <1>1, <2>1, <2>2 DEF BooksInv, ItemsInv
    <3> QED BY <2>1, <2>2, <3>1, AccountsRequest, AccountsStep, AccountsDeath
  <2>3. ASSUME schedule = "ledger" PROVE LedgerFrames' /\ ShopClosed'
    <3>1. LedgerFrames /\ ShopClosed
      BY <2>3 DEF ItemsInv
    <3>2. CASE Request(w)
      <4>1. LedgerRequest(w) /\ UNCHANGED <<item, log>>
        BY <2>3, <3>2 DEF Request, shelfVars, workVars
      <4> QED BY <3>1, <4>1, LedgerFramesRequest DEF ShopClosed
    <3>3. CASE WorkshopStep(w)
      <4>1. LedgerStep(w) /\ UNCHANGED <<item, log>>
        BY <3>1, <3>3, NobodyServices DEF WorkshopStep, shelfVars, workVars
      <4> QED BY <3>1, <4>1, LedgerFramesStep DEF ShopClosed
    <3>4. CASE WorkshopDie(w)
      <4>1. LedgerDie(w) /\ UNCHANGED <<item, log>>
        BY <3>4 DEF WorkshopDie, shelfVars, workVars
      <4> QED BY <3>1, <4>1, LedgerFramesDeath DEF ShopClosed
    <3> QED BY <2>1, <3>2, <3>3, <3>4
  <2> QED BY <1>1, <2>1, <2>2, <2>3 DEF ItemsInv
<1> QED BY <1>2, <1>3

LEMMA ItemsStay == BooksSpec => []ItemsInv
BY ItemsStart, ItemsKept, PTL DEF BooksSpec

\* A maintenance never records a part that has not left the stock, nor marks one as reversed
\* that has not come back, whatever overlaps and whatever dies (maintenance.service.ts:144-160,
\* 196-210).
THEOREM EveryItemAccounted == BooksSpec => []ItemsAreAccounted
<1>1. ItemsInv => ItemsAreAccounted
  <2> SUFFICES ASSUME ItemsInv, NEW p \in Parts
               PROVE  /\ QuantityOf(p, Items) <= log[p].applied
                      /\ QuantityOf(p, {i \in Items : item[i] # NULL /\ item[i].reversed})
                            <= log[p].reversed
    BY DEF ItemsAreAccounted
  <2> DEFINE marked == {i \in Items : item[i] # NULL /\ item[i].reversed}
             Marks  == {i \in marked : item[i] # NULL /\ item[i].part = p}
  <2>1. CASE schedule # "ledger"
    <3>1. ShopInv /\ AccountsInv
      BY <2>1 DEF ItemsInv, BooksInv
    <3>2. /\ IsFiniteSet(ItemsFor(p)) /\ IsFiniteSet(BackItems(p))
          /\ BackItems(p) \subseteq ItemsFor(p)
          /\ \A i \in ItemsFor(p) : ItemQuantity[i] \in Positive
          /\ SumOver(ItemQuantity, ItemsFor(p)) \in Nat
          /\ SumOver(Load, Flying(p)) \in Nat /\ log[p] \in LogRows
      BY <3>1, AccountsTyped DEF AccountsInv
    <3>3. Marks \subseteq BackItems(p)
      BY DEF BackItems, ItemsFor
    <3>4. IsFiniteSet(Marks)
      BY <3>2, <3>3, FS_Subset
    <3>5. \A i \in ItemsFor(p) : /\ item[i].quantity \in Int /\ ItemQuantity[i] \in Nat
      BY <3>2 DEF ItemQuantity, ItemsFor, Positive
    <3>6. QuantityOf(p, Items) = SumOver(ItemQuantity, ItemsFor(p))
      BY <3>2, <3>5, QuantityIsSum DEF ItemsFor
    <3>7. QuantityOf(p, marked) = SumOver(ItemQuantity, Marks)
      BY <3>2, <3>3, <3>4, <3>5, QuantityIsSum
    <3>8. SumOver(ItemQuantity, Marks) \in Nat /\ SumOver(ItemQuantity, Marks) <= GivenUp(p)
          /\ GivenUp(p) \in Nat
      BY <3>2, <3>3, <3>5, SumGrows DEF GivenUp
    <3>9. Recording(p) <= log[p].applied /\ GivenUp(p) <= log[p].reversed
      BY <3>1 DEF AccountsInv
    <3>10. log[p].applied \in Int /\ log[p].reversed \in Int
      BY <3>2 DEF LogRows
    <3>11. SumOver(ItemQuantity, ItemsFor(p)) <= log[p].applied
      BY <3>2, <3>9, <3>10 DEF Recording
    <3>12. SumOver(ItemQuantity, Marks) <= log[p].reversed
      BY <3>8, <3>9, <3>10
    <3> QED BY <3>6, <3>7, <3>11, <3>12
  <2>2. CASE schedule = "ledger"
    <3>1. ShopClosed
      BY <2>2 DEF ItemsInv
    <3>2. \A items \in SUBSET Items : {i \in items : item[i] # NULL /\ item[i].part = p} = {}
      BY <3>1 DEF ShopClosed
    <3>3. IsFiniteSet({})
      BY FS_EmptySet
    <3>4. \A items \in SUBSET Items : QuantityOf(p, items) = 0
      BY <3>2, <3>3, QuantityIsSum, SumEmpty
    <3>5. log[p].applied = 0 /\ log[p].reversed = 0
      BY <3>1 DEF ShopClosed
    <3>6. Items \in SUBSET Items /\ marked \in SUBSET Items
      OBVIOUS
    <3>7. QuantityOf(p, Items) = 0 /\ QuantityOf(p, marked) = 0
      BY <3>4, <3>6
    <3> QED BY <3>5, <3>7
  <2> QED BY <2>1, <2>2
<1> QED BY <1>1, ItemsStay, PTL
=============================================================================
