------------------------------- MODULE Books -------------------------------
(***************************************************************************)
(* The ledger and the workshop over one database, under the schedules      *)
(* their properties are about:                                             *)
(*   "ledger"    entries, acquisitions and commissions, one handler at a   *)
(*               time, which may die;                                      *)
(*   "workshop"  stock room and maintenances, one handler at a time;       *)
(*   "overlap"   maintenances only, which overlap and may die.             *)
(***************************************************************************)
EXTENDS Workshop

CONSTANTS
    Schedules,
    OverlapQuantities,  \* bounds: quantities and labour costs of requests that overlap
    OverlapLaborCosts

ASSUME BooksAssumption ==
    /\ Schedules \subseteq {"ledger", "workshop", "overlap"}
    /\ OverlapQuantities \subseteq Quantities
    /\ OverlapLaborCosts \subseteq LaborCosts

VARIABLE schedule

booksVars == <<workshopVars, schedule>>

BooksInit == WorkshopInit /\ schedule \in Schedules

Request(w) ==
    \/ /\ schedule = "ledger" /\ Quiet
       /\ LedgerRequest(w)
       /\ UNCHANGED <<shelfVars, workVars>>
    \/ /\ schedule = "workshop" /\ Quiet
       /\ \/ RegisterPart(w, Quantities)
          \/ PartsRequest(w)
          \/ MaintenanceRequest(w, Quantities, LaborCosts)
    \/ /\ schedule = "overlap"
       /\ \/ RegisterPart(w, OverlapQuantities)
          \/ MaintenanceRequest(w, OverlapQuantities, OverlapLaborCosts)

BooksNext ==
    \E w \in Workers :
       /\ Request(w) \/ WorkshopStep(w) \/ (schedule # "workshop" /\ WorkshopDie(w))
       /\ UNCHANGED schedule

BooksSpec == BooksInit /\ [][BooksNext]_booksVars

-----------------------------------------------------------------------------
\* Rows and locals keep their shape; only a handler at work has a frame of recalculate
\* (dre.service.ts:23).
BooksTypeOK ==
    /\ \A w \in Workers : (pc[w] = "idle") = (ctx[w] = NULL /\ calc[w] = NULL)
    /\ DOMAIN entries \subseteq EntryRows({NULL}
          \cup ({"acquisition", "acquisition-extra"} \X Vehicles) \cup ({"sale"} \X Sales)
          \cup ({"parts"} \X Items) \cup ({"maintenance"} \X Maintenances))
    /\ \A v \in Vehicles : dre[v] # NULL => DOMAIN dre[v] = DOMAIN NoDre
    /\ \A p \in Parts : quantity[p] \in Int \cup {NULL}
    /\ failures \in 0 .. MaxFailures

\* One handler at a time, the DRE of a vehicle says what its entries and commissions do, and the
\* entries and costs of a maintenance what its items do (DreService.recalculate,
\* MaintenanceService, src/docs/BUSINESS_RULES.md:27-54).
BooksBalance ==
    /\ schedule = "ledger" => DreFollowsEntries
    /\ schedule = "workshop" => BooksFollowItems

\* However maintenances overlap, the movement log explains the stock of a part to the unit
\* (PartsService.consumeForMaintenance, parts.service.ts:222-268).
MaintenanceStockIsLogged == schedule = "overlap" => StockIsLogged

\* A DRE that is saved with another value is the one of the documented formula, even after
\* handlers have died half-way (DreService.recalculate, src/docs/BUSINESS_RULES.md:52-54).
LedgerSavedByFormula == [][schedule = "ledger" => DreByFormula]_booksVars

\* Stock room and workshop implement Shelf: a part on a vehicle was on the shelf, and only
\* what is on vehicles comes back (BUSINESS_RULES.md:22-34).
KeepsShelf ==
    /\ schedule = "workshop" => Shelved!Init
    /\ [][schedule = "workshop" => Shelved!Next]_booksVars
=============================================================================
