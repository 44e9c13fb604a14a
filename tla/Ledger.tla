------------------------------- MODULE Ledger -------------------------------
(***************************************************************************)
(* The books of a vehicle: FinancialService, DreService, AcquisitionsService*)
(* and CommissionsService.                                                 *)
(*                                                                         *)
(* Every operation writes an entry, a price or a commission and then calls *)
(* recalculate, which reads the three again in separate calls and          *)
(* overwrites the VehicleDre row.  The frame of that call is calc[w]; the  *)
(* handler resumes at calc[w].next.  Money is a small integer.             *)
(***************************************************************************)
EXTENDS Handlers, Bags, FiniteSetsExt, Sequences

CONSTANTS
    Vehicles,     \* ids of the vehicle rows
    Sales,        \* ids of the completed sales
    SoldVehicle,  \* SoldVehicle[s]: the vehicle of sale s
    Amounts,      \* prices of purchases and sales
    SmallAmounts, \* manual entries, additional costs, adjusted commissions
    Rules,        \* active commission rules
    MaxEntries    \* bound: rows of FinancialEntry a request that posts more may find

ASSUME LedgerAssumption ==
    /\ SoldVehicle \in [Sales -> Vehicles]
    /\ Amounts \subseteq Nat \ {0}
    /\ SmallAmounts \subseteq Nat \ {0}
    /\ MaxEntries \in Nat

\* What CreateCommissionRuleDto admits; it sets no limits to the numbers.
ASSUME RulesAssumption ==
    Rules \subseteq
        [type : {"PERCENT_SALE", "PERCENT_PROFIT"}, percentage : Int]
        \cup [type : {"FIXED"}, fixedAmount : Int]
        \cup [type : {"PROGRESSIVE"},
              tiers : Seq([min : Int, max : Int \cup {NULL}, percentage : Int])]

CommissionStatuses == {"PENDING", "APPROVED", "PAID", "CANCELED"}

ASSUME NoCommissionAssumption == NULL \notin [status : CommissionStatuses, amount : Int]

VARIABLES
    entries,        \* bag of FinancialEntry rows
    purchasePrice,  \* purchasePrice[v]: Vehicle.purchasePrice
    acquisition,    \* acquisition[v]: status of the VehicleAcquisition row, or NULL
    commission,     \* commission[s]: the Commission row of sale s, or NULL
    sold,           \* sold[s]: the final price of sale s once completed, or NULL
    dre,            \* dre[v]: the VehicleDre row, or NULL
    calc            \* calc[w]: the frame of w's last call of recalculate, or NULL

bookVars   == <<entries, purchasePrice, acquisition, commission, sold, dre>>
ledgerVars == <<bookVars, calc, handlerVars>>

\* Nature and category of an entry, as far as recalculate tells them apart.
EntryKinds == {"revenue", "purchase", "commission", "expense"}

EntryRows(refs) == [vehicle : Vehicles, kind : EntryKinds, ref : refs, amount : Int]

NoDre == [revenue |-> 0, expenses |-> 0, commission |-> 0]

LedgerInit ==
    /\ HandlersInit
    /\ entries       = EmptyBag
    /\ purchasePrice = [v \in Vehicles |-> 0]
    /\ acquisition   = [v \in Vehicles |-> NULL]
    /\ commission    = [s \in Sales |-> NULL]
    /\ sold          = [s \in Sales |-> NULL]
    /\ dre           = [v \in Vehicles |-> NULL]
    /\ calc          = [w \in Workers |-> NULL]

-----------------------------------------------------------------------------
(* DreService.recalculate                                                  *)

Entry(v, kind, ref, amount) ==
    [vehicle |-> v, kind |-> kind, ref |-> ref, amount |-> amount]

Insert(e) == entries' = entries (+) SetToBag({e})

\* deleteMany({ sourceModule, externalRef })
DeleteByRef(ref) ==
    entries' = [e \in {x \in DOMAIN entries : x.ref # ref} |-> entries[e]]

Sum(v, kinds) ==
    MapThenSumSet(LAMBDA e : e.amount * entries[e],
                  {e \in DOMAIN entries : e.vehicle = v /\ e.kind \in kinds})

PostingsOf(ref) ==
    MapThenSumSet(LAMBDA e : entries[e], {e \in DOMAIN entries : e.ref = ref})

OpenCommissions(v) ==
    {s \in Sales : /\ SoldVehicle[s] = v
                   /\ commission[s] # NULL
                   /\ commission[s].status # "CANCELED"}

NetProfit(d) == d.revenue - d.expenses - d.commission

\* await this.dre.recalculate(v), then go on at label next
Recalculate(w, v, next) ==
    /\ pc' = [pc EXCEPT ![w] = "dre.vehicle"]
    /\ calc' = [calc EXCEPT ![w] =
                  [vehicle |-> v, next |-> next, price |-> 0, sums |-> NoDre]]

DreReadVehicle(w) ==
    /\ At(w, "dre.vehicle")
    /\ Goto(w, "dre.entries")
    /\ calc' = [calc EXCEPT ![w].price = purchasePrice[calc[w].vehicle]]
    /\ UNCHANGED bookVars

\* Mutant: the purchase price is always added.
DreReadEntriesAlways(w) ==
    LET v == calc[w].vehicle IN
    /\ At(w, "dre.entries")
    /\ Goto(w, "dre.commissions")
    /\ calc' = [calc EXCEPT ![w].sums.revenue  = Sum(v, {"revenue"}),
                            ![w].sums.expenses = Sum(v, {"purchase", "expense"}) + calc[w].price]
    /\ UNCHANGED bookVars

DreReadEntries(w) ==
    LET v == calc[w].vehicle IN
    /\ At(w, "dre.entries")
    /\ Goto(w, "dre.commissions")
    /\ calc' = [calc EXCEPT ![w].sums.revenue  = Sum(v, {"revenue"}),
                            ![w].sums.expenses =
                               Sum(v, {"purchase", "expense"})
                               + (IF Sum(v, {"purchase"}) = 0 THEN calc[w].price ELSE 0)]
    /\ UNCHANGED bookVars

DreReadCommissions(w) ==
    /\ At(w, "dre.commissions")
    /\ Goto(w, "dre.save")
    /\ calc' = [calc EXCEPT ![w].sums.commission =
                  MapThenSumSet(LAMBDA s : commission[s].amount,
                                OpenCommissions(calc[w].vehicle))]
    /\ UNCHANGED bookVars

\* The upsert overwrites whatever another run has saved since the reads above.
DreSave(w) ==
    /\ At(w, "dre.save")
    /\ dre' = [dre EXCEPT ![calc[w].vehicle] = calc[w].sums]
    /\ IF calc[w].next = "idle"
       THEN Return(w) /\ calc' = [calc EXCEPT ![w] = NULL]
       ELSE Goto(w, calc[w].next) /\ UNCHANGED calc
    /\ UNCHANGED <<entries, purchasePrice, acquisition, commission, sold>>

DreStep(w) ==
    DreReadVehicle(w) \/ DreReadEntries(w) \/ DreReadCommissions(w) \/ DreSave(w)

-----------------------------------------------------------------------------
(* FinancialService                                                        *)

\* addAutomaticEntry(e), then go on at label next
Post(w, e, next) ==
    /\ Insert(e)
    /\ Recalculate(w, e.vehicle, next)
    /\ UNCHANGED <<purchasePrice, acquisition, commission, sold, dre>>

\* removeBySourceRef(ref, v), then go on at label next
Withdraw(w, ref, v, next) ==
    /\ DeleteByRef(ref)
    /\ Recalculate(w, v, next)
    /\ UNCHANGED <<purchasePrice, acquisition, commission, sold, dre>>

\* POST /financial-entries
CreateManual(w, v, kind, amount) ==
    /\ pc[w] = "idle"
    /\ BagCardinality(entries) < MaxEntries
    /\ Post(w, Entry(v, kind, NULL, amount), "idle")
    /\ UNCHANGED <<ctx, failures>>

\* DELETE /financial-entries/:id: the row is read here and deleted below
RemoveEntry(w, e) ==
    /\ BagIn(e, entries)
    /\ Begin(w, "entry.delete", e)
    /\ UNCHANGED <<bookVars, calc>>

DeleteEntry(w) ==
    /\ At(w, "entry.delete")
    /\ BagIn(ctx[w], entries)
    /\ entries' = entries (-) SetToBag({ctx[w]})
    /\ Recalculate(w, ctx[w].vehicle, "idle")
    /\ UNCHANGED <<purchasePrice, acquisition, commission, sold, dre, ctx, failures>>

\* Deleted by another request meanwhile: the call rejects.
DeleteEntryGone(w) ==
    /\ At(w, "entry.delete")
    /\ ~BagIn(ctx[w], entries)
    /\ Return(w)
    /\ UNCHANGED <<bookVars, calc>>

EntryStep(w) == DeleteEntry(w) \/ DeleteEntryGone(w)

-----------------------------------------------------------------------------
(* AcquisitionsService.create                                              *)

\* The row is upserted: the acquisition may be registered again, draft or confirmed.
CreateAcquisition(w, v, price, extra, confirm) ==
    /\ BagCardinality(entries) < MaxEntries
    /\ Begin(w, "acquisition.price",
             [vehicle |-> v, price |-> price, extra |-> extra, confirm |-> confirm])
    /\ acquisition' = [acquisition EXCEPT ![v] = IF confirm THEN "CONFIRMED" ELSE "DRAFT"]
    /\ UNCHANGED <<entries, purchasePrice, commission, sold, dre, calc>>

AcquisitionPrice(w) ==
    LET a == ctx[w] IN
    /\ At(w, "acquisition.price")
    /\ purchasePrice' = [purchasePrice EXCEPT ![a.vehicle] = a.price]
    /\ IF a.confirm THEN Goto(w, "acquisition.purchase") ELSE Return(w)
    /\ UNCHANGED <<entries, acquisition, commission, sold, dre, calc>>

AcquisitionPost(w) ==
    LET a == ctx[w] IN
    /\ At(w, "acquisition.purchase")
    /\ Post(w, Entry(a.vehicle, "purchase", <<"acquisition", a.vehicle>>, a.price),
            IF a.extra > 0 THEN "acquisition.extra" ELSE "idle")
    /\ UNCHANGED <<ctx, failures>>

AcquisitionPostExtra(w) ==
    LET a == ctx[w] IN
    /\ At(w, "acquisition.extra")
    /\ Post(w, Entry(a.vehicle, "expense", <<"acquisition-extra", a.vehicle>>, a.extra), "idle")
    /\ UNCHANGED <<ctx, failures>>

AcquisitionStep(w) == AcquisitionPrice(w) \/ AcquisitionPost(w) \/ AcquisitionPostExtra(w)

-----------------------------------------------------------------------------
(* CommissionsService                                                      *)

Percent(base, percentage) == (base * percentage) \div 100

\* The first tier that holds the price; 0 % when there is none.
TierPercentage(tiers, price) ==
    LET holds(i) == price >= tiers[i].min /\ (tiers[i].max = NULL \/ price <= tiers[i].max)
        hits     == {i \in DOMAIN tiers : holds(i)}
    IN  IF hits = {} THEN 0
        ELSE tiers[CHOOSE i \in hits : \A j \in hits : i <= j].percentage

ComputeAmount(rule, price, net) ==
    CASE rule.type = "PERCENT_SALE"   -> Percent(price, rule.percentage)
      [] rule.type = "PERCENT_PROFIT" -> Percent(IF net > 0 THEN net ELSE 0, rule.percentage)
      [] rule.type = "FIXED"          -> rule.fixedAmount
      [] rule.type = "PROGRESSIVE"    -> Percent(price, TierPercentage(rule.tiers, price))

\* What SalesService.complete does after it has written the sale: the revenue, then
\* generateForSale.  The rest of complete is in module Sales of the commercial models.
BookSale(w, s, price) ==
    /\ pc[w] = "idle"
    /\ sold[s] = NULL
    /\ BagCardinality(entries) < MaxEntries
    /\ sold'    = [sold EXCEPT ![s] = price]
    /\ Insert(Entry(SoldVehicle[s], "revenue", <<"sale", s>>, price))
    /\ Recalculate(w, SoldVehicle[s], "commission.find")
    /\ ctx'     = [ctx EXCEPT ![w] = [sale |-> s, rule |-> NULL]]
    /\ UNCHANGED <<purchasePrice, acquisition, commission, dre, failures>>

\* generateForSale: an existing commission is returned as it is
FindCommission(w) ==
    /\ At(w, "commission.find")
    /\ IF commission[ctx[w].sale] # NULL THEN Return(w) ELSE Goto(w, "commission.rule")
    /\ UNCHANGED <<bookVars, calc>>

\* Mutant: the profit is not recalculated, and stays at its initial 0.
ResolveRuleBlind(w) ==
    \E rule \in Rules \cup {NULL} :
       /\ At(w, "commission.rule")
       /\ GotoWith(w, "commission.create", [ctx[w] EXCEPT !.rule = rule])
       /\ calc' = [calc EXCEPT ![w].sums = NoDre]
       /\ UNCHANGED bookVars

\* resolveRule: the active default rule of the seller, else of the shop, else none.
\* Sellers and rules are edited elsewhere, so that any rule may come out.
ResolveRule(w) ==
    \E rule \in Rules \cup {NULL} :
       /\ At(w, "commission.rule")
       /\ ctx' = [ctx EXCEPT ![w].rule = rule]
       /\ IF rule # NULL /\ rule.type = "PERCENT_PROFIT"
          THEN Recalculate(w, SoldVehicle[ctx[w].sale], "commission.create")
          ELSE /\ pc' = [pc EXCEPT ![w] = "commission.create"]
               /\ UNCHANGED calc
       /\ UNCHANGED <<bookVars, failures>>

CreateCommission(w) ==
    LET s == ctx[w].sale
        rule == ctx[w].rule
    IN
    /\ At(w, "commission.create")
    /\ commission[s] = NULL
    /\ commission' = [commission EXCEPT ![s] =
          [status |-> "PENDING",
           amount |-> IF rule = NULL THEN 0
                      ELSE ComputeAmount(rule, sold[s], NetProfit(calc[w].sums))]]
    /\ IF rule = NULL
       THEN Return(w) /\ calc' = [calc EXCEPT ![w] = NULL]
       ELSE Recalculate(w, SoldVehicle[s], "idle") /\ UNCHANGED <<ctx, failures>>
    /\ UNCHANGED <<entries, purchasePrice, acquisition, sold, dre>>

\* approve and pay write the status and leave the DRE alone.
SettleCommission(w, s, status) ==
    /\ pc[w] = "idle"
    /\ commission[s] # NULL
    /\ status \in {"APPROVED", "PAID"}
    /\ commission' = [commission EXCEPT ![s].status = status]
    /\ UNCHANGED <<entries, purchasePrice, acquisition, sold, dre, calc, handlerVars>>

\* cancel and adjust recalculate.
CancelCommission(w, s) ==
    /\ pc[w] = "idle"
    /\ commission[s] # NULL
    /\ commission' = [commission EXCEPT ![s].status = "CANCELED"]
    /\ Recalculate(w, SoldVehicle[s], "idle")
    /\ UNCHANGED <<entries, purchasePrice, acquisition, sold, dre, ctx, failures>>

\* Mutant: the adjustment does not reach the DRE.
AdjustQuietly(w, s, amount) ==
    /\ pc[w] = "idle"
    /\ commission[s] # NULL
    /\ commission' = [commission EXCEPT ![s].amount = amount]
    /\ UNCHANGED <<entries, purchasePrice, acquisition, sold, dre, calc, handlerVars>>

AdjustCommission(w, s, amount) ==
    /\ pc[w] = "idle"
    /\ commission[s] # NULL
    /\ commission' = [commission EXCEPT ![s].amount = amount]
    /\ Recalculate(w, SoldVehicle[s], "idle")
    /\ UNCHANGED <<entries, purchasePrice, acquisition, sold, dre, ctx, failures>>

CommissionStep(w) == FindCommission(w) \/ ResolveRule(w) \/ CreateCommission(w)

-----------------------------------------------------------------------------
LedgerRequest(w) ==
    \/ \E v \in Vehicles, kind \in EntryKinds, amount \in SmallAmounts : CreateManual(w, v, kind, amount)
    \/ \E e \in DOMAIN entries : RemoveEntry(w, e)
    \/ \E v \in Vehicles, price \in Amounts, extra \in SmallAmounts \cup {0}, confirm \in BOOLEAN :
          CreateAcquisition(w, v, price, extra, confirm)
    \/ \E s \in Sales, price \in Amounts : BookSale(w, s, price)
    \/ \E s \in Sales, status \in {"APPROVED", "PAID"} : SettleCommission(w, s, status)
    \/ \E s \in Sales : CancelCommission(w, s)
    \/ \E s \in Sales, amount \in SmallAmounts : AdjustCommission(w, s, amount)

LedgerStep(w) ==
    DreStep(w) \/ EntryStep(w) \/ AcquisitionStep(w) \/ CommissionStep(w)

LedgerDie(w) ==
    /\ Die(w)
    /\ calc' = [calc EXCEPT ![w] = NULL]
    /\ UNCHANGED bookVars

-----------------------------------------------------------------------------
(* What the DRE should say, as src/docs/BUSINESS_RULES.md defines it:      *)
(* totalRevenue is the sum of the receipts, totalExpenses that of the      *)
(* expenses other than commissions with the purchase price of the vehicle  *)
(* when no purchase is booked, commissionTotal that of the commissions not *)
(* canceled.  Single rows are weighed, none of the code's sums is used.    *)

Total(v, kinds) ==
    MapThenSumSet(LAMBDA row : row[1].amount,
        UNION {{e} \X (1 .. entries[e]) :
                  e \in {x \in DOMAIN entries : x.vehicle = v /\ x.kind \in kinds}})

Booked(v) ==
    [revenue    |-> Total(v, {"revenue"}),
     expenses   |-> Total(v, {"purchase", "expense"})
                    + (IF \E e \in DOMAIN entries : e.vehicle = v /\ e.kind = "purchase"
                       THEN 0 ELSE purchasePrice[v]),
     commission |-> MapThenSumSet(LAMBDA s : commission[s].amount, OpenCommissions(v))]

\* When every handler has run to its end, the DRE of a vehicle says what its entries and
\* commissions do (BUSINESS_RULES.md:37-54).  Three operations write without recalculating:
\* a draft acquisition, which only matters while no purchase is booked, and approve and pay,
\* which only matter when they reopen a canceled commission.
DreFollowsEntries ==
    Quiet /\ failures = 0 =>
      \A v \in Vehicles :
        IF \E e \in DOMAIN entries : e.vehicle = v
        THEN /\ dre[v].revenue = Booked(v).revenue
             /\ (\E e \in DOMAIN entries : e.vehicle = v /\ e.kind = "purchase")
                  => dre[v].expenses = Booked(v).expenses
             /\ (\A s \in OpenCommissions(v) : commission[s].status = "PENDING")
                  => dre[v].commission = Booked(v).commission
        ELSE dre[v] # NULL => dre[v].revenue = 0

\* Whatever died before, a DRE that is saved with another value is the one of the documented
\* formula: the fallback to the price of the vehicle counts the purchase once, and commissions
\* posted by hand do not count twice (BUSINESS_RULES.md:52-54).
DreByFormula == \A v \in Vehicles : dre'[v] # dre[v] => dre'[v] = Booked(v)

\* A commission on the profit is a share of the profit the books show when it is created,
\* the revenue of its own sale included (BUSINESS_RULES.md:67, generateForSale).
ProfitShareIsCurrent ==
    [][\A s \in Sales : commission[s] = NULL /\ commission'[s] # NULL =>
         \A w \in Workers :
           LET rule == ctx[w].rule
               net  == NetProfit(Booked(SoldVehicle[s]))
           IN  At(w, "commission.create") /\ rule # NULL /\ rule.type = "PERCENT_PROFIT"
                 => commission'[s].amount = Percent(IF net > 0 THEN net ELSE 0, rule.percentage)
      ]_ledgerVars
=============================================================================
