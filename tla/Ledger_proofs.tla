---------------------------- MODULE Ledger_proofs ----------------------------
(***************************************************************************)
(* What recalculate saves, for any number of vehicles, sales, rules and    *)
(* entries of any amount: the DRE of the documented formula, and a profit  *)
(* share of the profit it shows, wherever handlers have died before.       *)
(*                                                                         *)
(* recalculate reads price, entries and commissions in three calls and     *)
(* saves in a fourth.  Current says what of that is still so at each of    *)
(* them: it holds because handlers of the ledger come one at a time, and a *)
(* handler that dies takes its frame along.  The code weighs an entry by   *)
(* its number of copies and asks for no purchase by a sum that is 0; the   *)
(* formula counts single rows and asks whether there is one.  Entries of   *)
(* positive amounts, which every operation posts, make the two the same.   *)
(*                                                                         *)
(* An operation writes a book of a vehicle and asks for recalculate later, *)
(* so that the DRE of a vehicle follows its books, or a handler that will  *)
(* recalculate it is at work: FollowInv, true while no handler has died.   *)
(* The last theorem joins it with what Workshop_proofs says of the items.  *)
(***************************************************************************)
EXTENDS Workshop_proofs

\* A DRE rests on entries, purchase price and commissions alone.
LEMMA SameBooks ==
    ASSUME UNCHANGED <<entries, purchasePrice, commission>>, NEW v
    PROVE  Booked(v)' = Booked(v)
<1>1. ASSUME NEW kinds PROVE Total(v, kinds)' = Total(v, kinds)
  BY DEF Total, MapThenSumSet, MapThenFoldSet
<1> QED BY <1>1 DEF Booked, OpenCommissions, MapThenSumSet, MapThenFoldSet

-----------------------------------------------------------------------------
(* The sums of the code, and those of the rows one by one                  *)

EntriesOK ==
    /\ IsFiniteSet(DOMAIN entries)
    /\ \A e \in DOMAIN entries : entries[e] \in Positive /\ e.amount \in Positive

Matching(v, kinds) == {e \in DOMAIN entries : e.vehicle = v /\ e.kind \in kinds}

RowsOf(S) == UNION {{e} \X (1 .. entries[e]) : e \in S}

Weight    == [e \in DOMAIN entries |-> e.amount * entries[e]]
RowAmount == [row \in RowsOf(DOMAIN entries) |-> row[1].amount]

\* R is Q with n copies of x, each of which counts for a.
Copied(h, Q, R, x, a, n) ==
    /\ IsFiniteSet(Q) /\ \A r \in Q : h[r] \in Int
    /\ a \in Int /\ n \in Nat
    /\ \A k \in 1 .. n : <<x, k>> \notin Q /\ h[<<x, k>>] = a
    /\ R = Q \cup ({x} \X (1 .. n))

LEMMA CopiesAdd ==
    ASSUME NEW h, NEW Q, NEW R, NEW x, NEW a, NEW n, Copied(h, Q, R, x, a, n)
    PROVE  SumOver(h, R) = a * n + SumOver(h, Q)
<1> USE DEF Copied
<1> DEFINE Upto(m) == Q \cup ({x} \X (1 .. m))
           Good(m) == SumOver(h, Upto(m)) = a * m + SumOver(h, Q)
           Bad     == {m \in Nat : m <= n /\ ~Good(m)}
<1>1. SumOver(h, Q) \in Int
  BY SumInt
<1>2. Good(0)
  <2>1. Upto(0) = Q
    <3>1. 1 .. 0 = {}
      OBVIOUS
    <3>2. {x} \X (1 .. 0) = {}
      BY <3>1
    <3> QED BY <3>2
  <2>2. a * 0 = 0
    OBVIOUS
  <2> HIDE DEF Upto
  <2> QED BY <1>1, <2>1, <2>2
<1>3. \A m \in Nat : IsFiniteSet(Upto(m))
  <2>1. ASSUME NEW m \in Nat PROVE IsFiniteSet(Upto(m))
    <3>1. IsFiniteSet(1 .. m)
      BY FS_Interval
    <3>2. IsFiniteSet({x} \X (1 .. m))
      BY <3>1, FS_Singleton, FS_Product
    <3> QED BY <3>2, FS_Union
  <2> QED BY <2>1
<1>4. ASSUME NEW m \in Nat, m < n, Good(m) PROVE Good(m + 1)
  <2>1. Upto(m + 1) = Upto(m) \cup {<<x, m + 1>>} /\ <<x, m + 1>> \notin Upto(m)
    <3>1. 1 .. (m + 1) = (1 .. m) \cup {m + 1} /\ m + 1 \notin 1 .. m /\ m + 1 \in 1 .. n
      BY <1>4
    <3> QED BY <3>1
  <2>2. h[<<x, m + 1>>] = a /\ \A r \in Upto(m) : h[r] \in Int
    BY <1>4
  <2>3. SumOver(h, Upto(m + 1)) = a + SumOver(h, Upto(m))
    <3> HIDE DEF Upto
    <3> QED BY <1>3, <2>1, <2>2, SumAdd
  <2>4. a * (m + 1) = a * m + a /\ a * m \in Int
    OBVIOUS
  <2> QED BY <1>1, <1>4, <2>3, <2>4
<1>5. Bad = {}
  <2> SUFFICES ASSUME Bad # {} PROVE FALSE
    OBVIOUS
  <2> HIDE DEF Good
  <2>1. PICK m \in Bad : \A k \in Bad : m <= k
    BY SmallestNumber
  <2>2. m # 0
    BY <1>2, <2>1
  <2>3. m - 1 \in Nat /\ m - 1 < n /\ m - 1 \notin Bad
    BY <2>1, <2>2
  <2>4. Good(m - 1)
    BY <2>3
  <2>5. Good((m - 1) + 1)
    BY <1>4, <2>3, <2>4
  <2>6. (m - 1) + 1 = m
    BY <2>1
  <2> QED BY <2>1, <2>5, <2>6
<1>6. Good(n)
  <2> HIDE DEF Good
  <2> QED BY <1>5
<1> QED BY <1>6

LEMMA RowsAdd ==
    ASSUME EntriesOK, NEW S \in SUBSET (DOMAIN entries)
    PROVE  /\ SumOver(RowAmount, RowsOf(S)) = SumOver(Weight, S)
           /\ IsFiniteSet(S) /\ IsFiniteSet(RowsOf(S))
           /\ \A r \in RowsOf(S) : RowAmount[r] \in Int
           /\ \A e \in S : Weight[e] \in Positive
<1>1. \A e \in DOMAIN entries : /\ entries[e] \in Nat /\ entries[e] > 0
                                /\ e.amount \in Nat /\ e.amount > 0
  BY DEF EntriesOK, Positive
<1>2. \A e \in DOMAIN entries : Weight[e] = e.amount * entries[e] /\ Weight[e] \in Positive
  <2>1. ASSUME NEW a \in Nat, NEW b \in Nat, a > 0, b > 0 PROVE a * b \in Positive
    BY <2>1 DEF Positive
  <2>2. \A e \in DOMAIN entries : Weight[e] = e.amount * entries[e]
    BY DEF Weight
  <2> QED BY <1>1, <2>1, <2>2
<1>3. \A s \in SUBSET S : IsFiniteSet(s) /\ IsFiniteSet(RowsOf(s))
  <2>1. ASSUME NEW s \in SUBSET S PROVE IsFiniteSet(s) /\ IsFiniteSet(RowsOf(s))
    <3>1. IsFiniteSet(s)
      BY FS_Subset DEF EntriesOK
    <3> DEFINE copies == [e \in s |-> {e} \X (1 .. entries[e])]
               Copies == {copies[e] : e \in s}
    <3>2. \A e \in s : IsFiniteSet(copies[e])
      <4>1. ASSUME NEW e \in s PROVE IsFiniteSet({e} \X (1 .. entries[e]))
        <5>1. 1 \in Int /\ entries[e] \in Int
          BY <1>1
        <5>2. IsFiniteSet({e}) /\ IsFiniteSet(1 .. entries[e])
          BY <5>1, FS_Interval, FS_Singleton
        <5> QED BY <5>2, FS_Product
      <4> QED BY <4>1
    <3>3. IsFiniteSet(Copies)
      <4> HIDE DEF copies
      <4>1. DOMAIN copies = s /\ copies = [e \in DOMAIN copies |-> copies[e]]
        BY DEF copies
      <4>2. copies \in Surjection(s, Copies)
        BY <4>1 DEF Surjection
      <4> QED BY <3>1, <4>2, FS_Surjection
    <3>5. UNION Copies = RowsOf(s)
      BY DEF RowsOf
    <3>4. IsFiniteSet(UNION Copies)
      <4> HIDE DEF copies
      <4> QED BY <3>2, <3>3, FS_UNION
    <3> QED BY <3>1, <3>4, <3>5
  <2> QED BY <2>1
<1>4. \A s \in SUBSET S : \A r \in RowsOf(s) : RowAmount[r] = r[1].amount /\ RowAmount[r] \in Int
  BY <1>1 DEF RowsOf, RowAmount
<1> DEFINE t == [s \in SUBSET S |-> SumOver(RowAmount, RowsOf(s))]
<1>5. \A s \in SUBSET S : SumOver(RowAmount, RowsOf(s)) \in Int
  BY <1>3, <1>4, SumInt
<1>6. SumOver(RowAmount, RowsOf({})) = 0
  <2>1. RowsOf({}) = {}
    BY DEF RowsOf
  <2> QED BY <2>1, SumEmpty
<1>7. ASSUME NEW s \in SUBSET S, NEW x \in s
      PROVE  SumOver(RowAmount, RowsOf(s)) = Weight[x] + SumOver(RowAmount, RowsOf(s \ {x}))
  <2>1. RowsOf(s) = RowsOf(s \ {x}) \cup ({x} \X (1 .. entries[x]))
    BY DEF RowsOf
  <2>2. \A k \in 1 .. entries[x] :
           <<x, k>> \notin RowsOf(s \ {x}) /\ RowAmount[<<x, k>>] = x.amount
    <3>1. ASSUME NEW k \in 1 .. entries[x] PROVE <<x, k>> \in RowsOf(s) /\ <<x, k>> \notin RowsOf(s \ {x})
      BY DEF RowsOf
    <3>2. s \in SUBSET S
      OBVIOUS
    <3>3. \A k \in 1 .. entries[x] : RowAmount[<<x, k>>] = <<x, k>>[1].amount
      BY <1>4, <3>1, <3>2
    <3> QED BY <3>1, <3>3
  <2>3. IsFiniteSet(RowsOf(s \ {x})) /\ \A r \in RowsOf(s \ {x}) : RowAmount[r] \in Int
    BY <1>3, <1>4
  <2>4. x.amount \in Int /\ entries[x] \in Nat
    BY <1>1
  <2>5. SumOver(RowAmount, RowsOf(s)) = x.amount * entries[x] + SumOver(RowAmount, RowsOf(s \ {x}))
    <3>1. PICK Q, R, a, n :
            Q = RowsOf(s \ {x}) /\ R = RowsOf(s) /\ a = x.amount /\ n = entries[x]
      OBVIOUS
    <3>2. SumOver(RowAmount, R) = a * n + SumOver(RowAmount, Q)
      <4>1. IsFiniteSet(Q) /\ (\A r \in Q : RowAmount[r] \in Int) /\ a \in Int /\ n \in Nat
        BY <2>3, <2>4, <3>1
      <4>2. \A k \in 1 .. n : <<x, k>> \notin Q /\ RowAmount[<<x, k>>] = a
        BY <2>2, <3>1
      <4>3. R = Q \cup ({x} \X (1 .. n))
        BY <2>1, <3>1
      <4>4. Copied(RowAmount, Q, R, x, a, n)
        BY <4>1, <4>2, <4>3 DEF Copied
      <4> QED BY <4>4, CopiesAdd
    <3> QED BY <3>1, <3>2
  <2> QED BY <1>2, <2>5
<1>8. SumTable(t, Weight, S)
  BY <1>5, <1>6, <1>7 DEF SumTable
<1>9. SumOver(Weight, S) = t[S]
  <2>1. IsFiniteSet(S)
    BY <1>3
  <2> HIDE DEF t
  <2> QED BY <1>8, <2>1, SumIs
<1> QED BY <1>2, <1>3, <1>4, <1>9

LEMMA SumIsWeight ==
    ASSUME EntriesOK, NEW v, NEW kinds
    PROVE  Sum(v, kinds) = SumOver(Weight, Matching(v, kinds))
<1> DEFINE S == Matching(v, kinds)
           Adds(f) == f = [s \in SUBSET S |->
                      IF s = {} THEN 0
                      ELSE (CHOOSE x \in s : TRUE).amount * entries[CHOOSE x \in s : TRUE]
                           + f[s \ {CHOOSE x \in s : TRUE}]]
           iter == CHOOSE f : Adds(f)
<1>1. Sum(v, kinds) = iter[S]
  BY DEF Sum, MapThenSumSet, MapThenFoldSet, Matching
<1>2. S \in SUBSET (DOMAIN entries)
  BY DEF Matching
<1> HIDE DEF S
<1>3. \A s \in SUBSET S : s # {} => (CHOOSE x \in s : TRUE) \in DOMAIN entries
  BY <1>2
<1>4. \A f : Chosen(f, Weight, S) <=> Adds(f)
  <2>1. \A s \in SUBSET S : s # {} =>
          Weight[CHOOSE x \in s : TRUE]
            = (CHOOSE x \in s : TRUE).amount * entries[CHOOSE x \in s : TRUE]
    BY <1>3 DEF Weight
  <2> QED BY <2>1 DEF Chosen
<1>5. IsFiniteSet(S) /\ \A x \in S : Weight[x] \in Int
  <2>1. IsFiniteSet(S) /\ \A x \in S : Weight[x] \in Positive
    BY <1>2, RowsAdd
  <2> QED BY <2>1 DEF Positive
<1> HIDE DEF Adds
<1>6. \E f : Adds(f)
  BY <1>4, <1>5, ChosenExists
<1>7. Adds(iter)
  BY <1>6
<1> HIDE DEF iter
<1>8. iter[S] = SumOver(Weight, S)
  BY <1>4, <1>5, <1>7, ChosenIsSum
<1> QED BY <1>1, <1>8 DEF S

LEMMA TotalIsRows ==
    ASSUME EntriesOK, NEW v, NEW kinds
    PROVE  Total(v, kinds) = SumOver(RowAmount, RowsOf(Matching(v, kinds)))
<1> DEFINE S == RowsOf(Matching(v, kinds))
           Adds(f) == f = [s \in SUBSET S |->
                      IF s = {} THEN 0
                      ELSE (CHOOSE x \in s : TRUE)[1].amount + f[s \ {CHOOSE x \in s : TRUE}]]
           iter == CHOOSE f : Adds(f)
<1>1. Total(v, kinds) = iter[S]
  BY DEF Total, MapThenSumSet, MapThenFoldSet, Matching, RowsOf
<1>2. S \subseteq RowsOf(DOMAIN entries)
  BY DEF Matching, RowsOf
<1>3. IsFiniteSet(S) /\ \A x \in S : RowAmount[x] \in Int
  <2>1. Matching(v, kinds) \in SUBSET (DOMAIN entries)
    BY DEF Matching
  <2> QED BY <2>1, RowsAdd
<1> HIDE DEF S
<1>4. \A f : Chosen(f, RowAmount, S) <=> Adds(f)
  <2>1. \A s \in SUBSET S : s # {} => (CHOOSE x \in s : TRUE) \in RowsOf(DOMAIN entries)
    BY <1>2
  <2>2. \A s \in SUBSET S : s # {} =>
          RowAmount[CHOOSE x \in s : TRUE] = (CHOOSE x \in s : TRUE)[1].amount
    BY <2>1 DEF RowAmount
  <2> QED BY <2>2 DEF Chosen
<1> HIDE DEF Adds
<1>5. \E f : Adds(f)
  BY <1>3, <1>4, ChosenExists
<1>6. Adds(iter)
  BY <1>5
<1> HIDE DEF iter
<1>7. iter[S] = SumOver(RowAmount, S)
  BY <1>3, <1>4, <1>6, ChosenIsSum
<1> QED BY <1>1, <1>7 DEF S

\* What recalculate adds up is what the rows say, and it is 0 when there are none only.
LEMMA SumIsTotal ==
    ASSUME EntriesOK, NEW v, NEW kinds
    PROVE  /\ Sum(v, kinds) = Total(v, kinds)
           /\ Sum(v, kinds) = 0 <=> ~\E e \in DOMAIN entries : e.vehicle = v /\ e.kind \in kinds
<1> DEFINE S == Matching(v, kinds)
<1>1. S \in SUBSET (DOMAIN entries)
  BY DEF Matching
<1>2. Sum(v, kinds) = SumOver(Weight, S) /\ Total(v, kinds) = SumOver(RowAmount, RowsOf(S))
  BY SumIsWeight, TotalIsRows
<1>3. IsFiniteSet(S) /\ (\A e \in S : Weight[e] \in Positive)
      /\ SumOver(RowAmount, RowsOf(S)) = SumOver(Weight, S)
  BY <1>1, RowsAdd
<1>4. S = {} <=> ~\E e \in DOMAIN entries : e.vehicle = v /\ e.kind \in kinds
  BY DEF Matching
<1> HIDE DEF S
<1>5. CASE S = {}
  BY <1>2, <1>3, <1>4, <1>5, SumEmpty
<1>6. CASE S # {}
  <2>1. PICK e \in S : TRUE
    BY <1>6
  <2>2. \A x \in S : Weight[x] \in Nat /\ Weight[x] > 0
    BY <1>3 DEF Positive
  <2>3. SumOver(Weight, S) = Weight[e] + SumOver(Weight, S \ {e})
    BY <1>3, <2>2, SumRemove
  <2>4. SumOver(Weight, S \ {e}) \in Nat
    BY <1>3, <2>2, SumGrows
  <2>5. SumOver(Weight, S) > 0
    BY <2>2, <2>3, <2>4
  <2> QED BY <1>2, <1>3, <1>4, <1>6, <2>4, <2>5, <2>2, <2>3
<1> QED BY <1>5, <1>6

-----------------------------------------------------------------------------
(* The rows stay as they should                                            *)

LEMMA Inserted ==
    ASSUME EntriesOK, NEW e, e.amount \in Positive, Insert(e)
    PROVE  EntriesOK'
<1>1. entries' = [x \in DOMAIN entries \cup {e} |->
                     (IF x \in DOMAIN entries THEN entries[x] ELSE 0) + (IF x \in {e} THEN 1 ELSE 0)]
  BY DEF Insert, (+), SetToBag
<1>2. IsFiniteSet(DOMAIN entries \cup {e})
  BY FS_AddElement DEF EntriesOK
<1>3. ASSUME NEW x \in DOMAIN entries \cup {e}
      PROVE  entries'[x] \in Positive /\ x.amount \in Positive
  <2>1. CASE x \in DOMAIN entries
    <3>1. entries[x] \in Nat /\ entries[x] > 0
      BY <2>1 DEF EntriesOK, Positive
    <3> QED BY <1>1, <2>1, <3>1 DEF EntriesOK, Positive
  <2>2. CASE x \notin DOMAIN entries
    BY <1>1, <2>2 DEF Positive
  <2> QED BY <2>1, <2>2
<1> QED BY <1>1, <1>2, <1>3 DEF EntriesOK

LEMMA Deleted ==
    ASSUME EntriesOK, NEW e, entries' = entries (-) SetToBag({e})
    PROVE  EntriesOK'
<1> DEFINE left == [x \in DOMAIN entries |-> IF x \in {e} THEN entries[x] - 1 ELSE entries[x]]
           D    == {x \in DOMAIN left : left[x] > 0}
<1>1. entries' = [x \in D |-> left[x]]
  BY DEF (-), SetToBag
<1>2. D \in SUBSET (DOMAIN entries) /\ IsFiniteSet(D)
  BY FS_Subset DEF EntriesOK
<1>3. ASSUME NEW x \in D PROVE left[x] \in Positive /\ x.amount \in Positive
  <2>1. entries[x] \in Nat /\ x.amount \in Positive
    BY <1>2 DEF EntriesOK, Positive
  <2> QED BY <2>1 DEF Positive
<1> HIDE DEF left, D
<1> QED BY <1>1, <1>2, <1>3 DEF EntriesOK

-----------------------------------------------------------------------------
(* One handler at a time: what recalculate has read is still so            *)

\* A frame of recalculate has the fields it was made with.
Framed(f) ==
    f = [vehicle |-> f.vehicle, next |-> f.next, price |-> f.price,
         sums |-> [revenue    |-> f.sums.revenue,
                   expenses   |-> f.sums.expenses,
                   commission |-> f.sums.commission]]

LocalsOK(w) ==
    /\ pc[w] \in DreLabels => Framed(calc[w])
    /\ Place(w) \in {"acquisition.price", "acquisition.purchase", "acquisition.extra"} =>
          ctx[w].price \in Positive /\ ctx[w].extra \in Nat
    /\ Place(w) = "acquisition.extra" => ctx[w].extra > 0
    /\ Place(w) \in {"commission.find", "commission.rule", "commission.create"} =>
          ctx[w] = [sale |-> ctx[w].sale, rule |-> ctx[w].rule] /\ ctx[w].sale \in Sales

Profits(rule) == rule # NULL /\ rule.type = "PERCENT_PROFIT"

Current(w) ==
    /\ \A v : pc[w] \in DreLabels /\ calc[w].vehicle = v =>
          /\ pc[w] = "dre.entries" => calc[w].price = purchasePrice[v]
          /\ pc[w] \in {"dre.commissions", "dre.save"} =>
                /\ calc[w].sums.revenue  = Booked(v).revenue
                /\ calc[w].sums.expenses = Booked(v).expenses
          /\ pc[w] = "dre.save" => calc[w].sums.commission = Booked(v).commission
          /\ calc[w].next = "commission.create" => v = SoldVehicle[ctx[w].sale]
    /\ pc[w] = "commission.create" /\ Profits(ctx[w].rule) =>
          \A v : v = SoldVehicle[ctx[w].sale] => calc[w].sums = Booked(v)

LedgerInv ==
    /\ LedgerFrames
    /\ Alone
    /\ EntriesOK
    /\ DOMAIN dre = Vehicles /\ DOMAIN commission = Sales
    /\ \A w \in Workers : LocalsOK(w) /\ Current(w)

LEMMA LedgerTurn ==
    ASSUME LedgerFrames, LedgerFrames', NEW w \in Workers, \A x \in Workers \ {w} : pc[x] = "idle",
           \/ UNCHANGED pc
           \/ \E label : pc' = [pc EXCEPT ![w] = label],
           LocalsOK(w)', Current(w)'
    PROVE  Alone' /\ \A x \in Workers : (LocalsOK(x) /\ Current(x))'
<1>1. \A x \in Workers \ {w} : pc'[x] = "idle"
  BY DEF LedgerFrames
<1>2. ASSUME NEW x \in Workers \ {w} PROVE (LocalsOK(x) /\ Current(x))'
  <2>1. pc'[x] = "idle"
    BY <1>1
  <2>2. LocalsOK(x)'
    BY <2>1 DEF LocalsOK, Place, DreLabels
  <2>3. Current(x)'
    BY <2>1 DEF Current, DreLabels
  <2> QED BY <2>2, <2>3
<1> QED BY <1>1, <1>2 DEF Alone

\* A fresh call of recalculate has looked at nothing yet.
LEMMA Recalculates ==
    ASSUME LedgerFrames, NEW w \in Workers, NEW v, NEW next \in AfterLabels, Recalculate(w, v, next),
           next = "acquisition.extra" =>
              ctx'[w].price \in Positive /\ ctx'[w].extra \in Nat /\ ctx'[w].extra > 0,
           next \in {"commission.find", "commission.create"} =>
              ctx'[w] = [sale |-> ctx'[w].sale, rule |-> ctx'[w].rule] /\ ctx'[w].sale \in Sales,
           next = "commission.create" => v = SoldVehicle[ctx'[w].sale]
    PROVE  LocalsOK(w)' /\ Current(w)'
<1> DEFINE f == [vehicle |-> v, next |-> next, price |-> 0, sums |-> NoDre]
<1>1. pc'[w] = "dre.vehicle" /\ calc'[w] = f
  BY DEF Recalculate, LedgerFrames
<1>2. Framed(f) /\ f.next = next /\ f.vehicle = v
  BY DEF Framed, NoDre
<1> HIDE DEF f
<1>3. Place(w)' = next /\ calc'[w].vehicle = v /\ calc'[w].next = next
  BY <1>1, <1>2 DEF Place, DreLabels
<1>4. LocalsOK(w)'
  BY <1>1, <1>2, <1>3 DEF LocalsOK, AfterLabels
<1>5. Current(w)'
  BY <1>1, <1>3 DEF Current
<1> QED BY <1>4, <1>5

LEMMA LedgerEnds ==
    ASSUME NEW w \in Workers, pc'[w] = "idle"
    PROVE  LocalsOK(w)' /\ Current(w)'
BY DEF LocalsOK, Current, Place, DreLabels

\* Between two reads of recalculate nothing is written.
LEMMA ReadingKept ==
    ASSUME LedgerInv, NEW w \in Workers,
           DreReadVehicle(w) \/ DreReadEntries(w) \/ DreReadCommissions(w)
    PROVE  LocalsOK(w)' /\ Current(w)'
<1>1. LocalsOK(w) /\ Current(w) /\ EntriesOK
      /\ DOMAIN pc = Workers /\ DOMAIN calc = Workers /\ UNCHANGED ctx
      /\ pc[w] \in DreLabels /\ UNCHANGED <<entries, purchasePrice, commission>>
  BY DEF LedgerInv, LedgerFrames, DreReadVehicle, DreReadEntries, DreReadCommissions, Goto, At,
     DreLabels, bookVars
<1>2. PICK v, next, price, r, x, c :
        calc[w] = [vehicle |-> v, next |-> next, price |-> price,
                   sums |-> [revenue |-> r, expenses |-> x, commission |-> c]]
  BY <1>1 DEF LocalsOK, Framed
<1>3. calc[w].vehicle = v /\ calc[w].next = next /\ Place(w) = next
  BY <1>1, <1>2 DEF Place
<1>4. Booked(v)' = Booked(v)
  BY <1>1, SameBooks
<1>5. next = "commission.create" => v = SoldVehicle[ctx[w].sale]
  BY <1>1, <1>3 DEF Current
<1>6. ASSUME NEW label \in DreLabels, pc'[w] = label, NEW p1, NEW r1, NEW x1, NEW c1,
             calc'[w] = [vehicle |-> v, next |-> next, price |-> p1,
                         sums |-> [revenue |-> r1, expenses |-> x1, commission |-> c1]],
             label # "dre.vehicle",
             label = "dre.entries" => p1 = purchasePrice[v],
             label \in {"dre.commissions", "dre.save"} =>
                r1 = Booked(v).revenue /\ x1 = Booked(v).expenses,
             label = "dre.save" => c1 = Booked(v).commission
      PROVE  LocalsOK(w)' /\ Current(w)'
  <2>1. /\ calc'[w].vehicle = v /\ calc'[w].next = next /\ calc'[w].price = p1
        /\ calc'[w].sums.revenue = r1 /\ calc'[w].sums.expenses = x1 /\ calc'[w].sums.commission = c1
    BY <1>6
  <2>2. Framed(calc'[w])
    BY <1>6, <2>1 DEF Framed
  <2>3. Place(w)' = next
    BY <1>6, <2>1 DEF Place
  <2>4. LocalsOK(w)'
    BY <1>1, <1>3, <2>2, <2>3 DEF LocalsOK
  <2>5. Current(w)'
    <3>1. label # "commission.create"
      BY DEF DreLabels
    <3>2. ASSUME NEW u, calc'[w].vehicle = u
          PROVE  /\ pc'[w] = "dre.entries" => calc'[w].price = purchasePrice'[u]
                 /\ pc'[w] \in {"dre.commissions", "dre.save"} =>
                       /\ calc'[w].sums.revenue  = Booked(u)'.revenue
                       /\ calc'[w].sums.expenses = Booked(u)'.expenses
                 /\ pc'[w] = "dre.save" => calc'[w].sums.commission = Booked(u)'.commission
                 /\ calc'[w].next = "commission.create" => u = SoldVehicle[ctx'[w].sale]
      <4>1. u = v
        BY <2>1, <3>2
      <4>2. Booked(u)' = Booked(v)
        BY <1>1, <4>1, SameBooks
      <4> QED BY <1>1, <1>5, <1>6, <2>1, <4>1, <4>2
    <3> QED BY <1>6, <3>1, <3>2 DEF Current
  <2> QED BY <2>4, <2>5
<1>7. CASE DreReadVehicle(w)
  <2>1. pc'[w] = "dre.entries" /\ calc'[w] = [calc[w] EXCEPT !.price = purchasePrice[v]]
    BY <1>1, <1>3, <1>7 DEF DreReadVehicle, Goto
  <2>2. calc'[w] = [vehicle |-> v, next |-> next, price |-> purchasePrice[v],
                    sums |-> [revenue |-> r, expenses |-> x, commission |-> c]]
    BY <1>2, <2>1
  <2> QED BY <1>6, <2>1, <2>2 DEF DreLabels
<1>8. CASE DreReadEntries(w)
  <2> DEFINE r1 == Sum(v, {"revenue"})
             x1 == Sum(v, {"purchase", "expense"})
                   + (IF Sum(v, {"purchase"}) = 0 THEN calc[w].price ELSE 0)
  <2>1. pc[w] = "dre.entries" /\ pc'[w] = "dre.commissions"
        /\ calc'[w] = [calc[w] EXCEPT !.sums.revenue = r1, !.sums.expenses = x1]
    BY <1>1, <1>3, <1>8 DEF DreReadEntries, Goto, At
  <2>2. calc[w].price = purchasePrice[v]
    BY <1>1, <1>3, <2>1 DEF Current
  <2>3. r1 = Booked(v).revenue
    BY <1>1, SumIsTotal DEF Booked
  <2>4. x1 = Booked(v).expenses
    <3>1. Sum(v, {"purchase", "expense"}) = Total(v, {"purchase", "expense"})
      BY <1>1, SumIsTotal
    <3>2. Sum(v, {"purchase"}) = 0
            <=> ~\E e \in DOMAIN entries : e.vehicle = v /\ e.kind \in {"purchase"}
      BY <1>1, SumIsTotal
    <3>3. (\E e \in DOMAIN entries : e.vehicle = v /\ e.kind \in {"purchase"})
            <=> \E e \in DOMAIN entries : e.vehicle = v /\ e.kind = "purchase"
      OBVIOUS
    <3> QED BY <2>2, <3>1, <3>2, <3>3 DEF Booked
  <2> HIDE DEF r1, x1
  <2>5. calc'[w] = [vehicle |-> v, next |-> next, price |-> price,
                    sums |-> [revenue |-> r1, expenses |-> x1, commission |-> c]]
    <3>1. [calc[w] EXCEPT !.sums.revenue = r1]
            = [vehicle |-> v, next |-> next, price |-> price,
               sums |-> [revenue |-> r1, expenses |-> x, commission |-> c]]
      BY <1>2
    <3>2. PICK f : f = [calc[w] EXCEPT !.sums.revenue = r1]
      OBVIOUS
    <3>3. f = [vehicle |-> v, next |-> next, price |-> price,
               sums |-> [revenue |-> r1, expenses |-> x, commission |-> c]]
      BY <3>1, <3>2
    <3>4. [f EXCEPT !.sums.expenses = x1]
            = [vehicle |-> v, next |-> next, price |-> price,
               sums |-> [revenue |-> r1, expenses |-> x1, commission |-> c]]
      BY <3>3
    <3>5. calc'[w] = [f EXCEPT !.sums.expenses = x1]
      BY <2>1, <3>2
    <3> QED BY <3>4, <3>5
  <2> QED BY <1>6, <2>1, <2>3, <2>4, <2>5 DEF DreLabels
<1>9. CASE DreReadCommissions(w)
  <2> DEFINE c1 == MapThenSumSet(LAMBDA s : commission[s].amount, OpenCommissions(v))
  <2>1. pc[w] = "dre.commissions" /\ pc'[w] = "dre.save"
        /\ calc'[w] = [calc[w] EXCEPT !.sums.commission = c1]
    BY <1>1, <1>3, <1>9 DEF DreReadCommissions, Goto, At
  <2>2. c1 = Booked(v).commission
    BY DEF Booked
  <2> HIDE DEF c1
  <2>3. calc'[w] = [vehicle |-> v, next |-> next, price |-> price,
                    sums |-> [revenue |-> r, expenses |-> x, commission |-> c1]]
    BY <1>2, <2>1
  <2>4. r = Booked(v).revenue /\ x = Booked(v).expenses
    BY <1>1, <1>2, <1>3, <2>1 DEF Current
  <2> QED BY <1>6, <2>1, <2>2, <2>3, <2>4 DEF DreLabels
<1> QED BY <1>7, <1>8, <1>9

\* What is saved is what the books say.
LEMMA SavesBooked ==
    ASSUME LedgerInv, NEW w \in Workers, pc[w] = "dre.save", NEW v, v = calc[w].vehicle
    PROVE  calc[w].sums = Booked(v)
<1>1. LocalsOK(w) /\ Current(w) /\ pc[w] \in DreLabels
  BY DEF LedgerInv, DreLabels
<1>2. Framed(calc[w])
  BY <1>1 DEF LocalsOK
<1>3. calc[w].sums = [revenue    |-> calc[w].sums.revenue,
                      expenses   |-> calc[w].sums.expenses,
                      commission |-> calc[w].sums.commission]
  BY <1>2 DEF Framed
<1>4. /\ calc[w].sums.revenue    = Booked(v).revenue
      /\ calc[w].sums.expenses   = Booked(v).expenses
      /\ calc[w].sums.commission = Booked(v).commission
  BY <1>1 DEF Current
<1>5. Booked(v) = [revenue    |-> Booked(v).revenue,
                   expenses   |-> Booked(v).expenses,
                   commission |-> Booked(v).commission]
  BY DEF Booked
<1> QED BY <1>3, <1>4, <1>5

LEMMA SavingKept ==
    ASSUME LedgerInv, NEW w \in Workers, DreSave(w)
    PROVE  LocalsOK(w)' /\ Current(w)'
<1>1. LocalsOK(w) /\ Current(w) /\ DOMAIN pc = Workers /\ DOMAIN calc = Workers
      /\ pc[w] = "dre.save" /\ UNCHANGED <<entries, purchasePrice, commission>>
  BY DEF LedgerInv, LedgerFrames, DreSave, At
<1>2. calc[w].next \in AfterLabels
  BY <1>1 DEF LedgerInv, LedgerFrames, DreLabels
<1>3. CASE calc[w].next = "idle"
  BY <1>1, <1>3, LedgerEnds DEF DreSave, Return
<1>4. CASE calc[w].next # "idle"
  <2>1. pc'[w] = calc[w].next /\ UNCHANGED <<ctx, calc>>
    BY <1>1, <1>4 DEF DreSave, Goto
  <2>2. pc'[w] \notin DreLabels /\ pc'[w] # "commission.rule" /\ Place(w)' = Place(w)
    BY <1>1, <1>2, <2>1 DEF Place, DreLabels, AfterLabels
  <2>3. LocalsOK(w)'
    BY <1>1, <2>1, <2>2 DEF LocalsOK
  <2>4. ASSUME pc'[w] = "commission.create", NEW v, v = SoldVehicle[ctx'[w].sale]
        PROVE  calc'[w].sums = Booked(v)'
    <3>1. v = calc[w].vehicle
      BY <1>1, <2>1, <2>4 DEF Current, DreLabels
    <3>2. calc[w].sums = Booked(v)
      BY <1>1, <3>1, SavesBooked
    <3>3. Booked(v)' = Booked(v)
      BY <1>1, SameBooks
    <3> QED BY <2>1, <3>2, <3>3
  <2>5. Current(w)'
    BY <2>2, <2>4 DEF Current
  <2> QED BY <2>3, <2>5
<1> QED BY <1>3, <1>4

\* What a step must leave right besides the frames of recalculate
LedgerGoesOn(w) ==
    /\ EntriesOK'
    /\ DOMAIN dre' = Vehicles /\ DOMAIN commission' = Sales
    /\ UNCHANGED pc \/ \E label : pc' = [pc EXCEPT ![w] = label]
    /\ LocalsOK(w)' /\ Current(w)'

\* A handler of the ledger that waits for something else than recalculate
LEMMA Waits ==
    ASSUME LedgerFrames, NEW w \in Workers, NEW label, label \notin DreLabels,
           pc' = [pc EXCEPT ![w] = label],
           label \in {"acquisition.price", "acquisition.purchase"} =>
              ctx'[w].price \in Positive /\ ctx'[w].extra \in Nat,
           label # "acquisition.extra" /\ label # "commission.find",
           label \in {"commission.rule", "commission.create"} =>
              ctx'[w] = [sale |-> ctx'[w].sale, rule |-> ctx'[w].rule] /\ ctx'[w].sale \in Sales,
           label = "commission.create" => ~Profits(ctx'[w].rule)
    PROVE  LocalsOK(w)' /\ Current(w)'
<1>1. pc'[w] = label
  BY DEF LedgerFrames
<1>2. Place(w)' = label
  BY <1>1 DEF Place
<1>3. LocalsOK(w)'
  BY <1>1, <1>2 DEF LocalsOK
<1>4. Current(w)'
  BY <1>1 DEF Current, DreLabels
<1> QED BY <1>3, <1>4

LEMMA UnmovedRows ==
    ASSUME EntriesOK, UNCHANGED entries
    PROVE  EntriesOK'
BY DEF EntriesOK

LEMMA LedgerAsked ==
    ASSUME LedgerInv, NEW w \in Workers, Quiet, LedgerRequest(w)
    PROVE  LedgerGoesOn(w)
<1>1. LedgerFrames /\ EntriesOK /\ DOMAIN dre = Vehicles /\ DOMAIN commission = Sales
      /\ DOMAIN pc = Workers /\ DOMAIN ctx = Workers /\ pc[w] = "idle"
  BY DEF LedgerInv, LedgerFrames, Quiet
<1>2. Amounts \subseteq Positive /\ SmallAmounts \subseteq Positive
  BY LedgerAssumption DEF Positive
<1>3. CASE \E v \in Vehicles, kind \in EntryKinds, amount \in SmallAmounts : CreateManual(w, v, kind, amount)
  <2>1. PICK v \in Vehicles, kind \in EntryKinds, amount \in SmallAmounts : CreateManual(w, v, kind, amount)
    BY <1>3
  <2>2. Insert(Entry(v, kind, NULL, amount)) /\ Recalculate(w, v, "idle") /\ UNCHANGED <<commission, dre>>
    BY <2>1 DEF CreateManual, Post, Entry
  <2>3. Entry(v, kind, NULL, amount).amount \in Positive
    BY <1>2 DEF Entry
  <2>4. EntriesOK'
    BY <1>1, <2>2, <2>3, Inserted
  <2>5. LocalsOK(w)' /\ Current(w)'
    BY <1>1, <2>2, Recalculates DEF AfterLabels
  <2> QED BY <1>1, <2>2, <2>4, <2>5 DEF LedgerGoesOn, Recalculate
<1>4. CASE \E e \in DOMAIN entries : RemoveEntry(w, e)
  <2>1. pc' = [pc EXCEPT ![w] = "entry.delete"] /\ UNCHANGED <<entries, commission, dre>>
    BY <1>4 DEF RemoveEntry, Begin, bookVars
  <2>2. LocalsOK(w)' /\ Current(w)'
    BY <1>1, <2>1, Waits DEF DreLabels
  <2> QED BY <1>1, <2>1, <2>2, UnmovedRows DEF LedgerGoesOn
<1>5. CASE \E v \in Vehicles, price \in Amounts, extra \in SmallAmounts \cup {0}, confirm \in BOOLEAN :
             CreateAcquisition(w, v, price, extra, confirm)
  <2>1. PICK v \in Vehicles, price \in Amounts, extra \in SmallAmounts \cup {0}, confirm \in BOOLEAN :
             CreateAcquisition(w, v, price, extra, confirm)
    BY <1>5
  <2>2. /\ pc' = [pc EXCEPT ![w] = "acquisition.price"] /\ UNCHANGED <<entries, commission, dre>>
        /\ ctx' = [ctx EXCEPT ![w] = [vehicle |-> v, price |-> price, extra |-> extra, confirm |-> confirm]]
    BY <2>1 DEF CreateAcquisition, Begin
  <2>3. ctx'[w].price = price /\ ctx'[w].extra = extra
    BY <1>1, <2>2
  <2>4. price \in Positive /\ extra \in Nat
    BY <1>2 DEF Positive
  <2>5. LocalsOK(w)' /\ Current(w)'
    BY <1>1, <2>2, <2>3, <2>4, Waits DEF DreLabels
  <2> QED BY <1>1, <2>2, <2>5, UnmovedRows DEF LedgerGoesOn
<1>6. CASE \E s \in Sales, price \in Amounts : BookSale(w, s, price)
  <2>1. PICK s \in Sales, price \in Amounts : BookSale(w, s, price)
    BY <1>6
  <2> DEFINE e == Entry(SoldVehicle[s], "revenue", <<"sale", s>>, price)
  <2>2. /\ Insert(e) /\ Recalculate(w, SoldVehicle[s], "commission.find")
        /\ ctx' = [ctx EXCEPT ![w] = [sale |-> s, rule |-> NULL]] /\ UNCHANGED <<commission, dre>>
    BY <2>1 DEF BookSale
  <2>3. e.amount \in Positive
    BY <1>2 DEF Entry
  <2>4. EntriesOK'
    <3> HIDE DEF e
    <3> QED BY <1>1, <2>2, <2>3, Inserted
  <2>5. ctx'[w] = [sale |-> ctx'[w].sale, rule |-> ctx'[w].rule] /\ ctx'[w].sale \in Sales
    BY <1>1, <2>2
  <2>6. LocalsOK(w)' /\ Current(w)'
    BY <1>1, <2>2, <2>5, Recalculates DEF AfterLabels
  <2> QED BY <1>1, <2>2, <2>4, <2>6 DEF LedgerGoesOn, Recalculate
<1>7. CASE \E s \in Sales, status \in {"APPROVED", "PAID"} : SettleCommission(w, s, status)
  <2>1. UNCHANGED <<pc, entries, dre>> /\ DOMAIN commission' = Sales
    BY <1>1, <1>7 DEF SettleCommission, handlerVars
  <2>2. pc'[w] = "idle"
    BY <1>1, <2>1
  <2> QED BY <1>1, <2>1, <2>2, UnmovedRows, LedgerEnds DEF LedgerGoesOn
<1>8. CASE \/ \E s \in Sales : CancelCommission(w, s)
           \/ \E s \in Sales, amount \in SmallAmounts : AdjustCommission(w, s, amount)
  <2>1. PICK v : Recalculate(w, v, "idle") /\ UNCHANGED <<entries, dre>> /\ DOMAIN commission' = Sales
    BY <1>1, <1>8 DEF CancelCommission, AdjustCommission
  <2>2. LocalsOK(w)' /\ Current(w)'
    BY <1>1, <2>1, Recalculates DEF AfterLabels
  <2> QED BY <1>1, <2>1, <2>2, UnmovedRows DEF LedgerGoesOn, Recalculate
<1> QED BY <1>3, <1>4, <1>5, <1>6, <1>7, <1>8 DEF LedgerRequest

LEMMA LedgerWorked ==
    ASSUME LedgerInv, NEW w \in Workers, LedgerStep(w)
    PROVE  LedgerGoesOn(w)
<1>1. LedgerFrames /\ EntriesOK /\ DOMAIN dre = Vehicles /\ DOMAIN commission = Sales
      /\ DOMAIN pc = Workers /\ DOMAIN ctx = Workers /\ LocalsOK(w)
  BY DEF LedgerInv, LedgerFrames
<1>2. CASE DreStep(w)
  <2>1. LocalsOK(w)' /\ Current(w)'
    BY <1>2, ReadingKept, SavingKept DEF DreStep
  <2>2. UNCHANGED <<entries, commission>> /\ DOMAIN dre' = Vehicles
        /\ \E label : pc' = [pc EXCEPT ![w] = label]
    BY <1>1, <1>2 DEF DreStep, DreReadVehicle, DreReadEntries, DreReadCommissions, DreSave, Goto,
       Return, bookVars
  <2> QED BY <1>1, <2>1, <2>2, UnmovedRows DEF LedgerGoesOn
<1>3. CASE DeleteEntry(w)
  <2>1. /\ entries' = entries (-) SetToBag({ctx[w]}) /\ Recalculate(w, ctx[w].vehicle, "idle")
        /\ UNCHANGED <<commission, dre>>
    BY <1>3 DEF DeleteEntry
  <2>2. EntriesOK'
    BY <1>1, <2>1, Deleted
  <2>3. LocalsOK(w)' /\ Current(w)'
    BY <1>1, <2>1, Recalculates DEF AfterLabels
  <2> QED BY <1>1, <2>1, <2>2, <2>3 DEF LedgerGoesOn, Recalculate
<1>4. CASE DeleteEntryGone(w)
  <2>1. pc' = [pc EXCEPT ![w] = "idle"] /\ UNCHANGED <<entries, commission, dre>>
    BY <1>4 DEF DeleteEntryGone, Return, bookVars
  <2> QED BY <1>1, <2>1, UnmovedRows, LedgerEnds DEF LedgerGoesOn
<1>5. CASE AcquisitionPrice(w)
  <2>1. pc[w] = "acquisition.price" /\ UNCHANGED <<entries, commission, dre>>
        /\ (\/ pc' = [pc EXCEPT ![w] = "acquisition.purchase"] /\ UNCHANGED ctx
            \/ pc' = [pc EXCEPT ![w] = "idle"])
    BY <1>5 DEF AcquisitionPrice, Goto, Return, At
  <2>2. ctx[w].price \in Positive /\ ctx[w].extra \in Nat
    BY <1>1, <2>1 DEF LocalsOK, Place, DreLabels
  <2>3. LocalsOK(w)' /\ Current(w)'
    BY <1>1, <2>1, <2>2, Waits, LedgerEnds DEF DreLabels
  <2> QED BY <1>1, <2>1, <2>3, UnmovedRows DEF LedgerGoesOn
<1>6. CASE AcquisitionPost(w)
  <2>1. pc[w] = "acquisition.purchase" /\ UNCHANGED <<ctx, commission, dre>>
    BY <1>6 DEF AcquisitionPost, Post, At
  <2>2. ctx[w].price \in Positive /\ ctx[w].extra \in Nat
    BY <1>1, <2>1 DEF LocalsOK, Place, DreLabels
  <2>3. PICK e, v, next : /\ e.amount = ctx[w].price /\ Insert(e) /\ Recalculate(w, v, next)
                          /\ next = IF ctx[w].extra > 0 THEN "acquisition.extra" ELSE "idle"
    BY <1>6 DEF AcquisitionPost, Post, Entry
  <2>4. EntriesOK'
    BY <1>1, <2>2, <2>3, Inserted
  <2>5. next \in AfterLabels /\ next \notin {"commission.find", "commission.create"}
        /\ (next = "acquisition.extra" => ctx[w].extra > 0)
    BY <2>3 DEF AfterLabels
  <2>6. LocalsOK(w)' /\ Current(w)'
    BY <1>1, <2>1, <2>2, <2>3, <2>5, Recalculates
  <2> QED BY <1>1, <2>1, <2>3, <2>4, <2>6 DEF LedgerGoesOn, Recalculate
<1>7. CASE AcquisitionPostExtra(w)
  <2>1. pc[w] = "acquisition.extra" /\ UNCHANGED <<ctx, commission, dre>>
    BY <1>7 DEF AcquisitionPostExtra, Post, At
  <2>2. ctx[w].extra \in Positive
    BY <1>1, <2>1 DEF LocalsOK, Place, DreLabels, Positive
  <2>3. PICK e, v : e.amount = ctx[w].extra /\ Insert(e) /\ Recalculate(w, v, "idle")
    BY <1>7 DEF AcquisitionPostExtra, Post, Entry
  <2>4. EntriesOK'
    BY <1>1, <2>2, <2>3, Inserted
  <2>5. LocalsOK(w)' /\ Current(w)'
    BY <1>1, <2>3, Recalculates DEF AfterLabels
  <2> QED BY <1>1, <2>1, <2>3, <2>4, <2>5 DEF LedgerGoesOn, Recalculate
<1>8. ASSUME CommissionStep(w), pc[w] \in {"commission.find", "commission.rule", "commission.create"}
      PROVE  ctx[w] = [sale |-> ctx[w].sale, rule |-> ctx[w].rule] /\ ctx[w].sale \in Sales
  BY <1>1, <1>8 DEF LocalsOK, Place, DreLabels
<1>9. CASE FindCommission(w)
  <2>1. pc[w] = "commission.find" /\ UNCHANGED <<entries, commission, dre>>
        /\ (\/ pc' = [pc EXCEPT ![w] = "commission.rule"] /\ UNCHANGED ctx
            \/ pc' = [pc EXCEPT ![w] = "idle"])
    BY <1>9 DEF FindCommission, Goto, Return, At, bookVars
  <2>2. ctx[w] = [sale |-> ctx[w].sale, rule |-> ctx[w].rule] /\ ctx[w].sale \in Sales
    BY <1>8, <1>9, <2>1 DEF CommissionStep
  <2>3. LocalsOK(w)' /\ Current(w)'
    BY <1>1, <2>1, <2>2, Waits, LedgerEnds DEF DreLabels
  <2> QED BY <1>1, <2>1, <2>3, UnmovedRows DEF LedgerGoesOn
<1>10. CASE ResolveRule(w)
  <2>1. PICK rule : /\ pc[w] = "commission.rule" /\ UNCHANGED <<entries, commission, dre>>
                    /\ ctx' = [ctx EXCEPT ![w].rule = rule]
                    /\ IF Profits(rule)
                       THEN Recalculate(w, SoldVehicle[ctx[w].sale], "commission.create")
                       ELSE pc' = [pc EXCEPT ![w] = "commission.create"]
    BY <1>10 DEF ResolveRule, Profits, At, bookVars
  <2>2. PICK s, r : s \in Sales /\ ctx[w] = [sale |-> s, rule |-> r]
    BY <1>8, <1>10, <2>1 DEF CommissionStep
  <2>3. ctx'[w] = [sale |-> s, rule |-> rule]
    BY <1>1, <2>1, <2>2
  <2>4. ctx'[w] = [sale |-> ctx'[w].sale, rule |-> ctx'[w].rule] /\ ctx'[w].sale = ctx[w].sale
        /\ ctx'[w].sale \in Sales /\ ctx'[w].rule = rule
    BY <2>2, <2>3
  <2>5. CASE Profits(rule)
    <3>1. LocalsOK(w)' /\ Current(w)'
      BY <1>1, <2>1, <2>4, <2>5, Recalculates DEF AfterLabels
    <3> QED BY <1>1, <2>1, <2>5, <3>1, UnmovedRows DEF LedgerGoesOn, Recalculate
  <2>6. CASE ~Profits(rule)
    <3>1. LocalsOK(w)' /\ Current(w)'
      BY <1>1, <2>1, <2>4, <2>6, Waits DEF DreLabels
    <3> QED BY <1>1, <2>1, <2>6, <3>1, UnmovedRows DEF LedgerGoesOn
  <2> QED BY <2>5, <2>6
<1>11. CASE CreateCommission(w)
  <2>1. UNCHANGED <<entries, dre>> /\ DOMAIN commission' = Sales
        /\ (\/ pc' = [pc EXCEPT ![w] = "idle"]
            \/ \E v : Recalculate(w, v, "idle"))
    BY <1>1, <1>11 DEF CreateCommission, Return
  <2>2. LocalsOK(w)' /\ Current(w)'
    BY <1>1, <2>1, LedgerEnds, Recalculates DEF AfterLabels
  <2> QED BY <1>1, <2>1, <2>2, UnmovedRows DEF LedgerGoesOn, Recalculate
<1> QED BY <1>2, <1>3, <1>4, <1>5, <1>6, <1>7, <1>9, <1>10, <1>11
     DEF LedgerStep, EntryStep, AcquisitionStep, CommissionStep

LEMMA LedgerMoves ==
    ASSUME LedgerInv, NEW w \in Workers, LedgerStep(w)
    PROVE  pc[w] # "idle"
BY DEF LedgerStep, DreStep, DreReadVehicle, DreReadEntries, DreReadCommissions, DreSave,
   EntryStep, DeleteEntry, DeleteEntryGone, AcquisitionStep, AcquisitionPrice, AcquisitionPost,
   AcquisitionPostExtra, CommissionStep, FindCommission, ResolveRule, CreateCommission, At

\* What a handler does under the schedule of the ledger
LedgerActs(w) ==
    \/ LedgerRequest(w) /\ Quiet
    \/ LedgerStep(w)
    \/ WorkshopDie(w)

LEMMA ActsForLedger ==
    ASSUME LedgerInv, schedule = "ledger", NEW w \in Workers,
           Request(w) \/ WorkshopStep(w) \/ WorkshopDie(w)
    PROVE  LedgerActs(w)
<1>1. LedgerFrames
  BY DEF LedgerInv
<1> QED BY <1>1, NobodyServices DEF Request, WorkshopStep, LedgerActs

LEMMA LedgerKept ==
    ASSUME LedgerInv, NEW w \in Workers, LedgerActs(w)
    PROVE  LedgerInv'
<1>1. LedgerFrames'
  BY LedgerFramesRequest, LedgerFramesStep, LedgerFramesDeath DEF LedgerInv, LedgerActs, WorkshopDie
<1>2. LedgerGoesOn(w)
  <2>1. CASE LedgerRequest(w) /\ Quiet
    BY <2>1, LedgerAsked
  <2>2. CASE LedgerStep(w)
    BY <2>2, LedgerWorked
  <2>3. CASE WorkshopDie(w)
    <3>1. pc' = [pc EXCEPT ![w] = "idle"] /\ UNCHANGED <<entries, commission, dre>>
      BY <2>3 DEF WorkshopDie, LedgerDie, Die, bookVars
    <3>2. pc'[w] = "idle"
      BY <3>1 DEF LedgerInv, LedgerFrames
    <3> QED BY <3>1, <3>2, UnmovedRows, LedgerEnds DEF LedgerGoesOn, LedgerInv
  <2> QED BY <2>1, <2>2, <2>3 DEF LedgerActs
<1>3. \A x \in Workers \ {w} : pc[x] = "idle"
  BY LedgerMoves DEF LedgerActs, LedgerInv, Alone, Quiet, WorkshopDie, LedgerDie, Die
<1>4. LedgerFrames /\ LocalsOK(w)' /\ Current(w)'
      /\ (UNCHANGED pc \/ \E label : pc' = [pc EXCEPT ![w] = label])
  BY <1>2 DEF LedgerInv, LedgerGoesOn
<1>5. Alone' /\ \A x \in Workers : (LocalsOK(x) /\ Current(x))'
  BY <1>1, <1>3, <1>4, LedgerTurn
<1> QED BY <1>1, <1>2, <1>5 DEF LedgerInv, LedgerGoesOn

LEMMA LedgerStart == ASSUME BooksInit PROVE LedgerInv
<1> USE DEF BooksInit, WorkshopInit, LedgerInit, HandlersInit
<1>1. LedgerFrames
  BY DEF LedgerFrames, DreLabels
<1>2. Alone
  BY DEF Alone
<1>3. EntriesOK
  BY FS_EmptySet DEF EntriesOK, EmptyBag, SetToBag
<1>4. ASSUME NEW w \in Workers PROVE LocalsOK(w) /\ Current(w)
  <2>1. pc[w] = "idle"
    OBVIOUS
  <2> QED BY <2>1 DEF LocalsOK, Current, Place, DreLabels
<1> QED BY <1>1, <1>2, <1>3, <1>4 DEF LedgerInv

LedgerTrue == schedule = "ledger" => LedgerInv

LEMMA LedgerTrueKept == ASSUME LedgerTrue, [BooksNext]_booksVars PROVE LedgerTrue'
<1>1. CASE BooksNext
  <2>1. PICK w \in Workers : /\ Request(w) \/ WorkshopStep(w) \/ WorkshopDie(w)
                             /\ UNCHANGED schedule
    BY <1>1 DEF BooksNext
  <2> QED BY <2>1, ActsForLedger, LedgerKept DEF LedgerTrue
<1>2. CASE UNCHANGED booksVars
  <2>1. UNCHANGED <<pc, ctx, calc, entries, purchasePrice, commission, dre, schedule>>
    BY <1>2 DEF booksVars, workshopVars, ledgerVars, bookVars, handlerVars
  <2>2. ASSUME NEW v PROVE Booked(v)' = Booked(v)
    BY <2>1, SameBooks
  <2>3. ASSUME NEW w \in Workers, LocalsOK(w) /\ Current(w) PROVE (LocalsOK(w) /\ Current(w))'
    <3>1. LocalsOK(w)'
      BY <2>1, <2>3 DEF LocalsOK, Place
    <3>2. Current(w)'
      BY <2>1, <2>2, <2>3 DEF Current
    <3> QED BY <3>1, <3>2
  <2>4. LedgerInv => LedgerInv'
    BY <2>1, <2>3 DEF LedgerInv, LedgerFrames, Alone, EntriesOK
  <2> QED BY <2>1, <2>4 DEF LedgerTrue
<1> QED BY <1>1, <1>2

LEMMA LedgerStays == BooksSpec => []LedgerTrue
<1>1. BooksInit => LedgerTrue
  BY LedgerStart DEF LedgerTrue
<1> QED BY <1>1, LedgerTrueKept, PTL DEF BooksSpec

-----------------------------------------------------------------------------
(* The theorems                                                            *)

\* A DRE that is saved with another value is the one of the documented formula, even after
\* handlers have died half-way (DreService.recalculate, src/docs/BUSINESS_RULES.md:52-54).
THEOREM DreSavedByFormula == BooksSpec => LedgerSavedByFormula
<1>1. ASSUME LedgerTrue, [BooksNext]_booksVars
      PROVE  [schedule = "ledger" => DreByFormula]_booksVars
  <2>1. SUFFICES ASSUME BooksNext, schedule = "ledger" PROVE DreByFormula
    BY <1>1
  <2>2. PICK w \in Workers : Request(w) \/ WorkshopStep(w) \/ WorkshopDie(w)
    BY <2>1 DEF BooksNext
  <2>3. LedgerInv /\ LedgerActs(w)
    BY <1>1, <2>1, <2>2, ActsForLedger DEF LedgerTrue
  <2>4. CASE DreSave(w)
    <3>1. PICK v : v = calc[w].vehicle
      OBVIOUS
    <3>2. calc[w].sums = Booked(v)
      BY <2>3, <2>4, <3>1, SavesBooked DEF DreSave, At
    <3>3. dre' = [dre EXCEPT ![v] = calc[w].sums] /\ DOMAIN dre = Vehicles
      BY <2>3, <2>4, <3>1 DEF DreSave, LedgerInv
    <3>4. ASSUME NEW u \in Vehicles, dre'[u] # dre[u] PROVE dre'[u] = Booked(u)
      <4>1. u = v
        BY <3>3, <3>4
      <4> QED BY <3>2, <3>3, <4>1
    <3> QED BY <3>4 DEF DreByFormula
  <2>5. CASE ~DreSave(w)
    <3>1. ASSUME LedgerRequest(w) PROVE dre' = dre
      BY <3>1 DEF LedgerRequest, CreateManual, Post, RemoveEntry, CreateAcquisition, BookSale,
         SettleCommission, CancelCommission, AdjustCommission, bookVars
    <3>2. ASSUME LedgerStep(w) PROVE dre' = dre
      BY <2>5, <3>2 DEF LedgerStep, DreStep, DreReadVehicle, DreReadEntries, DreReadCommissions,
         EntryStep, DeleteEntry, DeleteEntryGone, AcquisitionStep, AcquisitionPrice,
         AcquisitionPost, AcquisitionPostExtra, Post, CommissionStep, FindCommission, ResolveRule,
         CreateCommission, bookVars
    <3>3. dre' = dre
      BY <2>3, <3>1, <3>2 DEF LedgerActs, WorkshopDie, LedgerDie, bookVars
    <3> QED BY <3>3 DEF DreByFormula
  <2> QED BY <2>4, <2>5
<1> QED BY <1>1, LedgerStays, PTL DEF BooksSpec, LedgerSavedByFormula

\* Nobody settles a commission while the shop is at work.
LEMMA ShopLeavesCommissions ==
    ASSUME BooksInv, schedule # "ledger", NEW w \in Workers,
           Request(w) \/ WorkshopStep(w) \/ WorkshopDie(w)
    PROVE  commission' = commission
<1>1. CASE Request(w)
  BY <1>1 DEF Request, RegisterPart, CreatePart, PartsRequest, RequestMove, EditQuantity,
     MaintenanceRequest, CreateMaintenance, RequestAddPart, RequestRemovePart, RequestComplete,
     RequestCancel, ledgerVars, bookVars
<1>2. CASE PartsStep(w)
  BY <1>2 DEF PartsStep, LogFirstStock, Move, ConsumeCheck, Consume, bookVars
<1>3. CASE MaintenanceStep(w)
  BY <1>3 DEF MaintenanceStep, RecomputeReadItems, RecomputeReadLabor, RecomputeWrite,
     CreateItem, PostItem, RemoveReturn, RemoveWithdraw, RemoveMark, CompleteWrite,
     CompletePost, CancelReturn, CancelWithdraw, CancelMark, CancelWrite, GiveBack,
     Post, Withdraw, bookVars
<1>4. CASE LedgerStep(w)
  <2>1. DreStep(w)
    BY <1>4, OtherLabels DEF LedgerStep, BooksInv
  <2> QED BY <2>1 DEF DreStep, DreReadVehicle, DreReadEntries, DreReadCommissions, DreSave, bookVars
<1>5. CASE WorkshopDie(w)
  BY <1>5 DEF WorkshopDie, LedgerDie, bookVars
<1> QED BY <1>1, <1>2, <1>3, <1>4, <1>5 DEF WorkshopStep

\* The share of the profit, as ProfitShareIsCurrent asks for it
Shared(s) ==
    \A w \in Workers :
      LET rule == ctx[w].rule
          net  == NetProfit(Booked(SoldVehicle[s]))
      IN  At(w, "commission.create") /\ rule # NULL /\ rule.type = "PERCENT_PROFIT"
            => commission'[s].amount = Percent(IF net > 0 THEN net ELSE 0, rule.percentage)

LEMMA CreatesShare ==
    ASSUME LedgerInv, NEW w \in Workers, CreateCommission(w), NEW s, s = ctx[w].sale
    PROVE  Shared(s)
<1>1. pc[w] = "commission.create" /\ Current(w) /\ LocalsOK(w) /\ DOMAIN commission = Sales /\ Alone
  BY DEF CreateCommission, At, LedgerInv
<1>2. s \in Sales
  BY <1>1 DEF LocalsOK, Place, DreLabels
<1>3. SUFFICES ASSUME NEW x \in Workers, pc[x] = "commission.create", Profits(ctx[x].rule)
               PROVE  commission'[s].amount
                        = Percent(IF NetProfit(Booked(SoldVehicle[s])) > 0
                                  THEN NetProfit(Booked(SoldVehicle[s])) ELSE 0, ctx[x].rule.percentage)
  BY DEF Shared, At, Profits
<1>4. x = w
  BY <1>1, <1>3 DEF Alone
<1>5. PICK rule : rule = ctx[w].rule
  OBVIOUS
<1>6. rule # NULL /\ rule.type = "PERCENT_PROFIT" /\ Profits(ctx[w].rule)
  BY <1>3, <1>4, <1>5 DEF Profits
<1>7. commission'[s].amount = ComputeAmount(rule, sold[s], NetProfit(calc[w].sums))
  BY <1>1, <1>2, <1>5, <1>6 DEF CreateCommission
<1>8. PICK net : net = NetProfit(calc[w].sums)
  OBVIOUS
<1>9. ComputeAmount(rule, sold[s], net) = Percent(IF net > 0 THEN net ELSE 0, rule.percentage)
  BY <1>6 DEF ComputeAmount
<1>10. NetProfit(calc[w].sums) = NetProfit(Booked(SoldVehicle[s]))
  <2>1. PICK v : v = SoldVehicle[s]
    OBVIOUS
  <2>2. calc[w].sums = Booked(v)
    BY <1>1, <1>6, <2>1 DEF Current
  <2> QED BY <2>1, <2>2 DEF NetProfit
<1> QED BY <1>4, <1>5, <1>7, <1>8, <1>9, <1>10

\* A commission on the profit is a share of the profit the books show when it is created, the
\* revenue of its own sale included (BUSINESS_RULES.md:67, CommissionsService.generateForSale).
THEOREM ProfitIsShared == BooksSpec => ProfitShareIsCurrent
<1> DEFINE Step == \A s \in Sales : commission[s] = NULL /\ commission'[s] # NULL => Shared(s)
<1>1. ASSUME LedgerTrue, BooksInv, [BooksNext]_booksVars
      PROVE  [Step]_ledgerVars
  <2>1. CASE UNCHANGED booksVars
    BY <2>1 DEF booksVars, workshopVars
  <2>2. CASE commission' = commission
    BY <2>2
  <2>3. CASE BooksNext /\ commission' # commission
    <3>1. PICK w \in Workers : Request(w) \/ WorkshopStep(w) \/ WorkshopDie(w)
      BY <2>3 DEF BooksNext
    <3>2. schedule = "ledger"
      BY <1>1, <2>3, <3>1, ShopLeavesCommissions
    <3>3. LedgerInv /\ LedgerActs(w)
      BY <1>1, <3>1, <3>2, ActsForLedger DEF LedgerTrue
    <3>4. DOMAIN commission = Sales
      BY <3>3 DEF LedgerInv
    <3>5. CASE CreateCommission(w)
      <4>1. SUFFICES ASSUME NEW s \in Sales, commission[s] = NULL, commission'[s] # NULL
                     PROVE  Shared(s)
        OBVIOUS
      <4>2. s = ctx[w].sale
        BY <3>4, <3>5, <4>1 DEF CreateCommission
      <4> QED BY <3>3, <3>5, <4>2, CreatesShare
    <3>6. CASE \/ \E s \in Sales, status \in {"APPROVED", "PAID"} : SettleCommission(w, s, status)
               \/ \E s \in Sales : CancelCommission(w, s)
               \/ \E s \in Sales, amount \in SmallAmounts : AdjustCommission(w, s, amount)
      <4>1. PICK s \in Sales : commission[s] # NULL /\ \E c : commission' = [commission EXCEPT ![s] = c]
        BY <3>6 DEF SettleCommission, CancelCommission, AdjustCommission
      <4>2. \A x \in Sales : commission[x] = NULL => commission'[x] = NULL
        BY <3>4, <4>1
      <4> QED BY <4>2
    <3>7. \/ CreateCommission(w)
          \/ \E s \in Sales, status \in {"APPROVED", "PAID"} : SettleCommission(w, s, status)
          \/ \E s \in Sales : CancelCommission(w, s)
          \/ \E s \in Sales, amount \in SmallAmounts : AdjustCommission(w, s, amount)
      <4>1. CASE LedgerRequest(w)
        BY <2>3, <4>1 DEF LedgerRequest, CreateManual, Post, RemoveEntry, CreateAcquisition,
           BookSale, bookVars
      <4>2. CASE LedgerStep(w)
        BY <2>3, <4>2 DEF LedgerStep, DreStep, DreReadVehicle, DreReadEntries, DreReadCommissions,
           DreSave, EntryStep, DeleteEntry, DeleteEntryGone, AcquisitionStep, AcquisitionPrice,
           AcquisitionPost, AcquisitionPostExtra, Post, CommissionStep, FindCommission,
           ResolveRule, bookVars
      <4>3. ~WorkshopDie(w)
        BY <2>3 DEF WorkshopDie, LedgerDie, bookVars
      <4> QED BY <3>3, <4>1, <4>2, <4>3 DEF LedgerActs
    <3> QED BY <3>5, <3>6, <3>7
  <2> QED BY <1>1, <2>1, <2>2, <2>3
<1>2. ProfitShareIsCurrent <=> [][Step]_ledgerVars
  BY DEF ProfitShareIsCurrent, Shared
<1> HIDE DEF Step
<1> QED BY <1>1, <1>2, LedgerStays, BooksStay, PTL DEF BooksSpec

-----------------------------------------------------------------------------
(* Money is a number                                                       *)

CommissionRecords == [status : CommissionStatuses, amount : Int]

Commissioned == {s \in Sales : commission[s] # NULL}

CommissionPlaces == {"commission.find", "commission.rule", "commission.create"}

Priced(w) == sold[ctx[w].sale] \in Int /\ ctx[w].rule \in Rules \cup {NULL}

MoneyOK ==
    /\ purchasePrice \in [Vehicles -> Int] /\ DOMAIN sold = Sales
    /\ commission \in [Sales -> CommissionRecords \cup {NULL}]
    /\ IsFiniteSet(Commissioned)
    /\ \A w \in Workers : Place(w) \in CommissionPlaces => Priced(w)

CommissionTotal(v) == MapThenSumSet(LAMBDA s : commission[s].amount, OpenCommissions(v))

\* The library adds up the amounts of some commissions.
LEMMA AmountsAddUp ==
    ASSUME NEW c, NEW S, IsFiniteSet(S), \A s \in S : c[s].amount \in Int
    PROVE  MapThenSumSet(LAMBDA s : c[s].amount, S) = SumOver([s \in S |-> c[s].amount], S)
<1> DEFINE g == [s \in S |-> c[s].amount]
           Adds(f) == f = [s \in SUBSET S |->
                      IF s = {} THEN 0
                      ELSE c[CHOOSE x \in s : TRUE].amount + f[s \ {CHOOSE x \in s : TRUE}]]
           iter == CHOOSE f : Adds(f)
<1>1. MapThenSumSet(LAMBDA s : c[s].amount, S) = iter[S]
  BY DEF MapThenSumSet, MapThenFoldSet
<1>2. \A s \in S : g[s] \in Int /\ g[s] = c[s].amount
  OBVIOUS
<1> HIDE DEF g
<1>3. \A f : Chosen(f, g, S) <=> Adds(f)
  <2>1. \A s \in SUBSET S : s # {} =>
          g[CHOOSE x \in s : TRUE] = c[CHOOSE x \in s : TRUE].amount
    BY <1>2
  <2> QED BY <2>1 DEF Chosen
<1> HIDE DEF Adds
<1>4. \E f : Adds(f)
  BY <1>2, <1>3, ChosenExists
<1>5. Adds(iter)
  BY <1>4
<1> HIDE DEF iter
<1>6. iter[S] = SumOver(g, S)
  BY <1>2, <1>3, <1>5, ChosenIsSum
<1> QED BY <1>1, <1>6 DEF g

LEMMA OpenAreNumbers ==
    ASSUME MoneyOK, NEW v
    PROVE  /\ IsFiniteSet(OpenCommissions(v))
           /\ OpenCommissions(v) \subseteq Sales
           /\ \A s \in OpenCommissions(v) : commission[s].amount \in Int
<1>1. OpenCommissions(v) \in SUBSET Commissioned
  BY DEF OpenCommissions, Commissioned
<1>2. \A s \in Commissioned : commission[s].amount \in Int
  BY DEF MoneyOK, CommissionRecords, Commissioned
<1> QED BY <1>1, <1>2, FS_Subset DEF MoneyOK, Commissioned

LEMMA BookedIsNumber ==
    ASSUME MoneyOK, EntriesOK, NEW v \in Vehicles
    PROVE  NetProfit(Booked(v)) \in Int
<1>1. ASSUME NEW kinds PROVE Total(v, kinds) \in Int
  <2>1. Matching(v, kinds) \in SUBSET (DOMAIN entries)
    BY DEF Matching
  <2>2. /\ IsFiniteSet(RowsOf(Matching(v, kinds)))
        /\ \A r \in RowsOf(Matching(v, kinds)) : RowAmount[r] \in Int
    BY <2>1, RowsAdd
  <2> QED BY <2>2, TotalIsRows, SumInt
<1>2. CommissionTotal(v) \in Int
  <2>1. PICK c, S : c = commission /\ S = OpenCommissions(v)
    OBVIOUS
  <2>2. IsFiniteSet(S) /\ \A s \in S : c[s].amount \in Int
    BY <2>1, OpenAreNumbers
  <2>3. CommissionTotal(v) = MapThenSumSet(LAMBDA s : c[s].amount, S)
    BY <2>1 DEF CommissionTotal, MapThenSumSet, MapThenFoldSet
  <2>4. SumOver([s \in S |-> c[s].amount], S) \in Int
    BY <2>2, SumInt
  <2> QED BY <2>2, <2>3, <2>4, AmountsAddUp
<1>3. purchasePrice[v] \in Int
  BY DEF MoneyOK
<1>4. /\ Booked(v).revenue \in Int /\ Booked(v).expenses \in Int /\ Booked(v).commission \in Int
  BY <1>1, <1>2, <1>3 DEF Booked, CommissionTotal
<1> QED BY <1>4 DEF NetProfit

LEMMA AmountIsNumber ==
    ASSUME NEW rule \in Rules, NEW price \in Int, NEW net,
           rule.type = "PERCENT_PROFIT" => net \in Int
    PROVE  ComputeAmount(rule, price, net) \in Int
<1>1. ASSUME NEW base \in Int, NEW percentage \in Int PROVE Percent(base, percentage) \in Int
  BY DEF Percent
<1>2. CASE rule \in [type : {"PERCENT_SALE", "PERCENT_PROFIT"}, percentage : Int]
  <2>1. rule.percentage \in Int
    BY <1>2
  <2>2. CASE rule.type = "PERCENT_SALE"
    BY <1>1, <2>1, <2>2 DEF ComputeAmount
  <2>3. CASE rule.type = "PERCENT_PROFIT"
    <3>1. ComputeAmount(rule, price, net) = Percent(IF net > 0 THEN net ELSE 0, rule.percentage)
      BY <2>3 DEF ComputeAmount
    <3>2. (IF net > 0 THEN net ELSE 0) \in Int
      BY <2>3
    <3> QED BY <1>1, <2>1, <3>1, <3>2
  <2> QED BY <1>2, <2>2, <2>3
<1>3. CASE rule \in [type : {"FIXED"}, fixedAmount : Int]
  BY <1>3 DEF ComputeAmount
<1>4. CASE rule \in [type : {"PROGRESSIVE"},
                     tiers : Seq([min : Int, max : Int \cup {NULL}, percentage : Int])]
  <2> DEFINE Tiers == [min : Int, max : Int \cup {NULL}, percentage : Int]
  <2>1. PICK tiers \in Seq(Tiers) : rule.type = "PROGRESSIVE" /\ rule.tiers = tiers
    BY <1>4
  <2> DEFINE hits == {i \in DOMAIN tiers :
                        price >= tiers[i].min /\ (tiers[i].max = NULL \/ price <= tiers[i].max)}
             first == CHOOSE i \in hits : \A j \in hits : i <= j
  <2>2. DOMAIN tiers \subseteq Nat /\ \A i \in DOMAIN tiers : tiers[i].percentage \in Int
    <3>1. \A t \in Tiers : t.percentage \in Int
      OBVIOUS
    <3> HIDE DEF Tiers
    <3>2. DOMAIN tiers = 1 .. Len(tiers) /\ Len(tiers) \in Nat /\ \A i \in DOMAIN tiers : tiers[i] \in Tiers
      OBVIOUS
    <3> QED BY <3>1, <3>2
  <2>3. TierPercentage(tiers, price) = IF hits = {} THEN 0 ELSE tiers[first].percentage
    BY DEF TierPercentage
  <2>4. hits # {} => first \in hits
    <3>1. hits \in SUBSET Nat
      BY <2>2
    <3> HIDE DEF hits
    <3> QED BY <3>1, SmallestNumber
  <2>5. TierPercentage(tiers, price) \in Int
    <3>1. hits \subseteq DOMAIN tiers
      OBVIOUS
    <3> HIDE DEF hits, first
    <3> QED BY <2>2, <2>3, <2>4, <3>1
  <2>6. ComputeAmount(rule, price, net) = Percent(price, TierPercentage(rule.tiers, price))
    BY <2>1 DEF ComputeAmount
  <2> QED BY <1>1, <2>1, <2>5, <2>6
<1> QED BY <1>2, <1>3, <1>4, RulesAssumption

LEMMA MoneyKept ==
    ASSUME LedgerInv, MoneyOK, NEW w \in Workers, LedgerActs(w)
    PROVE  MoneyOK'
<1>1. \A x \in Workers \ {w} : pc[x] = "idle"
  BY LedgerMoves DEF LedgerActs, LedgerInv, Alone, Quiet, WorkshopDie, LedgerDie, Die
<1>2. /\ DOMAIN pc = Workers /\ DOMAIN ctx = Workers /\ DOMAIN calc = Workers
      /\ LocalsOK(w) /\ LedgerInv' /\ EntriesOK
  BY LedgerKept DEF LedgerInv, LedgerFrames
<1>3. ASSUME purchasePrice' = purchasePrice \/ \E v : \E price \in Int : purchasePrice' = [purchasePrice EXCEPT ![v] = price],
             DOMAIN sold' = DOMAIN sold,
             \/ commission' = commission
             \/ \E s \in Sales, c \in CommissionRecords : commission' = [commission EXCEPT ![s] = c],
             Place(w)' \in CommissionPlaces => Priced(w)',
             UNCHANGED pc \/ \E label : pc' = [pc EXCEPT ![w] = label]
      PROVE  MoneyOK'
  <2>1. purchasePrice' \in [Vehicles -> Int] /\ DOMAIN sold' = Sales
    BY <1>3 DEF MoneyOK
  <2>2. commission' \in [Sales -> CommissionRecords \cup {NULL}] /\ IsFiniteSet(Commissioned')
    <3>1. CASE commission' = commission
      BY <3>1 DEF MoneyOK, Commissioned
    <3>2. CASE \E s \in Sales, c \in CommissionRecords : commission' = [commission EXCEPT ![s] = c]
      <4>1. PICK s \in Sales, c \in CommissionRecords : commission' = [commission EXCEPT ![s] = c]
        BY <3>2
      <4>2. IsFiniteSet(Commissioned \cup {s}) /\ Commissioned' \subseteq Commissioned \cup {s}
        BY <4>1, FS_AddElement DEF MoneyOK, Commissioned
      <4> QED BY <4>1, <4>2, FS_Subset DEF MoneyOK
    <3> QED BY <1>3, <3>1, <3>2
  <2>3. \A x \in Workers : Place(x)' \in CommissionPlaces => Priced(x)'
    <3>1. \A x \in Workers \ {w} : pc'[x] = "idle"
      BY <1>1, <1>2, <1>3
    <3>2. \A x \in Workers \ {w} : Place(x)' = "idle"
      BY <3>1 DEF Place, DreLabels
    <3> QED BY <1>3, <3>2 DEF CommissionPlaces
  <2> QED BY <2>1, <2>2, <2>3 DEF MoneyOK
<1>4. ASSUME NEW s \in Sales, commission[s] # NULL
      PROVE  /\ \A status \in CommissionStatuses : [commission[s] EXCEPT !.status = status] \in CommissionRecords
             /\ \A amount \in Int : [commission[s] EXCEPT !.amount = amount] \in CommissionRecords
  <2>1. commission[s] \in CommissionRecords
    BY <1>4 DEF MoneyOK
  <2> QED BY <2>1 DEF CommissionRecords
<1>5. \A v, next : Recalculate(w, v, next) => pc' = [pc EXCEPT ![w] = "dre.vehicle"] /\ Place(w)' = next
  BY <1>2 DEF Recalculate, Place, DreLabels
<1>6. CASE LedgerRequest(w) /\ Quiet
  <2>1. CASE \E v \in Vehicles, kind \in EntryKinds, amount \in SmallAmounts : CreateManual(w, v, kind, amount)
    <3>1. PICK v : Recalculate(w, v, "idle") /\ UNCHANGED <<purchasePrice, commission, sold>>
      BY <2>1 DEF CreateManual, Post
    <3> QED BY <1>3, <1>5, <3>1 DEF CommissionPlaces
  <2>2. CASE \/ \E e \in DOMAIN entries : RemoveEntry(w, e)
             \/ \E v \in Vehicles, price \in Amounts, extra \in SmallAmounts \cup {0}, confirm \in BOOLEAN :
                   CreateAcquisition(w, v, price, extra, confirm)
    <3>1. /\ UNCHANGED <<purchasePrice, commission, sold>>
          /\ \E label \in {"entry.delete", "acquisition.price"} : pc' = [pc EXCEPT ![w] = label]
      BY <2>2 DEF RemoveEntry, CreateAcquisition, Begin, bookVars
    <3>2. Place(w)' \notin CommissionPlaces
      BY <1>2, <3>1 DEF Place, DreLabels, CommissionPlaces
    <3> QED BY <1>3, <3>1, <3>2
  <2>3. CASE \E s \in Sales, price \in Amounts : BookSale(w, s, price)
    <3>1. PICK s \in Sales, price \in Amounts : BookSale(w, s, price)
      BY <2>3
    <3>2. /\ Recalculate(w, SoldVehicle[s], "commission.find") /\ UNCHANGED <<purchasePrice, commission>>
          /\ ctx' = [ctx EXCEPT ![w] = [sale |-> s, rule |-> NULL]]
          /\ sold' = [sold EXCEPT ![s] = price]
      BY <3>1 DEF BookSale
    <3>3. price \in Int /\ ctx'[w].sale = s /\ ctx'[w].rule = NULL
      BY <1>2, <3>2, LedgerAssumption
    <3>4. Priced(w)'
      BY <3>1, <3>2, <3>3 DEF Priced, MoneyOK
    <3> QED BY <1>3, <1>5, <3>2, <3>3, <3>4
  <2>4. CASE \E s \in Sales, status \in {"APPROVED", "PAID"} : SettleCommission(w, s, status)
    <3>1. PICK s \in Sales, status \in {"APPROVED", "PAID"} : SettleCommission(w, s, status)
      BY <2>4
    <3>2. [commission[s] EXCEPT !.status = status] \in CommissionRecords
      BY <1>4, <3>1 DEF SettleCommission, CommissionStatuses
    <3>3. /\ commission' = [commission EXCEPT ![s] = [commission[s] EXCEPT !.status = status]]
          /\ UNCHANGED <<purchasePrice, sold, pc>> /\ pc[w] = "idle"
      BY <3>1 DEF SettleCommission, handlerVars
    <3>4. Place(w)' \notin CommissionPlaces
      BY <3>3 DEF Place, DreLabels, CommissionPlaces
    <3> QED BY <1>3, <3>2, <3>3, <3>4
  <2>5. CASE \E s \in Sales : CancelCommission(w, s)
    <3>1. PICK s \in Sales : CancelCommission(w, s)
      BY <2>5
    <3>2. [commission[s] EXCEPT !.status = "CANCELED"] \in CommissionRecords
      BY <1>4, <3>1 DEF CancelCommission, CommissionStatuses
    <3>3. /\ commission' = [commission EXCEPT ![s] = [commission[s] EXCEPT !.status = "CANCELED"]]
          /\ UNCHANGED purchasePrice /\ Recalculate(w, SoldVehicle[s], "idle")
      BY <3>1 DEF CancelCommission
    <3>4. PICK c \in CommissionRecords : c = [commission[s] EXCEPT !.status = "CANCELED"]
      BY <3>2
    <3>5. Place(w)' = "idle" /\ \E label : pc' = [pc EXCEPT ![w] = label]
      BY <1>5, <3>3
    <3>6. commission' = [commission EXCEPT ![s] = c] /\ UNCHANGED <<purchasePrice, sold>>
      BY <3>1, <3>3, <3>4 DEF CancelCommission
    <3> QED BY <1>3, <3>5, <3>6 DEF CommissionPlaces
  <2>6. CASE \E s \in Sales, amount \in SmallAmounts : AdjustCommission(w, s, amount)
    <3>1. PICK s \in Sales, amount \in SmallAmounts : AdjustCommission(w, s, amount)
      BY <2>6
    <3>2. [commission[s] EXCEPT !.amount = amount] \in CommissionRecords
      BY <1>4, <3>1, LedgerAssumption DEF AdjustCommission
    <3>3. /\ commission' = [commission EXCEPT ![s] = [commission[s] EXCEPT !.amount = amount]]
          /\ UNCHANGED purchasePrice /\ Recalculate(w, SoldVehicle[s], "idle")
      BY <3>1 DEF AdjustCommission
    <3>4. PICK c \in CommissionRecords : c = [commission[s] EXCEPT !.amount = amount]
      BY <3>2
    <3>5. Place(w)' = "idle" /\ \E label : pc' = [pc EXCEPT ![w] = label]
      BY <1>5, <3>3
    <3>6. commission' = [commission EXCEPT ![s] = c] /\ UNCHANGED <<purchasePrice, sold>>
      BY <3>1, <3>3, <3>4 DEF AdjustCommission
    <3> QED BY <1>3, <3>5, <3>6 DEF CommissionPlaces
  <2> QED BY <1>6, <2>1, <2>2, <2>3, <2>4, <2>5, <2>6 DEF LedgerRequest
<1>7. CASE LedgerStep(w)
  <2>1. CASE DreReadVehicle(w) \/ DreReadEntries(w) \/ DreReadCommissions(w)
    <3>1. pc[w] \in DreLabels /\ UNCHANGED <<purchasePrice, commission, sold, ctx>>
          /\ \E label \in DreLabels : pc' = [pc EXCEPT ![w] = label]
      BY <2>1 DEF DreReadVehicle, DreReadEntries, DreReadCommissions, At, Goto, bookVars, DreLabels
    <3>2. Framed(calc[w])
      BY <1>2, <3>1 DEF LocalsOK
    <3>3. calc'[w].next = calc[w].next
      <4>1. CASE DreReadVehicle(w)
        BY <1>2, <3>2, <4>1 DEF Framed, DreReadVehicle
      <4>2. CASE DreReadEntries(w)
        <5>1. PICK r, x : calc' = [calc EXCEPT ![w].sums.revenue = r, ![w].sums.expenses = x]
          BY <4>2 DEF DreReadEntries
        <5> QED BY <1>2, <3>2, <5>1 DEF Framed
      <4>3. CASE DreReadCommissions(w)
        BY <1>2, <3>2, <4>3 DEF Framed, DreReadCommissions
      <4> QED BY <2>1, <4>1, <4>2, <4>3
    <3>4. Place(w)' = Place(w)
      BY <1>2, <3>1, <3>3 DEF Place
    <3> QED BY <1>3, <3>1, <3>4 DEF MoneyOK, Priced
  <2>2. CASE DreSave(w)
    <3>1. pc[w] = "dre.save" /\ UNCHANGED <<purchasePrice, commission, sold>>
          /\ (\/ pc' = [pc EXCEPT ![w] = "idle"]
              \/ pc' = [pc EXCEPT ![w] = calc[w].next] /\ UNCHANGED <<ctx, calc>>)
      BY <2>2 DEF DreSave, At, Return, Goto
    <3>2. CASE pc' = [pc EXCEPT ![w] = "idle"]
      <4>1. Place(w)' = "idle"
        BY <1>2, <3>2 DEF Place, DreLabels
      <4> QED BY <1>3, <3>1, <3>2, <4>1 DEF CommissionPlaces
    <3>3. CASE pc' = [pc EXCEPT ![w] = calc[w].next] /\ UNCHANGED <<ctx, calc>>
      <4>1. Place(w)' = Place(w)
        BY <1>2, <3>1, <3>3 DEF Place, DreLabels
      <4> QED BY <1>3, <3>1, <3>3, <4>1 DEF MoneyOK, Priced
    <3> QED BY <3>1, <3>2, <3>3
  <2>3. CASE EntryStep(w) \/ AcquisitionPost(w) \/ AcquisitionPostExtra(w)
    <3>1. /\ UNCHANGED <<purchasePrice, commission, sold>>
          /\ \/ pc' = [pc EXCEPT ![w] = "idle"]
             \/ \E v, next : next \in {"idle", "acquisition.extra"} /\ Recalculate(w, v, next)
      BY <2>3 DEF EntryStep, DeleteEntry, DeleteEntryGone, AcquisitionPost, AcquisitionPostExtra,
         Post, Return, bookVars
    <3>2. Place(w)' \in {"idle", "acquisition.extra"}
      BY <1>2, <1>5, <3>1 DEF Place, DreLabels
    <3> QED BY <1>3, <1>5, <3>1, <3>2 DEF CommissionPlaces
  <2>4. CASE AcquisitionPrice(w)
    <3>1. /\ UNCHANGED commission /\ pc[w] = "acquisition.price"
          /\ purchasePrice' = [purchasePrice EXCEPT ![ctx[w].vehicle] = ctx[w].price]
          /\ \E label \in {"idle", "acquisition.purchase"} : pc' = [pc EXCEPT ![w] = label]
      BY <2>4 DEF AcquisitionPrice, At, Goto, Return
    <3>2. PICK v, price : v = ctx[w].vehicle /\ price = ctx[w].price
      OBVIOUS
    <3>3. price \in Int
      BY <1>2, <3>1, <3>2 DEF LocalsOK, Place, DreLabels, Positive
    <3>4. Place(w)' \notin CommissionPlaces
      BY <1>2, <3>1 DEF Place, DreLabels, CommissionPlaces
    <3>5. purchasePrice' = [purchasePrice EXCEPT ![v] = price] /\ UNCHANGED sold
      BY <2>4, <3>2 DEF AcquisitionPrice
    <3> QED BY <1>3, <3>1, <3>3, <3>4, <3>5
  <2>5. CASE CommissionStep(w)
    <3>1. /\ pc[w] \in CommissionPlaces /\ UNCHANGED <<purchasePrice, sold>>
      BY <2>5 DEF CommissionStep, FindCommission, ResolveRule, CreateCommission, At, bookVars,
         CommissionPlaces
    <3>2. /\ Place(w) = pc[w] /\ Priced(w) /\ ctx[w].sale \in Sales
          /\ ctx[w] = [sale |-> ctx[w].sale, rule |-> ctx[w].rule]
      BY <1>2, <3>1 DEF MoneyOK, LocalsOK, Place, DreLabels, CommissionPlaces
    <3>3. CASE FindCommission(w)
      <4>1. UNCHANGED commission
            /\ (\/ pc' = [pc EXCEPT ![w] = "idle"]
                \/ pc' = [pc EXCEPT ![w] = "commission.rule"] /\ UNCHANGED ctx)
        BY <3>3 DEF FindCommission, Return, Goto, bookVars
      <4>2. Place(w)' \in CommissionPlaces => ctx' = ctx
        BY <1>2, <4>1 DEF Place, DreLabels, CommissionPlaces
      <4> QED BY <1>3, <3>1, <3>2, <4>1, <4>2 DEF Priced
    <3>4. CASE ResolveRule(w)
      <4>1. PICK rule \in Rules \cup {NULL} :
                        /\ ctx' = [ctx EXCEPT ![w].rule = rule] /\ UNCHANGED commission
                        /\ \E label : pc' = [pc EXCEPT ![w] = label]
        BY <3>4 DEF ResolveRule, Recalculate, bookVars
      <4>2. ctx'[w].sale = ctx[w].sale /\ ctx'[w].rule = rule
        <5>1. PICK s, r : ctx[w] = [sale |-> s, rule |-> r]
          BY <3>2
        <5>2. ctx'[w] = [sale |-> s, rule |-> rule]
          BY <1>2, <4>1, <5>1
        <5> QED BY <5>1, <5>2
      <4> QED BY <1>3, <3>1, <3>2, <4>1, <4>2 DEF Priced
    <3>5. CASE CreateCommission(w)
      <4>1. PICK s, rule : s = ctx[w].sale /\ rule = ctx[w].rule
        OBVIOUS
      <4>2. PICK amount :
              /\ amount = IF rule = NULL THEN 0 ELSE ComputeAmount(rule, sold[s], NetProfit(calc[w].sums))
              /\ commission' = [commission EXCEPT ![s] = [status |-> "PENDING", amount |-> amount]]
        BY <3>5, <4>1 DEF CreateCommission
      <4>3. amount \in Int
        <5>1. CASE rule # NULL
          <6>1. rule \in Rules /\ sold[s] \in Int /\ s \in Sales
            BY <3>2, <4>1, <5>1 DEF Priced
          <6>2. ASSUME rule.type = "PERCENT_PROFIT" PROVE NetProfit(calc[w].sums) \in Int
            <7>1. PICK v : v = SoldVehicle[s]
              OBVIOUS
            <7>2. v \in Vehicles
              BY <6>1, <7>1, LedgerAssumption
            <7>3. calc[w].sums = Booked(v)
              BY <1>2, <3>5, <4>1, <5>1, <6>2, <7>1 DEF LedgerInv, Current, CreateCommission, At, Profits
            <7>4. NetProfit(Booked(v)) \in Int
              BY <1>2, <7>2, BookedIsNumber
            <7> QED BY <7>3, <7>4
          <6>3. PICK net : net = NetProfit(calc[w].sums)
            OBVIOUS
          <6>4. ComputeAmount(rule, sold[s], net) \in Int
            BY <6>1, <6>2, <6>3, AmountIsNumber
          <6> QED BY <4>2, <5>1, <6>3, <6>4
        <5>2. CASE rule = NULL
          BY <4>2, <5>2
        <5> QED BY <5>1, <5>2
      <4>4. [status |-> "PENDING", amount |-> amount] \in CommissionRecords /\ s \in Sales
        BY <3>2, <4>1, <4>3 DEF CommissionRecords, CommissionStatuses
      <4>5. \/ pc' = [pc EXCEPT ![w] = "idle"]
            \/ \E v : Recalculate(w, v, "idle")
        BY <3>5 DEF CreateCommission, Return
      <4>6. Place(w)' = "idle" /\ \E label : pc' = [pc EXCEPT ![w] = label]
        BY <1>2, <1>5, <4>5 DEF Place, DreLabels
      <4> QED BY <1>3, <3>1, <4>2, <4>4, <4>6 DEF CommissionPlaces
    <3> QED BY <2>5, <3>3, <3>4, <3>5 DEF CommissionStep
  <2> QED BY <1>7, <2>1, <2>2, <2>3, <2>4, <2>5 DEF LedgerStep, DreStep, AcquisitionStep
<1>8. CASE WorkshopDie(w)
  <2>1. UNCHANGED <<purchasePrice, commission, sold>> /\ pc' = [pc EXCEPT ![w] = "idle"]
    BY <1>8 DEF WorkshopDie, LedgerDie, Die, bookVars
  <2>2. Place(w)' = "idle"
    BY <1>2, <2>1 DEF Place, DreLabels
  <2> QED BY <1>3, <2>1, <2>2 DEF CommissionPlaces
<1> QED BY <1>6, <1>7, <1>8 DEF LedgerActs


-----------------------------------------------------------------------------
(* The ledger: a vehicle whose books were written is recalculated          *)

\* What DreFollowsEntries asks for a vehicle
Follows(v) ==
    IF \E e \in DOMAIN entries : e.vehicle = v
    THEN /\ dre[v].revenue = Booked(v).revenue
         /\ (\E e \in DOMAIN entries : e.vehicle = v /\ e.kind = "purchase")
              => dre[v].expenses = Booked(v).expenses
         /\ (\A s \in OpenCommissions(v) : commission[s].status = "PENDING")
              => dre[v].commission = Booked(v).commission
    ELSE dre[v] # NULL => dre[v].revenue = 0

Awaited(v) == \E w \in Workers : pc[w] \in DreLabels /\ calc[w].vehicle = v

FollowInv == failures = 0 => \A v \in Vehicles : Awaited(v) \/ Follows(v)

RowsFor(v) == [e \in {x \in DOMAIN entries : x.vehicle = v} |-> entries[e]]

AllPending(v) == \A s \in OpenCommissions(v) : commission[s].status = "PENDING"

CommissionsStand(v) == AllPending(v)' => AllPending(v) /\ CommissionTotal(v)' = CommissionTotal(v)

LEMMA SameTotals ==
    ASSUME NEW v, RowsFor(v)' = RowsFor(v)
    PROVE  /\ \A kinds : Total(v, kinds)' = Total(v, kinds)
           /\ \A kind : (\E e \in DOMAIN entries' : e.vehicle = v /\ e.kind = kind)
                          <=> \E e \in DOMAIN entries : e.vehicle = v /\ e.kind = kind
           /\ (\E e \in DOMAIN entries' : e.vehicle = v) <=> \E e \in DOMAIN entries : e.vehicle = v
<1>1. {x \in DOMAIN entries' : x.vehicle = v} = {x \in DOMAIN entries : x.vehicle = v}
      /\ \A e \in DOMAIN entries : e.vehicle = v => entries'[e] = entries[e]
  <2>1. DOMAIN (RowsFor(v)') = DOMAIN RowsFor(v)
        /\ \A e \in DOMAIN RowsFor(v) : RowsFor(v)'[e] = RowsFor(v)[e]
    OBVIOUS
  <2> QED BY <2>1 DEF RowsFor
<1>2. ASSUME NEW kinds PROVE Total(v, kinds)' = Total(v, kinds)
  <2>1. {x \in DOMAIN entries' : x.vehicle = v /\ x.kind \in kinds}
          = {x \in DOMAIN entries : x.vehicle = v /\ x.kind \in kinds}
    BY <1>1
  <2>2. \A e \in {x \in DOMAIN entries : x.vehicle = v /\ x.kind \in kinds} : entries'[e] = entries[e]
    BY <1>1
  <2>3. {{e} \X (1 .. entries'[e]) : e \in {x \in DOMAIN entries' : x.vehicle = v /\ x.kind \in kinds}}
          = {{e} \X (1 .. entries[e]) : e \in {x \in DOMAIN entries : x.vehicle = v /\ x.kind \in kinds}}
    BY <2>1, <2>2
  <2> QED BY <2>3 DEF Total, MapThenSumSet, MapThenFoldSet
<1>3. \A e : (e \in DOMAIN entries' /\ e.vehicle = v) <=> (e \in DOMAIN entries /\ e.vehicle = v)
  BY <1>1
<1> QED BY <1>2, <1>3

LEMMA StillFollows ==
    ASSUME NEW v, Follows(v), dre'[v] = dre[v], RowsFor(v)' = RowsFor(v), CommissionsStand(v)
    PROVE  Follows(v)'
<1>1. /\ Total(v, {"revenue"})' = Total(v, {"revenue"})
      /\ Total(v, {"purchase", "expense"})' = Total(v, {"purchase", "expense"})
  BY SameTotals
<1>2. /\ (\E e \in DOMAIN entries' : e.vehicle = v) <=> \E e \in DOMAIN entries : e.vehicle = v
      /\ (\E e \in DOMAIN entries' : e.vehicle = v /\ e.kind = "purchase")
           <=> \E e \in DOMAIN entries : e.vehicle = v /\ e.kind = "purchase"
  BY SameTotals
<1>3. Booked(v)'.revenue = Booked(v).revenue
  BY <1>1 DEF Booked
<1>4. (\E e \in DOMAIN entries : e.vehicle = v /\ e.kind = "purchase")
        => Booked(v)'.expenses = Booked(v).expenses
  BY <1>1, <1>2 DEF Booked
<1>5. AllPending(v)' => AllPending(v) /\ Booked(v)'.commission = Booked(v).commission
  <2>1. Booked(v).commission = CommissionTotal(v)
    BY DEF Booked, CommissionTotal
  <2>2. Booked(v)'.commission = CommissionTotal(v)'
    BY DEF Booked, CommissionTotal
  <2> QED BY <2>1, <2>2 DEF CommissionsStand
<1> QED BY <1>2, <1>3, <1>4, <1>5 DEF Follows, AllPending

LEMMA RowsLeftAlone ==
    ASSUME NEW v, \/ UNCHANGED entries
                  \/ \E e : Insert(e) /\ e.vehicle # v
                  \/ \E e : entries' = entries (-) SetToBag({e}) /\ e.vehicle # v,
           EntriesOK
    PROVE  RowsFor(v)' = RowsFor(v)
<1>1. CASE UNCHANGED entries
  BY <1>1 DEF RowsFor
<1>2. CASE \E e : Insert(e) /\ e.vehicle # v
  <2>1. PICK e : Insert(e) /\ e.vehicle # v
    BY <1>2
  <2>2. entries' = [x \in DOMAIN entries \cup {e} |->
                     (IF x \in DOMAIN entries THEN entries[x] ELSE 0) + (IF x \in {e} THEN 1 ELSE 0)]
    BY <2>1 DEF Insert, (+), SetToBag
  <2>3. \A x \in DOMAIN entries : x.vehicle = v => entries'[x] = entries[x]
    BY <2>1, <2>2 DEF EntriesOK, Positive
  <2>4. {x \in DOMAIN entries' : x.vehicle = v} = {x \in DOMAIN entries : x.vehicle = v}
    BY <2>1, <2>2
  <2> QED BY <2>3, <2>4 DEF RowsFor
<1>3. CASE \E e : entries' = entries (-) SetToBag({e}) /\ e.vehicle # v
  <2>1. PICK e : entries' = entries (-) SetToBag({e}) /\ e.vehicle # v
    BY <1>3
  <2> DEFINE left == [x \in DOMAIN entries |-> IF x \in {e} THEN entries[x] - 1 ELSE entries[x]]
             D    == {x \in DOMAIN left : left[x] > 0}
  <2>2. entries' = [x \in D |-> left[x]]
    BY <2>1 DEF (-), SetToBag
  <2>3. \A x : x \in D /\ x.vehicle = v <=> x \in DOMAIN entries /\ x.vehicle = v
    BY <2>1 DEF EntriesOK, Positive
  <2>4. \A x \in D : x.vehicle = v => left[x] = entries[x]
    BY <2>1
  <2> HIDE DEF D, left
  <2>5. {x \in DOMAIN entries' : x.vehicle = v} = {x \in DOMAIN entries : x.vehicle = v}
    BY <2>2, <2>3
  <2>6. \A x \in {y \in DOMAIN entries : y.vehicle = v} : entries'[x] = entries[x]
    BY <2>2, <2>3, <2>4
  <2> QED BY <2>5, <2>6 DEF RowsFor
<1> QED BY <1>1, <1>2, <1>3

LEMMA CommissionsLeftAlone ==
    ASSUME MoneyOK, NEW v,
           UNCHANGED commission \/ \E s, c : commission' = [commission EXCEPT ![s] = c] /\ SoldVehicle[s] # v
    PROVE  CommissionsStand(v)
<1>1. /\ OpenCommissions(v)' = OpenCommissions(v)
      /\ \A s \in OpenCommissions(v) : commission'[s] = commission[s]
  BY DEF OpenCommissions, MoneyOK
<1>2. PICK c, d, S : c = commission /\ d = commission' /\ S = OpenCommissions(v)
  OBVIOUS
<1>3. IsFiniteSet(S) /\ \A s \in S : c[s].amount \in Int /\ d[s].amount = c[s].amount
  BY <1>1, <1>2, OpenAreNumbers
<1>4. MapThenSumSet(LAMBDA s : d[s].amount, S) = MapThenSumSet(LAMBDA s : c[s].amount, S)
  <2>1. MapThenSumSet(LAMBDA s : c[s].amount, S) = SumOver([s \in S |-> c[s].amount], S)
    BY <1>3, AmountsAddUp
  <2>2. MapThenSumSet(LAMBDA s : d[s].amount, S) = SumOver([s \in S |-> d[s].amount], S)
    BY <1>3, AmountsAddUp
  <2>3. [s \in S |-> d[s].amount] = [s \in S |-> c[s].amount]
    BY <1>3
  <2> QED BY <2>1, <2>2, <2>3
<1>5. CommissionTotal(v) = MapThenSumSet(LAMBDA s : c[s].amount, S)
  BY <1>2 DEF CommissionTotal, MapThenSumSet, MapThenFoldSet
<1>6. CommissionTotal(v)' = MapThenSumSet(LAMBDA s : d[s].amount, S)
  BY <1>1, <1>2 DEF CommissionTotal, MapThenSumSet, MapThenFoldSet
<1> QED BY <1>1, <1>4, <1>5, <1>6 DEF CommissionsStand, AllPending


\* A step outside recalculate leaves a vehicle as it was or has it recalculated next.
LEMMA FollowsOn ==
    ASSUME FollowInv, NEW w \in Workers, pc[w] \notin DreLabels,
           \A x \in Workers \ {w} : pc[x] = "idle",
           dre' = dre, failures' = 0 => failures = 0,
           \A u \in Vehicles : \/ RowsFor(u)' = RowsFor(u) /\ CommissionsStand(u)
                               \/ pc'[w] \in DreLabels /\ calc'[w].vehicle = u
    PROVE  FollowInv'
<1>1. SUFFICES ASSUME failures' = 0, NEW u \in Vehicles PROVE Awaited(u)' \/ Follows(u)'
  BY DEF FollowInv
<1>2. Follows(u)
  <2>1. ~Awaited(u)
    BY DEF Awaited, DreLabels
  <2> QED BY <1>1, <2>1 DEF FollowInv
<1>3. CASE RowsFor(u)' = RowsFor(u) /\ CommissionsStand(u)
  <2>1. dre'[u] = dre[u]
    OBVIOUS
  <2> QED BY <1>2, <1>3, <2>1, StillFollows
<1>4. CASE pc'[w] \in DreLabels /\ calc'[w].vehicle = u
  BY <1>4 DEF Awaited
<1> QED BY <1>3, <1>4

LEMMA Recalculated ==
    ASSUME LedgerFrames, NEW w \in Workers, NEW v, NEW next, Recalculate(w, v, next)
    PROVE  pc'[w] \in DreLabels /\ calc'[w].vehicle = v
BY DEF LedgerFrames, Recalculate, DreLabels

\* An open commission that is not pending any more keeps the vehicle out of the claim.
LEMMA Settled ==
    ASSUME MoneyOK, NEW s \in Sales, NEW status \in {"APPROVED", "PAID"}, commission[s] # NULL,
           commission' = [commission EXCEPT ![s].status = status], NEW v, v = SoldVehicle[s]
    PROVE  CommissionsStand(v)
<1>1. commission[s] \in CommissionRecords
  BY DEF MoneyOK
<1>2. commission'[s] = [commission[s] EXCEPT !.status = status]
  BY DEF MoneyOK
<1>3. commission'[s] \in CommissionRecords /\ commission'[s].status = status
  BY <1>1, <1>2 DEF CommissionRecords, CommissionStatuses
<1>4. commission'[s] # NULL
  BY <1>3, NoCommissionAssumption DEF CommissionRecords
<1>5. s \in OpenCommissions(v)'
  BY <1>3, <1>4 DEF OpenCommissions
<1> QED BY <1>3, <1>5 DEF CommissionsStand, AllPending

\* A commission of nothing adds nothing.
LEMMA NothingAdded ==
    ASSUME MoneyOK, NEW s \in Sales, commission[s] = NULL,
           commission' = [commission EXCEPT ![s] = [status |-> "PENDING", amount |-> 0]],
           NEW v, v = SoldVehicle[s]
    PROVE  CommissionsStand(v)
<1> DEFINE r == [status |-> "PENDING", amount |-> 0]
<1>1. commission'[s] = r /\ r.status = "PENDING" /\ r.amount = 0 /\ r # NULL
      /\ \A x \in Sales \ {s} : commission'[x] = commission[x]
  <2>1. r \in [status : CommissionStatuses, amount : Int]
    BY DEF CommissionStatuses
  <2> QED BY <2>1, NoCommissionAssumption DEF MoneyOK
<1> HIDE DEF r
<1>2. s \notin OpenCommissions(v) /\ OpenCommissions(v)' = OpenCommissions(v) \cup {s}
      /\ OpenCommissions(v) \subseteq Sales \ {s}
  BY <1>1 DEF OpenCommissions
<1>3. PICK c, d, S, T : c = commission /\ d = commission' /\ S = OpenCommissions(v) /\ T = S \cup {s}
  OBVIOUS
<1>4. IsFiniteSet(S) /\ IsFiniteSet(T) /\ (\A x \in S : c[x].amount \in Int /\ d[x].amount = c[x].amount)
      /\ d[s].amount = 0 /\ s \notin S
  BY <1>1, <1>2, <1>3, OpenAreNumbers, FS_AddElement
<1> DEFINE g == [x \in S |-> c[x].amount]
           h == [x \in T |-> d[x].amount]
<1>5. CommissionTotal(v) = SumOver(g, S)
  <2>1. CommissionTotal(v) = MapThenSumSet(LAMBDA x : c[x].amount, S)
    BY <1>3 DEF CommissionTotal, MapThenSumSet, MapThenFoldSet
  <2> QED BY <1>4, <2>1, AmountsAddUp
<1>6. CommissionTotal(v)' = SumOver(h, T)
  <2>1. CommissionTotal(v)' = MapThenSumSet(LAMBDA x : d[x].amount, T)
    BY <1>2, <1>3 DEF CommissionTotal, MapThenSumSet, MapThenFoldSet
  <2>2. \A x \in T : d[x].amount \in Int
    BY <1>3, <1>4
  <2> QED BY <1>4, <2>1, <2>2, AmountsAddUp
<1>7. (\A x \in S : g[x] \in Int /\ h[x] = g[x]) /\ h[s] = 0
  BY <1>3, <1>4
<1> HIDE DEF g, h
<1>8. SumOver(h, T) = h[s] + SumOver(h, S)
  <2>1. \A x \in S : h[x] \in Int
    BY <1>7
  <2> QED BY <1>3, <1>4, <1>7, <2>1, SumAdd
<1>9. SumOver(h, S) = SumOver(g, S) /\ SumOver(g, S) \in Int
  BY <1>4, <1>7, SumSame, SumInt
<1>10. CommissionTotal(v)' = CommissionTotal(v)
  BY <1>5, <1>6, <1>7, <1>8, <1>9
<1>11. AllPending(v)' => AllPending(v)
  BY <1>1, <1>2 DEF AllPending
<1> QED BY <1>10, <1>11 DEF CommissionsStand

LEMMA FollowsAsked ==
    ASSUME LedgerInv, MoneyOK, FollowInv, NEW w \in Workers, Quiet, LedgerRequest(w),
           failures' = 0 => failures = 0
    PROVE  FollowInv'
<1>1. LedgerFrames /\ EntriesOK /\ pc[w] \notin DreLabels /\ \A x \in Workers \ {w} : pc[x] = "idle"
  BY DEF LedgerInv, Quiet, DreLabels
<1>2. ASSUME dre' = dre,
             \A u \in Vehicles : \/ RowsFor(u)' = RowsFor(u) /\ CommissionsStand(u)
                                 \/ pc'[w] \in DreLabels /\ calc'[w].vehicle = u
      PROVE  FollowInv'
  BY <1>1, <1>2, FollowsOn
<1>3. CASE \E v \in Vehicles, kind \in EntryKinds, amount \in SmallAmounts : CreateManual(w, v, kind, amount)
  <2>1. PICK v \in Vehicles, kind \in EntryKinds, amount \in SmallAmounts : CreateManual(w, v, kind, amount)
    BY <1>3
  <2>2. PICK e : e.vehicle = v /\ Insert(e) /\ Recalculate(w, v, "idle") /\ UNCHANGED <<commission, dre>>
    BY <2>1 DEF CreateManual, Post, Entry
  <2>3. pc'[w] \in DreLabels /\ calc'[w].vehicle = v
    BY <1>1, <2>2, Recalculated
  <2>4. \A u \in Vehicles : u # v => RowsFor(u)' = RowsFor(u) /\ CommissionsStand(u)
    BY <1>1, <2>2, RowsLeftAlone, CommissionsLeftAlone
  <2> QED BY <1>2, <2>2, <2>3, <2>4
<1>4. CASE \/ \E e \in DOMAIN entries : RemoveEntry(w, e)
           \/ \E v \in Vehicles, price \in Amounts, extra \in SmallAmounts \cup {0}, confirm \in BOOLEAN :
                 CreateAcquisition(w, v, price, extra, confirm)
  <2>1. UNCHANGED <<entries, commission, dre>>
    BY <1>4 DEF RemoveEntry, CreateAcquisition, bookVars
  <2>2. \A u \in Vehicles : RowsFor(u)' = RowsFor(u) /\ CommissionsStand(u)
    BY <1>1, <2>1, RowsLeftAlone, CommissionsLeftAlone
  <2> QED BY <1>2, <2>1, <2>2
<1>5. CASE \E s \in Sales, price \in Amounts : BookSale(w, s, price)
  <2>1. PICK s \in Sales, price \in Amounts : BookSale(w, s, price)
    BY <1>5
  <2>2. PICK e, v : /\ e.vehicle = v /\ Insert(e) /\ Recalculate(w, v, "commission.find")
                    /\ UNCHANGED <<commission, dre>>
    BY <2>1 DEF BookSale, Entry
  <2>3. pc'[w] \in DreLabels /\ calc'[w].vehicle = v
    BY <1>1, <2>2, Recalculated
  <2>4. \A u \in Vehicles : u # v => RowsFor(u)' = RowsFor(u) /\ CommissionsStand(u)
    BY <1>1, <2>2, RowsLeftAlone, CommissionsLeftAlone
  <2> QED BY <1>2, <2>2, <2>3, <2>4
<1>6. CASE \E s \in Sales, status \in {"APPROVED", "PAID"} : SettleCommission(w, s, status)
  <2>1. PICK s \in Sales, status \in {"APPROVED", "PAID"} : SettleCommission(w, s, status)
    BY <1>6
  <2>2. /\ UNCHANGED <<entries, dre>> /\ commission[s] # NULL
        /\ commission' = [commission EXCEPT ![s].status = status]
    BY <2>1 DEF SettleCommission
  <2>3. PICK v, c : v = SoldVehicle[s] /\ commission' = [commission EXCEPT ![s] = c]
    BY <2>2
  <2>4. \A u \in Vehicles : u # v => CommissionsStand(u)
    BY <2>3, CommissionsLeftAlone
  <2>5. CommissionsStand(v)
    BY <2>2, <2>3, Settled
  <2>6. \A u \in Vehicles : RowsFor(u)' = RowsFor(u)
    BY <1>1, <2>2, RowsLeftAlone
  <2> QED BY <1>2, <2>2, <2>4, <2>5, <2>6
<1>7. CASE \/ \E s \in Sales : CancelCommission(w, s)
           \/ \E s \in Sales, amount \in SmallAmounts : AdjustCommission(w, s, amount)
  <2>1. PICK s \in Sales : /\ UNCHANGED <<entries, dre>> /\ Recalculate(w, SoldVehicle[s], "idle")
                           /\ \E c : commission' = [commission EXCEPT ![s] = c]
    BY <1>7 DEF CancelCommission, AdjustCommission
  <2>2. PICK v, c : v = SoldVehicle[s] /\ commission' = [commission EXCEPT ![s] = c]
    BY <2>1
  <2>3. pc'[w] \in DreLabels /\ calc'[w].vehicle = v
    BY <1>1, <2>1, <2>2, Recalculated
  <2>4. \A u \in Vehicles : u # v => RowsFor(u)' = RowsFor(u) /\ CommissionsStand(u)
    BY <1>1, <2>1, <2>2, RowsLeftAlone, CommissionsLeftAlone
  <2> QED BY <1>2, <2>1, <2>3, <2>4
<1> QED BY <1>3, <1>4, <1>5, <1>6, <1>7 DEF LedgerRequest


\* recalculate itself writes the DRE alone, and what it writes follows the books.
LEMMA FollowsRecalculation ==
    ASSUME LedgerInv, FollowInv, NEW w \in Workers, DreStep(w), failures' = 0 => failures = 0
    PROVE  FollowInv'
<1>1. LedgerFrames /\ EntriesOK /\ LocalsOK(w) /\ DOMAIN pc = Workers /\ DOMAIN calc = Workers
      /\ DOMAIN dre = Vehicles /\ pc[w] \in DreLabels /\ UNCHANGED <<entries, purchasePrice, commission>>
  BY DEF LedgerInv, LedgerFrames, DreStep, DreReadVehicle, DreReadEntries, DreReadCommissions,
     DreSave, At, DreLabels, bookVars
<1>2. \A u : Booked(u)' = Booked(u) /\ OpenCommissions(u)' = OpenCommissions(u)
  BY <1>1, SameBooks DEF OpenCommissions
<1>3. ASSUME NEW u, Follows(u), dre'[u] = dre[u] PROVE Follows(u)'
  BY <1>1, <1>2, <1>3 DEF Follows
<1>4. CASE DreReadVehicle(w) \/ DreReadEntries(w) \/ DreReadCommissions(w)
  <2>1. /\ UNCHANGED dre /\ \E label \in DreLabels : pc' = [pc EXCEPT ![w] = label]
        /\ \A x \in Workers \ {w} : calc'[x] = calc[x]
    BY <1>1, <1>4 DEF DreReadVehicle, DreReadEntries, DreReadCommissions, Goto, bookVars, DreLabels
  <2>2. Framed(calc[w])
    BY <1>1 DEF LocalsOK
  <2>3. calc'[w].vehicle = calc[w].vehicle
    <3>1. CASE DreReadVehicle(w)
      BY <1>1, <2>2, <3>1 DEF Framed, DreReadVehicle
    <3>2. CASE DreReadEntries(w)
      <4>1. PICK r, x : calc' = [calc EXCEPT ![w].sums.revenue = r, ![w].sums.expenses = x]
        BY <3>2 DEF DreReadEntries
      <4> QED BY <1>1, <2>2, <4>1 DEF Framed
    <3>3. CASE DreReadCommissions(w)
      BY <1>1, <2>2, <3>3 DEF Framed, DreReadCommissions
    <3> QED BY <1>4, <3>1, <3>2, <3>3
  <2>4. ASSUME NEW u, Awaited(u) PROVE Awaited(u)'
    BY <1>1, <2>1, <2>3, <2>4 DEF Awaited
  <2> QED BY <1>3, <2>1, <2>4 DEF FollowInv
<1>5. CASE DreSave(w)
  <2>1. PICK v : v = calc[w].vehicle
    OBVIOUS
  <2>2. pc[w] = "dre.save" /\ dre' = [dre EXCEPT ![v] = calc[w].sums]
    BY <1>5, <2>1 DEF DreSave, At
  <2>3. calc[w].sums = Booked(v)
    BY <2>1, <2>2, SavesBooked
  <2>4. \A x \in Workers \ {w} : pc'[x] = pc[x] /\ calc'[x] = calc[x]
    BY <1>1, <1>5 DEF DreSave, Return, Goto
  <2>5. ASSUME NEW u \in Vehicles, failures' = 0 PROVE Awaited(u)' \/ Follows(u)'
    <3>1. CASE u = v
      <4>1. dre'[u] = Booked(u)
        BY <1>1, <2>2, <2>3, <3>1
      <4>2. (\E e \in DOMAIN entries : e.vehicle = u) \/ Booked(u).revenue = 0
        <5>1. ASSUME ~\E e \in DOMAIN entries : e.vehicle = u PROVE Booked(u).revenue = 0
          <6>1. Sum(u, {"revenue"}) = Total(u, {"revenue"}) /\ Sum(u, {"revenue"}) = 0
            BY <1>1, <5>1, SumIsTotal
          <6> QED BY <6>1 DEF Booked
        <5> QED BY <5>1
      <4> QED BY <1>1, <1>2, <4>1, <4>2 DEF Follows
    <3>2. CASE u # v
      <4>1. Awaited(u) => Awaited(u)'
        BY <2>1, <2>4, <3>2 DEF Awaited
      <4>2. dre'[u] = dre[u]
        BY <2>2, <3>2
      <4> QED BY <1>3, <2>5, <4>1, <4>2 DEF FollowInv
    <3> QED BY <3>1, <3>2
  <2> QED BY <2>5 DEF FollowInv
<1> QED BY <1>4, <1>5 DEF DreStep

LEMMA FollowsWorked ==
    ASSUME LedgerInv, MoneyOK, FollowInv, NEW w \in Workers, LedgerStep(w),
           failures' = 0 => failures = 0
    PROVE  FollowInv'
<1>1. LedgerFrames /\ EntriesOK /\ LocalsOK(w) /\ DOMAIN ctx = Workers
      /\ \A x \in Workers \ {w} : pc[x] = "idle"
  BY LedgerMoves DEF LedgerInv, LedgerFrames, Alone
<1>2. ASSUME pc[w] \notin DreLabels, dre' = dre,
             \A u \in Vehicles : \/ RowsFor(u)' = RowsFor(u) /\ CommissionsStand(u)
                                 \/ pc'[w] \in DreLabels /\ calc'[w].vehicle = u
      PROVE  FollowInv'
  BY <1>1, <1>2, FollowsOn
<1>3. CASE DreStep(w)
  BY <1>3, FollowsRecalculation
<1>4. CASE DeleteEntry(w)
  <2>1. PICK e, v : /\ e.vehicle = v /\ entries' = entries (-) SetToBag({e}) /\ Recalculate(w, v, "idle")
                    /\ UNCHANGED <<commission, dre>> /\ pc[w] = "entry.delete"
    BY <1>4 DEF DeleteEntry, At
  <2>2. pc'[w] \in DreLabels /\ calc'[w].vehicle = v
    BY <1>1, <2>1, Recalculated
  <2>3. \A u \in Vehicles : u # v => RowsFor(u)' = RowsFor(u) /\ CommissionsStand(u)
    BY <1>1, <2>1, RowsLeftAlone, CommissionsLeftAlone
  <2>4. pc[w] \notin DreLabels
    BY <2>1 DEF DreLabels
  <2> QED BY <1>2, <2>1, <2>2, <2>3, <2>4
<1>5. CASE AcquisitionPost(w) \/ AcquisitionPostExtra(w)
  <2>1. PICK e, v, next : /\ e.vehicle = v /\ Insert(e) /\ Recalculate(w, v, next)
                          /\ UNCHANGED <<commission, dre>>
                          /\ pc[w] \in {"acquisition.purchase", "acquisition.extra"}
    BY <1>5 DEF AcquisitionPost, AcquisitionPostExtra, Post, Entry, At
  <2>2. pc'[w] \in DreLabels /\ calc'[w].vehicle = v
    BY <1>1, <2>1, Recalculated
  <2>3. \A u \in Vehicles : u # v => RowsFor(u)' = RowsFor(u) /\ CommissionsStand(u)
    BY <1>1, <2>1, RowsLeftAlone, CommissionsLeftAlone
  <2>4. pc[w] \notin DreLabels
    BY <2>1 DEF DreLabels
  <2> QED BY <1>2, <2>1, <2>2, <2>3, <2>4
<1>6. CASE DeleteEntryGone(w) \/ AcquisitionPrice(w) \/ FindCommission(w) \/ ResolveRule(w)
  <2>1. UNCHANGED <<entries, commission, dre>> /\ pc[w] \notin DreLabels
    BY <1>6 DEF DeleteEntryGone, AcquisitionPrice, FindCommission, ResolveRule, bookVars, At, DreLabels
  <2>2. \A u \in Vehicles : RowsFor(u)' = RowsFor(u) /\ CommissionsStand(u)
    BY <1>1, <2>1, RowsLeftAlone, CommissionsLeftAlone
  <2> QED BY <1>2, <2>1, <2>2
<1>7. CASE CreateCommission(w)
  <2>1. PICK s, v : s = ctx[w].sale /\ v = SoldVehicle[s]
    OBVIOUS
  <2>2. /\ pc[w] = "commission.create" /\ commission[s] = NULL /\ UNCHANGED <<entries, dre>>
        /\ \E c : commission' = [commission EXCEPT ![s] = c]
    BY <1>7, <2>1 DEF CreateCommission, At
  <2>3. pc[w] \notin DreLabels /\ s \in Sales
    BY <1>1, <2>1, <2>2 DEF LocalsOK, Place, DreLabels
  <2>4. \A u \in Vehicles : RowsFor(u)' = RowsFor(u)
    BY <1>1, <2>2, RowsLeftAlone
  <2>5. \A u \in Vehicles : u # v => CommissionsStand(u)
    BY <2>1, <2>2, CommissionsLeftAlone
  <2>6. CASE ctx[w].rule = NULL
    <3>1. commission' = [commission EXCEPT ![s] = [status |-> "PENDING", amount |-> 0]]
      BY <1>7, <2>1, <2>6 DEF CreateCommission
    <3>2. CommissionsStand(v)
      BY <2>1, <2>2, <2>3, <3>1, NothingAdded
    <3> QED BY <1>2, <2>2, <2>3, <2>4, <2>5, <3>2
  <2>7. CASE ctx[w].rule # NULL
    <3>1. Recalculate(w, v, "idle")
      BY <1>7, <2>1, <2>7 DEF CreateCommission
    <3>2. pc'[w] \in DreLabels /\ calc'[w].vehicle = v
      BY <1>1, <3>1, Recalculated
    <3> QED BY <1>2, <2>2, <2>3, <2>4, <2>5, <3>2
  <2> QED BY <2>6, <2>7
<1> QED BY <1>3, <1>4, <1>5, <1>6, <1>7 DEF LedgerStep, EntryStep, AcquisitionStep, CommissionStep

BalanceInv == LedgerInv /\ MoneyOK /\ FollowInv /\ failures \in Nat

LEMMA BalanceKept ==
    ASSUME BalanceInv, schedule = "ledger", NEW w \in Workers,
           Request(w) \/ WorkshopStep(w) \/ WorkshopDie(w)
    PROVE  BalanceInv'
<1>1. LedgerActs(w)
  BY ActsForLedger DEF BalanceInv
<1>2. failures' \in Nat /\ (failures' = 0 => failures = 0 /\ ~WorkshopDie(w))
  BY FailuresCount DEF BalanceInv
<1>3. LedgerInv' /\ MoneyOK'
  BY <1>1, LedgerKept, MoneyKept DEF BalanceInv
<1>4. CASE LedgerRequest(w) /\ Quiet
  BY <1>2, <1>3, <1>4, FollowsAsked DEF BalanceInv
<1>5. CASE LedgerStep(w)
  BY <1>2, <1>3, <1>5, FollowsWorked DEF BalanceInv
<1>6. CASE WorkshopDie(w)
  BY <1>2, <1>3, <1>6 DEF BalanceInv, FollowInv
<1> QED BY <1>1, <1>4, <1>5, <1>6 DEF LedgerActs

LEMMA BalanceStart == ASSUME BooksInit PROVE BalanceInv
<1> USE DEF BooksInit, WorkshopInit, LedgerInit, HandlersInit
<1>1. LedgerInv
  BY LedgerStart
<1>2. MoneyOK
  <2>1. Commissioned = {}
    BY DEF Commissioned
  <2>2. \A w \in Workers : Place(w) = "idle"
    BY DEF Place, DreLabels
  <2> QED BY <2>1, <2>2, FS_EmptySet DEF MoneyOK, CommissionPlaces
<1>3. DOMAIN entries = {}
  BY DEF EmptyBag, SetToBag
<1>4. FollowInv
  BY <1>3 DEF FollowInv, Follows
<1> QED BY <1>1, <1>2, <1>4 DEF BalanceInv

BalanceTrue == schedule = "ledger" => BalanceInv

LEMMA BalanceStays == BooksSpec => []BalanceTrue
<1>1. BooksInit => BalanceTrue
  BY BalanceStart DEF BalanceTrue
<1>2. ASSUME BalanceTrue, [BooksNext]_booksVars PROVE BalanceTrue'
  <2>1. CASE BooksNext
    <3>1. PICK w \in Workers : /\ Request(w) \/ WorkshopStep(w) \/ WorkshopDie(w)
                               /\ UNCHANGED schedule
      BY <2>1 DEF BooksNext
    <3> QED BY <1>2, <3>1, BalanceKept DEF BalanceTrue
  <2>2. CASE UNCHANGED booksVars
    <3>1. UNCHANGED <<pc, ctx, calc, entries, purchasePrice, commission, sold, dre, failures, schedule>>
      BY <2>2 DEF booksVars, workshopVars, ledgerVars, bookVars, handlerVars
    <3>2. LedgerTrue'
      BY <1>2, <2>2, LedgerTrueKept DEF BalanceTrue, BalanceInv, LedgerTrue
    <3>3. ASSUME schedule = "ledger" PROVE MoneyOK' /\ FollowInv'
      <4>1. MoneyOK'
        BY <1>2, <3>1, <3>3 DEF BalanceTrue, BalanceInv, MoneyOK, Commissioned, Priced, Place
      <4>2. \A v : Booked(v)' = Booked(v) /\ OpenCommissions(v)' = OpenCommissions(v)
        BY <3>1, SameBooks DEF OpenCommissions
      <4>3. \A v : (Follows(v) => Follows(v)') /\ (Awaited(v) => Awaited(v)')
        BY <3>1, <4>2 DEF Follows, Awaited
      <4> QED BY <1>2, <3>1, <3>3, <4>1, <4>3 DEF BalanceTrue, BalanceInv, FollowInv
    <3> QED BY <1>2, <3>1, <3>2, <3>3 DEF BalanceTrue, BalanceInv, LedgerTrue
  <2> QED BY <1>2, <2>1, <2>2
<1> QED BY <1>1, <1>2, PTL DEF BooksSpec

\* When every handler has run to its end, the ledger half of BooksBalance holds.
LEMMA BalanceFollows ==
    ASSUME BalanceInv
    PROVE  DreFollowsEntries
<1>1. \A v : Quiet => ~Awaited(v)
  BY DEF Quiet, Awaited, DreLabels
<1> QED BY <1>1 DEF BalanceInv, FollowInv, Follows, DreFollowsEntries

\* One handler at a time, the DRE of a vehicle says what its entries and commissions do, and the
\* entries and costs of a maintenance what its items do (DreService.recalculate,
\* MaintenanceService, src/docs/BUSINESS_RULES.md:27-54).
THEOREM BooksStayBalanced == BooksSpec => []BooksBalance
<1>1. BalanceTrue /\ ItemsInv /\ WorkTrue => BooksBalance
  BY BalanceFollows, WorkshopFollows DEF BalanceTrue, BooksBalance
<1> QED BY <1>1, BalanceStays, WorkStays, PTL
=============================================================================
