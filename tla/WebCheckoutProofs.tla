-------------------------- MODULE WebCheckoutProofs --------------------------
(***************************************************************************)
(* What holds of the prices, for every plan and every number of devices,   *)
(* and of the money, for any number of buyers, payments, moves, faults and *)
(* commands of the operator.                                               *)
(*                                                                         *)
(* Prices: the computations of a price agree, and commissions stay within  *)
(* the payment.  Credits: a payment is put on its buyer's account only;    *)
(* the hard case is the top-up, whose notification names the telegram id   *)
(* only, and it is the buyer's account because u<telegram id> of an        *)
(* account of the site never gets a row, so that nobody can order a top-up *)
(* for it.  Debits: one visit of a page pays a choice of devices from the  *)
(* balance once.                                                           *)
(***************************************************************************)
EXTENDS WebCheckout, TLAPS
-----------------------------------------------------------------------------
(* Prices and commissions (Tariffs).                                       *)

\* A price per day of 80/30 never ends on a half rouble, so the two ways to round agree.
LEMMA NoTies ==
  ASSUME NEW days \in Nat
  PROVE  RoundHalfUp(80 * days, 30) = DevicePrice(days)
<1> DEFINE n == 80 * days
           q == n \div 30
           r == n % 30
<1>1. n \in Nat /\ q \in Nat /\ r \in 0..29 /\ n = 30 * q + r
  BY SMT
<1>2. 2 * r # 30
  BY <1>1, SMT
<1>3. CASE 2 * r < 30
  BY <1>1, <1>3, SMT DEF RoundHalfUp, RoundHalfEven, DevicePrice
<1>4. CASE 2 * r > 30
  BY <1>1, <1>4, SMT DEF RoundHalfUp, RoundHalfEven, DevicePrice
<1> QED BY <1>1, <1>2, <1>3, <1>4, SMT

\* One more device costs whole roubles, three at least.
LEMMA DevicePriceType ==
  ASSUME NEW days \in Nat
  PROVE  /\ DevicePrice(days) \in Nat
         /\ days >= 1 => DevicePrice(days) >= 3
<1> DEFINE n == 80 * days
           q == n \div 30
           r == n % 30
<1>1. n \in Nat /\ q \in Nat /\ r \in 0..29 /\ n = 30 * q + r
  BY SMT
<1>2. /\ DevicePrice(days) \in {q, q + 1}
      /\ (q < 3 /\ days # 0) => (q = 2 /\ DevicePrice(days) = q + 1)
  BY <1>1, SMT DEF RoundHalfEven, DevicePrice
<1> QED BY <1>1, <1>2, SMT

\* Plans have days and whole prices, and the table of the site is the table of the server.
LEMMA PlanTypes ==
  ASSUME NEW id \in Plans
  PROVE  /\ id.days \in Nat /\ id.days >= 1
         /\ PlanPrice(id) \in Nat
         /\ TariffInfo(id) = [days |-> id.days, price |-> PlanPrice(id)]
<1>1. CASE id.custom
  <2>1. PICK d \in 1..365 : id = CustomPlan(d)
    BY <1>1 DEF Plans, PlanOf
  <2>2. id.days = d
    BY <2>1 DEF CustomPlan
  <2> QED BY <1>1, <2>2 DEF PlanPrice, CustomDayPrice, TariffInfo
<1>2. CASE ~ id.custom
  <2>1. PICK d \in FixedDays : id = PlanOf(d)
    BY <1>2 DEF Plans, CustomPlan
  <2>2. id.days = d
    BY <2>1 DEF PlanOf
  <2>3. [days |-> d, price |-> PlanTable[d]] \in SiteTariffs
    BY DEF FixedDays, PlanTable, SiteTariffs
  <2>4. \A t \in SiteTariffs : t.days = d => t = [days |-> d, price |-> PlanTable[d]]
    BY DEF FixedDays, PlanTable, SiteTariffs
  <2>5. TariffInfo(id) = [days |-> d, price |-> PlanTable[d]]
    BY <1>2, <2>2, <2>3, <2>4 DEF TariffInfo
  <2>6. PlanTable[d] \in Nat /\ d \in Nat /\ d >= 1
    BY DEF FixedDays, PlanTable
  <2> QED BY <1>2, <2>2, <2>5, <2>6 DEF PlanPrice
<1> QED BY <1>1, <1>2 DEF Plans, PlanOf, CustomPlan

(***************************************************************************)
(* The page shows what the server charges: calc.ts and plans.py compute    *)
(* the same total for every plan the server sells and every number of      *)
(* devices, as long as DEFAULT_DEVICE_LIMIT is the page's 5.               *)
(***************************************************************************)
THEOREM ShownIsCharged ==
  ASSUME DefaultDevices = 5, NEW id \in Plans, NEW n \in Nat
  PROVE  PageTotal(id, n) = TotalPrice(id, n)
<1>1. DeviceLimit(id) = 5
  BY DEF DeviceLimit
<1>2. RoundHalfUp(80 * id.days, 30) = DevicePrice(id.days)
  BY PlanTypes, NoTies
<1> QED BY <1>1, <1>2, PlanTypes DEF PageTotal, PageDeviceCost, TotalPrice

\* Whatever the slider is set to, its link is to a plan the server sells.
LEMMA LinkIsSold ==
  ASSUME NEW days \in Int
  PROVE  CustomLink(days) \in Plans
BY DEF CustomLink, Plans

(***************************************************************************)
(* The bot's summary adds up: the price of the plan and that of the extra  *)
(* devices, which it shows on lines of their own and computes by another   *)
(* function than the total, make the total.                                *)
(***************************************************************************)
THEOREM SummaryAddsUp ==
  ASSUME NEW id \in Plans, NEW n \in Nat
  PROVE  Summary(id, n).total = Summary(id, n).base + Summary(id, n).extra
BY DEF Summary, TotalPrice, ExtraDeviceCost

(***************************************************************************)
(* Devices cost the same however they are bought: adding them to a         *)
(* subscription in two steps costs what one step does, and a plan bought   *)
(* with fewer and topped up at once costs what it costs with all of them.  *)
(***************************************************************************)
THEOREM TopUpsAddUp ==
  ASSUME NEW id \in Plans, DefaultDevices \in Nat,
         NEW a \in Nat, NEW b \in Nat, NEW c \in Nat, a <= b, b <= c
  PROVE  /\ ExtraDeviceCost(c, a, id.days)
              = ExtraDeviceCost(b, a, id.days) + ExtraDeviceCost(c, b, id.days)
         /\ DeviceLimit(id) <= b =>
              TotalPrice(id, c) = TotalPrice(id, b) + ExtraDeviceCost(c, b, id.days)
<1> DEFINE unit == DevicePrice(id.days)
           limit == DeviceLimit(id)
           price == PlanPrice(id)
<1>1. unit \in Nat /\ limit \in Nat /\ price \in Nat
  BY PlanTypes, DevicePriceType DEF DeviceLimit
<1>2. /\ Extra(c, a) = c - a /\ Extra(b, a) = b - a /\ Extra(c, b) = c - b
      /\ limit <= b => Extra(c, limit) = c - limit /\ Extra(b, limit) = b - limit
  BY <1>1 DEF Extra
<1>3. (c - a) * unit = (b - a) * unit + (c - b) * unit
  <2> HIDE DEF unit
  <2> QED BY <1>1, SMT
<1>4. (c - limit) * unit = (b - limit) * unit + (c - b) * unit
  <2> HIDE DEF unit, limit
  <2> QED BY <1>1, SMT
<1>5. (b - limit) * unit \in Int /\ (c - b) * unit \in Int
  <2> HIDE DEF unit, limit
  <2> QED BY <1>1, SMT
<1>6. ASSUME limit <= b
      PROVE  price + (c - limit) * unit = (price + (b - limit) * unit) + (c - b) * unit
  <2> HIDE DEF unit, limit, price
  <2> QED BY <1>1, <1>4, <1>5, SMT
<1> QED BY <1>2, <1>3, <1>6 DEF ExtraDeviceCost, TotalPrice

\* k of something that costs at least three cost at least three times k.
LEMMA ManyCostMore ==
  ASSUME NEW unit \in Nat, unit >= 3, NEW k \in Nat
  PROVE  k * unit \in Nat /\ k * unit >= 3 * k
<1>1. PICK j \in Nat : unit = 3 + j
  BY SMT
<1>2. k * unit = 3 * k + k * j /\ k * j \in Nat
  BY <1>1, SMT
<1> QED BY <1>2, SMT

(***************************************************************************)
(* The webhook's gate lets one number of devices through: a payment made   *)
(* for m devices never passes for n others, although the gate forgives a   *)
(* kopeck.                                                                 *)
(***************************************************************************)
THEOREM AmountGateIsExact ==
  ASSUME NEW id \in Plans, DefaultDevices \in Nat,
         NEW m \in Nat, NEW n \in Nat, DeviceLimit(id) <= m, DeviceLimit(id) <= n,
         AmountMatches(ExpectedKopecks(id, m), ExpectedKopecks(id, n))
  PROVE  m = n
<1> DEFINE unit == DevicePrice(id.days)
           limit == DeviceLimit(id)
           price == PlanPrice(id)
<1>1. unit \in Nat /\ unit >= 3 /\ limit \in Nat /\ price \in Nat
  BY PlanTypes, DevicePriceType DEF DeviceLimit
<1>2. TotalPrice(id, m) = price + (m - limit) * unit /\ TotalPrice(id, n) = price + (n - limit) * unit
  BY <1>1 DEF TotalPrice, Extra
<1>3. \A k, l \in Nat : limit <= k /\ k < l =>
        100 * (price + (l - limit) * unit) - 100 * (price + (k - limit) * unit) >= 300
  <2> SUFFICES ASSUME NEW k \in Nat, NEW l \in Nat, limit <= k, k < l
               PROVE  100 * (price + (l - limit) * unit) - 100 * (price + (k - limit) * unit) >= 300
    OBVIOUS
  <2> HIDE DEF unit, limit, price
  <2>1. l - k \in Nat /\ l - k >= 1
    BY <1>1, SMT
  <2>2. (l - k) * unit \in Nat /\ (l - k) * unit >= 3 * (l - k)
    BY <1>1, <2>1, ManyCostMore
  <2>3. (l - limit) * unit = (k - limit) * unit + (l - k) * unit /\ (k - limit) * unit \in Int
    BY <1>1, SMT
  <2> QED BY <1>1, <2>1, <2>2, <2>3, SMT
<1>4. 100 * (price + (m - limit) * unit) - 100 * (price + (n - limit) * unit) \in -1..1
  BY <1>1, <1>2, SMT DEF AmountMatches, ExpectedKopecks
<1> HIDE DEF unit, limit, price
<1>5. (m - limit) * unit \in Int /\ (n - limit) * unit \in Int
  BY <1>1, SMT
<1>6. ~ (m < n) /\ ~ (n < m)
  BY <1>1, <1>3, <1>4, <1>5, SMT
<1> QED BY <1>6, SMT

\* What the card path makes of the days of a plan is a plan, and rates are small.
LEMMA RatesAreSmall ==
  ASSUME NEW bought \in Plans, NEW id \in {bought, PlanOfDays(bought.days)}
  PROVE  DirectRate(id) \in 0..35 /\ IndirectRate(id) \in 0..5
<1>1. id \in Plans
  <2>1. bought.days \in 1..365
    <3>1. CASE bought \in {PlanOf(d) : d \in FixedDays}
      BY <3>1 DEF PlanOf, FixedDays
    <3>2. CASE bought \in {CustomPlan(d) : d \in 1..365}
      BY <3>2 DEF CustomPlan
    <3> QED BY <3>1, <3>2 DEF Plans
  <2>2. PlanOfDays(bought.days) \in Plans
    BY <2>1 DEF PlanOfDays, Plans
  <2> QED BY <2>2
<1>2. CASE id.custom
  BY <1>2 DEF DirectRate, IndirectRate
<1>3. CASE ~ id.custom
  <2>1. PICK d \in FixedDays : id = PlanOf(d)
    BY <1>1, <1>3 DEF Plans, CustomPlan
  <2>2. id.days = d
    BY <2>1 DEF PlanOf
  <2> QED BY <1>3, <2>2 DEF DirectRate, IndirectRate, FixedDays
<1> QED BY <1>1, <1>2, <1>3 DEF Plans, PlanOf, CustomPlan

\* A share at a rate of at most most per cent, however it is rounded.
LEMMA ShareIsSmall ==
  ASSUME NEW amount \in Nat, NEW most \in Nat, NEW rate \in 0..most,
         NEW share \in Commissions(amount, rate)
  PROVE  share \in Nat /\ 100 * share <= most * amount + 50
<1>1. (most - rate) * amount >= 0
  BY SMT
<1>2. rate * amount <= most * amount
  BY <1>1, SMT
<1>3. rate * amount \in Int /\ most * amount \in Int
  OBVIOUS
<1>4. share \in Nat /\ 100 * share - rate * amount <= 50
  BY <1>3 DEF Commissions
<1> QED BY <1>2, <1>3, <1>4, SMT

(***************************************************************************)
(* Both referrers together never earn more than was paid, for every plan   *)
(* and every amount, however the two commissions are rounded, and whether  *)
(* the plan is known by its id, as for a payment from the balance, or by   *)
(* its days only, as for one by card.                                      *)
(***************************************************************************)
THEOREM CommissionsWithinPayment ==
  ASSUME NEW bought \in Plans, NEW id \in {bought, PlanOfDays(bought.days)}, NEW amount \in Nat,
         NEW direct \in Commissions(amount, DirectRate(id)),
         NEW indirect \in Commissions(amount, IndirectRate(id))
  PROVE  direct + indirect <= amount
<1>1. direct \in Nat /\ 100 * direct <= 35 * amount + 50
  BY RatesAreSmall, ShareIsSmall
<1>2. indirect \in Nat /\ 100 * indirect <= 5 * amount + 50
  BY RatesAreSmall, ShareIsSmall
<1> QED BY <1>1, <1>2, SMT

\* So it is with the records the code makes: each is of at least a kopeck and within the
\* payment, there is one a level, and the two together are within it as well.
THEOREM RecordsWithinPayment ==
  ASSUME NEW bought \in Plans, NEW id \in {bought, PlanOfDays(bought.days)}, NEW amount \in Nat,
         NEW levels \in SUBSET {1, 2}, NEW records \in CommissionRecords(levels, id, amount)
  PROVE  /\ \A x \in records : x[1] \in levels /\ x[2] \in 1..amount
         /\ \A x, y \in records : x # y => x[1] # y[1] /\ x[2] + y[2] <= amount
<1> DEFINE rate(l) == IF l = 1 THEN DirectRate(id) ELSE IndirectRate(id)
<1>1. PICK s \in [levels -> Nat] :
        /\ \A l \in levels : s[l] \in Commissions(amount, rate(l))
        /\ records = {<<l, s[l]>> : l \in {k \in levels : s[k] > 0}}
  BY DEF CommissionRecords
<1>2. ASSUME NEW l \in levels
      PROVE  /\ l = 1 => 100 * s[l] <= 35 * amount + 50
             /\ l = 2 => 100 * s[l] <= 5 * amount + 50
  <2>1. CASE l = 1
    <3>1. s[l] \in Commissions(amount, DirectRate(id))
      BY <1>1, <2>1
    <3> QED BY <2>1, <3>1, RatesAreSmall, ShareIsSmall
  <2>2. CASE l = 2
    <3>1. s[l] \in Commissions(amount, IndirectRate(id))
      BY <1>1, <2>2
    <3> QED BY <2>2, <3>1, RatesAreSmall, ShareIsSmall
  <2> QED BY <2>1, <2>2
<1>3. ASSUME NEW x \in records
      PROVE  x[1] \in levels /\ x[2] = s[x[1]] /\ x[2] \in Nat /\ x[2] > 0 /\ x = <<x[1], x[2]>>
  BY <1>1
<1>4. ASSUME NEW x \in records PROVE x[1] \in levels /\ x[2] \in 1..amount
  <2>1. x[1] \in {1, 2} /\ 100 * x[2] <= 35 * amount + 50
    BY <1>2, <1>3
  <2> QED BY <1>3, <2>1, SMT
<1>5. ASSUME NEW x \in records, NEW y \in records, x # y
      PROVE  x[1] # y[1] /\ x[2] + y[2] <= amount
  <2>1. x[1] # y[1]
    BY <1>3, <1>5
  <2>2. x[1] \in {1, 2} /\ y[1] \in {1, 2}
    BY <1>3
  <2>3. CASE x[1] = 1 /\ y[1] = 2
    BY <1>2, <1>3, <2>1, <2>3
  <2>4. CASE x[1] = 2 /\ y[1] = 1
    BY <1>2, <1>3, <2>1, <2>4
  <2> QED BY <2>1, <2>2, <2>3, <2>4
<1> QED BY <1>4, <1>5
-----------------------------------------------------------------------------
(* Credits.                                                                *)

\* The accounts that belong to somebody.
OwnAccounts == {Account(u) : u \in Users}

PaymentFields == {"kind", "buyer", "count", "amount", "account", "issued", "status", "paidAt"}

\* Every payment has its fields and its place in the tables.
Shape ==
  /\ DOMAIN pay = Payments /\ DOMAIN ledger = Payments
  /\ DOMAIN credited = Payments /\ DOMAIN note = Payments
  /\ \A p \in Payments : DOMAIN pay[p] = PaymentFields

\* What an order says about its buyer, and that nothing happens to a payment before it.
Ordered(p) ==
  /\ pay[p].kind = "none" => note[p] = "idle" /\ credited[p] = {}
  /\ pay[p].kind # "none" => pay[p].kind \in {"plan", "link", "topup"} /\ pay[p].buyer \in Users
  /\ pay[p].kind = "plan" => pay[p].account = Account(pay[p].buyer)
  /\ pay[p].kind = "link" => pay[p].account = Account(pay[p].buyer)
  /\ pay[p].kind = "topup" => Account(pay[p].buyer) = ByConvention(pay[p].buyer)
  /\ note[p] \in {"raise", "record"} => pay[p].kind = "topup"

\* Facts are about accounts of somebody, and only those have rows.
FactsOfOwners == \A p \in Payments : ledger[p] \in OwnAccounts \cup {NoAccount}

RowsOfOwners ==
  /\ DOMAIN snap = Accounts
  /\ \A a \in Accounts : a \notin OwnAccounts => snap[a] = NoRow

IInv ==
  /\ Shape
  /\ \A p \in Payments : Ordered(p)
  /\ FactsOfOwners
  /\ RowsOfOwners
  /\ CreditedToBuyer

\* u<telegram id> is somebody's account only if it is that telegram user's.
LEMMA ConventionIsOwn ==
  ASSUME NEW u \in Users, ByConvention(u) \in OwnAccounts
  PROVE  Account(u) = ByConvention(u)
BY DEF OwnAccounts, Account, ByConvention

\* Everybody's account is an account, and none of them is NoAccount.
LEMMA AccountIsOwn ==
  ASSUME NEW u \in Users
  PROVE  /\ Account(u) \in OwnAccounts /\ Account(u) \in Accounts /\ Account(u) # NoAccount
         /\ ByConvention(u) \in Accounts
BY NoAccountAssumption DEF OwnAccounts, Accounts

\* At first nothing was ordered, and an account nobody has has no row.
LEMMA InitOwned == Init => IInv
<1> SUFFICES ASSUME Init PROVE IInv
  OBVIOUS
<1>1. Shape
  BY DEF Init, Shape, NoPayment, PaymentFields
<1>2. ASSUME NEW p \in Payments PROVE Ordered(p)
  BY DEF Init, Ordered, NoPayment
<1>3. FactsOfOwners /\ CreditedToBuyer
  BY DEF Init, FactsOfOwners, CreditedToBuyer
<1>4. RowsOfOwners
  <2> SUFFICES ASSUME NEW a \in Accounts, a \notin OwnAccounts PROVE snap[a] = NoRow
    BY DEF RowsOfOwners, Init
  <2>1. PICK u \in Users : a = ByConvention(u)
    BY DEF Accounts, OwnAccounts
  <2>2. u \in WebOnly
    BY <2>1 DEF OwnAccounts, Account
  <2> QED BY <2>1, <2>2 DEF Init
<1> QED BY <1>1, <1>2, <1>3, <1>4 DEF IInv

\* A new payment of somebody's, whose account is that of the buyer.
LEMMA OrderKeeps ==
  ASSUME IInv, NEW p \in Payments, NEW order,
         Created(p, order),
         DOMAIN order = PaymentFields, order.kind \in {"plan", "link", "topup"}, order.buyer \in Users,
         order.kind \in {"plan", "link"} => order.account = Account(order.buyer),
         order.kind = "topup" => Account(order.buyer) = ByConvention(order.buyer),
         UNCHANGED <<note, ledger, credited>>
  PROVE  /\ Shape'
         /\ \A q \in Payments : Ordered(q)'
         /\ FactsOfOwners' /\ CreditedToBuyer'
<1>1. pay' = [pay EXCEPT ![p] = order] /\ pay[p].kind = "none"
  BY DEF Created
<1>2. Shape'
  BY <1>1 DEF IInv, Shape
<1>3. ASSUME NEW q \in Payments PROVE Ordered(q)'
  <2>1. CASE q = p
    BY <1>1, <2>1 DEF IInv, Shape, Ordered
  <2>2. CASE q # p
    BY <1>1, <2>2 DEF IInv, Shape, Ordered
  <2> QED BY <2>1, <2>2
<1>4. FactsOfOwners'
  BY DEF IInv, FactsOfOwners
<1>5. CreditedToBuyer'
  BY <1>1 DEF IInv, Shape, Ordered, CreditedToBuyer
<1> QED BY <1>2, <1>3, <1>4, <1>5

\* A step that leaves payments, facts and credits alone, and gives rows to owners only.
LEMMA RowKeeps ==
  ASSUME IInv, NEW a \in OwnAccounts, NEW row,
         snap' = [snap EXCEPT ![a] = row],
         UNCHANGED <<pay, note, ledger, credited>>
  PROVE  IInv'
<1>1. RowsOfOwners'
  BY DEF IInv, RowsOfOwners
<1>2. Shape' /\ (\A p \in Payments : Ordered(p)') /\ FactsOfOwners' /\ CreditedToBuyer'
  BY DEF IInv, Shape, Ordered, FactsOfOwners, CreditedToBuyer
<1> QED BY <1>1, <1>2 DEF IInv

\* A step that leaves all of it alone.
LEMMA IdleKeeps ==
  ASSUME IInv, UNCHANGED <<snap, pay, note, ledger, credited>>
  PROVE  IInv'
<1>1. RowsOfOwners' /\ Shape' /\ (\A p \in Payments : Ordered(p)') /\ FactsOfOwners' /\ CreditedToBuyer'
  BY DEF IInv, RowsOfOwners, Shape, Ordered, FactsOfOwners, CreditedToBuyer
<1> QED BY <1>1 DEF IInv

\* A notification moves on, of a payment that was ordered.
LEMMA NoteKeeps ==
  ASSUME IInv, NEW p \in Payments, NEW pc,
         pay[p].kind # "none" \/ pc = "idle", pc \notin {"raise", "record"},
         GoTo(p, pc), UNCHANGED <<snap, pay, ledger, credited>>
  PROVE  IInv'
<1>1. note' = [note EXCEPT ![p] = pc]
  BY DEF GoTo
<1>2. Shape' /\ RowsOfOwners' /\ FactsOfOwners' /\ CreditedToBuyer'
  BY <1>1 DEF IInv, Shape, RowsOfOwners, FactsOfOwners, CreditedToBuyer
<1>3. ASSUME NEW q \in Payments PROVE Ordered(q)'
  BY <1>1 DEF IInv, Shape, Ordered
<1> QED BY <1>2, <1>3 DEF IInv

\* A checkout link names its buyer's account.
LEMMA LinkKeeps ==
  ASSUME IInv, NEW u \in Users, NEW p \in Payments, Buy(u, p)
  PROVE  IInv'
<1>1. RowsOfOwners' /\ UNCHANGED <<note, ledger, credited>>
  BY DEF IInv, RowsOfOwners, Buy, accounts, provider, billing
<1>2. /\ Created(p, Reference(u)) /\ DOMAIN Reference(u) = PaymentFields
      /\ Reference(u).kind = "link" /\ Reference(u).buyer = u
      /\ Reference(u).account = Account(u)
  BY DEF Buy, Reference, PaymentFields, Account
<1> QED BY <1>1, <1>2, OrderKeeps DEF IInv

\* A card order and a top-up order name their buyer's account.
LEMMA OrdersKeep ==
  ASSUME IInv, NEW u \in Users, NEW n \in Counts, NEW p \in Payments,
         PayByCard(u, n, p) \/ AddByCard(u, n, p)
  PROVE  IInv'
<1>1. RowsOfOwners' /\ UNCHANGED <<note, ledger, credited>>
  BY DEF IInv, RowsOfOwners, PayByCard, AddByCard, accounts, provider, billing
<1>2. CASE PayByCard(u, n, p)
  <2>1. Order(u, n) = [Order(u, n) EXCEPT !.status = "open"]
    BY DEF Order
  <2>2. \E s : Created(p, [Order(u, n) EXCEPT !.status = s])
    BY <1>2, <2>1 DEF PayByCard
  <2>3. PICK s : Created(p, [Order(u, n) EXCEPT !.status = s])
    BY <2>2
  <2>4. [Order(u, n) EXCEPT !.status = s]
          = [kind |-> "plan", buyer |-> u, count |-> n, amount |-> TotalPrice(Plan, n),
             account |-> Account(u), issued |-> now, status |-> s, paidAt |-> Null]
    BY DEF Order
  <2> DEFINE order == [Order(u, n) EXCEPT !.status = s]
  <2>5. /\ DOMAIN order = PaymentFields /\ order.kind = "plan" /\ order.buyer \in Users
        /\ order.account = Account(order.buyer)
    BY <2>4 DEF PaymentFields
  <2>6. Created(p, order)
    BY <2>3
  <2> HIDE DEF order
  <2> QED BY <1>1, <2>5, <2>6, OrderKeeps DEF IInv
<1>3. CASE AddByCard(u, n, p)
  <2>1. snap[ByConvention(u)].state = "active"
    BY <1>3 DEF AddByCard, TopUpRow
  <2>2. ByConvention(u) \in OwnAccounts
    BY <2>1, AccountIsOwn DEF IInv, RowsOfOwners, NoRow
  <2>3. Account(u) = ByConvention(u)
    BY <2>2, ConventionIsOwn
  <2>4. /\ Created(p, TopUpOrder(u, n)) /\ DOMAIN TopUpOrder(u, n) = PaymentFields
        /\ TopUpOrder(u, n).kind = "topup" /\ TopUpOrder(u, n).buyer = u
    BY <1>3 DEF AddByCard, TopUpOrder, PaymentFields
  <2> QED BY <1>1, <2>3, <2>4, OrderKeeps DEF IInv
<1> QED BY <1>2, <1>3

\* A balance pays for the row of the one whose balance it is.
LEMMA BalanceKeeps ==
  ASSUME IInv, NEW u \in Users, NEW n \in Counts, PayByBalance(u, n) \/ AddByBalance(u, n)
  PROVE  IInv'
<1>1. UNCHANGED <<pay, note, ledger, credited>>
  BY DEF PayByBalance, AddByBalance, provider, billing
<1>2. CASE UNCHANGED snap
  BY <1>1, <1>2, IdleKeeps
<1>3. CASE \E row : snap' = [snap EXCEPT ![Account(u)] = row]
  BY <1>1, <1>3, RowKeeps, AccountIsOwn
<1>4. UNCHANGED snap \/ \E row : snap' = [snap EXCEPT ![Account(u)] = row]
  BY DEF PayByBalance, AddByBalance, PlanFromBalance, DevicesFromBalance, Debit, accounts
<1> QED BY <1>2, <1>3, <1>4

\* What a notification is for is its buyer's account.
LEMMA PutOnBuyer ==
  ASSUME IInv, NEW p \in Payments, pay[p].kind # "none"
  PROVE  /\ pay[p].kind \in {"plan", "link"} => Input(p).account = Account(pay[p].buyer)
         /\ pay[p].kind = "topup" => TopUpMetadata(p).account = Account(pay[p].buyer)
         /\ Account(pay[p].buyer) \in OwnAccounts
<1>1. pay[p].buyer \in Users /\ Account(pay[p].buyer) # NoAccount /\ Account(pay[p].buyer) \in OwnAccounts
  BY AccountIsOwn DEF IInv, Ordered
<1> QED BY <1>1 DEF IInv, Ordered, Input, WebhookInput, SignedInput, ByMetadata, ByReference, TopUpMetadata

\* A payment is put on its buyer's account and its fact is about that account.
LEMMA CreditKeeps ==
  ASSUME IInv, NEW p \in Payments, pay[p].kind # "none", NEW pc, GoTo(p, pc),
         pc \in {"raise", "record"} => pay[p].kind = "topup",
         \/ snap' = snap
         \/ \E row : snap' = [snap EXCEPT ![Account(pay[p].buyer)] = row],
         ledger' \in {ledger, Recorded(p, Account(pay[p].buyer))},
         credited' = credited
           \/ credited' = [credited EXCEPT ![p] = @ \cup {Account(pay[p].buyer)}]
           \/ credited' = [credited EXCEPT ![p] = @],
         UNCHANGED pay
  PROVE  IInv'
<1>1. note' = [note EXCEPT ![p] = pc]
  BY DEF GoTo
<1>2. Account(pay[p].buyer) \in OwnAccounts
  BY PutOnBuyer
<1>3. RowsOfOwners'
  BY <1>2 DEF IInv, RowsOfOwners
<1>4. Shape'
  BY <1>1 DEF IInv, Shape, Recorded
<1>5. FactsOfOwners'
  BY <1>2 DEF IInv, Shape, FactsOfOwners, Recorded
<1>6. CreditedToBuyer'
  BY DEF IInv, Shape, CreditedToBuyer
<1>7. ASSUME NEW q \in Payments PROVE Ordered(q)'
  BY <1>1 DEF IInv, Shape, Ordered
<1> QED BY <1>3, <1>4, <1>5, <1>6, <1>7 DEF IInv

\* A notification whose step is not idle is about a payment that was ordered.
LEMMA NotedIsOrdered ==
  ASSUME IInv, NEW p \in Payments, note[p] # "idle"
  PROVE  pay[p].kind # "none"
BY DEF IInv, Ordered

\* The steps of a notification.
LEMMA ProviderStepKeeps ==
  ASSUME IInv, NEW p \in Payments, ProviderStep(p)
  PROVE  IInv'
<1>1. CASE Notify(p)
  BY <1>1, NoteKeeps DEF Notify, accounts, billing
<1>2. CASE Verify(p)
  BY <1>2, NoteKeeps, NotedIsOrdered DEF Verify, accounts, billing
<1>3. CASE NotifySigned(p)
  <2>1. pay[p].kind # "none" /\ UNCHANGED <<snap, pay, ledger, credited>>
    BY <1>3 DEF NotifySigned, accounts, billing
  <2>2. GoTo(p, "verified") \/ UNCHANGED note
    BY <1>3 DEF NotifySigned
  <2> QED BY <2>1, <2>2, NoteKeeps, IdleKeeps
<1>4. CASE FulfilPlan(p)
  <2>1. pay[p].kind \in {"plan", "link"} /\ UNCHANGED pay
    BY <1>4 DEF FulfilPlan
  <2>2. Input(p).account = Account(pay[p].buyer)
    BY <2>1, PutOnBuyer
  <2>3. \/ GoTo(p, "idle") /\ UNCHANGED <<snap, ledger, credited>>
        \/ /\ GoTo(p, "reply") /\ ledger' = Recorded(p, Account(pay[p].buyer))
           /\ \E row : snap' = [snap EXCEPT ![Account(pay[p].buyer)] = row]
           /\ credited' = [credited EXCEPT ![p] = @ \cup {Account(pay[p].buyer)}]
    BY <1>4, <2>2 DEF FulfilPlan, billing, IngestFact
  <2> QED BY <2>1, <2>3, CreditKeeps
<1>5. CASE FulfilTopUp(p)
  <2>1. pay[p].kind = "topup" /\ UNCHANGED pay
    BY <1>5 DEF FulfilTopUp, ReadTopUp, RaiseDevices, RecordTopUp, IInv, Ordered
  <2>2. TopUpMetadata(p).account = Account(pay[p].buyer)
    BY <2>1, PutOnBuyer
  <2>3. CASE ReadTopUp(p)
    BY <2>1, <2>2, <2>3, CreditKeeps DEF ReadTopUp, accounts
  <2>4. CASE RaiseDevices(p)
    <3>1. /\ GoTo(p, "record") /\ ledger' = ledger
          /\ \/ snap' = snap /\ credited' = credited
             \/ /\ \E row : snap' = [snap EXCEPT ![Account(pay[p].buyer)] = row]
                /\ credited' = [credited EXCEPT ![p] = @ \cup {Account(pay[p].buyer)}]
      BY <2>2, <2>4 DEF RaiseDevices
    <3> QED BY <2>1, <3>1, CreditKeeps
  <2>5. CASE RecordTopUp(p)
    <3>1. GoTo(p, "reply") /\ ledger' \in {ledger, Recorded(p, Account(pay[p].buyer))}
      BY <2>2, <2>5 DEF RecordTopUp, IngestFact
    <3>2. snap' = snap /\ credited' = credited
      BY <2>5 DEF RecordTopUp, accounts
    <3> QED BY <2>1, <3>1, <3>2, CreditKeeps
  <2> QED BY <1>5, <2>3, <2>4, <2>5 DEF FulfilTopUp
<1>6. CASE Reply(p)
  BY <1>6, NoteKeeps DEF Reply, accounts, billing
<1> QED BY <1>1, <1>2, <1>3, <1>4, <1>5, <1>6 DEF ProviderStep

\* The scheduler finds only rows of owners.
LEMMA LapseKeeps ==
  ASSUME IInv, NEW a \in Accounts, Lapse(a)
  PROVE  IInv'
<1>1. a \in OwnAccounts
  BY DEF Lapse, IInv, RowsOfOwners, NoRow
<1>2. (\E row : snap' = [snap EXCEPT ![a] = row]) /\ UNCHANGED <<pay, note, ledger, credited>>
  BY DEF Lapse, provider, billing
<1> QED BY <1>1, <1>2, RowKeeps

\* The payer, faults and the operator.
LEMMA WorldKeeps ==
  ASSUME IInv, NEW p \in Payments,
         PayInvoice(p) \/ Drop(p) \/ Ingest(p) \/ ApplyFact(p)
  PROVE  IInv'
<1>1. CASE PayInvoice(p)
  <2>1. pay' = [pay EXCEPT ![p].status = "paid", ![p].paidAt = now]
        /\ UNCHANGED <<snap, note, ledger, credited>>
    BY <1>1 DEF PayInvoice, accounts, provider, billing
  <2>2. DOMAIN pay' = Payments
        /\ \A q \in Payments : /\ DOMAIN pay'[q] = PaymentFields
                               /\ pay'[q].kind = pay[q].kind /\ pay'[q].buyer = pay[q].buyer
                               /\ pay'[q].account = pay[q].account
    BY <2>1 DEF IInv, Shape, PaymentFields
  <2>3. Shape' /\ RowsOfOwners' /\ FactsOfOwners' /\ CreditedToBuyer'
    BY <2>1, <2>2 DEF IInv, Shape, RowsOfOwners, FactsOfOwners, CreditedToBuyer
  <2>4. ASSUME NEW q \in Payments PROVE Ordered(q)'
    BY <2>1, <2>2 DEF IInv, Ordered
  <2> QED BY <2>3, <2>4 DEF IInv
<1>2. CASE Drop(p)
  BY <1>2, NoteKeeps DEF Drop, accounts, billing
<1>3. CASE Ingest(p)
  <2>1. pay[p].account \in OwnAccounts
    BY <1>3, AccountIsOwn DEF Ingest, IInv, Ordered
  <2>2. ledger' = Recorded(p, pay[p].account) /\ UNCHANGED <<snap, pay, note, credited>>
    BY <1>3 DEF Ingest, IngestFact, FactAccount, accounts, provider
  <2>3. Shape' /\ FactsOfOwners'
    BY <2>1, <2>2 DEF IInv, Shape, FactsOfOwners, Recorded
  <2>4. RowsOfOwners' /\ CreditedToBuyer' /\ \A q \in Payments : Ordered(q)'
    BY <2>2 DEF IInv, RowsOfOwners, CreditedToBuyer, Ordered
  <2> QED BY <2>3, <2>4 DEF IInv
<1>4. CASE ApplyFact(p)
  <2>1. ledger[p] \in OwnAccounts
    BY <1>4 DEF ApplyFact, IInv, FactsOfOwners
  <2>2. (\E row : snap' = [snap EXCEPT ![ledger[p]] = row]) /\ UNCHANGED <<pay, note, ledger, credited>>
    BY <1>4 DEF ApplyFact, provider
  <2> QED BY <2>1, <2>2, RowKeeps
<1> QED BY <1>1, <1>2, <1>3, <1>4

\* Every step keeps the invariant.
LEMMA StepKeeps ==
  ASSUME IInv, [Next]_vars
  PROVE  IInv'
<1>1. CASE UNCHANGED vars
  BY <1>1, IdleKeeps DEF vars, accounts, provider, billing
<1>2. ASSUME NEW u \in Users, NEW where, OpenPage(u, where) PROVE IInv'
  BY <1>2, IdleKeeps DEF OpenPage, accounts, provider, billing
<1>3. ASSUME NEW u \in Users, NEW n \in Counts, NEW p \in Payments, PayByCard(u, n, p) \/ AddByCard(u, n, p)
      PROVE  IInv'
  BY <1>3, OrdersKeep
<1>4. ASSUME NEW u \in Users, NEW n \in Counts, PayByBalance(u, n) \/ AddByBalance(u, n) PROVE IInv'
  BY <1>4, BalanceKeeps
<1>5. ASSUME NEW u \in Users, NEW p \in Payments, Buy(u, p) PROVE IInv'
  BY <1>5, LinkKeeps
<1>6. ASSUME NEW p \in Payments, PayInvoice(p) \/ Drop(p) \/ Ingest(p) \/ ApplyFact(p) PROVE IInv'
  BY <1>6, WorldKeeps
<1>7. ASSUME NEW p \in Payments, ProviderStep(p) PROVE IInv'
  BY <1>7, ProviderStepKeeps
<1>8. ASSUME NEW a \in Accounts, Lapse(a) PROVE IInv'
  BY <1>8, LapseKeeps
<1>9. CASE Tick
  BY <1>9, IdleKeeps DEF Tick, accounts, provider, billing
<1> QED BY <1>1, <1>2, <1>3, <1>4, <1>5, <1>6, <1>7, <1>8, <1>9 DEF Next

(***************************************************************************)
(* What is paid is put on the account of the buyer and on no other, by     *)
(* webhook and signed ingress, for accounts of the bot and of the site.    *)
(***************************************************************************)
THEOREM CreditsReachTheBuyer == Spec => []CreditedToBuyer
<1>1. IInv => CreditedToBuyer
  BY DEF IInv
<1> QED BY InitOwned, StepKeeps, <1>1, PTL DEF Spec

-----------------------------------------------------------------------------
(* One visit debits one choice once                                        *)

PageFields == {"at", "visit", "shown", "done"}

\* A visit is the move that mounted the page, so no two users share one.
Visits ==
  /\ moves \in Nat
  /\ DOMAIN page = Users
  /\ \A u \in Users : /\ DOMAIN page[u] = PageFields
                      /\ page[u].visit \in 0..moves
                      /\ page[u].at # "none" => page[u].visit # 0
  /\ \A u, v \in Users : u # v /\ page[u].visit = page[v].visit => page[u].visit = 0

\* Who made a debit and is still on that visit has the audit row that says so.
Charges ==
  /\ debits \subseteq Nat \X (1..moves) \X {"plan", "devices"} \X Counts
  /\ \A d \in debits, u \in Users :
       page[u].visit = d[2] => <<u, d[2], d[3], d[4]>> \in audit
  /\ OneDebitPerChoice

DebitInv == Visits /\ Charges

\* A debit without its move is its visit, its kind and its count.
LEMMA ChoiceOf == ASSUME NEW m, NEW v, NEW w, NEW n PROVE Tail(<<m, v, w, n>>) = <<v, w, n>>
OBVIOUS

\* A page is left, stays, changes what it shows, or is mounted anew by the move.
LEMMA VisitsKeep ==
  ASSUME Visits, moves' = moves + 1, NEW u \in Users, NEW q,
         DOMAIN q = PageFields, q.visit \in {0, page[u].visit, moves'},
         q.at # "none" => q.visit # 0,
         page' = [page EXCEPT ![u] = q] \/ UNCHANGED page
  PROVE  Visits' /\ \A v \in Users : page'[v].visit \in {0, page[v].visit, moves'}
BY DEF Visits

\* Moves that debit nothing.
LEMMA FreeMoveKeeps ==
  ASSUME DebitInv, Visits', UNCHANGED <<audit, debits>>, moves' = moves + 1,
         \A v \in Users : page'[v].visit \in {0, page[v].visit, moves'}
  PROVE  DebitInv'
<1>1. moves \in Nat
  BY DEF DebitInv, Visits
<1>2. debits' \subseteq Nat \X (1..moves') \X {"plan", "devices"} \X Counts
  BY <1>1 DEF DebitInv, Charges
<1>3. ASSUME NEW d \in debits, NEW u \in Users, page'[u].visit = d[2]
      PROVE  <<u, d[2], d[3], d[4]>> \in audit
  <2>1. d[2] \in 1..moves
    BY DEF DebitInv, Charges
  <2>2. page[u].visit = d[2]
    BY <1>1, <1>3, <2>1
  <2> QED BY <2>2 DEF DebitInv, Charges
<1>4. OneDebitPerChoice'
  BY DEF DebitInv, Charges, OneDebitPerChoice
<1> QED BY <1>2, <1>3, <1>4 DEF DebitInv, Charges

\* Moves that debit: the key of the visit has no audit row for this choice yet.
LEMMA DebitKeeps ==
  ASSUME DebitInv, Visits', moves' = moves + 1, NEW u \in Users, page[u].at # "none",
         \A v \in Users : page'[v].visit \in {0, page[v].visit, moves'},
         NEW what \in {"plan", "devices"}, NEW n \in Counts, ~ Known(u, what, n),
         NEW cost, NEW row, Debit(u, what, n, cost, row)
  PROVE  DebitInv'
<1>v. PICK visit : visit = page[u].visit
  OBVIOUS
<1>m. PICK m : m = moves'
  OBVIOUS
<1>1. moves \in Nat /\ m \in Nat /\ visit \in 1..moves
  BY <1>v, <1>m DEF DebitInv, Visits
<1>2. /\ debits' = debits \cup {<<m, visit, what, n>>}
      /\ audit' = audit \cup {<<u, visit, what, n>>}
      /\ <<u, visit, what, n>> \notin audit
  BY <1>v, <1>m DEF Debit, Known, KeyOf
<1>3. debits' \subseteq Nat \X (1..moves') \X {"plan", "devices"} \X Counts
  BY <1>1, <1>2 DEF DebitInv, Charges
<1>4. ASSUME NEW d \in debits', NEW x \in Users, page'[x].visit = d[2]
      PROVE  <<x, d[2], d[3], d[4]>> \in audit'
  <2>1. d[2] \in 1..moves
    BY <1>1, <1>2 DEF DebitInv, Charges
  <2>2. page[x].visit = d[2]
    BY <1>1, <1>4, <2>1
  <2>3. CASE d \in debits
    BY <1>2, <2>2, <2>3 DEF DebitInv, Charges
  <2>4. CASE d = <<m, visit, what, n>>
    <3>1. x = u
      BY <1>v, <1>1, <2>2, <2>4 DEF DebitInv, Visits
    <3> QED BY <1>2, <2>4, <3>1
  <2> QED BY <1>2, <2>3, <2>4
<1>5. ASSUME NEW d \in debits, Tail(d) = <<visit, what, n>> PROVE FALSE
  <2>1. PICK k, v, w, c : d = <<k, v, w, c>>
    BY DEF DebitInv, Charges
  <2>2. v = visit /\ w = what /\ c = n
    BY <1>5, <2>1, ChoiceOf
  <2>3. d[2] = visit /\ d[3] = what /\ d[4] = n
    BY <2>1, <2>2
  <2>4. <<u, visit, what, n>> \in audit
    BY <1>v, <2>3 DEF DebitInv, Charges
  <2> QED BY <1>2, <2>4
<1>6. OneDebitPerChoice'
  <2> SUFFICES ASSUME NEW d \in debits', NEW e \in debits', Tail(d) = Tail(e) PROVE d = e
    BY DEF OneDebitPerChoice
  <2>1. Tail(<<m, visit, what, n>>) = <<visit, what, n>>
    BY ChoiceOf
  <2> QED BY <1>2, <1>5, <2>1 DEF DebitInv, Charges, OneDebitPerChoice
<1> QED BY <1>3, <1>4, <1>6 DEF DebitInv, Charges

\* A page that is mounted by a move, and one that was left.
LEMMA MountedPage ==
  ASSUME Visits, moves' = moves + 1, NEW where, NEW profile
  PROVE  /\ DOMAIN Mounted(where, profile) = PageFields
         /\ Mounted(where, profile).visit = moves' /\ moves' # 0
         /\ DOMAIN NoPage = PageFields /\ NoPage.visit = 0 /\ NoPage.at = "none"
BY DEF Visits, Mounted, NoPage, PageFields

\* Opening a page, and the moves that order a payment.
LEMMA OrderingKeepsDebits ==
  ASSUME DebitInv,
         \/ \E u \in Users, where \in {"payment", "cabinet"} : OpenPage(u, where)
         \/ \E u \in Users, n \in Counts, p \in Payments : PayByCard(u, n, p) \/ AddByCard(u, n, p)
         \/ \E u \in Users, p \in Payments : Buy(u, p)
  PROVE  DebitInv'
<1>1. moves' = moves + 1 /\ UNCHANGED <<audit, debits>>
  BY DEF OpenPage, PayByCard, AddByCard, Buy, Move, accounts
<1>2. PICK u \in Users :
        \/ \E where \in {"payment", "cabinet"} :
             page' = [page EXCEPT ![u] = Mounted(where, Profile(u, snap, balance))]
        \/ page' = [page EXCEPT ![u] = NoPage]
        \/ UNCHANGED page
  BY DEF OpenPage, PayByCard, AddByCard, Buy
<1>3. Visits' /\ \A v \in Users : page'[v].visit \in {0, page[v].visit, moves'}
  <2>1. ASSUME NEW where, page' = [page EXCEPT ![u] = Mounted(where, Profile(u, snap, balance))]
        PROVE  Visits' /\ \A v \in Users : page'[v].visit \in {0, page[v].visit, moves'}
    <3>1. PICK q : q = Mounted(where, Profile(u, snap, balance))
      OBVIOUS
    <3>2. DOMAIN q = PageFields /\ q.visit = moves' /\ q.visit # 0
      BY <1>1, <3>1, MountedPage DEF DebitInv
    <3> QED BY <1>1, <2>1, <3>1, <3>2, VisitsKeep DEF DebitInv
  <2>2. CASE page' = [page EXCEPT ![u] = NoPage]
    <3>1. DOMAIN NoPage = PageFields /\ NoPage.visit = 0 /\ NoPage.at = "none"
      BY DEF NoPage, PageFields
    <3> QED BY <1>1, <2>2, <3>1, VisitsKeep DEF DebitInv
  <2>3. CASE UNCHANGED page
    BY <1>1, <2>3 DEF DebitInv, Visits
  <2> QED BY <1>2, <2>1, <2>2, <2>3
<1> QED BY <1>1, <1>3, FreeMoveKeeps

\* The buttons that pay from the balance.
LEMMA BalanceKeepsDebits ==
  ASSUME DebitInv, NEW u \in Users, NEW n \in Counts, PayByBalance(u, n) \/ AddByBalance(u, n)
  PROVE  DebitInv'
<1>1. moves' = moves + 1 /\ page[u].at # "none"
  BY DEF PayByBalance, AddByBalance, Move
<1>2. \/ UNCHANGED <<audit, debits>>
      \/ \E what \in {"plan", "devices"} : \E cost, row :
           (~ Known(u, what, n)) /\ Debit(u, what, n, cost, row)
  BY DEF PayByBalance, PlanFromBalance, AddByBalance, DevicesFromBalance, accounts
<1>3. Visits' /\ \A v \in Users : page'[v].visit \in {0, page[v].visit, moves'}
  <2>1. ASSUME NEW shown, Arrives(u, shown), DOMAIN shown = PageFields,
               shown.visit \in {page[u].visit, moves'}, shown.visit # 0
        PROVE  Visits' /\ \A v \in Users : page'[v].visit \in {0, page[v].visit, moves'}
    <3>1. CASE UNCHANGED page
      BY <1>1, <3>1 DEF DebitInv, Visits
    <3>2. CASE page' = [page EXCEPT ![u] = shown]
      <4>1. PICK q : q = shown
        OBVIOUS
      <4> QED BY <1>1, <2>1, <3>2, <4>1, VisitsKeep DEF DebitInv
    <3> QED BY <2>1, <3>1, <3>2 DEF Arrives
  <2>2. DOMAIN page[u] = PageFields /\ page[u].visit # 0
    BY <1>1 DEF DebitInv, Visits
  <2>3. CASE PayByBalance(u, n)
    <3>1. PICK answer : Arrives(u, [page[u] EXCEPT !.done = answer # "insufficient_balance",
                                                   !.shown = Refreshed(u)])
      BY <2>3 DEF PayByBalance
    <3>2. ASSUME NEW d, NEW r
          PROVE  /\ DOMAIN [page[u] EXCEPT !.done = d, !.shown = r] = PageFields
                 /\ [page[u] EXCEPT !.done = d, !.shown = r].visit = page[u].visit
      BY <2>2 DEF PageFields
    <3> QED BY <2>1, <2>2, <3>1, <3>2
  <2>4. CASE AddByBalance(u, n)
    <3>1. \/ Arrives(u, Mounted("cabinet", Refreshed(u)))
          \/ Arrives(u, page[u])
      BY <2>4 DEF AddByBalance
    <3>2. CASE Arrives(u, Mounted("cabinet", Refreshed(u)))
      BY <1>1, <2>1, <3>2, MountedPage DEF DebitInv
    <3>3. CASE Arrives(u, page[u])
      BY <2>1, <2>2, <3>3
    <3> QED BY <3>1, <3>2, <3>3
  <2> QED BY <2>3, <2>4
<1>4. CASE UNCHANGED <<audit, debits>>
  BY <1>1, <1>3, <1>4, FreeMoveKeeps
<1>5. ASSUME NEW what \in {"plan", "devices"}, NEW cost, NEW row,
             ~ Known(u, what, n), Debit(u, what, n, cost, row)
      PROVE  DebitInv'
  BY <1>1, <1>3, <1>5, DebitKeeps
<1> QED BY <1>2, <1>4, <1>5

\* Every step keeps it: the rest of the system debits nothing and opens no page.
LEMMA DebitsAreKept == DebitInv /\ [Next]_vars => DebitInv'
<1> SUFFICES ASSUME DebitInv, [Next]_vars PROVE DebitInv'
  OBVIOUS
<1>1. ASSUME UNCHANGED <<page, moves, audit, debits>> PROVE DebitInv'
  BY <1>1 DEF DebitInv, Visits, Charges, OneDebitPerChoice
<1>2. CASE UNCHANGED vars
  BY <1>1, <1>2 DEF vars, accounts, bounds
<1>3. ASSUME NEW p \in Payments,
             PayInvoice(p) \/ ProviderStep(p) \/ Drop(p) \/ Ingest(p) \/ ApplyFact(p)
      PROVE  DebitInv'
  BY <1>1, <1>3
     DEF PayInvoice, ProviderStep, Notify, Verify, NotifySigned, FulfilPlan, Reply,
         FulfilTopUp, ReadTopUp, RaiseDevices, RecordTopUp,
         Drop, Ingest, ApplyFact, accounts, bounds
<1>4. ASSUME (\E a \in Accounts : Lapse(a)) \/ Tick PROVE DebitInv'
  BY <1>1, <1>4 DEF Lapse, Tick, accounts, bounds
<1> QED BY <1>2, <1>3, <1>4, OrderingKeepsDebits, BalanceKeepsDebits DEF Next

(***************************************************************************)
(* However often the button is pressed and whatever answer is lost, one    *)
(* visit of a page debits one choice of devices at most once, for any      *)
(* number of users, moves and faults.                                      *)
(***************************************************************************)
THEOREM AVisitIsDebitedOnce == Spec => []OneDebitPerChoice
<1>1. Init => DebitInv
  <2> SUFFICES ASSUME Init PROVE DebitInv
    OBVIOUS
  <2>1. Visits
    BY DEF Init, Visits, NoPage, PageFields
  <2> QED BY <2>1 DEF Init, DebitInv, Charges, OneDebitPerChoice
<1>2. DebitInv => OneDebitPerChoice
  BY DEF DebitInv, Charges
<1> QED BY <1>1, <1>2, DebitsAreKept, PTL DEF Spec
=============================================================================
