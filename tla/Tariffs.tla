------------------------------- MODULE Tariffs -------------------------------
(***************************************************************************)
(* What things cost and what referrers earn.  Four programs compute it     *)
(* anew: the payment page in the browser, the request that creates a       *)
(* payment, the webhook that checks the amount, and the bot's summary.     *)
(*                                                                         *)
(* A plan id is one of the seven of the table, named here by its days, or  *)
(* custom:<days>.  Prices are roubles, payments and commissions kopecks.   *)
(***************************************************************************)
EXTENDS Integers

CONSTANT DefaultDevices    \* DEFAULT_DEVICE_LIMIT, 5 unless the environment says otherwise

FixedDays == {1, 7, 14, 30, 90, 180, 365}

PlanOf(days) == [custom |-> FALSE, days |-> days]
CustomPlan(days) == [custom |-> TRUE, days |-> days]

\* get_plan: a custom plan has at most a year.
Plans == {PlanOf(d) : d \in FixedDays} \cup {CustomPlan(d) : d \in 1..365}

CustomDayPrice == 15

\* _PLANS: price_rubles
PlanTable == [d \in FixedDays |->
  CASE d = 1   -> 12
    [] d = 7   -> 99
    [] d = 14  -> 169
    [] d = 30  -> 249
    [] d = 90  -> 699
    [] d = 180 -> 1259
    [] d = 365 -> 2199]

PlanPrice(id) == IF id.custom THEN id.days * CustomDayPrice ELSE PlanTable[id.days]

\* default_device_limit: the table says 5, a custom plan what the environment says.
DeviceLimit(id) == IF id.custom THEN DefaultDevices ELSE 5
-----------------------------------------------------------------------------
(* Devices.  One more device costs 80 a month, by the day.                 *)

Extra(n, from) == IF n > from THEN n - from ELSE 0

\* Python's round of n / d: to the nearest, a tie to the even one.
RoundHalfEven(n, d) ==
  LET q == n \div d
      r == n % d
  IN  IF 2 * r < d \/ (2 * r = d /\ q % 2 = 0) THEN q ELSE q + 1

\* Math.round of n / d: to the nearest, a tie upwards.
RoundHalfUp(n, d) == (2 * n + d) \div (2 * d)

\* round(EXTRA_DEVICE_PRICE_RUBLES / 30 * duration_days)
DevicePrice(days) == RoundHalfEven(80 * days, 30)

\* extra_device_cost: devices on top of those the subscription has
ExtraDeviceCost(n, current, days) == Extra(n, current) * DevicePrice(days)

\* calculate_total_price
TotalPrice(id, n) == PlanPrice(id) + Extra(n, DeviceLimit(id)) * DevicePrice(id.days)

\* validate_device_count
ValidCount(n) == n >= DefaultDevices /\ n <= 20

\* build_purchase_summary: what the bot asks before it charges.
Summary(id, n) ==
  [base  |-> PlanPrice(id),
   extra |-> ExtraDeviceCost(n, DeviceLimit(id), id.days),
   total |-> TotalPrice(id, n)]
-----------------------------------------------------------------------------
(* The page's own arithmetic.                                              *)

\* siteConfig.tariffs: id, durationDays and price
SiteTariffs ==
  {[days |-> 1, price |-> 12],     [days |-> 7, price |-> 99],    [days |-> 14, price |-> 169],
   [days |-> 30, price |-> 249],   [days |-> 90, price |-> 699],  [days |-> 180, price |-> 1259],
   [days |-> 365, price |-> 2199]}

\* getTariffInfo: custom days are not bounded here.
TariffInfo(id) ==
  IF id.custom
  THEN [days |-> id.days, price |-> id.days * 15]
  ELSE CHOOSE t \in SiteTariffs : t.days = id.days

\* calcExtraDeviceCost
PageDeviceCost(days, extra) == extra * RoundHalfUp(80 * days, 30)

PageTotal(id, n) ==
  TariffInfo(id).price + PageDeviceCost(TariffInfo(id).days, Extra(n, 5))
\* CustomCard: the link of the slider's days.
CustomLink(days) == CustomPlan(IF days < 1 THEN 1 ELSE IF days > 365 THEN 365 ELSE days)
-----------------------------------------------------------------------------
(* The webhook's gate, and the commissions.                                *)

\* _expected_subscription_kopecks
ExpectedKopecks(id, n) == TotalPrice(id, n) * 100

\* abs(amount_kopecks - expected_kopecks) <= 1
AmountMatches(amount, expected) == amount - expected \in -1..1

\* _LEVEL1_RATES and _LEVEL2_RATES in per cent, 0 for an id that is not in the table
DirectRate(id) ==
  IF id.custom THEN 0
  ELSE CASE id.days = 1 -> 10 [] id.days = 7 -> 15 [] id.days = 14 -> 20 [] id.days = 30 -> 35
         [] id.days = 90 -> 30 [] id.days = 180 -> 20 [] id.days = 365 -> 17

IndirectRate(id) ==
  IF id.custom THEN 0
  ELSE CASE id.days = 1 -> 1 [] id.days = 7 -> 2 [] id.days = 14 -> 3 [] id.days = 30 -> 5
         [] id.days = 90 -> 3 [] id.days = 180 -> 2 [] id.days = 365 -> 2

(***************************************************************************)
(* round(payment_amount_kopecks * rate), in binary floating point: a tie   *)
(* may fall to either side.                                                *)
(***************************************************************************)
Commissions(amount, rate) == {k \in Nat : 100 * k - rate * amount \in -50..50}

\* build_commissions_for_payment: one record for every level with a referrer, and none of
\* an amount that rounds to nothing.
CommissionRecords(levels, id, amount) ==
  LET rate(l) == IF l = 1 THEN DirectRate(id) ELSE IndirectRate(id)
      shares  == {s \in [levels -> Nat] : \A l \in levels : s[l] \in Commissions(amount, rate(l))}
  IN  {{<<l, s[l]>> : l \in {k \in levels : s[k] > 0}} : s \in shares}

\* _plan_id_from_period_days: the card path knows the days only.
PlanOfDays(days) == IF days \in FixedDays THEN PlanOf(days) ELSE CustomPlan(days)
==============================================================================
