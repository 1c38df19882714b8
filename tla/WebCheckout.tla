----------------------------- MODULE WebCheckout -----------------------------
(***************************************************************************)
(* Buying on the site and through the bot's checkout link: the payment     *)
(* page and the cabinet in the browser, the requests they send, the        *)
(* payment at the provider, and the three ways by which a paid payment     *)
(* comes back: the YooKassa webhook, the signed ingress of an external     *)
(* checkout, and an operator's hand (ingest, then apply).                  *)
(*                                                                         *)
(* Accounts are of two kinds.  A Telegram account is u<telegram id>.  One  *)
(* made on the site has a non-positive telegram id and is web_<hash>: for  *)
(* it u<telegram id> names a different account, that of nobody.            *)
(*                                                                         *)
(* The transaction of a fulfilment is one step here (its interleavings are *)
(* Fulfillment's), and so is that of a balance purchase (BalancePayment's).*)
(* Prices are those of Tariffs, in roubles; time is in days.               *)
(***************************************************************************)
EXTENDS SubscriptionSnapshots, Sequences

CONSTANTS
  Users, WebOnly,    \* the buyers, and those whose account was made on the site
  Payments,          \* payments the providers may hold
  NoAccount, Nobody,
  Counts,            \* the device counts the two pages offer
  Plan,              \* the plan that is bought
  InitialBalance,
  MaxAge,            \* TELEGRAM_CHECKOUT_REFERENCE_MAX_AGE_SECONDS
  MaxTime,           \* bound: the last instant of the clock
  MaxMoves,          \* bound: pages opened and buttons pressed
  MaxFaults,         \* bound: calls, answers and handlers lost
  MaxHandwork        \* bound: commands of the operator

INSTANCE Tariffs

ASSUME CheckoutAssumption ==
  /\ WebOnly \subseteq Users
  /\ Nobody \notin Users
  /\ Counts \subseteq Nat
  /\ Plan \in Plans
  /\ \A n \in Counts : ValidCount(n)
  /\ {InitialBalance, MaxAge, MaxTime, MaxMoves, MaxFaults, MaxHandwork} \subseteq Nat

Period == Plan.days

\* A row without a plan is charged like one of a month.
DaysOf(row) == IF row.plan THEN Period ELSE 30

ByConvention(u) == <<"u", u>>

\* SELECT internal_user_id FROM user_identities WHERE telegram_user_id = $1
Account(u) == IF u \in WebOnly THEN <<"web", u>> ELSE ByConvention(u)

Accounts == {Account(u) : u \in Users} \cup {ByConvention(u) : u \in Users}

ASSUME NoAccountAssumption == NoAccount \notin Accounts

VARIABLES
  now,
  snap,       \* subscription_snapshots, by account
  balance,    \* referral_balances, by user
  audit,      \* referral_transactions: <<key, what, count>>, the description of a debit
  debits,     \* history: <<move, visit, what, count>> of every debit
  page,       \* what every user has open in the browser
  pay,        \* the payments at the providers
  note,       \* the notification of a payment that is being handled
  acked,      \* payments a provider got a 200 for
  refused,    \* payments whose notification was answered 400 or 409
  ledger,     \* billing_events_ledger: the account of a payment's fact
  applied,    \* billing_subscription_apply_records
  credited,   \* history: accounts a payment was put on
  moves, faults, handwork

accounts == <<snap, balance, audit, debits>>
billing  == <<ledger, applied, credited>>
provider == <<note, acked, refused>>
bounds   == <<moves, faults, handwork>>
vars     == <<now, accounts, page, pay, provider, billing, bounds>>

\* What the profile said when the page last loaded it.
NoProfile == [balance |-> 0, active |-> FALSE, plan |-> FALSE, devices |-> 0]

NoPage == [at |-> "none", visit |-> 0, shown |-> NoProfile, done |-> FALSE]

NoPayment == [kind |-> "none", buyer |-> Nobody, count |-> 0, amount |-> 0,
              account |-> NoAccount, issued |-> Null, status |-> "none", paidAt |-> Null]

Init ==
  /\ now = 1
  /\ snap \in [Accounts -> {NoRow, UpsertState(NoRow, "active", 1 + Period, TRUE, Null, Null)}]
  /\ \A u \in WebOnly : snap[ByConvention(u)] = NoRow
  /\ balance = [u \in Users |-> InitialBalance]
  /\ audit = {}
  /\ debits = {}
  /\ page = [u \in Users |-> NoPage]
  /\ pay = [p \in Payments |-> NoPayment]
  /\ note = [p \in Payments |-> "idle"]
  /\ acked = {}
  /\ refused = {}
  /\ ledger = [p \in Payments |-> NoAccount]
  /\ applied = {}
  /\ credited = [p \in Payments |-> {}]
  /\ moves = 0
  /\ faults = 0
  /\ handwork = 0
-----------------------------------------------------------------------------
\* Mutant: the amount check knows the plan's price only.
ExpectedPlanOnly(p) == PlanPrice(Plan) * 100

\* _expected_subscription_kopecks of the metadata's plan and count
Expected(p) == ExpectedKopecks(Plan, pay[p].count)
-----------------------------------------------------------------------------
(* The browser.                                                            *)

Move == moves < MaxMoves /\ moves' = moves + 1

Fault == faults < MaxFaults /\ faults' = faults + 1

NoFault == UNCHANGED faults

\* GET /profile, over given rows and balances.
Profile(u, rows, money) ==
  LET row == rows[Account(u)]
  IN  [balance |-> money[u],
       active  |-> row.state = "active" /\ row.until > now,
       plan    |-> row.plan,
       devices |-> OrDefault(row.devices, DefaultDevices)]

\* A page, or a card of it, that is mounted: it makes its idempotency key.
Mounted(where, profile) ==
  [at |-> where, visit |-> moves', shown |-> profile, done |-> FALSE]

OpenPage(u, where) ==
  /\ Move
  /\ page' = [page EXCEPT ![u] = Mounted(where, Profile(u, snap, balance))]
  /\ UNCHANGED <<now, accounts, pay, provider, billing, faults, handwork>>

\* Mutant: a key for every press of the button.
KeyOfClick(u) == moves

KeyOf(u) == page[u].visit

\* The answer arrives, or the page reports network_error and stays as it was.
Arrives(u, shown) ==
  \/ NoFault /\ page' = [page EXCEPT ![u] = shown]
  \/ Fault /\ UNCHANGED page

Created(p, record) ==
  /\ pay[p].kind = "none"
  /\ pay' = [pay EXCEPT ![p] = record]

\* POST /payment/create: the price, and the account the identity row names.
Order(u, n) ==
  [kind |-> "plan", buyer |-> u, count |-> n, amount |-> TotalPrice(Plan, n),
   account |-> Account(u), issued |-> now, status |-> "open", paidAt |-> Null]

(***************************************************************************)
(* "Pay by card".  The page leaves for the provider's; when the answer is  *)
(* lost nobody has the address of the new payment, and a second press      *)
(* makes another one.                                                      *)
(***************************************************************************)
PayByCard(u, n, p) ==
  /\ page[u].at = "payment"
  /\ ~ page[u].done
  /\ Move
  /\ \/ NoFault /\ Created(p, Order(u, n)) /\ page' = [page EXCEPT ![u] = NoPage]
     \/ Fault /\ Created(p, [Order(u, n) EXCEPT !.status = "orphan"]) /\ UNCHANGED page
  /\ UNCHANGED <<now, accounts, provider, billing, handwork>>

(***************************************************************************)
(* POST /payment/add-devices.  The subscription is that of u<telegram id>, *)
(* so an account of the site is told it has none.  The metadata names the  *)
(* telegram id only, and the expected amount, which is the amount.         *)
(***************************************************************************)
TopUpRow(u) == snap[ByConvention(u)]

TopUpOrder(u, n) ==
  [kind |-> "topup", buyer |-> u, count |-> n,
   amount |-> ExtraDeviceCost(n, OrDefault(TopUpRow(u).devices, DefaultDevices),
                             DaysOf(TopUpRow(u))),
   account |-> NoAccount, issued |-> now, status |-> "open", paidAt |-> Null]

\* "Add devices" by card, in the cabinet of a subscription shown as active.
AddByCard(u, n, p) ==
  /\ page[u].at = "cabinet"
  /\ page[u].shown.active
  /\ n > page[u].shown.devices
  /\ TopUpRow(u).state = "active"
  /\ n > OrDefault(TopUpRow(u).devices, DefaultDevices)
  /\ Move
  /\ Created(p, TopUpOrder(u, n))
  /\ page' = [page EXCEPT ![u] = NoPage]
  /\ UNCHANGED <<now, accounts, provider, billing, faults, handwork>>

\* The debit of one request and the row it buys, in one transaction.
Debit(u, what, n, cost, row) ==
  /\ balance' = [balance EXCEPT ![u] = @ - cost]
  /\ audit' = audit \cup {<<u, KeyOf(u), what, n>>}
  /\ debits' = debits \cup {<<moves', page[u].visit, what, n>>}
  /\ snap' = [snap EXCEPT ![Account(u)] = row]

Answers == {"completed", "already_completed", "insufficient_balance",
            "no_active_subscription", "device_count_not_higher"}

\* The audit row holds key, kind of purchase and count.
Known(u, what, n) == <<u, KeyOf(u), what, n>> \in audit

\* POST /payment/balance
PlanFromBalance(u, n, answer) ==
  LET row == snap[Account(u)]
  IN  \/ /\ answer = "already_completed"
         /\ Known(u, "plan", n)
         /\ UNCHANGED accounts
      \/ /\ answer = "insufficient_balance"
         /\ ~ Known(u, "plan", n)
         /\ balance[u] < TotalPrice(Plan, n)
         /\ UNCHANGED accounts
      \/ /\ answer = "completed"
         /\ ~ Known(u, "plan", n)
         /\ balance[u] >= TotalPrice(Plan, n)
         /\ Debit(u, "plan", n, TotalPrice(Plan, n),
                  UpsertState(row, "active", RenewedUntil(row.until, now, Period), TRUE, n, Null))

\* POST /payment/add-devices/balance: the count changes and nothing else.
DevicesFromBalance(u, n, answer) ==
  LET row == snap[Account(u)]
      current == OrDefault(row.devices, DefaultDevices)
      cost == ExtraDeviceCost(n, current, DaysOf(row))
  IN  \/ /\ answer = "already_completed"
         /\ Known(u, "devices", n)
         /\ UNCHANGED accounts
      \/ /\ answer = "no_active_subscription"
         /\ ~ Known(u, "devices", n)
         /\ row.state # "active"
         /\ UNCHANGED accounts
      \/ /\ answer = "device_count_not_higher"
         /\ ~ Known(u, "devices", n)
         /\ row.state = "active"
         /\ n <= current
         /\ UNCHANGED accounts
      \/ /\ answer = "insufficient_balance"
         /\ ~ Known(u, "devices", n)
         /\ row.state = "active"
         /\ n > current
         /\ balance[u] < cost
         /\ UNCHANGED accounts
      \/ /\ answer = "completed"
         /\ ~ Known(u, "devices", n)
         /\ row.state = "active"
         /\ n > current
         /\ balance[u] >= cost
         /\ Debit(u, "devices", n, cost, UpsertState(row, row.state, row.until, row.plan, n, Null))

\* What the provider of the session shows after a refresh.
Refreshed(u) == Profile(u, snap', balance')

(***************************************************************************)
(* "Pay from the balance", under the page's key.  What became of it the    *)
(* page learns with the answer, and it stays mounted.                      *)
(***************************************************************************)
PayByBalance(u, n) ==
  /\ page[u].at = "payment"
  /\ ~ page[u].done
  /\ page[u].shown.balance >= PageTotal(Plan, n)
  /\ Move
  /\ \E answer \in Answers :
       /\ PlanFromBalance(u, n, answer)
       /\ Arrives(u, [page[u] EXCEPT !.done = answer # "insufficient_balance",
                                     !.shown = Refreshed(u)])
  /\ UNCHANGED <<now, pay, provider, billing, handwork>>

(***************************************************************************)
(* "Add devices" from the balance.  A refresh takes the card down and puts *)
(* a new one up, whose key is its own; an error without one changes        *)
(* nothing.                                                                *)
(***************************************************************************)
AddByBalance(u, n) ==
  /\ page[u].at = "cabinet"
  /\ page[u].shown.active
  /\ page[u].shown.plan
  /\ n > page[u].shown.devices
  /\ page[u].shown.balance >= PageDeviceCost(Period, Extra(n, page[u].shown.devices))
  /\ Move
  /\ \E answer \in Answers :
       /\ DevicesFromBalance(u, n, answer)
       /\ Arrives(u, IF answer \in {"completed", "already_completed", "insufficient_balance"}
                     THEN Mounted("cabinet", Refreshed(u)) ELSE page[u])
  /\ UNCHANGED <<now, pay, provider, billing, handwork>>
-----------------------------------------------------------------------------
(* The bot's checkout link, and the payer.                                 *)

\* The signed reference: account and date of issue.
Reference(u) ==
  [kind |-> "link", buyer |-> u, count |-> DefaultDevices, amount |-> TotalPrice(Plan, DefaultDevices),
   account |-> ByConvention(u), issued |-> now, status |-> "open", paidAt |-> Null]

\* /buy and /renew: a link to the external checkout.
Buy(u, p) ==
  /\ u \notin WebOnly
  /\ Move
  /\ Created(p, Reference(u))
  /\ UNCHANGED <<now, accounts, page, provider, billing, faults, handwork>>

PayInvoice(p) ==
  /\ pay[p].status = "open"
  /\ pay' = [pay EXCEPT ![p].status = "paid", ![p].paidAt = now]
  /\ UNCHANGED <<now, accounts, page, provider, billing, bounds>>

Tick ==
  /\ now < MaxTime
  /\ now' = now + 1
  /\ UNCHANGED <<accounts, page, pay, provider, billing, bounds>>

\* The scheduler marks what has ended (SubscriptionLifecycle).
Lapse(a) ==
  /\ snap[a].state = "active"
  /\ snap[a].until # Null
  /\ snap[a].until <= now
  /\ snap' = [snap EXCEPT ![a].state = "expired"]
  /\ UNCHANGED <<now, balance, audit, debits, page, pay, provider, billing, bounds>>

Paid(p) == pay[p].status = "paid"
-----------------------------------------------------------------------------
(* What the providers send, and what is made of it.                        *)

GoTo(p, pc) == note' = [note EXCEPT ![p] = pc]

\* A provider repeats a notification until it gets a 200.
Sends(p) == Paid(p) /\ p \notin acked /\ note[p] = "idle"

\* YooKassa: source, JSON, event and status are in order.
Notify(p) ==
  /\ Sends(p)
  /\ pay[p].kind \in {"plan", "topup"}
  /\ GoTo(p, "arrived")
  /\ UNCHANGED <<now, accounts, page, pay, acked, refused, billing, bounds>>

\* get_payment: the provider's own record is what counts from here on.
Verify(p) ==
  /\ note[p] = "arrived"
  /\ GoTo(p, "verified")
  /\ UNCHANGED <<now, accounts, page, pay, acked, refused, billing, bounds>>

\* verify_signed_checkout_reference: the age is that of the link, not of the payment.
ReferenceIsFresh(p) == now <= pay[p].issued + MaxAge

(***************************************************************************)
(* The external checkout's signed event.  Headers, window, signature and   *)
(* payload are in order; an expired reference is answered 400, and every   *)
(* repeat is older still.                                                  *)
(***************************************************************************)
NotifySigned(p) ==
  /\ Sends(p)
  /\ pay[p].kind = "link"
  /\ \/ ReferenceIsFresh(p) /\ GoTo(p, "verified") /\ UNCHANGED refused
     \/ ~ ReferenceIsFresh(p) /\ refused' = refused \cup {p} /\ UNCHANGED note
  /\ UNCHANGED <<now, accounts, page, pay, acked, billing, bounds>>

\* Mutant: the metadata's account is not looked at.
ByTelegramId(p) == ByConvention(pay[p].buyer)

\* The metadata's account; u<telegram id> when it has none.
ByMetadata(p) == IF pay[p].account # NoAccount THEN pay[p].account ELSE ByConvention(pay[p].buyer)

\* The verified reference's account; every link has one.
ByReference(p) == pay[p].account

\* What is made of a notification, and of a signed event, which has no count.
WebhookInput(p) == [account |-> ByMetadata(p), count |-> pay[p].count]

SignedInput(p) == [account |-> ByReference(p), count |-> DefaultDevices]

Input(p) == IF pay[p].kind = "link" THEN SignedInput(p) ELSE WebhookInput(p)

\* INSERT ... ON CONFLICT (billing_provider_key, external_event_id) DO NOTHING
Recorded(p, account) == [ledger EXCEPT ![p] = IF @ = NoAccount THEN account ELSE @]

\* UC-04: the fact and its audit row in one transaction.
IngestFact(p, account) == ledger' = Recorded(p, account)

(***************************************************************************)
(* A plan: the amount must be what the plan and its devices cost, then     *)
(* process_fulfillment records, applies and extends, whether or not the    *)
(* fact was known and applied already.                                     *)
(***************************************************************************)
FulfilPlan(p) ==
  LET to == Input(p).account
  IN  /\ note[p] = "verified"
      /\ pay[p].kind \in {"plan", "link"}
      /\ IF pay[p].kind = "plan" /\ ~ AmountMatches(pay[p].amount * 100, Expected(p))
         THEN /\ refused' = refused \cup {p}
              /\ GoTo(p, "idle")
              /\ UNCHANGED <<snap, billing>>
         ELSE /\ IngestFact(p, to)
              /\ applied' = applied \cup {p}
              /\ snap' = [snap EXCEPT
                            ![to] = UpsertState(@, "active",
                                                RenewedUntil(@.until, pay[p].paidAt, Period),
                                                TRUE, Input(p).count, Null)]
              /\ credited' = [credited EXCEPT ![p] = @ \cup {to}]
              /\ GoTo(p, "reply")
              /\ UNCHANGED refused
      /\ UNCHANGED <<now, balance, audit, debits, page, pay, acked, bounds>>

\* The account and the count of a top-up's metadata.
TopUpMetadata(p) == [account |-> ByConvention(pay[p].buyer), count |-> pay[p].count]

(***************************************************************************)
(* A device top-up.  Its amount is the one its metadata expects, since     *)
(* TopUpOrder wrote both.  The row is read, the count raised if it was     *)
(* lower, whatever it is by then, and the fact is recorded, if that        *)
(* succeeds, under a type that UC-05 does not know.                        *)
(***************************************************************************)
ReadTopUp(p) ==
  LET to == TopUpMetadata(p).account
  IN  /\ note[p] = "verified"
      /\ pay[p].kind = "topup"
      /\ IF snap[to].state = "none" \/ TopUpMetadata(p).count > snap[to].devices
         THEN GoTo(p, "raise") /\ UNCHANGED credited
         ELSE GoTo(p, "record") /\ credited' = [credited EXCEPT ![p] = @ \cup {to}]
      /\ UNCHANGED <<now, accounts, page, pay, acked, refused, ledger, applied, bounds>>

RaiseDevices(p) ==
  LET to == TopUpMetadata(p).account
  IN  /\ note[p] = "raise"
      /\ IF snap[to].state = "none"
         THEN UNCHANGED <<snap, credited>>
         ELSE /\ snap' = [snap EXCEPT ![to].devices = TopUpMetadata(p).count]
              /\ credited' = [credited EXCEPT ![p] = @ \cup {to}]
      /\ GoTo(p, "record")
      /\ UNCHANGED <<now, balance, audit, debits, page, pay, acked, refused, ledger, applied, bounds>>

RecordTopUp(p) ==
  /\ note[p] = "record"
  /\ IngestFact(p, TopUpMetadata(p).account) \/ UNCHANGED ledger
  /\ GoTo(p, "reply")
  /\ UNCHANGED <<now, accounts, page, pay, acked, refused, applied, credited, bounds>>

FulfilTopUp(p) == ReadTopUp(p) \/ RaiseDevices(p) \/ RecordTopUp(p)

Reply(p) ==
  /\ note[p] = "reply"
  /\ acked' = acked \cup {p}
  /\ GoTo(p, "idle")
  /\ UNCHANGED <<now, accounts, page, pay, refused, billing, bounds>>

\* The lookup or the database fails (401, 503), the process ends, the answer is lost.
Drop(p) ==
  /\ note[p] # "idle"
  /\ Fault
  /\ GoTo(p, "idle")
  /\ UNCHANGED <<now, accounts, page, pay, acked, refused, billing, moves, handwork>>
-----------------------------------------------------------------------------
(* The operator.                                                           *)

Handwork == handwork < MaxHandwork /\ handwork' = handwork + 1

\* The fact the operator writes down: the payment as the provider shows it.
FactAccount(p) == pay[p].account

\* billing_ingestion_main
Ingest(p) ==
  /\ Paid(p)
  /\ pay[p].kind \in {"plan", "link"}
  /\ Handwork
  /\ IngestFact(p, FactAccount(p))
  /\ UNCHANGED <<now, accounts, page, pay, provider, applied, credited, moves, faults>>

\* UC-05 for a fact it sees for the first time.
FirstDecision(p) == IF pay[p].kind = "topup" THEN "needs_review" ELSE "active"

\* The row it writes has no end, no plan and the default count.
AppliedRow(p, row) == UpsertState(row, FirstDecision(p), Null, FALSE, Null, Null)

\* billing_subscription_apply_main: a fact without an apply record is applied.
ApplyFact(p) ==
  /\ ledger[p] # NoAccount
  /\ p \notin applied
  /\ Handwork
  /\ applied' = applied \cup {p}
  /\ snap' = [snap EXCEPT ![ledger[p]] = AppliedRow(p, @)]
  /\ UNCHANGED <<now, balance, audit, debits, page, pay, provider, ledger, credited, moves, faults>>
-----------------------------------------------------------------------------
ProviderStep(p) ==
  Notify(p) \/ Verify(p) \/ NotifySigned(p) \/ FulfilPlan(p) \/ FulfilTopUp(p) \/ Reply(p)

Next ==
  \/ \E u \in Users, where \in {"payment", "cabinet"} : OpenPage(u, where)
  \/ \E u \in Users, n \in Counts, p \in Payments : PayByCard(u, n, p) \/ AddByCard(u, n, p)
  \/ \E u \in Users, n \in Counts : PayByBalance(u, n) \/ AddByBalance(u, n)
  \/ \E u \in Users, p \in Payments : Buy(u, p)
  \/ \E p \in Payments : PayInvoice(p) \/ ProviderStep(p) \/ Drop(p) \/ Ingest(p) \/ ApplyFact(p)
  \/ \E a \in Accounts : Lapse(a)
  \/ Tick

Spec == Init /\ [][Next]_vars

(***************************************************************************)
(* The provider repeats, and the handlers run.  Users, operators, faults   *)
(* and the clock need do nothing.                                          *)
(***************************************************************************)
FairSpec ==
  /\ Spec
  /\ \A p \in Payments :
       /\ WF_vars(Notify(p)) /\ WF_vars(NotifySigned(p)) /\ WF_vars(Verify(p))
       /\ WF_vars(FulfilPlan(p)) /\ WF_vars(FulfilTopUp(p)) /\ WF_vars(Reply(p))
-----------------------------------------------------------------------------
(***************************************************************************)
(* What is paid goes to the account that ordered it and to no other,       *)
(* through whichever ingress, for accounts of the bot and of the site      *)
(* alike ("so the webhook credits the correct account", payment.py).       *)
(***************************************************************************)
CreditedToBuyer ==
  \A p \in Payments : credited[p] \subseteq {Account(pay[p].buyer)}

(***************************************************************************)
(* Nobody is charged and left without: a paid payment is credited in the   *)
(* end, whatever device count it was made for, whatever is lost on the way *)
(* and whatever the operator did in between, unless it was made through a  *)
(* checkout link that had expired by the time the notification came.       *)
(***************************************************************************)
PaidIsCredited ==
  \A p \in Payments : Paid(p) ~> (credited[p] # {} \/ (pay[p].kind = "link" /\ p \in refused))

(***************************************************************************)
(* A button pressed again after an answer that never came does not charge  *)
(* again: one visit of a page debits one choice of devices at most once.   *)
(***************************************************************************)
OneDebitPerChoice ==
  \A d, e \in debits : Tail(d) = Tail(e) => d = e
==============================================================================
