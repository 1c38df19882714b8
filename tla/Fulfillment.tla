----------------------------- MODULE Fulfillment -----------------------------
(***************************************************************************)
(* The card path: a payment provider notifies the backend of a paid        *)
(* invoice, at least once, and process_fulfillment turns the notification  *)
(* into subscription time, referral commissions and VPN keys.              *)
(*                                                                         *)
(* A notification is handled by one of several concurrent handlers (the    *)
(* webhook coroutines of all processes).  Inside the database transaction  *)
(* the subscription row is read first, without a lock; then the ledger     *)
(* insert waits for any other transaction holding the same event, and the  *)
(* rest commits as one.  Postgres runs READ COMMITTED, so what a handler   *)
(* read at the beginning may be old when it commits: the read and the      *)
(* commit are two actions.  Everything after the commit is best effort and *)
(* happens outside the transaction.                                        *)
(***************************************************************************)
EXTENDS SubscriptionSnapshots, VlessPanels, FiniteSets

CONSTANTS
  Users, Payments, Handlers,
  NoPayment,          \* what an idle handler works on
  Payer,              \* [Payments -> Users]
  Period,             \* [Payments -> days bought]
  Devices,            \* [Payments -> device_count of the payment's metadata]
  Referred,           \* the users somebody referred: their payments earn commissions
  InitialAccounts,    \* [row, clients] pairs a user may have before the first payment
  MaxTries,           \* max_retries of _ensure_vless_keys_after_payment
  MaxTime,            \* bound: the last instant of the clock
  MaxDeliveries       \* bound: notifications the provider sends for one payment

Account == [row : Row, clients : Clients]

ASSUME FulfillmentAssumption ==
  /\ NoPayment \notin Payments
  /\ Payer \in [Payments -> Users]
  /\ Period \in [Payments -> Nat \ {0}]
  /\ Devices \in [Payments -> Nat \ {0}]
  /\ Referred \subseteq Users
  /\ InitialAccounts \subseteq Account
  /\ MaxTries \in Nat \ {0}
  /\ MaxTime \in Nat
  /\ MaxDeliveries \in Nat

VARIABLES
  now,          \* the clock
  paidAt,       \* [Payments -> instant of payment, Null before]
  snap,         \* subscription_snapshots
  ledger,       \* billing_events_ledger: the events with a row
  applied,      \* billing_subscription_apply_records
  clients,      \* the VPN clients of every user
  handler,      \* what every handler is doing
  deliveries,   \* notifications sent per payment
  acked,        \* payments the provider got a 200 for
  commissions,  \* history: commission transactions committed per payment
  from          \* history: the instant a payment's period counted from when first applied

storeVars == <<snap, ledger, applied, clients, from>>
envVars   == <<now, paidAt, deliveries, acked>>
vars      == <<now, paidAt, snap, ledger, applied, clients, handler, deliveries,
               acked, commissions, from>>

Steps == {"idle", "read", "reward", "keys", "keysCall", "keysClear", "reply"}

HandlerState == [pc    : Steps,
                 pay   : Payments \cup {NoPayment},
                 seen  : Nat,            \* existing.active_until_utc at the read
                 op    : {"none", "create", "activate"},
                 tries : 0 .. MaxTries - 1]

Idle == [pc |-> "idle", pay |-> NoPayment, seen |-> Null, op |-> "none", tries |-> 0]

Pay(h)  == handler[h].pay
User(h) == Payer[Pay(h)]

TypeOK ==
  /\ now \in Nat
  /\ paidAt \in [Payments -> Nat]
  /\ snap \in [Users -> Row]
  /\ ledger \subseteq Payments
  /\ applied \subseteq Payments
  /\ clients \in [Users -> Clients]
  /\ handler \in [Handlers -> HandlerState]
  /\ deliveries \in [Payments -> Nat]
  /\ acked \subseteq Payments
  /\ commissions \in [Payments -> Nat]
  /\ from \in [Payments -> Nat]

Init ==
  /\ now = 1
  /\ paidAt = [p \in Payments |-> Null]
  /\ \E account \in [Users -> InitialAccounts] :
        /\ snap = [u \in Users |-> account[u].row]
        /\ clients = [u \in Users |-> account[u].clients]
  /\ ledger = {}
  /\ applied = {}
  /\ handler = [h \in Handlers |-> Idle]
  /\ deliveries = [p \in Payments |-> 0]
  /\ acked = {}
  /\ commissions = [p \in Payments |-> 0]
  /\ from = [p \in Payments |-> Null]
-----------------------------------------------------------------------------
(* The environment: time, the payer and the payment provider.              *)

Tick ==
  /\ now < MaxTime
  /\ now' = now + 1
  /\ UNCHANGED <<paidAt, deliveries, acked, handler, storeVars, commissions>>

PayInvoice(p) ==
  /\ paidAt[p] = Null
  /\ paidAt' = [paidAt EXCEPT ![p] = now]
  /\ UNCHANGED <<now, deliveries, acked, handler, storeVars, commissions>>

(***************************************************************************)
(* A notification arrives and is verified (signature or provider lookup);  *)
(* the identity row exists afterwards.  The transaction opens and reads    *)
(* the subscription row.  The provider repeats a notification it got no    *)
(* 200 for, also while an earlier one is still being handled.              *)
(***************************************************************************)
Deliver(h, p) ==
  /\ handler[h].pc = "idle"
  /\ paidAt[p] # Null
  /\ p \notin acked
  /\ deliveries[p] < MaxDeliveries
  /\ deliveries' = [deliveries EXCEPT ![p] = @ + 1]
  /\ handler' = [handler EXCEPT ![h] =
                   [Idle EXCEPT !.pc = "read", !.pay = p, !.seen = snap[Payer[p]].until]]
  /\ UNCHANGED <<now, paidAt, acked, storeVars, commissions>>
-----------------------------------------------------------------------------
(* The transaction.                                                        *)

(***************************************************************************)
(* UC-04 ingest, UC-05 apply and the snapshot upsert, up to the commit.    *)
(* UC-05's own upsert (active, no end, no plan) is overwritten before the  *)
(* commit and so never visible.  An event that has an apply record is an   *)
(* IDEMPOTENT_NOOP for UC-05; the snapshot is written all the same.        *)
(***************************************************************************)
Activate(h) ==
  snap' = [snap EXCEPT ![User(h)] =
             UpsertState(@, "active",
                         RenewedUntil(handler[h].seen, paidAt[Pay(h)], Period[Pay(h)]),
                         TRUE, Devices[Pay(h)], Null)]

\* Mutant: the gate of the side effects forgets idempotent_replay.
AlwaysNewActive(h) == handler[h].pc = "read"

IsNewActive(h) == Pay(h) \notin applied

\* History: what a payment's first application extended.
NoteStart(h) ==
  from' = IF Pay(h) \in applied THEN from
          ELSE [from EXCEPT ![Pay(h)] = RenewedUntil(handler[h].seen, paidAt[Pay(h)], 0)]

Commit(h) ==
  /\ handler[h].pc = "read"
  /\ ledger' = ledger \cup {Pay(h)}
  /\ applied' = applied \cup {Pay(h)}
  /\ Activate(h)
  /\ NoteStart(h)
  /\ handler' = [handler EXCEPT ![h].pc = IF IsNewActive(h) THEN "reward" ELSE "reply",
                                ![h].seen = Null]
  /\ UNCHANGED <<clients, commissions, envVars>>
-----------------------------------------------------------------------------
(* After the commit.                                                       *)

(***************************************************************************)
(* _process_referral_commissions_best_effort: one transaction, whose       *)
(* failure is swallowed.  Its de-duplication key holds the correlation id  *)
(* of this call, so nothing here stops a second credit for the payment.    *)
(***************************************************************************)
CreditCommissions(h) ==
  /\ handler[h].pc = "reward"
  /\ \/ /\ User(h) \in Referred
        /\ commissions' = [commissions EXCEPT ![Pay(h)] = @ + 1]
     \/ UNCHANGED commissions
  /\ handler' = [handler EXCEPT ![h].pc = "keys"]
  /\ UNCHANGED <<storeVars, envVars>>

\* The SELECT of one attempt decides between re-creating and re-enabling.
KeysLook(h) ==
  LET row == snap[User(h)]
  IN  /\ handler[h].pc = "keys"
      /\ handler' = [handler EXCEPT
                       ![h].pc = "keysCall",
                       ![h].op = IF row.keysGone = Null /\ row.keysOff # Null
                                 THEN "activate" ELSE "create"]
      /\ UNCHANGED <<storeVars, commissions, envVars>>

KeysResults(h) ==
  LET cl == clients[User(h)]
      expiry == now + Period[Pay(h)]
  IN  IF handler[h].op = "activate" THEN ActivateUser(cl, expiry) ELSE CreateUser(cl, expiry)

\* The provider call returns; its outcome is not looked at.
KeysCall(h) ==
  /\ handler[h].pc = "keysCall"
  /\ \E res \in KeysResults(h) : clients' = [clients EXCEPT ![User(h)] = res.clients]
  /\ handler' = [handler EXCEPT ![h].pc = "keysClear"]
  /\ UNCHANGED <<snap, ledger, applied, from, commissions, envVars>>

KeysClear(h) ==
  /\ handler[h].pc = "keysClear"
  /\ snap' = [snap EXCEPT ![User(h)] = ClearKeyInstants(@)]
  /\ handler' = [handler EXCEPT ![h].pc = "reply"]
  /\ UNCHANGED <<ledger, applied, clients, from, commissions, envVars>>

LastTry(h) == handler[h].tries + 1 = MaxTries

CountTry(h) == handler[h].tries + 1

(***************************************************************************)
(* An attempt raises, in any of its three statements; the provider call    *)
(* may have reached panels by then.  After MaxTries attempts the payer is  *)
(* sent a notice and the handler goes on.                                  *)
(***************************************************************************)
KeysRaise(h) ==
  /\ handler[h].pc \in {"keys", "keysCall", "keysClear"}
  /\ \/ UNCHANGED clients
     \/ /\ handler[h].pc = "keysCall"
        /\ \E res \in KeysResults(h) : clients' = [clients EXCEPT ![User(h)] = res.clients]
  /\ \/ /\ ~LastTry(h)
        /\ handler' = [handler EXCEPT ![h].pc = "keys", ![h].tries = CountTry(h)]
     \/ /\ LastTry(h)
        /\ handler' = [handler EXCEPT ![h].pc = "reply"]
  /\ UNCHANGED <<snap, ledger, applied, from, commissions, envVars>>

\* The 200 reaches the provider.
Reply(h) ==
  /\ handler[h].pc = "reply"
  /\ acked' = acked \cup {Pay(h)}
  /\ handler' = [handler EXCEPT ![h] = Idle]
  /\ UNCHANGED <<now, paidAt, deliveries, storeVars, commissions>>

\* Mutant: a failure is answered with 200 like a success.
AbandonWithOk(h) ==
  /\ handler[h].pc # "idle"
  /\ handler' = [handler EXCEPT ![h] = Idle]
  /\ acked' = acked \cup {Pay(h)}
  /\ UNCHANGED <<now, paidAt, deliveries, storeVars, commissions>>

(***************************************************************************)
(* The handler ends without the provider getting its 200: a crash of the   *)
(* process anywhere, a failed statement that rolls the transaction back,   *)
(* telemetry that raises after the commit (503), or a lost response.       *)
(***************************************************************************)
Abandon(h) ==
  /\ handler[h].pc # "idle"
  /\ handler' = [handler EXCEPT ![h] = Idle]
  /\ UNCHANGED <<storeVars, commissions, envVars>>

\* _ensure_vless_keys_after_payment: up to three attempts.
KeysStep(h) ==
  \/ KeysLook(h)
  \/ KeysCall(h)
  \/ KeysClear(h)
  \/ KeysRaise(h)

HandlerStep(h) ==
  \/ Commit(h)
  \/ CreditCommissions(h)
  \/ KeysStep(h)
  \/ Reply(h)

Next ==
  \/ Tick
  \/ \E p \in Payments : PayInvoice(p)
  \/ \E h \in Handlers, p \in Payments : Deliver(h, p)
  \/ \E h \in Handlers : HandlerStep(h) \/ Abandon(h)

Spec == Init /\ [][Next]_vars

(***************************************************************************)
(* The event loop runs every handler on; the provider repeats what was not *)
(* acknowledged until its schedule is exhausted.                           *)
(***************************************************************************)
Fairness ==
  /\ \A h \in Handlers : WF_vars(HandlerStep(h))
  /\ \A p \in Payments : SF_vars(\E h \in Handlers : Deliver(h, p))

FairSpec == Spec /\ Fairness
-----------------------------------------------------------------------------
(* Properties.                                                             *)

(***************************************************************************)
(* However often a payment is notified, and wherever handlers crash, its   *)
(* commissions are credited at most once, and only once it is applied.     *)
(* This rests on the is_new_active gate alone (fulfillment_processor:      *)
(* the description of the commission is fresh for every call).             *)
(***************************************************************************)
CommissionAtMostOnce ==
  \A p \in Payments :
    /\ commissions[p] <= 1
    /\ commissions[p] = 1 => p \in applied

(***************************************************************************)
(* When the provider stops repeating a payment because it got a 200, the   *)
(* payment is durably recorded: ledger row and apply record.  A 200 sent   *)
(* for work that was rolled back would lose the payment for good.          *)
(***************************************************************************)
AckedIsDurable == acked \subseteq (ledger \cap applied)

Promise == INSTANCE ApplyOnce
  WITH credits <- commissions, sent <- deliveries, until <- [u \in Users |-> snap[u].until]

(***************************************************************************)
(* The documents promise that a payment extends the subscription when it   *)
(* is applied, once, and that a repeated notification has no new effect    *)
(* (Promise!Spec).  The code does not keep that: IDEMPOTENT_NOOP takes the *)
(* branch of SUCCESS and extends again.  But for these replays the card    *)
(* path implements the promise: commits, credits and replies are the       *)
(* abstract steps, and whatever repeated notifications, stale reads and    *)
(* crashes do to the end of the subscription, every notification adds at   *)
(* most one period to it and none takes back the first.                    *)
(***************************************************************************)
PromiseButForReplays == Promise!SpecWithReplays

(***************************************************************************)
(* A payer never ends up with less than one paid period after the payment  *)
(* that was applied: the end stored in the snapshot covers it.             *)
(***************************************************************************)
AppliedIsEntitled ==
  \A p \in applied :
    /\ snap[Payer[p]].state = "active"
    /\ snap[Payer[p]].until >= paidAt[p] + Period[p]

(***************************************************************************)
(* A payment that was made is eventually applied, unless every one of the  *)
(* provider's notifications came to nothing: no handler is at it any more. *)
(***************************************************************************)
PaidIsEventuallyApplied ==
  \A p \in Payments :
    paidAt[p] # Null ~>
      \/ p \in applied
      \/ deliveries[p] = MaxDeliveries /\ \A h \in Handlers : Pay(h) # p

==============================================================================
