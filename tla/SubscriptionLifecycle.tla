------------------------ MODULE SubscriptionLifecycle ------------------------
(***************************************************************************)
(* What happens to a subscription between payments.  Eight actors share the*)
(* subscription row and the user's VPN clients, without a common lock:     *)
(*   - a payment (commit, then the keys; Fulfillment has its details),     *)
(*   - the activation of the free trial, from the web or from the bot,     *)
(*   - a cancellation on the web,                                          *)
(*   - a request for keys: the cabinet asking for the keys of one who has  *)
(*     none, a re-issue, or the merge of a web account,                    *)
(*   - the hourly NotificationScheduler: revoke what ended, and delete the *)
(*     keys of those who did not renew within the grace period,            *)
(*   - reprovision_active.py, every 30 minutes: force the panels to the    *)
(*     state of every active row,                                          *)
(*   - ServerSyncScheduler, every hour: add clients missing on a server,   *)
(*   - reconcile_bare_xray, every 3 minutes and after every server sync:   *)
(*     make the relay's client list equal to the desired one.              *)
(* Each job selects rows first and works through them afterwards, on what  *)
(* it read.  Calls of the provider for one user are serialised by its      *)
(* lock; each is one step here.                                            *)
(***************************************************************************)
EXTENDS SubscriptionSnapshots, VlessPanels

CONSTANTS
  Users, TrialCalls,
  NoUser,           \* whom an idle actor works for
  InitialAccounts,  \* the [row, clients] a user may have at the beginning
  PaidPeriod,       \* days a payment buys
  TrialPeriod,      \* TRIAL_DURATION_DAYS
  Grace,            \* the 20 days of _check_keys_grace_period_expired
  KeyYear,          \* _DEFAULT_EXPIRY_DAYS, the 365 days of a key made without expiry_days
  Faults,           \* what may go wrong: "provider" (raises), "crash" (the process ends)
  Deployments,      \* bound: which of the actors below take part together
  MaxPayments,      \* bound: payments per user
  MaxTime           \* bound: the last instant of the clock

ASSUME LifecycleAssumption ==
  /\ NoUser \notin Users
  /\ InitialAccounts \subseteq [row : Row, clients : Clients]
  /\ {PaidPeriod, TrialPeriod, Grace, KeyYear, MaxPayments, MaxTime} \subseteq Nat
  /\ Faults \subseteq {"provider", "crash"}
  /\ Deployments \subseteq SUBSET {"trial", "cancel", "scheduler", "reprovision", "sync", "relay",
                                 "keys"}
  /\ \A d \in Deployments : "sync" \in d => "relay" \in d   \* a server sync ends with a relay pass

VARIABLES
  deployed,     \* the actors that take part
  faults,       \* what may still go wrong
  now,          \* the clock
  snap,         \* subscription_snapshots
  clients,      \* the VPN clients of every user
  trialUsed,    \* user_identities.trial_used
  payment,      \* what the payment of every user is doing
  payments,     \* payments made per user
  trial,        \* what every trial request is doing
  cancelling,   \* users whose row is cancelled and whose keys are to be revoked
  keyRequest,   \* the next provider call of a request for keys
  sched,        \* the notification scheduler
  reprovision,  \* reprovision_active.py: <<user, active_until_utc>> still to do
  sync,         \* ServerSyncScheduler: [user, active, until] still to do
  relayJob,     \* reconcile_bare_xray
  trialsGiven   \* history: trials written per user

jobs     == <<deployed, faults, sched, reprovision, sync, relayJob>>
requests == <<payment, payments, trial, trialUsed, trialsGiven, cancelling, keyRequest>>
vars     == <<now, snap, clients, requests, jobs>>

NoPayment == [pc |-> "idle", op |-> "none", days |-> 0]
NoTrial   == [pc |-> "idle", user |-> NoUser, via |-> "none"]
NoCheck   == [check |-> "idle", due |-> {}, user |-> NoUser]
NoRelay   == [pc |-> "idle", desired |-> {}, todo |-> {}]

PaymentState == [pc : {"idle", "look", "call", "clear"}, op : {"none", "create", "activate"},
                 days : Nat]
TrialState == [pc : {"idle", "create", "write"}, user : Users \cup {NoUser},
               via : {"none", "web", "bot"}]
CheckState == [check : {"idle", "trial", "paid", "grace"}, due : SUBSET Users,
               user : Users \cup {NoUser}]
RelayState == [pc : {"idle", "list", "fix"}, desired : SUBSET Users, todo : SUBSET Users]
KeySteps   == {"idle", "create", "revoke", "recreate"}
SyncItem   == [user : Users, active : BOOLEAN, until : Nat]

TypeOK ==
  /\ deployed \in Deployments
  /\ faults \subseteq Faults
  /\ now \in Nat
  /\ snap \in [Users -> Row]
  /\ clients \in [Users -> Clients]
  /\ trialUsed \subseteq Users
  /\ payment \in [Users -> PaymentState]
  /\ payments \in [Users -> Nat]
  /\ trial \in [TrialCalls -> TrialState]
  /\ cancelling \subseteq Users
  /\ keyRequest \in [Users -> KeySteps]
  /\ sched \in CheckState
  /\ reprovision \subseteq Users \X Nat
  /\ sync \subseteq SyncItem
  /\ relayJob \in RelayState
  /\ trialsGiven \in [Users -> Nat]

Init ==
  /\ deployed \in Deployments
  /\ faults = Faults
  /\ now = 2
  /\ \E account \in [Users -> InitialAccounts] :
        /\ snap = [u \in Users |-> account[u].row]
        /\ clients = [u \in Users |-> account[u].clients]
        /\ trialUsed = {u \in Users : account[u].row.trialEnd # Null}
        /\ trialsGiven = [u \in Users |-> IF account[u].row.trialEnd = Null THEN 0 ELSE 1]
  /\ payment = [u \in Users |-> NoPayment]
  /\ payments = [u \in Users |-> 0]
  /\ trial = [c \in TrialCalls |-> NoTrial]
  /\ cancelling = {}
  /\ keyRequest = [u \in Users |-> "idle"]
  /\ sched = NoCheck
  /\ reprovision = {}
  /\ sync = {}
  /\ relayJob = NoRelay

Tick ==
  /\ now < MaxTime
  /\ now' = now + 1
  /\ UNCHANGED <<snap, clients, requests, jobs>>

\* From here on nothing goes wrong any more.
Calm ==
  /\ faults' = {}
  /\ UNCHANGED <<now, snap, clients, requests, deployed, sched, reprovision, sync, relayJob>>

\* A provider call for u ends with one of the given results.
Call(u, results) == \E res \in results : clients' = [clients EXCEPT ![u] = res.clients]
-----------------------------------------------------------------------------
(* A payment.  The card path makes keys for the paid period, the balance   *)
(* path for the default year.                                              *)

PayCommit(u) ==
  /\ payment[u].pc = "idle"
  /\ payments[u] < MaxPayments
  /\ payments' = [payments EXCEPT ![u] = @ + 1]
  /\ snap' = [snap EXCEPT ![u] = UpsertState(@, "active", RenewedUntil(@.until, now, PaidPeriod),
                                             TRUE, DefaultDevices, Null)]
  /\ \E days \in {PaidPeriod, KeyYear} :
        payment' = [payment EXCEPT ![u] = [NoPayment EXCEPT !.pc = "look", !.days = days]]
  /\ UNCHANGED <<now, clients, trial, trialUsed, trialsGiven, cancelling, keyRequest, jobs>>

PayLook(u) ==
  /\ payment[u].pc = "look"
  /\ payment' = [payment EXCEPT
                   ![u].pc = "call",
                   ![u].op = IF snap[u].keysGone = Null /\ snap[u].keysOff # Null
                             THEN "activate" ELSE "create"]
  /\ UNCHANGED <<now, snap, clients, payments, trial, trialUsed, trialsGiven, cancelling, keyRequest, jobs>>

PayCall(u) ==
  /\ payment[u].pc = "call"
  /\ Call(u, IF payment[u].op = "activate" THEN ActivateUser(clients[u], now + payment[u].days)
             ELSE CreateUser(clients[u], now + payment[u].days))
  /\ payment' = [payment EXCEPT ![u].pc = "clear"]
  /\ UNCHANGED <<now, snap, payments, trial, trialUsed, trialsGiven, cancelling, keyRequest, jobs>>

PayClear(u) ==
  /\ payment[u].pc = "clear"
  /\ snap' = [snap EXCEPT ![u] = ClearKeyInstants(@)]
  /\ payment' = [payment EXCEPT ![u] = NoPayment]
  /\ UNCHANGED <<now, clients, payments, trial, trialUsed, trialsGiven, cancelling, keyRequest, jobs>>

\* Every attempt at the keys raised, or the process ended: the row stays paid.
PayWithoutKeys(u) ==
  /\ faults # {}
  /\ payment[u].pc # "idle"
  /\ payment' = [payment EXCEPT ![u] = NoPayment]
  /\ UNCHANGED <<now, snap, clients, payments, trial, trialUsed, trialsGiven, cancelling, keyRequest, jobs>>
-----------------------------------------------------------------------------
(* The free trial.                                                         *)

\* Mutant: a read of trial_used before an unconditional UPDATE.
ClaimUnchecked(u, via) == TRUE

\* The bot's UPDATE tests trial_used only; the web's looks at the subscription too.
Claimable(u, via) ==
  /\ u \notin trialUsed
  /\ via = "web" => snap[u].state # "active" /\ snap[u].trialEnd = Null

ClaimTrial(c, u, via) ==
  /\ "trial" \in deployed
  /\ trial[c].pc = "idle"
  /\ Claimable(u, via)
  /\ trialUsed' = trialUsed \cup {u}
  /\ trial' = [trial EXCEPT ![c] = [pc |-> "create", user |-> u, via |-> via]]
  /\ UNCHANGED <<now, snap, clients, payment, payments, trialsGiven, cancelling, keyRequest, jobs>>

\* The keys come first; without them the claim is given back.
CreateTrialKeys(c) ==
  LET u == trial[c].user
  IN  /\ trial[c].pc = "create"
      /\ \E res \in CreateUser(clients[u], now + KeyYear) :
           /\ clients' = [clients EXCEPT ![u] = res.clients]
           /\ \/ /\ res.outcome = "success"
                 /\ trial' = [trial EXCEPT ![c].pc = "write"]
                 /\ UNCHANGED trialUsed
              \/ /\ res.outcome # "success"
                 /\ trial' = [trial EXCEPT ![c] = NoTrial]
                 /\ trialUsed' = trialUsed \ {u}
      /\ UNCHANGED <<now, snap, payment, payments, trialsGiven, cancelling, keyRequest, jobs>>

(***************************************************************************)
(* The web writes state and dates and leaves plan_id and device_count; the *)
(* bot's upsert_state writes those too, with no plan and the default.      *)
(***************************************************************************)
TrialRow(row, via) ==
  LET end == now + TrialPeriod
  IN  IF via = "bot" THEN UpsertState(row, "active", end, FALSE, Null, end)
      ELSE [row EXCEPT !.state = "active", !.until = end, !.trialEnd = end,
                       !.devices = OrDefault(@, DefaultDevices)]

WriteTrial(c) ==
  LET u == trial[c].user
  IN  /\ trial[c].pc = "write"
      /\ snap' = [snap EXCEPT ![u] = TrialRow(@, trial[c].via)]
      /\ trialsGiven' = [trialsGiven EXCEPT ![u] = @ + 1]
      /\ trial' = [trial EXCEPT ![c] = NoTrial]
      /\ UNCHANGED <<now, clients, payment, payments, trialUsed, cancelling, keyRequest, jobs>>

\* The provider raises, or the process ends: the claim is not given back.
AbandonTrial(c) ==
  /\ faults # {}
  /\ trial[c].pc # "idle"
  /\ trial' = [trial EXCEPT ![c] = NoTrial]
  /\ UNCHANGED <<now, snap, clients, payment, payments, trialUsed, trialsGiven, cancelling, keyRequest, jobs>>
-----------------------------------------------------------------------------
(* Cancellation on the web: the row first, then the keys.  What the        *)
(* provider reports is not looked at.                                      *)

Cancelled(row) == IF row = NoRow THEN row ELSE [row EXCEPT !.state = "cancelled"]

Cancel(u) ==
  /\ "cancel" \in deployed
  /\ u \notin cancelling
  /\ snap' = [snap EXCEPT ![u] = Cancelled(@)]
  /\ cancelling' = cancelling \cup {u}
  /\ UNCHANGED <<now, clients, payment, payments, trial, trialUsed, trialsGiven, keyRequest, jobs>>

RevokeCancelled(u) ==
  /\ u \in cancelling
  /\ Call(u, RevokeUser(clients[u], now + KeyYear))
  /\ cancelling' = cancelling \ {u}
  /\ UNCHANGED <<now, snap, payment, payments, trial, trialUsed, trialsGiven, keyRequest, jobs>>

\* The provider raises, or the process ends: nobody comes back to it.
CancelWithoutRevoke(u) ==
  /\ faults # {}
  /\ u \in cancelling
  /\ cancelling' = cancelling \ {u}
  /\ UNCHANGED <<now, snap, clients, payment, payments, trial, trialUsed, trialsGiven, keyRequest, jobs>>
-----------------------------------------------------------------------------
(* Requests for keys outside a payment.  None of them asks how long the    *)
(* subscription runs, nor, on the web, whether there is one: the keys are  *)
(* good for the default year until the next reprovisioning.                *)

\* The probe behind GET /keys finds no client; a panel that does not answer has none.
NoConfig(u) == "provider" \in faults \/ \A s \in Servers : clients[u].xui[s] = Absent

AskKeys(u) ==
  /\ "keys" \in deployed
  /\ keyRequest[u] = "idle" /\ NoConfig(u)
  /\ keyRequest' = [keyRequest EXCEPT ![u] = "create"]
  /\ UNCHANGED <<now, snap, clients, payment, payments, trial, trialUsed, trialsGiven, cancelling, jobs>>

\* A web account was merged into u, and its clients revoked.
KeysAfterMerge(u) ==
  /\ "keys" \in deployed
  /\ keyRequest[u] = "idle" /\ snap[u].state = "active"
  /\ keyRequest' = [keyRequest EXCEPT ![u] = "create"]
  /\ UNCHANGED <<now, snap, clients, payment, payments, trial, trialUsed, trialsGiven, cancelling, jobs>>

AskReissue(u) ==
  /\ "keys" \in deployed
  /\ keyRequest[u] = "idle"
  /\ keyRequest' = [keyRequest EXCEPT ![u] = "revoke"]
  /\ UNCHANGED <<now, snap, clients, payment, payments, trial, trialUsed, trialsGiven, cancelling, jobs>>

RevokeForReissue(u) ==
  /\ keyRequest[u] = "revoke"
  /\ Call(u, RevokeUser(clients[u], now + KeyYear))
  /\ keyRequest' = [keyRequest EXCEPT ![u] = "recreate"]
  /\ UNCHANGED <<now, snap, payment, payments, trial, trialUsed, trialsGiven, cancelling, jobs>>

\* Only the web tries once more when a re-issue made no keys.
AfterKeys(step, outcome) ==
  IF step = "recreate" /\ outcome # "success" THEN {"idle", "create"} ELSE {"idle"}

MakeKeys(u) ==
  /\ keyRequest[u] \in {"create", "recreate"}
  /\ \E res \in CreateUser(clients[u], now + KeyYear) :
       /\ clients' = [clients EXCEPT ![u] = res.clients]
       /\ \E step \in AfterKeys(keyRequest[u], res.outcome) :
             keyRequest' = [keyRequest EXCEPT ![u] = step]
  /\ UNCHANGED <<now, snap, payment, payments, trial, trialUsed, trialsGiven, cancelling, jobs>>

\* The provider raises, or the process ends, perhaps between revoking and creating.
AbandonKeys(u) ==
  /\ faults # {}
  /\ keyRequest[u] # "idle"
  /\ keyRequest' = [keyRequest EXCEPT ![u] = "idle"]
  /\ UNCHANGED <<now, snap, clients, payment, payments, trial, trialUsed, trialsGiven, cancelling, jobs>>
-----------------------------------------------------------------------------
(* The notification scheduler; a session lock keeps it to one instance.    *)

Unrevoked(row) == row.keysOff = Null

\* The SELECTs of the three checks.
Due(check) ==
  {u \in Users :
     LET row == snap[u]
     IN  CASE check = "trial" -> /\ row.state = "active" /\ ~row.plan /\ Unrevoked(row)
                                 /\ row.trialEnd # Null /\ row.trialEnd <= now
           [] check = "paid"  -> /\ row.state = "active" /\ row.plan /\ Unrevoked(row)
                                 /\ row.until # Null /\ row.until <= now
           [] check = "grace" -> /\ row.keysOff # Null /\ row.keysGone = Null
                                 /\ row.keysOff + Grace < now
           [] OTHER -> FALSE}

\* Mutant: a pass that forgets the third check.
FollowingWithoutGrace(check) ==
  CASE check = "idle" -> "trial" [] check = "trial" -> "paid" [] OTHER -> "idle"

Following(check) ==
  CASE check = "idle"  -> "trial"
    [] check = "trial" -> "paid"
    [] check = "paid"  -> "grace"
    [] check = "grace" -> "idle"

NextCheck ==
  /\ "scheduler" \in deployed
  /\ sched.due = {} /\ sched.user = NoUser
  /\ sched' = [check |-> Following(sched.check), due |-> Due(Following(sched.check)),
               user |-> NoUser]
  /\ UNCHANGED <<now, snap, clients, requests, deployed, faults, reprovision, sync, relayJob>>

\* SUCCESS and NOT_FOUND both lead to the UPDATE, so every result does.
Revoke(u) ==
  /\ sched.check \in {"trial", "paid"} /\ sched.user = NoUser /\ u \in sched.due
  /\ Call(u, RevokeUser(clients[u], now + KeyYear))
  /\ sched' = [sched EXCEPT !.due = @ \ {u}, !.user = u]
  /\ UNCHANGED <<now, snap, requests, deployed, faults, reprovision, sync, relayJob>>

\* With nothing going wrong every panel answers.
Answering == IF "provider" \in faults THEN Reachable ELSE {Servers}

\* NOT_FOUND, also from panels none of which answered, leads to the UPDATE as well.
Purge(u) ==
  /\ sched.check = "grace" /\ sched.user = NoUser /\ u \in sched.due
  /\ Call(u, DeleteUser(clients[u], Answering))
  /\ sched' = [sched EXCEPT !.due = @ \ {u}, !.user = u]
  /\ UNCHANGED <<now, snap, requests, deployed, faults, reprovision, sync, relayJob>>

MarkedExpired(row) == [row EXCEPT !.state = "expired", !.keysOff = now]

\* UPDATE ... WHERE internal_user_id = $1: what the row holds by now is not looked at.
Mark ==
  /\ sched.user # NoUser
  /\ snap' = [snap EXCEPT ![sched.user] =
                IF sched.check = "grace" THEN [@ EXCEPT !.keysGone = now] ELSE MarkedExpired(@)]
  /\ sched' = [sched EXCEPT !.user = NoUser]
  /\ UNCHANGED <<now, clients, requests, deployed, faults, reprovision, sync, relayJob>>

\* The provider raises: the user is left for the next hour.
SkipUser(u) ==
  /\ "provider" \in faults
  /\ sched.user = NoUser /\ u \in sched.due
  /\ sched' = [sched EXCEPT !.due = @ \ {u}]
  /\ UNCHANGED <<now, snap, clients, requests, deployed, faults, reprovision, sync, relayJob>>
-----------------------------------------------------------------------------
(* The jobs that repair the panels.                                        *)

\* Mutant: the job leaves out users who bear an old deactivation.
ReprovisionsUnrevoked(row) == row.state = "active" /\ row.keysOff = Null

Reprovisioned(row) == row.state = "active" /\ row.keysGone = Null

SelectActive ==
  /\ "reprovision" \in deployed
  /\ reprovision = {}
  /\ reprovision' = {<<u, snap[u].until>> : u \in {v \in Users : Reprovisioned(snap[v])}}
  /\ UNCHANGED <<now, snap, clients, requests, deployed, faults, sched, sync, relayJob>>

\* _expiry_from_datetime: an end that is past, or none, becomes the default year.
ProvisionedUntil(until) == IF until > now THEN until ELSE now + KeyYear

\* One user, on the servers in up; the relay is not touched.
Provision(u, up) ==
  /\ up = Servers \/ "provider" \in faults
  /\ \E item \in reprovision :
       /\ item[1] = u
       /\ clients' = [clients EXCEPT ![u].xui = EnabledOn(@, up, ProvisionedUntil(item[2]))]
       /\ reprovision' = reprovision \ {item}
  /\ UNCHANGED <<now, snap, requests, deployed, faults, sched, sync, relayJob>>

Kept(row) == row.state \in {"active", "expired"} /\ row.keysGone = Null

SelectKept ==
  /\ "sync" \in deployed
  /\ sync = {}
  /\ sync' = {[user |-> u, active |-> snap[u].state = "active", until |-> snap[u].until] :
                u \in {v \in Users : Kept(snap[v])}}
  /\ UNCHANGED <<now, snap, clients, requests, deployed, faults, sched, reprovision, relayJob>>

\* _expiry_ms_for_user: a past end stays; no end is given a day.
SyncedUntil(until) == IF until = Null THEN now + 1 ELSE until

\* Only servers without a client get one, enabled iff the row was active.
SyncUser(item, up) ==
  /\ item \in sync
  /\ clients' = [clients EXCEPT ![item.user].xui =
       [s \in Servers |->
          IF s \in up /\ @[s] = Absent
          THEN IF item.active THEN Enabled(SyncedUntil(item.until)) ELSE Disabled(SyncedUntil(item.until))
          ELSE @[s]]]
  /\ sync' = sync \ {item}
  /\ UNCHANGED <<now, snap, requests, deployed, faults, sched, reprovision, relayJob>>

SelectRelayUsers ==
  /\ "relay" \in deployed
  /\ relayJob.pc = "idle"
  /\ relayJob' = [pc |-> "list", desired |-> {u \in Users : Kept(snap[u])}, todo |-> {}]
  /\ UNCHANGED <<now, snap, clients, requests, deployed, faults, sched, reprovision, sync>>

\* Mutant: the pass adds what is missing and forgets the orphans.
MissingOnly(desired, present) == desired \ present

\* Missing clients are added, orphans removed.
Differing(desired, present) == (desired \ present) \cup (present \ desired)

\* What list_user_emails returns: a relay that does not answer has an empty list.
Listed == {{u \in Users : clients[u].relay}} \cup (IF "provider" \in faults THEN {{}} ELSE {})

ListRelay ==
  /\ relayJob.pc = "list"
  /\ \E present \in Listed :
        relayJob' = [relayJob EXCEPT !.pc = "fix", !.todo = Differing(relayJob.desired, present)]
  /\ UNCHANGED <<now, snap, clients, requests, deployed, faults, sched, reprovision, sync>>

FixRelay(u) ==
  /\ relayJob.pc = "fix" /\ u \in relayJob.todo
  /\ clients' = [clients EXCEPT ![u].relay = u \in relayJob.desired]
  /\ relayJob' = [relayJob EXCEPT !.todo = @ \ {u}]
  /\ UNCHANGED <<now, snap, requests, deployed, faults, sched, reprovision, sync>>

\* The pass ends; calls that failed are left to the next one.
EndRelayPass ==
  /\ \/ relayJob.pc = "fix" /\ relayJob.todo = {}
     \/ relayJob.pc # "idle" /\ faults # {}
  /\ relayJob' = NoRelay
  /\ UNCHANGED <<now, snap, clients, requests, deployed, faults, sched, reprovision, sync>>

\* The process of the bot ends, or that of a job.
Crash ==
  /\ "crash" \in faults
  /\ \/ sched' = NoCheck /\ sync' = {} /\ UNCHANGED <<reprovision, relayJob>>
     \/ reprovision' = {} /\ UNCHANGED <<sched, sync, relayJob>>
  /\ UNCHANGED <<now, snap, clients, requests, deployed, faults>>
-----------------------------------------------------------------------------
PaymentStep(u) == PayCommit(u) \/ PayLook(u) \/ PayCall(u) \/ PayClear(u) \/ PayWithoutKeys(u)

TrialStep(c) ==
  \/ \E u \in Users, via \in {"web", "bot"} : ClaimTrial(c, u, via)
  \/ CreateTrialKeys(c) \/ WriteTrial(c) \/ AbandonTrial(c)

CancelStep(u) == Cancel(u) \/ RevokeCancelled(u) \/ CancelWithoutRevoke(u)

KeysStep(u) ==
  AskKeys(u) \/ KeysAfterMerge(u) \/ AskReissue(u) \/ RevokeForReissue(u) \/ MakeKeys(u) \/ AbandonKeys(u)

SchedulerStep == NextCheck \/ Mark \/ \E u \in Users : Revoke(u) \/ Purge(u) \/ SkipUser(u)

ReprovisionStep == SelectActive \/ \E u \in Users, up \in SUBSET Servers : Provision(u, up)

SyncStep == SelectKept \/ \E item \in sync, up \in SUBSET Servers : SyncUser(item, up)

RelayStep == SelectRelayUsers \/ ListRelay \/ EndRelayPass \/ \E u \in Users : FixRelay(u)

Next ==
  \/ Tick \/ Calm \/ Crash
  \/ \E u \in Users : PaymentStep(u) \/ CancelStep(u) \/ KeysStep(u)
  \/ \E c \in TrialCalls : TrialStep(c)
  \/ SchedulerStep \/ ReprovisionStep \/ SyncStep \/ RelayStep

Spec == Init /\ [][Next]_vars

(***************************************************************************)
(* Timers start the jobs again and again, each pass gets on, and there     *)
(* comes a time without faults: what nobody repairs while panels fail and  *)
(* processes end must be repaired then.  Nothing is assumed of payments,   *)
(* trial requests, cancellations, requests for keys or server syncs.       *)
(***************************************************************************)
Fairness ==
  /\ WF_vars(Tick) /\ WF_vars(Calm)
  /\ WF_vars(SchedulerStep) /\ WF_vars(ReprovisionStep) /\ WF_vars(RelayStep)

FairSpec == Spec /\ Fairness
-----------------------------------------------------------------------------
(* Properties.                                                             *)

(***************************************************************************)
(* Nobody gets the free trial twice, with requests from web and bot racing *)
(* each other, failing half way, and claims given back.                    *)
(***************************************************************************)
TrialAtMostOnce == \A u \in Users : trialsGiven[u] <= 1

Running(u) == snap[u].state = "active" /\ snap[u].keysGone = Null /\ snap[u].until > now

(***************************************************************************)
(* A running subscription is eventually served on every server, whatever   *)
(* its payment left undone, as long as it goes on running                  *)
(* (reprovision_active: desyncs auto-heal).                                *)
(***************************************************************************)
SelfHeals ==
  "reprovision" \in deployed => \A u \in Users : Running(u) ~> (~Running(u) \/ \A s \in Servers : ServedOn(clients[u], s, now))

(***************************************************************************)
(* The relay, which knows no expiry, follows the rows: who is to be on it  *)
(* gets there, and who is not is removed, also after changes in the middle *)
(* of a pass and calls that failed.                                        *)
(***************************************************************************)
RelayFollows ==
  "relay" \in deployed => \A u \in Users :
    /\ Kept(snap[u]) ~> (~Kept(snap[u]) \/ clients[u].relay)
    /\ ~Kept(snap[u]) ~> (Kept(snap[u]) \/ ~clients[u].relay)

\* The grace period of a deactivated user ends before the clock does.
InGrace(u) ==
  snap[u].keysOff # Null /\ snap[u].keysGone = Null /\ snap[u].keysOff + Grace < MaxTime

Deleted(u) == \A s \in Servers : clients[u].xui[s] = Absent
Renewed(u) == snap[u].state = "active" \/ snap[u].keysOff = Null

\* The scheduler has called for u's deletion and is about to write it down.
DeletionCalled(u) == sched.check = "grace" /\ sched.user = u

(***************************************************************************)
(* Once panels answer, who is in the grace period and does not renew has   *)
(* the keys deleted on every panel (notification_scheduler.py:9            *)
(* "permanently delete keys").  Not who was called for while no panel      *)
(* answered: NOT_FOUND counts as deleted, and nobody comes back.           *)
(***************************************************************************)
GraceEnds ==
  "scheduler" \in deployed => \A u \in Users :
    (InGrace(u) /\ faults = {} /\ ~DeletionCalled(u)) ~> (Deleted(u) \/ Renewed(u))
==============================================================================
