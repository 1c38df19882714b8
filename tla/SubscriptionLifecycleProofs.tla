--------------------- MODULE SubscriptionLifecycleProofs ---------------------
(***************************************************************************)
(* What SubscriptionLifecycle guarantees for any number of users, trial    *)
(* requests and servers, for every set of actors, and with every fault.    *)
(***************************************************************************)
EXTENDS SubscriptionLifecycle, TLAPS

(***************************************************************************)
(* The invariant: a trial request at work owns the claim of its user, who  *)
(* has had no trial yet; a user has at most one such request; and who had  *)
(* a trial is marked for good.                                             *)
(***************************************************************************)
Busy(c) == trial[c].pc # "idle"

BusyOwnsClaim ==
  \A c \in TrialCalls : Busy(c) =>
    /\ trial[c].user \in trialUsed
    /\ trialsGiven[trial[c].user] = 0

ClaimIsUnique ==
  \A c, d \in TrialCalls : Busy(c) /\ Busy(d) /\ trial[c].user = trial[d].user => c = d

GivenIsMarked ==
  \A u \in Users : trialsGiven[u] <= 1 /\ (u \notin trialUsed => trialsGiven[u] = 0)

Claims == BusyOwnsClaim /\ ClaimIsUnique /\ GivenIsMarked

IInv == TypeOK /\ Claims

\* The invariant holds at the beginning.
LEMMA InitEstablishes == Init => IInv
<1> SUFFICES ASSUME Init PROVE IInv
  OBVIOUS
<1>1. PICK account \in [Users -> InitialAccounts] :
        /\ snap = [u \in Users |-> account[u].row]
        /\ clients = [u \in Users |-> account[u].clients]
        /\ trialUsed = {u \in Users : account[u].row.trialEnd # Null}
        /\ trialsGiven = [u \in Users |-> IF account[u].row.trialEnd = Null THEN 0 ELSE 1]
  BY DEF Init
<1>2. \A u \in Users : account[u].row \in Row /\ account[u].clients \in Clients
  BY LifecycleAssumption
<1>3. snap \in [Users -> Row] /\ clients \in [Users -> Clients]
  BY <1>1, <1>2
<1>4. trialsGiven \in [Users -> Nat] /\ GivenIsMarked
  BY <1>1 DEF GivenIsMarked
<1>5. \A c \in TrialCalls : ~Busy(c)
  BY DEF Init, Busy, NoTrial
<1>6. TypeOK
  BY <1>1, <1>3, <1>4 DEF Init, TypeOK, NoPayment, NoTrial, NoCheck, NoRelay,
     PaymentState, TrialState, CheckState, RelayState, KeySteps
<1> QED BY <1>4, <1>5, <1>6 DEF IInv, Claims, BusyOwnsClaim, ClaimIsUnique
-----------------------------------------------------------------------------
(* The statements that write a row, and the operations of the provider.    *)

\* The upsert writes a well-formed row.
LEMMA UpsertStateIsRow ==
  ASSUME NEW row \in Row, NEW state \in StateLabels, NEW until \in Nat,
         NEW plan \in BOOLEAN, NEW devices \in Nat, NEW trialEnd \in Nat
  PROVE  UpsertState(row, state, until, plan, devices, trialEnd) \in Row
BY DefaultDevicesAssumption DEF UpsertState, OrDefault, Row

\* Clearing the key instants leaves a well-formed row.
LEMMA ClearKeyInstantsIsRow ==
  ASSUME NEW row \in Row PROVE ClearKeyInstants(row) \in Row
BY DEF ClearKeyInstants, Row, Null

\* A renewal ends at least one period after its anchor.
LEMMA RenewalCoversPeriod ==
  ASSUME NEW current \in Nat, NEW anchor \in Nat, NEW period \in Nat
  PROVE  /\ RenewedUntil(current, anchor, period) \in Nat
         /\ RenewedUntil(current, anchor, period) >= anchor + period
BY DEF RenewedUntil

\* A result of a provider operation carries well-formed clients.
LEMMA ResultIsClients ==
  ASSUME NEW xui \in [Servers -> Client], NEW relay \in BOOLEAN, NEW outcome
  PROVE  Result(xui, relay, outcome).clients \in Clients
BY DEF Result, Clients

\* Writing any set of servers keeps the clients well formed.
LEMMA ServersAfterCall ==
  ASSUME NEW xui \in [Servers -> Client], NEW up, NEW exp \in Nat
  PROVE  /\ EnabledOn(xui, up, exp) \in [Servers -> Client]
         /\ DisabledOn(xui, up, exp) \in [Servers -> Client]
         /\ AbsentOn(xui, up) \in [Servers -> Client]
<1>1. Enabled(exp) \in Client /\ Disabled(exp) \in Client /\ Absent \in Client
  BY DEF Enabled, Disabled, Absent, Client
<1> QED BY <1>1 DEF EnabledOn, DisabledOn, AbsentOn

\* Every result of create_user is a well-formed set of clients.
LEMMA CreateUserIsClients ==
  ASSUME NEW cl \in Clients, NEW exp \in Nat, NEW res \in CreateUser(cl, exp)
  PROVE  res.clients \in Clients
<1>1. cl.xui \in [Servers -> Client] /\ RelayAdded(cl) \subseteq BOOLEAN
      /\ cl.relay \in BOOLEAN
  BY DEF Clients, RelayAdded
<1>2. CASE res = Result(cl.xui, cl.relay, "unavailable")
  BY <1>1, <1>2, ResultIsClients
<1>3. CASE \E up \in Reachable \ {{}}, r \in RelayAdded(cl) :
              res = Result(EnabledOn(cl.xui, up, exp), r, "success")
  BY <1>1, <1>3, ServersAfterCall, ResultIsClients
<1> QED BY <1>2, <1>3 DEF CreateUser

\* Every result of activate_user is a well-formed set of clients.
LEMMA ActivateUserIsClients ==
  ASSUME NEW cl \in Clients, NEW exp \in Nat, NEW res \in ActivateUser(cl, exp)
  PROVE  res.clients \in Clients
<1>1. cl.xui \in [Servers -> Client] /\ RelayAdded(cl) \subseteq BOOLEAN
  BY DEF Clients, RelayAdded
<1>2. PICK up \in Reachable, lost \in SUBSET Servers, r \in RelayAdded(cl) :
        res = Result(EnabledOn(AbsentOn(cl.xui, lost), up, exp), r,
                     IF up = {} THEN "not_found" ELSE "success")
  BY DEF ActivateUser
<1>3. AbsentOn(cl.xui, lost) \in [Servers -> Client]
  BY <1>1, ServersAfterCall
<1>4. EnabledOn(AbsentOn(cl.xui, lost), up, exp) \in [Servers -> Client]
  BY <1>3, ServersAfterCall
<1> QED BY <1>1, <1>2, <1>4, ResultIsClients

\* Every result of revoke_user is a well-formed set of clients.
LEMMA RevokeUserIsClients ==
  ASSUME NEW cl \in Clients, NEW exp \in Nat, NEW res \in RevokeUser(cl, exp)
  PROVE  res.clients \in Clients
<1>1. cl.xui \in [Servers -> Client] /\ RelayRemoved(cl) \subseteq BOOLEAN
  BY DEF Clients, RelayRemoved
<1>2. PICK up \in SUBSET {s \in Servers : cl.xui[s] # Absent}, r \in RelayRemoved(cl) :
        res = Result(DisabledOn(cl.xui, up, exp), r, IF up = {} THEN "not_found" ELSE "success")
  BY DEF RevokeUser
<1>3. DisabledOn(cl.xui, up, exp) \in [Servers -> Client]
  BY <1>1, ServersAfterCall
<1> QED BY <1>1, <1>2, <1>3, ResultIsClients

\* Every result of delete_user is a well-formed set of clients.
LEMMA DeleteUserIsClients ==
  ASSUME NEW cl \in Clients, NEW reach \in SUBSET Reachable, NEW res \in DeleteUser(cl, reach)
  PROVE  res.clients \in Clients
<1>1. cl.xui \in [Servers -> Client] /\ RelayRemoved(cl) \subseteq BOOLEAN
  BY DEF Clients, RelayRemoved
<1>2. PICK up \in reach, r \in RelayRemoved(cl) :
        res = Result(AbsentOn(cl.xui, up), r, IF up = {} THEN "not_found" ELSE "success")
  BY DEF DeleteUser
<1>3. 0 \in Nat
  OBVIOUS
<1>4. AbsentOn(cl.xui, up) \in [Servers -> Client]
  BY <1>1, <1>3, ServersAfterCall
<1> QED BY <1>1, <1>2, <1>4, ResultIsClients
-----------------------------------------------------------------------------
(***************************************************************************)
(* Types.                                                                  *)
(***************************************************************************)
Days == {PaidPeriod, TrialPeriod, Grace, KeyYear, 1}

\* Days are natural numbers.
LEMMA DaysAreNat == Days \subseteq Nat
BY LifecycleAssumption DEF Days

\* A provider call leaves well-formed clients.
LEMMA CallIsClients ==
  ASSUME TypeOK, NEW u \in Users, NEW results,
         \A res \in results : res.clients \in Clients, Call(u, results)
  PROVE  clients' \in [Users -> Clients]
<1>1. PICK res \in results : clients' = [clients EXCEPT ![u] = res.clients]
  BY DEF Call
<1> QED BY <1>1 DEF TypeOK

\* Payments and their keys keep the types.
LEMMA PaymentTypes ==
  ASSUME TypeOK, NEW u \in Users, PaymentStep(u)
  PROVE  TypeOK'
<1> USE LifecycleAssumption
<1>1. payment[u] \in PaymentState /\ snap[u] \in Row /\ clients[u] \in Clients /\ now \in Nat
  BY DEF TypeOK
<1>2. CASE PayCommit(u)
  <2>1. RenewedUntil(snap[u].until, now, PaidPeriod) \in Nat
    BY <1>1, RenewalCoversPeriod DEF Row
  <2>2. UpsertState(snap[u], "active", RenewedUntil(snap[u].until, now, PaidPeriod), TRUE,
                    DefaultDevices, Null) \in Row
    BY <1>1, <2>1, UpsertStateIsRow, DefaultDevicesAssumption DEF StateLabels, Null
  <2>3. snap' \in [Users -> Row]
    BY <1>2, <2>2 DEF PayCommit, TypeOK
  <2>4. \A days \in {PaidPeriod, KeyYear} :
           [NoPayment EXCEPT !.pc = "look", !.days = days] \in PaymentState
    BY DEF NoPayment, PaymentState
  <2>5. PICK days \in {PaidPeriod, KeyYear} :
          payment' = [payment EXCEPT ![u] = [NoPayment EXCEPT !.pc = "look", !.days = days]]
    BY <1>2 DEF PayCommit
  <2>6. payment' \in [Users -> PaymentState]
    BY <2>4, <2>5 DEF TypeOK
  <2>7. payments' \in [Users -> Nat]
    BY <1>2 DEF PayCommit, TypeOK
  <2> QED BY <1>2, <2>3, <2>6, <2>7 DEF PayCommit, TypeOK, jobs
<1>3. CASE PayLook(u)
  <2>1. [payment[u] EXCEPT !.pc = "call",
            !.op = IF snap[u].keysGone = Null /\ snap[u].keysOff # Null
                   THEN "activate" ELSE "create"] \in PaymentState
    BY <1>1 DEF PaymentState
  <2>2. payment' \in [Users -> PaymentState]
    BY <1>3, <2>1 DEF PayLook, TypeOK
  <2> QED BY <1>3, <2>2 DEF PayLook, TypeOK, jobs
<1>4. CASE PayCall(u)
  <2>1. now + payment[u].days \in Nat
    BY <1>1 DEF PaymentState
  <2>2. clients' \in [Users -> Clients]
    BY <1>1, <1>4, <2>1, CreateUserIsClients, ActivateUserIsClients, CallIsClients DEF PayCall
  <2>3. [payment[u] EXCEPT !.pc = "clear"] \in PaymentState
    BY <1>1 DEF PaymentState
  <2>4. payment' \in [Users -> PaymentState]
    BY <1>4, <2>3 DEF PayCall, TypeOK
  <2> QED BY <1>4, <2>2, <2>4 DEF PayCall, TypeOK, jobs
<1>5. CASE PayClear(u) \/ PayWithoutKeys(u)
  <2>1. ClearKeyInstants(snap[u]) \in Row
    BY <1>1, ClearKeyInstantsIsRow
  <2>2. NoPayment \in PaymentState
    BY DEF NoPayment, PaymentState
  <2>3. payment' \in [Users -> PaymentState] /\ snap' \in [Users -> Row]
    <3>1. payment \in [Users -> PaymentState] /\ snap \in [Users -> Row]
      BY DEF TypeOK
    <3>2. CASE PayClear(u)
      BY <2>1, <2>2, <3>1, <3>2 DEF PayClear
    <3>3. CASE PayWithoutKeys(u)
      BY <2>2, <3>1, <3>3 DEF PayWithoutKeys
    <3> QED BY <1>5, <3>2, <3>3
  <2>4. UNCHANGED <<now, clients, payments, trial, trialUsed, trialsGiven, cancelling, keyRequest, jobs>>
    BY <1>5 DEF PayClear, PayWithoutKeys
  <2> QED BY <2>3, <2>4 DEF TypeOK, jobs
<1> QED BY <1>2, <1>3, <1>4, <1>5 DEF PaymentStep

\* What a trial writes is a well-formed row.
LEMMA TrialRowIsRow ==
  ASSUME TypeOK, NEW row \in Row, NEW via
  PROVE  TrialRow(row, via) \in Row
<1>1. now + TrialPeriod \in Nat
  BY LifecycleAssumption DEF TypeOK
<1>2. CASE via = "bot"
  <2>1. UpsertState(row, "active", now + TrialPeriod, FALSE, Null, now + TrialPeriod) \in Row
    BY <1>1, UpsertStateIsRow DEF StateLabels, Null
  <2> QED BY <1>2, <2>1 DEF TrialRow
<1>3. CASE via # "bot"
  <2>1. OrDefault(row.devices, DefaultDevices) \in Nat
    BY DefaultDevicesAssumption DEF OrDefault, Row
  <2> QED BY <1>1, <1>3, <2>1 DEF TrialRow, Row, StateLabels
<1> QED BY <1>2, <1>3

\* The steps of a trial keep the types.
LEMMA TrialTypes ==
  ASSUME IInv, NEW c \in TrialCalls, TrialStep(c)
  PROVE  TypeOK'
<1> USE LifecycleAssumption
<1>1. TypeOK /\ trial[c] \in TrialState /\ now \in Nat
  BY DEF IInv, TypeOK
<1>2. NoTrial \in TrialState
  BY DEF NoTrial, TrialState
<1>3. Busy(c) => trial[c].user \in Users
  BY <1>1 DEF IInv, Claims, BusyOwnsClaim, TypeOK
<1>4. ASSUME NEW u \in Users, NEW via \in {"web", "bot"}, ClaimTrial(c, u, via) PROVE TypeOK'
  <2>1. [pc |-> "create", user |-> u, via |-> via] \in TrialState
    BY DEF TrialState
  <2>2. trial' \in [TrialCalls -> TrialState] /\ trialUsed' \subseteq Users
    BY <1>1, <1>4, <2>1 DEF ClaimTrial, TypeOK
  <2> QED BY <1>1, <1>4, <2>2 DEF ClaimTrial, TypeOK, jobs
<1>5. CASE CreateTrialKeys(c)
  <2> DEFINE u == trial[c].user
  <2>1. u \in Users
    BY <1>3, <1>5 DEF CreateTrialKeys, Busy
  <2>2. clients[u] \in Clients /\ now + KeyYear \in Nat
    BY <1>1, <2>1 DEF TypeOK
  <2>3. PICK res \in CreateUser(clients[u], now + KeyYear) :
          /\ clients' = [clients EXCEPT ![u] = res.clients]
          /\ \/ trial' = [trial EXCEPT ![c].pc = "write"] /\ UNCHANGED trialUsed
             \/ trial' = [trial EXCEPT ![c] = NoTrial] /\ trialUsed' = trialUsed \ {u}
    BY <1>5 DEF CreateTrialKeys
  <2>4. clients' \in [Users -> Clients]
    BY <1>1, <2>2, <2>3, CreateUserIsClients DEF TypeOK
  <2>5. [trial[c] EXCEPT !.pc = "write"] \in TrialState
    BY <1>1 DEF TrialState
  <2>6. trial' \in [TrialCalls -> TrialState] /\ trialUsed' \subseteq Users
    BY <1>1, <1>2, <2>3, <2>5 DEF TypeOK
  <2> QED BY <1>1, <1>5, <2>4, <2>6 DEF CreateTrialKeys, TypeOK, jobs
<1>6. CASE WriteTrial(c)
  <2> DEFINE u == trial[c].user
  <2>1. u \in Users
    BY <1>3, <1>6 DEF WriteTrial, Busy
  <2>2. TrialRow(snap[u], trial[c].via) \in Row
    BY <1>1, <2>1, TrialRowIsRow DEF TypeOK
  <2>3. snap' \in [Users -> Row]
    BY <1>1, <1>6, <2>2 DEF WriteTrial, TypeOK
  <2>4. trialsGiven' \in [Users -> Nat] /\ trial' \in [TrialCalls -> TrialState]
    BY <1>1, <1>2, <1>6, <2>1 DEF WriteTrial, TypeOK
  <2> QED BY <1>1, <1>6, <2>3, <2>4 DEF WriteTrial, TypeOK, jobs
<1>7. CASE AbandonTrial(c)
  <2>1. trial' \in [TrialCalls -> TrialState]
    BY <1>1, <1>2, <1>7 DEF AbandonTrial, TypeOK
  <2> QED BY <1>1, <1>7, <2>1 DEF AbandonTrial, TypeOK, jobs
<1> QED BY <1>4, <1>5, <1>6, <1>7 DEF TrialStep

\* A cancellation keeps the types.
LEMMA CancelTypes ==
  ASSUME TypeOK, NEW u \in Users, CancelStep(u)
  PROVE  TypeOK'
<1>1. CASE Cancel(u)
  <2>1. Cancelled(snap[u]) \in Row
    BY DEF TypeOK, Cancelled, Row, StateLabels
  <2>2. snap' \in [Users -> Row] /\ cancelling' \subseteq Users
    BY <1>1, <2>1 DEF Cancel, TypeOK
  <2> QED BY <1>1, <2>2 DEF Cancel, TypeOK, jobs
<1>2. CASE RevokeCancelled(u)
  <2>1. clients[u] \in Clients /\ now + KeyYear \in Nat
    BY LifecycleAssumption DEF TypeOK
  <2>2. clients' \in [Users -> Clients]
    BY <1>2, <2>1, RevokeUserIsClients, CallIsClients DEF RevokeCancelled
  <2>3. cancelling' \subseteq Users
    BY <1>2 DEF RevokeCancelled, TypeOK
  <2> QED BY <1>2, <2>2, <2>3 DEF RevokeCancelled, TypeOK, jobs
<1>3. CASE CancelWithoutRevoke(u)
  <2>1. cancelling' \subseteq Users
    BY <1>3 DEF CancelWithoutRevoke, TypeOK
  <2> QED BY <1>3, <2>1 DEF CancelWithoutRevoke, TypeOK, jobs
<1> QED BY <1>1, <1>2, <1>3 DEF CancelStep

\* Requests for keys keep the types.
LEMMA KeysTypes ==
  ASSUME TypeOK, NEW u \in Users, KeysStep(u)
  PROVE  TypeOK'
<1>1. clients[u] \in Clients /\ now + KeyYear \in Nat
  BY LifecycleAssumption DEF TypeOK
<1>2. CASE AskKeys(u) \/ KeysAfterMerge(u) \/ AskReissue(u) \/ AbandonKeys(u)
  <2>1. keyRequest' \in [Users -> KeySteps]
    BY <1>2 DEF AskKeys, KeysAfterMerge, AskReissue, AbandonKeys, TypeOK, KeySteps
  <2> QED BY <1>2, <2>1 DEF AskKeys, KeysAfterMerge, AskReissue, AbandonKeys, TypeOK, jobs
<1>3. CASE RevokeForReissue(u)
  <2>1. clients' \in [Users -> Clients]
    BY <1>1, <1>3, RevokeUserIsClients, CallIsClients DEF RevokeForReissue
  <2>2. keyRequest' \in [Users -> KeySteps]
    BY <1>3 DEF RevokeForReissue, TypeOK, KeySteps
  <2> QED BY <1>3, <2>1, <2>2 DEF RevokeForReissue, TypeOK, jobs
<1>4. CASE MakeKeys(u)
  <2>1. PICK res \in CreateUser(clients[u], now + KeyYear) :
          /\ clients' = [clients EXCEPT ![u] = res.clients]
          /\ \E step \in AfterKeys(keyRequest[u], res.outcome) :
                keyRequest' = [keyRequest EXCEPT ![u] = step]
    BY <1>4 DEF MakeKeys
  <2>2. clients' \in [Users -> Clients]
    BY <1>1, <2>1, CreateUserIsClients DEF TypeOK
  <2>3. PICK step \in AfterKeys(keyRequest[u], res.outcome) :
          keyRequest' = [keyRequest EXCEPT ![u] = step]
    BY <2>1
  <2>4. step \in KeySteps
    BY DEF AfterKeys, KeySteps
  <2>5. keyRequest' \in [Users -> KeySteps]
    BY <2>3, <2>4 DEF TypeOK
  <2> QED BY <1>4, <2>2, <2>5 DEF MakeKeys, TypeOK, jobs
<1> QED BY <1>2, <1>3, <1>4 DEF KeysStep

\* The notification scheduler keeps the types.
LEMMA SchedulerTypes ==
  ASSUME TypeOK, SchedulerStep
  PROVE  TypeOK'
<1>1. sched \in CheckState /\ now \in Nat
  BY DEF TypeOK
<1>2. CASE NextCheck
  <2>1. Due(Following(sched.check)) \subseteq Users
    BY DEF Due
  <2>2. Following(sched.check) \in {"idle", "trial", "paid", "grace"}
    BY <1>1 DEF CheckState, Following
  <2>3. sched' \in CheckState
    BY <1>2, <2>1, <2>2 DEF NextCheck, CheckState
  <2> QED BY <1>2, <2>3 DEF NextCheck, TypeOK, requests
<1>3. ASSUME NEW u \in Users, Revoke(u) \/ Purge(u) PROVE TypeOK'
  <2>1. clients[u] \in Clients /\ now + KeyYear \in Nat
    BY LifecycleAssumption DEF TypeOK
  <2>0. Answering \in SUBSET Reachable
    BY DEF Answering, Reachable
  <2>2. clients' \in [Users -> Clients]
    BY <1>3, <2>0, <2>1, RevokeUserIsClients, DeleteUserIsClients, CallIsClients DEF Revoke, Purge
  <2>3. sched' \in CheckState
    BY <1>1, <1>3 DEF Revoke, Purge, CheckState
  <2> QED BY <1>3, <2>2, <2>3 DEF Revoke, Purge, TypeOK, requests
<1>4. CASE Mark
  <2>1. sched.user \in Users
    BY <1>1, <1>4 DEF Mark, CheckState
  <2>2. snap[sched.user] \in Row
    BY <2>1 DEF TypeOK
  <2>3. [snap[sched.user] EXCEPT !.keysGone = now] \in Row /\ MarkedExpired(snap[sched.user]) \in Row
    BY <1>1, <2>2 DEF MarkedExpired, Row, StateLabels
  <2>4. snap' \in [Users -> Row]
    BY <1>4, <2>1, <2>3 DEF Mark, TypeOK
  <2>5. sched' \in CheckState
    BY <1>1, <1>4 DEF Mark, CheckState
  <2> QED BY <1>4, <2>4, <2>5 DEF Mark, TypeOK, requests
<1>5. ASSUME NEW u \in Users, SkipUser(u) PROVE TypeOK'
  <2>1. sched' \in CheckState
    BY <1>1, <1>5 DEF SkipUser, CheckState
  <2> QED BY <1>5, <2>1 DEF SkipUser, TypeOK, requests
<1> QED BY <1>2, <1>3, <1>4, <1>5 DEF SchedulerStep

\* A repair job writes clients of one user: the servers, or the relay.
LEMMA ServersRewritten ==
  ASSUME TypeOK, NEW u \in Users, NEW xui \in [Servers -> Client],
         clients' = [clients EXCEPT ![u].xui = xui]
  PROVE  clients' \in [Users -> Clients]
<1>1. clients[u] \in Clients
  BY DEF TypeOK
<1>2. [clients[u] EXCEPT !.xui = xui] \in Clients
  BY <1>1 DEF Clients
<1> QED BY <1>2 DEF TypeOK

\* Reprovisioning keeps the types.
LEMMA ReprovisionTypes ==
  ASSUME TypeOK, ReprovisionStep
  PROVE  TypeOK'
<1>1. CASE SelectActive
  <2>1. \A u \in Users : snap[u].until \in Nat
    BY DEF TypeOK, Row
  <2>2. reprovision' \subseteq Users \X Nat
    BY <1>1, <2>1 DEF SelectActive
  <2> QED BY <1>1, <2>2 DEF SelectActive, TypeOK, requests
<1>2. ASSUME NEW u \in Users, NEW up \in SUBSET Servers, Provision(u, up) PROVE TypeOK'
  <2>1. PICK item \in reprovision :
          /\ clients' = [clients EXCEPT ![u].xui = EnabledOn(@, up, ProvisionedUntil(item[2]))]
          /\ reprovision' = reprovision \ {item}
    BY <1>2 DEF Provision
  <2>2. item[2] \in Nat /\ now \in Nat
    BY DEF TypeOK
  <2>3. ProvisionedUntil(item[2]) \in Nat
    BY <2>2, LifecycleAssumption DEF ProvisionedUntil
  <2>4. clients[u].xui \in [Servers -> Client]
    BY DEF TypeOK, Clients
  <2>5. EnabledOn(clients[u].xui, up, ProvisionedUntil(item[2])) \in [Servers -> Client]
    BY <2>3, <2>4, ServersAfterCall
  <2>6. clients' \in [Users -> Clients]
    BY <2>1, <2>5, ServersRewritten
  <2>7. reprovision' \subseteq Users \X Nat
    BY <2>1 DEF TypeOK
  <2> QED BY <1>2, <2>6, <2>7 DEF Provision, TypeOK, requests
<1> QED BY <1>1, <1>2 DEF ReprovisionStep

\* The server sync keeps the types.
LEMMA SyncTypes ==
  ASSUME TypeOK, SyncStep
  PROVE  TypeOK'
<1>1. CASE SelectKept
  <2>1. \A u \in Users : [user |-> u, active |-> snap[u].state = "active",
                           until |-> snap[u].until] \in SyncItem
    BY DEF TypeOK, Row, SyncItem
  <2>2. sync' \subseteq SyncItem
    BY <1>1, <2>1 DEF SelectKept
  <2> QED BY <1>1, <2>2 DEF SelectKept, TypeOK, requests
<1>2. ASSUME NEW item \in sync, NEW up \in SUBSET Servers, SyncUser(item, up) PROVE TypeOK'
  <2> DEFINE u == item.user
             xui == [s \in Servers |->
                       IF s \in up /\ clients[u].xui[s] = Absent
                       THEN IF item.active THEN Enabled(SyncedUntil(item.until))
                                           ELSE Disabled(SyncedUntil(item.until))
                       ELSE clients[u].xui[s]]
  <2>1. item \in SyncItem /\ now \in Nat
    BY DEF TypeOK
  <2>2. u \in Users /\ item.until \in Nat
    BY <2>1 DEF SyncItem
  <2>3. SyncedUntil(item.until) \in Nat
    BY <2>1, <2>2 DEF SyncedUntil
  <2>4. Enabled(SyncedUntil(item.until)) \in Client /\ Disabled(SyncedUntil(item.until)) \in Client
    BY <2>3 DEF Enabled, Disabled, Client
  <2>5. clients[u].xui \in [Servers -> Client]
    BY <2>2 DEF TypeOK, Clients
  <2>6. xui \in [Servers -> Client]
    BY <2>4, <2>5
  <2>7. clients' = [clients EXCEPT ![u].xui = xui]
    BY <1>2 DEF SyncUser
  <2> HIDE DEF xui
  <2>8. clients' \in [Users -> Clients]
    BY <2>2, <2>6, <2>7, ServersRewritten
  <2>9. sync' \subseteq SyncItem
    BY <1>2 DEF SyncUser, TypeOK
  <2> QED BY <1>2, <2>8, <2>9 DEF SyncUser, TypeOK, requests
<1> QED BY <1>1, <1>2 DEF SyncStep

\* The relay reconciliation keeps the types.
LEMMA RelayTypes ==
  ASSUME TypeOK, RelayStep
  PROVE  TypeOK'
<1>1. relayJob \in RelayState
  BY DEF TypeOK
<1>2. CASE SelectRelayUsers
  <2>1. relayJob' \in RelayState
    BY <1>2 DEF SelectRelayUsers, RelayState
  <2> QED BY <1>2, <2>1 DEF SelectRelayUsers, TypeOK, requests
<1>3. CASE ListRelay
  <2>1. PICK present \in Listed :
          relayJob' = [relayJob EXCEPT !.pc = "fix", !.todo = Differing(relayJob.desired, present)]
    BY <1>3 DEF ListRelay
  <2>2. present \subseteq Users
    BY DEF Listed
  <2>3. Differing(relayJob.desired, present) \subseteq Users
    BY <1>1, <2>2 DEF Differing, RelayState
  <2>4. relayJob' \in RelayState
    BY <1>1, <2>1, <2>3 DEF RelayState
  <2> QED BY <1>3, <2>4 DEF ListRelay, TypeOK, requests
<1>4. CASE EndRelayPass
  <2>1. relayJob' \in RelayState
    BY <1>4 DEF EndRelayPass, NoRelay, RelayState
  <2> QED BY <1>4, <2>1 DEF EndRelayPass, TypeOK, requests
<1>5. ASSUME NEW u \in Users, FixRelay(u) PROVE TypeOK'
  <2>1. relayJob' \in RelayState
    BY <1>1, <1>5 DEF FixRelay, RelayState
  <2>2. clients[u] \in Clients /\ (u \in relayJob.desired) \in BOOLEAN
    BY DEF TypeOK
  <2>3. [clients[u] EXCEPT !.relay = u \in relayJob.desired] \in Clients
    BY <2>2 DEF Clients
  <2>4. clients' \in [Users -> Clients]
    BY <1>5, <2>3 DEF FixRelay, TypeOK
  <2> QED BY <1>5, <2>1, <2>4 DEF FixRelay, TypeOK, requests
<1> QED BY <1>2, <1>3, <1>4, <1>5 DEF RelayStep

\* Every step keeps the types.
LEMMA TypeStep ==
  ASSUME IInv, Next
  PROVE  TypeOK'
<1>1. TypeOK
  BY DEF IInv
<1>2. CASE Tick \/ Calm
  BY <1>1, <1>2 DEF Tick, Calm, TypeOK, jobs, requests
<1>3. CASE Crash
  BY <1>1, <1>3 DEF Crash, TypeOK, requests, NoCheck, CheckState
<1> QED BY <1>1, <1>2, <1>3, PaymentTypes, CancelTypes, KeysTypes, TrialTypes, SchedulerTypes,
           ReprovisionTypes, SyncTypes, RelayTypes DEF Next
-----------------------------------------------------------------------------
(***************************************************************************)
(* The claims.                                                             *)
(***************************************************************************)
TrialsUnchanged == trial' = trial /\ trialUsed' = trialUsed /\ trialsGiven' = trialsGiven

\* A step that leaves the trials alone keeps the claims.
LEMMA ClaimsUntouched ==
  ASSUME Claims, TrialsUnchanged
  PROVE  Claims'
BY DEF Claims, BusyOwnsClaim, ClaimIsUnique, GivenIsMarked, Busy, TrialsUnchanged

\* Every step keeps the claims.
LEMMA ClaimsStep ==
  ASSUME IInv, NEW c \in TrialCalls, TrialStep(c)
  PROVE  Claims'
<1>1. TypeOK /\ Claims
  BY DEF IInv
<1>2. trial \in [TrialCalls -> TrialState] /\ trialsGiven \in [Users -> Nat] /\ trialUsed \subseteq Users
  BY <1>1 DEF TypeOK
<1>3. \A d \in TrialCalls : Busy(d) => trial[d].user \in Users
  BY <1>1, <1>2 DEF Claims, BusyOwnsClaim
<1> USE DEF Claims, BusyOwnsClaim, ClaimIsUnique, GivenIsMarked, Busy
<1>4. ASSUME NEW u \in Users, NEW via \in {"web", "bot"}, ClaimTrial(c, u, via) PROVE Claims'
  <2>1. u \notin trialUsed
    BY <1>4 DEF ClaimTrial, Claimable
  <2>2. \A d \in TrialCalls : Busy(d) => trial[d].user # u
    BY <1>1, <2>1
  <2>3. trial'[c].user = u /\ \A d \in TrialCalls : d # c => trial'[d] = trial[d]
    BY <1>2, <1>4 DEF ClaimTrial
  <2>4. trialUsed' = trialUsed \cup {u} /\ trialsGiven' = trialsGiven
    BY <1>4 DEF ClaimTrial
  <2> QED BY <1>1, <1>2, <2>1, <2>2, <2>3, <2>4
<1>5. CASE CreateTrialKeys(c)
  <2> DEFINE u == trial[c].user
  <2>1. Busy(c) /\ u \in Users
    BY <1>3, <1>5 DEF CreateTrialKeys
  <2>2. trialsGiven' = trialsGiven
    BY <1>5 DEF CreateTrialKeys
  <2>3. CASE trial' = [trial EXCEPT ![c].pc = "write"] /\ trialUsed' = trialUsed
    <3>1. \A d \in TrialCalls : trial'[d].user = trial[d].user /\ (Busy(d)' => Busy(d))
      BY <1>2, <2>1, <2>3 DEF TrialState
    <3> QED BY <1>1, <1>2, <2>2, <2>3, <3>1
  <2>4. CASE trial' = [trial EXCEPT ![c] = NoTrial] /\ trialUsed' = trialUsed \ {u}
    <3>1. ~Busy(c)' /\ \A d \in TrialCalls : d # c => trial'[d] = trial[d]
      BY <1>2, <2>4 DEF NoTrial
    <3>2. \A d \in TrialCalls : Busy(d) /\ d # c => trial[d].user # u
      BY <1>1, <2>1
    <3> QED BY <1>1, <1>2, <2>1, <2>2, <2>4, <3>1, <3>2
  <2> QED BY <1>5, <2>3, <2>4 DEF CreateTrialKeys
<1>6. CASE WriteTrial(c)
  <2> DEFINE u == trial[c].user
  <2>1. Busy(c) /\ u \in Users
    BY <1>3, <1>6 DEF WriteTrial
  <2>2. trialUsed' = trialUsed /\ trialsGiven' = [trialsGiven EXCEPT ![u] = @ + 1]
    BY <1>6 DEF WriteTrial
  <2>3. ~Busy(c)' /\ \A d \in TrialCalls : d # c => trial'[d] = trial[d]
    BY <1>2, <1>6 DEF WriteTrial, NoTrial
  <2>4. \A d \in TrialCalls : Busy(d) /\ d # c => trial[d].user # u
    BY <1>1, <2>1
  <2>5. u \in trialUsed /\ trialsGiven[u] = 0
    BY <1>1, <2>1
  <2>6. trialsGiven'[u] = 1 /\ \A v \in Users : v # u => trialsGiven'[v] = trialsGiven[v]
    BY <1>2, <2>1, <2>2, <2>5
  <2> QED BY <1>1, <1>2, <1>3, <2>1, <2>2, <2>3, <2>4, <2>5, <2>6
<1>7. CASE AbandonTrial(c)
  <2>1. ~Busy(c)' /\ \A d \in TrialCalls : d # c => trial'[d] = trial[d]
    BY <1>2, <1>7 DEF AbandonTrial, NoTrial
  <2>2. trialUsed' = trialUsed /\ trialsGiven' = trialsGiven
    BY <1>7 DEF AbandonTrial
  <2> QED BY <1>1, <2>1, <2>2
<1> QED BY <1>4, <1>5, <1>6, <1>7 DEF TrialStep

\* Every step keeps the invariant.
LEMMA InvariantStep == IInv /\ [Next]_vars => IInv'
<1> SUFFICES ASSUME IInv, [Next]_vars PROVE IInv'
  OBVIOUS
<1>1. TypeOK /\ Claims
  BY DEF IInv
<1>2. CASE UNCHANGED vars
  <2>1. TypeOK'
    BY <1>1, <1>2 DEF vars, requests, jobs, TypeOK
  <2>2. Claims'
    BY <1>1, <1>2, ClaimsUntouched DEF vars, requests, TrialsUnchanged
  <2> QED BY <2>1, <2>2 DEF IInv
<1>3. CASE Next
  <2>1. TypeOK'
    BY <1>3, TypeStep
  <2>2. ASSUME NEW c \in TrialCalls, TrialStep(c) PROVE Claims'
    BY <2>2, ClaimsStep
  <2>3. ASSUME Tick \/ Calm \/ Crash PROVE Claims'
    <3>1. TrialsUnchanged
      BY <2>3 DEF Tick, Calm, Crash, requests, TrialsUnchanged
    <3> QED BY <1>1, <3>1, ClaimsUntouched
  <2>4. ASSUME NEW u \in Users, PaymentStep(u) \/ CancelStep(u) \/ KeysStep(u) PROVE Claims'
    <3>1. TrialsUnchanged
      BY <2>4 DEF PaymentStep, PayCommit, PayLook, PayCall, PayClear, PayWithoutKeys,
         CancelStep, Cancel, RevokeCancelled, CancelWithoutRevoke, KeysStep, AskKeys,
         KeysAfterMerge, AskReissue, RevokeForReissue, MakeKeys, AbandonKeys, TrialsUnchanged
    <3> QED BY <1>1, <3>1, ClaimsUntouched
  <2>5. ASSUME SchedulerStep PROVE Claims'
    <3>1. TrialsUnchanged
      BY <2>5 DEF SchedulerStep, NextCheck, Mark, Revoke, Purge, SkipUser, requests, TrialsUnchanged
    <3> QED BY <1>1, <3>1, ClaimsUntouched
  <2>6. ASSUME ReprovisionStep \/ SyncStep PROVE Claims'
    <3>1. TrialsUnchanged
      BY <2>6 DEF ReprovisionStep, SelectActive, Provision, SyncStep, SelectKept, SyncUser,
         requests, TrialsUnchanged
    <3> QED BY <1>1, <3>1, ClaimsUntouched
  <2>7. ASSUME RelayStep PROVE Claims'
    <3>1. TrialsUnchanged
      BY <2>7 DEF RelayStep, SelectRelayUsers, ListRelay, FixRelay, EndRelayPass, requests,
         TrialsUnchanged
    <3> QED BY <1>1, <3>1, ClaimsUntouched
  <2>8. Claims'
    BY <1>3, <2>2, <2>3, <2>4, <2>5, <2>6, <2>7 DEF Next
  <2> QED BY <2>1, <2>8 DEF IInv
<1> QED BY <1>2, <1>3

(***************************************************************************)
(* Types and claims hold in every execution: the inductive invariant the   *)
(* two results below follow from.                                          *)
(***************************************************************************)
THEOREM Invariance == Spec => []IInv
BY InitEstablishes, InvariantStep, PTL DEF Spec

(***************************************************************************)
(* Every variable keeps its type: whatever the actors do to each other,    *)
(* rows and clients stay well formed.                                      *)
(***************************************************************************)
THEOREM TypeCorrect == Spec => []TypeOK
<1>1. IInv => TypeOK
  BY DEF IInv
<1> QED BY <1>1, Invariance, PTL

(***************************************************************************)
(* Nobody gets two trials, with any number of requests on web and bot,     *)
(* failures that give the claim back, and crashes that do not.             *)
(***************************************************************************)
THEOREM OneTrialEach == Spec => []TrialAtMostOnce
<1>1. IInv => TrialAtMostOnce
  BY DEF IInv, Claims, GivenIsMarked, TrialAtMostOnce
<1> QED BY <1>1, Invariance, PTL
=============================================================================
