-------------------------- MODULE FulfillmentProofs --------------------------
(***************************************************************************)
(* What Fulfillment guarantees for any number of users, payments, handlers *)
(* and servers, and without the bounds of the checked instances.           *)
(***************************************************************************)
EXTENDS Fulfillment, TLAPS

(***************************************************************************)
(* The invariant the results rest on: types, and what a handler's program  *)
(* counter says about the payment it works on.                             *)
(***************************************************************************)
BusyIsPaid ==
  \A h \in Handlers : handler[h].pc # "idle" => Pay(h) \in Payments /\ paidAt[Pay(h)] # Null

AppliedIsPaid == \A p \in applied : paidAt[p] # Null

PastCommit ==
  \A h \in Handlers : handler[h].pc \notin {"idle", "read"} => Pay(h) \in (ledger \cap applied)

RewardIsDue ==
  \A h \in Handlers : handler[h].pc = "reward" => commissions[Pay(h)] = 0

RewardIsExclusive ==
  \A g, h \in Handlers :
    handler[g].pc = "reward" /\ handler[h].pc = "reward" /\ Pay(g) = Pay(h) => g = h

IInv ==
  /\ TypeOK
  /\ BusyIsPaid
  /\ AppliedIsPaid
  /\ PastCommit
  /\ RewardIsDue
  /\ RewardIsExclusive
  /\ CommissionAtMostOnce
  /\ AckedIsDurable

\* Whichever servers answer create_user or activate_user, they leave well-formed clients.
LEMMA CallsLeaveClients ==
  ASSUME NEW cl \in Clients, NEW exp \in Nat,
         NEW res \in CreateUser(cl, exp) \cup ActivateUser(cl, exp)
  PROVE  res.clients \in Clients
<1>1. cl.xui \in [Servers -> Client] /\ cl.relay \in BOOLEAN /\ RelayAdded(cl) \subseteq BOOLEAN
  BY DEF Clients, RelayAdded
<1>2. Enabled(exp) \in Client /\ Absent \in Client
  BY DEF Enabled, Absent, Client
<1>3. PICK xui \in [Servers -> Client], r \in BOOLEAN, outcome \in Outcomes :
        res = Result(xui, r, outcome)
  <2>1. CASE res = Result(cl.xui, cl.relay, "unavailable")
    BY <1>1, <2>1 DEF Outcomes
  <2>2. ASSUME NEW up \in Reachable, NEW r \in RelayAdded(cl),
               res = Result(EnabledOn(cl.xui, up, exp), r, "success")
        PROVE  \E xui \in [Servers -> Client], s \in BOOLEAN, outcome \in Outcomes :
                 res = Result(xui, s, outcome)
    <3>1. EnabledOn(cl.xui, up, exp) \in [Servers -> Client]
      BY <1>1, <1>2 DEF EnabledOn
    <3> QED BY <1>1, <2>2, <3>1 DEF Outcomes
  <2>3. ASSUME NEW up \in Reachable, NEW lost \in SUBSET Servers, NEW r \in RelayAdded(cl),
               res = Result(EnabledOn(AbsentOn(cl.xui, lost), up, exp), r,
                            IF up = {} THEN "not_found" ELSE "success")
        PROVE  \E xui \in [Servers -> Client], s \in BOOLEAN, outcome \in Outcomes :
                 res = Result(xui, s, outcome)
    <3>1. EnabledOn(AbsentOn(cl.xui, lost), up, exp) \in [Servers -> Client]
      BY <1>1, <1>2 DEF EnabledOn, AbsentOn
    <3> QED BY <1>1, <2>3, <3>1 DEF Outcomes
  <2> QED BY <2>1, <2>2, <2>3 DEF CreateUser, ActivateUser
<1> QED BY <1>3 DEF Result, Clients

\* An idle handler is well formed.
LEMMA IdleIsState == Idle \in HandlerState
<1>1. 0 \in 0 .. MaxTries - 1
  BY FulfillmentAssumption
<1> QED BY <1>1 DEF Idle, HandlerState, Steps, Null

\* The invariant holds at the beginning.
LEMMA InitEstablishes == Init => IInv
<1> SUFFICES ASSUME Init PROVE IInv
  OBVIOUS
<1>1. TypeOK
  <2>1. snap \in [Users -> Row] /\ clients \in [Users -> Clients]
    BY FulfillmentAssumption DEF Init, Account
  <2>2. handler \in [Handlers -> HandlerState]
    BY IdleIsState DEF Init
  <2> QED BY <2>1, <2>2 DEF Init, TypeOK, Null
<1>2. \A h \in Handlers : handler[h].pc = "idle"
  BY DEF Init, Idle
<1>3. CommissionAtMostOnce
  BY DEF Init, CommissionAtMostOnce
<1> QED
  BY <1>1, <1>2, <1>3 DEF Init, IInv, BusyIsPaid, AppliedIsPaid, PastCommit, RewardIsDue,
     RewardIsExclusive, AckedIsDurable

(***************************************************************************)
(* Type correctness is preserved.                                          *)
(***************************************************************************)
LEMMA TypeStep ==
  ASSUME TypeOK, BusyIsPaid, [Next]_vars PROVE TypeOK'
<1> USE FulfillmentAssumption
<1>1. CASE Tick
  BY <1>1 DEF TypeOK, Tick, storeVars
<1>2. ASSUME NEW p \in Payments, PayInvoice(p) PROVE TypeOK'
  BY <1>2 DEF TypeOK, PayInvoice, storeVars
<1>3. ASSUME NEW h \in Handlers, NEW p \in Payments, Deliver(h, p) PROVE TypeOK'
  <2>1. snap[Payer[p]].until \in Nat
    BY DEF TypeOK, Row
  <2>2. handler' \in [Handlers -> HandlerState]
    BY <1>3, <2>1, IdleIsState DEF TypeOK, Deliver, HandlerState, Steps
  <2> QED BY <1>3, <2>2 DEF TypeOK, Deliver, storeVars
<1>4. ASSUME NEW h \in Handlers, HandlerStep(h) PROVE TypeOK'
  <2> DEFINE p == Pay(h)
             u == User(h)
  <2>1. handler[h] \in HandlerState /\ handler[h].pc # "idle"
    BY <1>4 DEF TypeOK, HandlerStep, KeysStep, Commit, CreditCommissions, KeysLook, KeysCall, KeysClear,
        KeysRaise, Reply
  <2>2. p \in Payments /\ u \in Users
    BY <2>1 DEF BusyIsPaid, User
  <2>3. CASE Commit(h)
    <3>1. RenewedUntil(handler[h].seen, paidAt[p], Period[p]) \in Nat
      BY <2>1, <2>2 DEF TypeOK, HandlerState, RenewedUntil
    <3>2. UpsertState(snap[u], "active", RenewedUntil(handler[h].seen, paidAt[p], Period[p]),
                      TRUE, Devices[p], Null) \in Row
      <4>1. PICK end \in Nat : end = RenewedUntil(handler[h].seen, paidAt[p], Period[p])
        BY <3>1
      <4>2. snap[u] \in Row /\ Devices[p] \in Nat
        BY <2>2 DEF TypeOK
      <4>3. UpsertState(snap[u], "active", end, TRUE, Devices[p], Null) \in Row
        BY <4>2, DefaultDevicesAssumption DEF UpsertState, OrDefault, Row, StateLabels, Null
      <4> QED BY <4>1, <4>3
    <3>3. snap' \in [Users -> Row]
      BY <2>2, <2>3, <3>2 DEF TypeOK, Commit, Activate
    <3>4. handler' \in [Handlers -> HandlerState]
      BY <2>1, <2>3 DEF TypeOK, Commit, HandlerState, Steps, Null
    <3>5. from' \in [Payments -> Nat]
      <4>1. RenewedUntil(handler[h].seen, paidAt[p], 0) \in Nat
        BY <2>1, <2>2 DEF TypeOK, HandlerState, RenewedUntil
      <4> QED BY <2>2, <2>3, <4>1 DEF TypeOK, Commit, NoteStart
    <3> QED BY <2>2, <2>3, <3>3, <3>4, <3>5 DEF TypeOK, Commit, envVars
  <2>4. CASE CreditCommissions(h)
    <3>1. handler' \in [Handlers -> HandlerState]
      BY <2>1, <2>4 DEF TypeOK, CreditCommissions, HandlerState, Steps
    <3>2. commissions' \in [Payments -> Nat]
      BY <2>4 DEF TypeOK, CreditCommissions
    <3> QED BY <2>4, <3>1, <3>2 DEF TypeOK, CreditCommissions, storeVars, envVars
  <2>5. CASE KeysLook(h)
    <3>1. handler' \in [Handlers -> HandlerState]
      BY <2>1, <2>5 DEF TypeOK, KeysLook, HandlerState, Steps
    <3> QED BY <2>5, <3>1 DEF TypeOK, KeysLook, storeVars, envVars
  <2>6. ASSUME NEW res \in KeysResults(h) PROVE res.clients \in Clients
    <3>1. clients[u] \in Clients /\ now + Period[p] \in Nat
      BY <2>2 DEF TypeOK
    <3> QED BY <2>6, <3>1, CallsLeaveClients DEF KeysResults
  <2>7. CASE KeysCall(h)
    <3>1. handler' \in [Handlers -> HandlerState]
      BY <2>1, <2>7 DEF TypeOK, KeysCall, HandlerState, Steps
    <3>2. clients' \in [Users -> Clients]
      BY <2>6, <2>7 DEF TypeOK, KeysCall
    <3> QED BY <2>7, <3>1, <3>2 DEF TypeOK, KeysCall, envVars
  <2>8. CASE KeysClear(h)
    <3>1. handler' \in [Handlers -> HandlerState]
      BY <2>1, <2>8 DEF TypeOK, KeysClear, HandlerState, Steps
    <3>2. snap' \in [Users -> Row]
      <4>1. snap[u] \in Row /\ snap \in [Users -> Row]
        BY <2>2 DEF TypeOK
      <4>2. ClearKeyInstants(snap[u]) \in Row
        BY <4>1 DEF ClearKeyInstants, Row, Null
      <4> QED BY <2>8, <4>1, <4>2 DEF KeysClear
    <3> QED BY <2>8, <3>1, <3>2 DEF TypeOK, KeysClear, envVars
  <2>9. CASE KeysRaise(h)
    <3>1. handler' \in [Handlers -> HandlerState]
      <4>1. /\ handler \in [Handlers -> HandlerState]
            /\ handler[h] \in HandlerState
        BY <2>1 DEF TypeOK
      <4>2. ~LastTry(h) => CountTry(h) \in 0 .. MaxTries - 1
        <5>1. handler[h].tries \in 0 .. MaxTries - 1
          BY <4>1 DEF HandlerState
        <5>2. MaxTries \in Nat
          OBVIOUS
        <5> QED BY <5>1, <5>2 DEF LastTry, CountTry
      <4>3. [handler[h] EXCEPT !.pc = "reply"] \in HandlerState
        BY <4>1 DEF HandlerState, Steps
      <4>4. ~LastTry(h) => [handler[h] EXCEPT !.pc = "keys", !.tries = CountTry(h)] \in HandlerState
        BY <4>1, <4>2 DEF HandlerState, Steps
      <4>5. \/ /\ ~LastTry(h)
               /\ handler' = [handler EXCEPT ![h] = [handler[h] EXCEPT !.pc = "keys", !.tries = CountTry(h)]]
            \/ handler' = [handler EXCEPT ![h] = [handler[h] EXCEPT !.pc = "reply"]]
        BY <2>9, <4>1 DEF KeysRaise
      <4> QED BY <4>1, <4>3, <4>4, <4>5
    <3>2. clients' \in [Users -> Clients]
      BY <2>6, <2>9 DEF TypeOK, KeysRaise
    <3> QED BY <2>9, <3>1, <3>2 DEF TypeOK, KeysRaise, envVars
  <2>10. CASE Reply(h)
    <3>1. handler' \in [Handlers -> HandlerState]
      BY <2>10, IdleIsState DEF TypeOK, Reply
    <3> QED BY <2>2, <2>10, <3>1 DEF TypeOK, Reply, storeVars
  <2> QED BY <1>4, <2>3, <2>4, <2>5, <2>7, <2>8, <2>9, <2>10 DEF HandlerStep, KeysStep
<1>5. ASSUME NEW h \in Handlers, Abandon(h) PROVE TypeOK'
  <2>1. handler' \in [Handlers -> HandlerState]
    BY <1>5, IdleIsState DEF TypeOK, Abandon
  <2> QED BY <1>5, <2>1 DEF TypeOK, Abandon, storeVars, envVars
<1>6. CASE UNCHANGED vars
  BY <1>6 DEF TypeOK, vars
<1> QED BY <1>1, <1>2, <1>3, <1>4, <1>5, <1>6 DEF Next

(***************************************************************************)
(* Nothing that was recorded is taken back: ledger rows, apply records and *)
(* payment instants stay.                                                  *)
(***************************************************************************)
LEMMA RecordsStay ==
  ASSUME IInv, [Next]_vars
  PROVE  /\ ledger \subseteq ledger'
         /\ applied \subseteq applied'
         /\ \A p \in Payments : paidAt[p] # Null => paidAt'[p] = paidAt[p]
<1>1. ASSUME NEW h \in Handlers, HandlerStep(h) PROVE ledger \subseteq ledger' /\ applied \subseteq applied' /\ paidAt' = paidAt
  BY <1>1 DEF HandlerStep, KeysStep, Commit, CreditCommissions, KeysLook, KeysCall, KeysClear, KeysRaise,
     Reply, storeVars, envVars
<1>2. ASSUME NEW p \in Payments, PayInvoice(p)
      PROVE  /\ UNCHANGED <<ledger, applied>>
             /\ \A q \in Payments : paidAt[q] # Null => paidAt'[q] = paidAt[q]
  BY <1>2 DEF IInv, TypeOK, PayInvoice, storeVars
<1>3. CASE Tick \/ UNCHANGED vars \/ (\E h \in Handlers : Abandon(h))
           \/ (\E h \in Handlers, p \in Payments : Deliver(h, p))
  BY <1>3 DEF Tick, Deliver, Abandon, vars, storeVars, envVars
<1> QED BY <1>1, <1>2, <1>3 DEF Next

(***************************************************************************)
(* One handler moves at a time, and what its step does to the facts the    *)
(* program counter stands for.                                             *)
(***************************************************************************)
LEMMA HandlerStepKeeps ==
  ASSUME IInv, NEW h \in Handlers, HandlerStep(h)
  PROVE  BusyIsPaid' /\ PastCommit' /\ RewardIsDue' /\ RewardIsExclusive' /\ CommissionAtMostOnce'
         /\ AppliedIsPaid' /\ AckedIsDurable'
<1> USE DEF Pay
<1>1. handler \in [Handlers -> HandlerState] /\ commissions \in [Payments -> Nat]
      /\ applied \subseteq Payments
  BY DEF IInv, TypeOK
<1>2. handler[h].pc # "idle" /\ Pay(h) \in Payments /\ paidAt[Pay(h)] # Null /\ paidAt' = paidAt
  BY DEF IInv, BusyIsPaid, HandlerStep, KeysStep, Commit, CreditCommissions, KeysLook, KeysCall, KeysClear,
     KeysRaise, Reply, envVars
<1>3. /\ \A g \in Handlers \ {h} : handler'[g] = handler[g]
      /\ handler'[h] = Idle \/ handler'[h].pay = handler[h].pay
  BY <1>1 DEF HandlerStep, KeysStep, Commit, CreditCommissions, KeysLook, KeysCall, KeysClear, KeysRaise,
     Reply, HandlerState
<1>4. BusyIsPaid'
  BY <1>2, <1>3 DEF IInv, BusyIsPaid, Idle
<1>5. CASE Commit(h)
  <2>1. /\ ledger' = ledger \cup {Pay(h)} /\ applied' = applied \cup {Pay(h)}
        /\ UNCHANGED <<commissions, acked>>
        /\ handler'[h].pc = IF Pay(h) \notin applied THEN "reward" ELSE "reply"
    BY <1>1, <1>5 DEF Commit, IsNewActive, HandlerState, envVars
  <2>2. PastCommit' /\ AppliedIsPaid' /\ AckedIsDurable' /\ CommissionAtMostOnce'
    BY <1>2, <1>3, <2>1 DEF IInv, PastCommit, AppliedIsPaid, AckedIsDurable,
       CommissionAtMostOnce, Idle
  <2>3. ASSUME Pay(h) \notin applied
        PROVE  /\ commissions[Pay(h)] = 0
               /\ \A g \in Handlers : handler[g].pc = "reward" => Pay(g) # Pay(h)
    BY <1>1, <1>2, <2>3 DEF IInv, CommissionAtMostOnce, PastCommit
  <2>4. RewardIsDue' /\ RewardIsExclusive'
    BY <1>2, <1>3, <2>1, <2>3 DEF IInv, RewardIsDue, RewardIsExclusive, Idle
  <2> QED BY <1>4, <2>2, <2>4
<1>6. CASE CreditCommissions(h)
  <2>1. /\ handler[h].pc = "reward" /\ handler'[h].pc = "keys"
        /\ UNCHANGED <<ledger, applied, acked>>
        /\ \A p \in Payments \ {Pay(h)} : commissions'[p] = commissions[p]
        /\ commissions'[Pay(h)] \in {commissions[Pay(h)], commissions[Pay(h)] + 1}
    BY <1>1, <1>2, <1>6 DEF CreditCommissions, HandlerState, storeVars, envVars
  <2>2. Pay(h) \in (ledger \cap applied) /\ commissions[Pay(h)] = 0
    BY <2>1 DEF IInv, PastCommit, RewardIsDue
  <2>3. PastCommit' /\ AppliedIsPaid' /\ AckedIsDurable'
    BY <1>2, <1>3, <2>1, <2>2 DEF IInv, PastCommit, AppliedIsPaid, AckedIsDurable, Idle
  <2>4. CommissionAtMostOnce'
    BY <2>1, <2>2 DEF IInv, CommissionAtMostOnce
  <2>5. \A g \in Handlers \ {h} : handler[g].pc = "reward" => Pay(g) # Pay(h)
    BY <2>1 DEF IInv, RewardIsExclusive
  <2>6. \A g \in Handlers : handler'[g].pc = "reward" => g # h /\ Pay(g) \in Payments
    BY <1>3, <2>1 DEF IInv, BusyIsPaid
  <2>7. RewardIsDue' /\ RewardIsExclusive'
    BY <1>3, <2>1, <2>5, <2>6 DEF IInv, RewardIsDue, RewardIsExclusive
  <2> QED BY <1>4, <2>3, <2>4, <2>7
<1>7. CASE KeysLook(h) \/ KeysCall(h) \/ KeysClear(h) \/ KeysRaise(h) \/ Reply(h)
  <2>1. /\ handler[h].pc \notin {"idle", "read", "reward"}
        /\ handler'[h].pc # "reward" /\ UNCHANGED <<ledger, applied, commissions>>
        /\ acked' \subseteq acked \cup {Pay(h)}
    BY <1>1, <1>7 DEF KeysLook, KeysCall, KeysClear, KeysRaise, Reply, HandlerState, Idle,
       storeVars, envVars
  <2>2. Pay(h) \in (ledger \cap applied)
    BY <2>1 DEF IInv, PastCommit
  <2>3. PastCommit' /\ AppliedIsPaid' /\ AckedIsDurable' /\ CommissionAtMostOnce'
    BY <1>2, <1>3, <2>1, <2>2 DEF IInv, PastCommit, AppliedIsPaid, AckedIsDurable,
       CommissionAtMostOnce, Idle
  <2>4. RewardIsDue' /\ RewardIsExclusive'
    BY <1>3, <2>1 DEF IInv, RewardIsDue, RewardIsExclusive
  <2> QED BY <1>4, <2>3, <2>4
<1> QED BY <1>5, <1>6, <1>7 DEF HandlerStep, KeysStep

\* Every step keeps the invariant.
LEMMA InvariantStep ==
  ASSUME IInv, [Next]_vars PROVE IInv'
<1> USE DEF Pay
<1>1. TypeOK'
  BY TypeStep DEF IInv
<1>2. ASSUME NEW h \in Handlers, HandlerStep(h) PROVE IInv'
  BY <1>1, <1>2, HandlerStepKeeps DEF IInv
<1>3. CASE \/ Tick \/ UNCHANGED vars
           \/ \E p \in Payments : PayInvoice(p)
           \/ \E h \in Handlers, p \in Payments : Deliver(h, p)
           \/ \E h \in Handlers : Abandon(h)
  <2>1. UNCHANGED <<ledger, applied, commissions, acked>>
    BY <1>3 DEF Tick, PayInvoice, Deliver, Abandon, vars, storeVars, envVars
  <2>2. \A p \in Payments : paidAt[p] # Null => paidAt'[p] = paidAt[p]
    BY RecordsStay
  <2>3. \A h \in Handlers :
          \/ handler'[h] = handler[h]
          \/ handler'[h].pc = "idle"
          \/ handler'[h].pc = "read" /\ handler'[h].pay \in Payments /\ paidAt[handler'[h].pay] # Null
    <3>1. CASE Tick \/ UNCHANGED vars \/ (\E p \in Payments : PayInvoice(p))
      BY <3>1 DEF Tick, PayInvoice, vars
    <3>2. ASSUME NEW h \in Handlers, NEW p \in Payments, Deliver(h, p)
          PROVE  /\ handler'[h].pc = "read" /\ handler'[h].pay = p /\ paidAt[p] # Null
                 /\ \A g \in Handlers \ {h} : handler'[g] = handler[g]
      BY <3>2 DEF IInv, TypeOK, Deliver, Idle
    <3>3. ASSUME NEW h \in Handlers, Abandon(h)
          PROVE  handler'[h].pc = "idle" /\ \A g \in Handlers \ {h} : handler'[g] = handler[g]
      BY <3>3 DEF IInv, TypeOK, Abandon, Idle
    <3> QED BY <1>3, <3>1, <3>2, <3>3
  <2>4. BusyIsPaid' /\ AppliedIsPaid' /\ PastCommit'
    BY <2>1, <2>2, <2>3 DEF IInv, TypeOK, BusyIsPaid, AppliedIsPaid, PastCommit
  <2>5. RewardIsDue' /\ RewardIsExclusive'
    BY <2>1, <2>3 DEF IInv, RewardIsDue, RewardIsExclusive
  <2>6. CommissionAtMostOnce' /\ AckedIsDurable'
    BY <2>1 DEF IInv, CommissionAtMostOnce, AckedIsDurable
  <2> QED BY <1>1, <2>4, <2>5, <2>6 DEF IInv
<1> QED BY <1>2, <1>3 DEF Next
-----------------------------------------------------------------------------
(***************************************************************************)
(* IInv is inductive, so it holds in every reachable state.                *)
(***************************************************************************)
THEOREM Invariance == Spec => []IInv
BY InitEstablishes, InvariantStep, PTL DEF Spec

(***************************************************************************)
(* Every variable keeps its type, in every execution.                      *)
(***************************************************************************)
THEOREM TypeCorrect == Spec => []TypeOK
<1>1. IInv => TypeOK
  BY DEF IInv
<1> QED BY <1>1, Invariance, PTL

(***************************************************************************)
(* A payment's commissions are credited at most once, and only after it    *)
(* was applied, however many notifications arrive, in whatever order the   *)
(* handlers run and wherever they crash.                                   *)
(***************************************************************************)
THEOREM CommissionsOnce == Spec => []CommissionAtMostOnce
<1>1. IInv => CommissionAtMostOnce
  BY DEF IInv
<1> QED BY <1>1, Invariance, PTL

(***************************************************************************)
(* A payment the provider stopped repeating is recorded for good.          *)
(***************************************************************************)
THEOREM AcknowledgedIsRecorded == Spec => []AckedIsDurable
<1>1. IInv => AckedIsDurable
  BY DEF IInv
<1> QED BY <1>1, Invariance, PTL

-----------------------------------------------------------------------------
(***************************************************************************)
(* The subscription covers what was paid for, where no two payments meet:  *)
(* a user has at most one payment.  With two payments of one user the read *)
(* of one may precede the commit of the other, and the later end is lost.  *)
(***************************************************************************)
LEMMA EntitlementStep ==
  ASSUME IInv, AppliedIsEntitled, [Next]_vars,
         \A p, q \in Payments : Payer[p] = Payer[q] => p = q
  PROVE  AppliedIsEntitled'
<1> USE FulfillmentAssumption DEF Pay, User
<1>1. \A p \in applied : p \in Payments /\ paidAt'[p] = paidAt[p]
  BY RecordsStay DEF IInv, TypeOK, AppliedIsPaid
<1>2. ASSUME NEW h \in Handlers, Commit(h) PROVE AppliedIsEntitled'
  <2> DEFINE p == Pay(h)
             end == RenewedUntil(handler[h].seen, paidAt[p], Period[p])
  <2>1. p \in Payments /\ User(h) = Payer[p] /\ User(h) \in Users
    BY <1>2 DEF IInv, BusyIsPaid, Commit
  <2>2. end >= paidAt[p] + Period[p]
    BY <2>1 DEF IInv, TypeOK, HandlerState, RenewedUntil
  <2>3. /\ snap'[Payer[p]].state = "active" /\ snap'[Payer[p]].until = end
        /\ \A u \in Users \ {Payer[p]} : snap'[u] = snap[u]
        /\ applied' = applied \cup {p} /\ paidAt' = paidAt
    BY <1>2, <2>1 DEF IInv, TypeOK, Commit, Activate, UpsertState, Row, envVars
  <2> HIDE DEF end
  <2> QED BY <1>1, <2>1, <2>2, <2>3 DEF AppliedIsEntitled
<1>3. ASSUME NEW h \in Handlers, KeysClear(h) PROVE AppliedIsEntitled'
  <2>1. /\ \A u \in Users : snap'[u].state = snap[u].state /\ snap'[u].until = snap[u].until
        /\ UNCHANGED <<applied, paidAt>>
    BY <1>3 DEF IInv, TypeOK, KeysClear, ClearKeyInstants, Row, envVars
  <2> QED BY <1>1, <2>1 DEF AppliedIsEntitled
<1>4. ASSUME ~\E h \in Handlers : Commit(h) \/ KeysClear(h)
      PROVE  UNCHANGED <<snap, applied>>
  BY <1>4 DEF Next, Tick, PayInvoice, Deliver, HandlerStep, KeysStep, CreditCommissions, KeysLook, KeysCall,
     KeysRaise, Reply, Abandon, storeVars, vars
<1> QED BY <1>1, <1>2, <1>3, <1>4 DEF AppliedIsEntitled

\* Where no user has two payments, every applied payment keeps its whole
\* period: no replay, clock step or clearing of instants shortens the end
\* that was stored.
THEOREM PaidIsEntitled ==
  ASSUME \A p, q \in Payments : Payer[p] = Payer[q] => p = q
  PROVE  Spec => []AppliedIsEntitled
<1>1. Init => AppliedIsEntitled
  BY DEF Init, AppliedIsEntitled
<1>2. IInv /\ AppliedIsEntitled /\ [Next]_vars => AppliedIsEntitled'
  BY EntitlementStep
<1> QED BY <1>1, <1>2, Invariance, PTL DEF Spec
-----------------------------------------------------------------------------
(***************************************************************************)
(* The end of the subscription and the notifications.  Where no user has   *)
(* two payments, the stored end is a whole number of periods past the      *)
(* instant the payment counted from, one for each notification at most,    *)
(* and a handler that has read it is going to write such an end.           *)
(***************************************************************************)
OnePaymentEach == \A p, q \in Payments : Payer[p] = Payer[q] => p = q

AppliedIsAligned ==
  \A p \in applied :
    /\ from[p] >= paidAt[p]
    /\ \E k \in 1 .. deliveries[p] : snap[Payer[p]].until = from[p] + k * Period[p]

ReadIsAligned ==
  \A h \in Handlers : handler[h].pc = "read" =>
    LET p == Pay(h)
        seen == handler[h].seen
    IN  /\ deliveries[p] > 0
        /\ p \notin applied => seen = snap[Payer[p]].until
        /\ p \in applied => \/ RenewedUntil(seen, paidAt[p], 0) = from[p]
                            \/ \E k \in 1 .. deliveries[p] - 1 : seen = from[p] + k * Period[p]

Aligned == now > 0 /\ AppliedIsAligned /\ ReadIsAligned

\* Nothing but a commit touches the end of a subscription or what it counted from.
LEMMA OnlyCommitsMoveEnds ==
  ASSUME IInv, [Next]_vars, ~\E h \in Handlers : Commit(h)
  PROVE  /\ \A u \in Users : snap'[u].until = snap[u].until
         /\ UNCHANGED <<applied, from>>
<1>1. ASSUME NEW h \in Handlers, KeysClear(h)
      PROVE  (\A u \in Users : snap'[u].until = snap[u].until) /\ UNCHANGED <<applied, from>>
  BY <1>1 DEF IInv, TypeOK, KeysClear, ClearKeyInstants, Row
<1>2. ASSUME ~\E h \in Handlers : KeysClear(h)
      PROVE  UNCHANGED <<snap, applied, from>>
  BY <1>2 DEF Next, Tick, PayInvoice, Deliver, HandlerStep, KeysStep, CreditCommissions, KeysLook,
     KeysCall, KeysRaise, Reply, Abandon, storeVars, vars
<1> QED BY <1>1, <1>2

(***************************************************************************)
(* What a commit writes: one period from the start at the first            *)
(* application, and afterwards one period more than the handler had read.  *)
(***************************************************************************)
LEMMA CommitWritesAligned ==
  ASSUME IInv, Aligned, OnePaymentEach, NEW h \in Handlers, Commit(h)
  PROVE  LET p == Pay(h)
         IN  /\ p \in Payments /\ Payer[p] \in Users
             /\ UNCHANGED <<paidAt, deliveries, now>>
             /\ applied' = applied \cup {p}
             /\ from'[p] \in Nat /\ from'[p] >= paidAt[p]
             /\ \A q \in Payments \ {p} : from'[q] = from[q]
             /\ p \in applied => from' = from
             /\ p \notin applied =>
                  from'[p] = RenewedUntil(snap[Payer[p]].until, paidAt[p], 0)
             /\ \E k \in 1 .. deliveries[p] : snap'[Payer[p]].until = from'[p] + k * Period[p]
             /\ p \notin applied => snap'[Payer[p]].until = from'[p] + Period[p]
             /\ \A u \in Users \ {Payer[p]} : snap'[u] = snap[u]
<1> DEFINE p == Pay(h)
           seen == handler[h].seen
<1> USE FulfillmentAssumption
<1>1. p \in Payments /\ User(h) = Payer[p] /\ Payer[p] \in Users /\ Period[p] \in Nat /\ Period[p] > 0
  BY DEF IInv, BusyIsPaid, Commit, User
<1>2. paidAt[p] \in Nat /\ seen \in Nat /\ deliveries[p] \in Nat /\ from[p] \in Nat
  BY <1>1 DEF IInv, TypeOK, HandlerState
<1>3. /\ snap'[Payer[p]].until = RenewedUntil(seen, paidAt[p], Period[p])
      /\ \A u \in Users \ {Payer[p]} : snap'[u] = snap[u]
  BY <1>1 DEF IInv, TypeOK, Commit, Activate, UpsertState, Row
<1>4. UNCHANGED <<paidAt, deliveries, now>> /\ applied' = applied \cup {p}
  BY DEF Commit, envVars
<1>5. /\ \A q \in Payments \ {p} : from'[q] = from[q]
      /\ p \in applied => from' = from
      /\ p \notin applied => from'[p] = RenewedUntil(seen, paidAt[p], 0)
  BY <1>1 DEF IInv, TypeOK, Commit, NoteStart
<1>6. CASE p \notin applied
  <2>1. seen = snap[Payer[p]].until /\ deliveries[p] > 0
    BY <1>6 DEF Aligned, ReadIsAligned, Commit
  <2>2. from'[p] \in Nat /\ from'[p] >= paidAt[p]
        /\ snap'[Payer[p]].until = from'[p] + Period[p]
    BY <1>1, <1>2, <1>3, <1>5, <1>6 DEF RenewedUntil
  <2>3. snap'[Payer[p]].until = from'[p] + 1 * Period[p] /\ 1 \in 1 .. deliveries[p]
    BY <1>1, <1>2, <2>1, <2>2
  <2> QED BY <1>1, <1>3, <1>4, <1>5, <1>6, <2>1, <2>2, <2>3
<1>7. CASE p \in applied
  <2>1. from'[p] = from[p] /\ from[p] >= paidAt[p] /\ deliveries[p] > 0
    BY <1>5, <1>7 DEF Aligned, AppliedIsAligned, ReadIsAligned, Commit
  <2>2. CASE RenewedUntil(seen, paidAt[p], 0) = from[p]
    <3>1. snap'[Payer[p]].until = from[p] + 1 * Period[p] /\ 1 \in 1 .. deliveries[p]
      BY <1>1, <1>2, <1>3, <2>1, <2>2 DEF RenewedUntil
    <3> QED BY <1>1, <1>2, <1>3, <1>4, <1>5, <1>7, <2>1, <3>1
  <2>3. ASSUME NEW k \in 1 .. deliveries[p] - 1, seen = from[p] + k * Period[p]
        PROVE  \E j \in 1 .. deliveries[p] : snap'[Payer[p]].until = from[p] + j * Period[p]
    <3>1. k + 1 \in 1 .. deliveries[p] /\ k \in Nat
      BY <1>2
    <3>2. PICK n \in Nat : n = k * Period[p]
      BY <1>1, <3>1
    <3>3. (k + 1) * Period[p] = n + Period[p]
      BY <1>1, <3>1, <3>2
    <3>4. snap'[Payer[p]].until = from[p] + n + Period[p]
      BY <1>1, <1>2, <1>3, <2>1, <2>3, <3>2 DEF RenewedUntil
    <3>5. snap'[Payer[p]].until = from[p] + (k + 1) * Period[p]
      BY <1>1, <1>2, <3>2, <3>3, <3>4
    <3> QED BY <3>1, <3>5
  <2>4. \/ RenewedUntil(seen, paidAt[p], 0) = from[p]
        \/ \E k \in 1 .. deliveries[p] - 1 : seen = from[p] + k * Period[p]
    BY <1>7 DEF Aligned, ReadIsAligned, Commit
  <2> QED BY <1>1, <1>2, <1>3, <1>4, <1>5, <1>7, <2>1, <2>2, <2>3, <2>4
<1> QED BY <1>6, <1>7

\* Every step keeps ends and reads aligned.
LEMMA AlignedStep ==
  ASSUME IInv, Aligned, OnePaymentEach, [Next]_vars PROVE Aligned'
<1> USE FulfillmentAssumption
<1>1. now' > 0
  <2>1. CASE Tick
    BY <2>1 DEF IInv, TypeOK, Aligned, Tick
  <2>2. CASE ~Tick
    <3>1. UNCHANGED now
      BY <2>2 DEF Next, PayInvoice, Deliver, HandlerStep, KeysStep, Commit, CreditCommissions, KeysLook,
         KeysCall, KeysClear, KeysRaise, Reply, Abandon, envVars, vars
    <3> QED BY <3>1 DEF Aligned
  <2> QED BY <2>1, <2>2
<1>2. /\ \A p \in applied : p \in Payments /\ Payer[p] \in Users /\ paidAt'[p] = paidAt[p]
      /\ \A h \in Handlers : handler[h].pc = "read" =>
            Pay(h) \in Payments /\ Payer[Pay(h)] \in Users /\ paidAt'[Pay(h)] = paidAt[Pay(h)]
  BY RecordsStay DEF IInv, TypeOK, AppliedIsPaid, BusyIsPaid
<1>3. /\ deliveries \in [Payments -> Nat] /\ from \in [Payments -> Nat] /\ paidAt \in [Payments -> Nat]
      /\ Period \in [Payments -> Nat \ {0}]
  BY DEF IInv, TypeOK
<1>4. ASSUME NEW h \in Handlers, Commit(h) PROVE AppliedIsAligned' /\ ReadIsAligned'
  <2> DEFINE p == Pay(h)
  <2>1. /\ p \in Payments /\ Payer[p] \in Users
        /\ UNCHANGED <<paidAt, deliveries, now>>
        /\ applied' = applied \cup {p}
        /\ from'[p] \in Nat /\ from'[p] >= paidAt[p]
        /\ \A q \in Payments \ {p} : from'[q] = from[q]
        /\ p \in applied => from' = from
        /\ p \notin applied => from'[p] = RenewedUntil(snap[Payer[p]].until, paidAt[p], 0)
        /\ \E k \in 1 .. deliveries[p] : snap'[Payer[p]].until = from'[p] + k * Period[p]
        /\ \A u \in Users \ {Payer[p]} : snap'[u] = snap[u]
    BY <1>4, CommitWritesAligned
  <2>2. \A q \in Payments \ {p} : Payer[q] \in Users \ {Payer[p]} /\ snap'[Payer[q]] = snap[Payer[q]]
    BY <2>1 DEF OnePaymentEach
  <2>3. AppliedIsAligned'
    BY <1>2, <2>1, <2>2 DEF Aligned, AppliedIsAligned
  <2>4. ASSUME NEW g \in Handlers, handler'[g].pc = "read"
        PROVE  /\ handler'[g] = handler[g] /\ handler[g].pc = "read"
               /\ Pay(g) \in Payments /\ Pay(g)' = Pay(g)
    BY <1>2, <1>4, <2>4 DEF IInv, TypeOK, HandlerState, Commit, Pay
  <2>5. ASSUME NEW g \in Handlers, handler'[g].pc = "read", Pay(g) = p
        PROVE  /\ deliveries'[p] > 0 /\ p \in applied'
               /\ \/ RenewedUntil(handler'[g].seen, paidAt'[p], 0) = from'[p]
                  \/ \E k \in 1 .. deliveries'[p] - 1 : handler'[g].seen = from'[p] + k * Period[p]
    BY <2>1, <2>4, <2>5 DEF Aligned, ReadIsAligned
  <2>6. ASSUME NEW g \in Handlers, handler'[g].pc = "read", Pay(g) # p
        PROVE  LET q == Pay(g)
                   seen == handler'[g].seen
               IN  /\ deliveries'[q] > 0
                   /\ q \notin applied' => seen = snap'[Payer[q]].until
                   /\ q \in applied' => \/ RenewedUntil(seen, paidAt'[q], 0) = from'[q]
                                        \/ \E k \in 1 .. deliveries'[q] - 1 : seen = from'[q] + k * Period[q]
    <3> DEFINE q == Pay(g)
    <3>1. /\ q \in Payments \ {p} /\ handler'[g] = handler[g] /\ handler[g].pc = "read"
          /\ snap'[Payer[q]] = snap[Payer[q]] /\ from'[q] = from[q]
          /\ (q \in applied' <=> q \in applied)
      BY <2>1, <2>2, <2>4, <2>6
    <3>2. UNCHANGED <<paidAt, deliveries>>
      BY <2>1
    <3> QED BY <3>1, <3>2 DEF Aligned, ReadIsAligned
  <2>7. ReadIsAligned'
    <3> SUFFICES ASSUME NEW g \in Handlers, handler'[g].pc = "read"
                 PROVE  LET q == Pay(g)
                            seen == handler'[g].seen
                        IN  /\ deliveries'[q] > 0
                            /\ q \notin applied' => seen = snap'[Payer[q]].until
                            /\ q \in applied' =>
                                 \/ RenewedUntil(seen, paidAt'[q], 0) = from'[q]
                                 \/ \E k \in 1 .. deliveries'[q] - 1 : seen = from'[q] + k * Period[q]
      BY <2>4 DEF ReadIsAligned
    <3> QED BY <2>5, <2>6
  <2> QED BY <2>3, <2>7
<1>5. ASSUME ~\E h \in Handlers : Commit(h) PROVE AppliedIsAligned' /\ ReadIsAligned'
  <2>1. (\A u \in Users : snap'[u].until = snap[u].until) /\ UNCHANGED <<applied, from>>
    BY <1>5, OnlyCommitsMoveEnds
  <2>2. \A p \in Payments : deliveries'[p] \in Nat /\ deliveries'[p] >= deliveries[p]
    <3>1. ASSUME NEW h \in Handlers, NEW q \in Payments, Deliver(h, q)
          PROVE  \A p \in Payments : deliveries'[p] \in Nat /\ deliveries'[p] >= deliveries[p]
      BY <1>3, <3>1 DEF Deliver
    <3>2. ASSUME ~\E h \in Handlers, q \in Payments : Deliver(h, q) PROVE UNCHANGED deliveries
      BY <1>5, <3>2 DEF Next, Tick, PayInvoice, HandlerStep, KeysStep, CreditCommissions, KeysLook,
         KeysCall, KeysClear, KeysRaise, Reply, Abandon, envVars, vars
    <3> QED BY <1>3, <3>1, <3>2
  <2>3. AppliedIsAligned'
    <3> SUFFICES ASSUME NEW p \in applied
                 PROVE  /\ from[p] >= paidAt'[p]
                        /\ \E k \in 1 .. deliveries'[p] : snap'[Payer[p]].until = from[p] + k * Period[p]
      BY <2>1 DEF AppliedIsAligned
    <3>1. PICK k \in 1 .. deliveries[p] : snap[Payer[p]].until = from[p] + k * Period[p]
      BY DEF Aligned, AppliedIsAligned
    <3>2. p \in Payments /\ deliveries[p] \in Nat
      BY <1>2, <1>3
    <3>3. k \in 1 .. deliveries'[p]
      BY <2>2, <3>1, <3>2
    <3> QED BY <1>2, <2>1, <3>1, <3>3 DEF Aligned, AppliedIsAligned
  <2>4. ASSUME NEW g \in Handlers, handler'[g].pc = "read", ~\E p \in Payments : Deliver(g, p)
        PROVE  handler'[g] = handler[g]
    <3>1. CASE Tick \/ UNCHANGED vars \/ \E p \in Payments : PayInvoice(p)
      BY <3>1 DEF Tick, PayInvoice, vars
    <3>2. ASSUME NEW h \in Handlers, NEW p \in Payments, Deliver(h, p) PROVE handler'[g] = handler[g]
      BY <2>4, <3>2 DEF IInv, TypeOK, Deliver
    <3>3. ASSUME NEW h \in Handlers, HandlerStep(h) \/ Abandon(h) PROVE handler'[g] = handler[g]
      BY <1>5, <2>4, <3>3 DEF IInv, TypeOK, HandlerState, HandlerStep, KeysStep, CreditCommissions, KeysLook,
         KeysCall, KeysClear, KeysRaise, Reply, Abandon, Idle
    <3> QED BY <3>1, <3>2, <3>3 DEF Next
  <2>5. ASSUME NEW g \in Handlers, NEW p \in Payments, Deliver(g, p)
        PROVE  /\ handler'[g].pay = p /\ handler'[g].seen = snap[Payer[p]].until
               /\ deliveries'[p] = deliveries[p] + 1 /\ Payer[p] \in Users /\ paidAt' = paidAt
    BY <1>3, <2>5 DEF IInv, TypeOK, Deliver, Idle
  <2>6. ReadIsAligned'
    <3> SUFFICES ASSUME NEW g \in Handlers, handler'[g].pc = "read"
                 PROVE  LET p == handler'[g].pay
                            seen == handler'[g].seen
                        IN  /\ deliveries'[p] > 0
                            /\ p \notin applied => seen = snap'[Payer[p]].until
                            /\ p \in applied =>
                                 \/ RenewedUntil(seen, paidAt'[p], 0) = from[p]
                                 \/ \E k \in 1 .. deliveries'[p] - 1 : seen = from[p] + k * Period[p]
      BY <2>1 DEF ReadIsAligned, Pay
    <3>1. ASSUME NEW p \in Payments, Deliver(g, p)
          PROVE  /\ deliveries'[p] > 0
                 /\ p \notin applied => handler'[g].seen = snap'[Payer[p]].until
                 /\ p \in applied =>
                      \E k \in 1 .. deliveries'[p] - 1 : handler'[g].seen = from[p] + k * Period[p]
      <4>1. deliveries'[p] - 1 = deliveries[p] /\ deliveries'[p] > 0
        BY <1>3, <2>5, <3>1
      <4> QED BY <2>1, <2>5, <3>1, <4>1 DEF Aligned, AppliedIsAligned
    <3>2. CASE ~\E p \in Payments : Deliver(g, p)
      <4> DEFINE p == handler[g].pay
      <4>1. handler'[g] = handler[g] /\ handler[g].pc = "read" /\ p \in Payments
            /\ Payer[p] \in Users /\ paidAt'[p] = paidAt[p]
        BY <1>2, <2>4, <3>2 DEF Pay
      <4>2. deliveries[p] \in Nat /\ deliveries[p] > 0 /\ deliveries'[p] \in Nat /\ deliveries'[p] >= deliveries[p]
        BY <1>3, <2>2, <4>1 DEF Aligned, ReadIsAligned, Pay
      <4>3. \A k \in 1 .. deliveries[p] - 1 : k \in 1 .. deliveries'[p] - 1
        BY <4>2
      <4> QED BY <2>1, <4>1, <4>2, <4>3 DEF Aligned, ReadIsAligned, Pay
    <3> QED BY <2>5, <3>1, <3>2
  <2> QED BY <2>3, <2>6
<1> QED BY <1>1, <1>4, <1>5 DEF Aligned

(***************************************************************************)
(* Where no user has two payments, the card path implements ApplyOnce but  *)
(* for its replays: every step is a Pay, a Notify, an Apply, a Credit, an  *)
(* Acknowledge or a Replay, or leaves the abstract state alone.  However   *)
(* stale the reads are, a notification is never worth more than a period   *)
(* and the first period stays.  The promise without Replay is not kept: a  *)
(* repeated notification extends again.  Nor is this with two payments.    *)
(***************************************************************************)
THEOREM CardPathKeepsPromise ==
  ASSUME OnePaymentEach PROVE Spec => PromiseButForReplays
<1> USE FulfillmentAssumption
<1> DEFINE until == [u \in Users |-> snap[u].until]
           abstract == <<paidAt, deliveries, until, from, applied, commissions, acked>>
           Step == \E p \in Payments : Promise!Step(p) \/ Promise!Replay(p)
<1>1. Init => Promise!Init /\ Aligned
  <2> SUFFICES ASSUME Init PROVE Promise!Init /\ Aligned
    OBVIOUS
  <2>1. TypeOK
    BY InitEstablishes DEF IInv
  <2>2. until \in [Users -> Nat]
    BY <2>1 DEF TypeOK, Row
  <2>3. Promise!Init
    BY <2>2 DEF Init, Promise!Init, Null
  <2>4. \A h \in Handlers : handler[h].pc = "idle"
    BY DEF Init, Idle
  <2> QED BY <2>3, <2>4 DEF Init, Aligned, AppliedIsAligned, ReadIsAligned
<1>2. ASSUME IInv, Aligned, [Next]_vars PROVE [Step]_abstract
  <2>1. ASSUME NEW p \in Payments, PayInvoice(p) PROVE Promise!Pay(p)
    <3>1. paidAt' = [paidAt EXCEPT ![p] = now] /\ now \in Nat /\ now # 0 /\ paidAt[p] = 0
      BY <1>2, <2>1 DEF IInv, TypeOK, Aligned, PayInvoice, Null
    <3>2. paidAt'[p] = now
      BY <1>2, <3>1 DEF IInv, TypeOK
    <3>3. UNCHANGED <<deliveries, until, from, applied, commissions, acked>>
      BY <2>1 DEF PayInvoice, storeVars
    <3> QED BY <3>1, <3>2, <3>3 DEF Promise!Pay
  <2>2. ASSUME NEW h \in Handlers, NEW p \in Payments, Deliver(h, p) PROVE Promise!Notify(p)
    BY <2>2 DEF Deliver, storeVars, Promise!Notify, Null
  <2>3. ASSUME NEW h \in Handlers, Commit(h) PROVE Step
    <3>0. PICK p \in Payments : p = Pay(h)
      BY <1>2, <2>3 DEF IInv, BusyIsPaid, Commit
    <3>1. /\ p \in Payments /\ Payer[p] \in Users
          /\ UNCHANGED <<paidAt, deliveries, now>>
          /\ applied' = applied \cup {p}
          /\ \A q \in Payments \ {p} : from'[q] = from[q]
          /\ p \in applied => from' = from
          /\ p \notin applied => from'[p] = RenewedUntil(snap[Payer[p]].until, paidAt[p], 0)
          /\ \E k \in 1 .. deliveries[p] : snap'[Payer[p]].until = from'[p] + k * Period[p]
          /\ p \notin applied => snap'[Payer[p]].until = from'[p] + Period[p]
          /\ \A u \in Users \ {Payer[p]} : snap'[u] = snap[u]
      BY <1>2, <2>3, <3>0, CommitWritesAligned
    <3>2. UNCHANGED <<commissions, acked>>
      BY <2>3 DEF Commit, envVars
    <3>3. until' = [until EXCEPT ![Payer[p]] = snap'[Payer[p]].until]
      BY <1>2, <3>1 DEF IInv, TypeOK
    <3>4. deliveries[p] > 0 /\ snap[Payer[p]].until \in Nat /\ paidAt[p] \in Nat
      BY <1>2, <2>3, <3>0, <3>1 DEF Aligned, ReadIsAligned, Commit, IInv, TypeOK, Row
    <3>5. CASE p \notin applied
      <4>1. from'[p] = Promise!Later(until[Payer[p]], paidAt[p])
        BY <3>1, <3>4, <3>5 DEF RenewedUntil, Promise!Later
      <4>2. from' = [from EXCEPT ![p] = Promise!Later(until[Payer[p]], paidAt[p])]
        <5>1. from' \in [Payments -> Nat] /\ from \in [Payments -> Nat]
          BY <1>2, InvariantStep DEF IInv, TypeOK
        <5> QED BY <3>1, <4>1, <5>1
      <4>3. Promise!Apply(p)
        <5>1. until' = [until EXCEPT ![Payer[p]] = Promise!Later(until[Payer[p]], paidAt[p]) + Period[p]]
          BY <3>1, <3>3, <3>5, <4>1
        <5>2. applied' = applied \cup {p} /\ UNCHANGED <<paidAt, deliveries, commissions, acked>>
          BY <3>1, <3>2
        <5> QED BY <3>4, <3>5, <4>2, <5>1, <5>2 DEF Promise!Apply
      <4>4. Promise!Step(p)
        BY <4>3 DEF Promise!Step
      <4> QED BY <4>4
    <3>6. CASE p \in applied
      <4>1. applied' = applied /\ from' = from
        BY <3>1, <3>6
      <4>2. Promise!Replay(p)
        <5>1. PICK k \in 1 .. deliveries[p] : snap'[Payer[p]].until = from[p] + k * Period[p]
          BY <3>1, <4>1
        <5>2. until' = [until EXCEPT ![Payer[p]] = from[p] + k * Period[p]]
          BY <3>3, <5>1
        <5>3. UNCHANGED <<paidAt, deliveries, from, applied, commissions, acked>>
          BY <3>1, <3>2, <4>1
        <5> QED BY <3>6, <5>2, <5>3 DEF Promise!Replay
      <4> QED BY <4>2
    <3> QED BY <3>5, <3>6
  <2>4. ASSUME NEW h \in Handlers, CreditCommissions(h) \/ Reply(h) PROVE Step \/ UNCHANGED abstract
    <3> DEFINE p == Pay(h)
    <3>1. p \in Payments /\ p \in applied
      BY <1>2, <2>4 DEF IInv, BusyIsPaid, PastCommit, CreditCommissions, Reply
    <3>2. CASE CreditCommissions(h)
      <4>1. commissions[p] = 0
        BY <1>2, <3>2 DEF IInv, RewardIsDue, CreditCommissions
      <4>2. Promise!Credit(p) \/ UNCHANGED abstract
        BY <3>1, <3>2, <4>1 DEF CreditCommissions, storeVars, envVars, Promise!Credit
      <4> QED BY <3>1, <4>2 DEF Promise!Step
    <3>3. CASE Reply(h)
      <4>1. Promise!Acknowledge(p)
        BY <3>1, <3>3 DEF Reply, storeVars, Promise!Acknowledge
      <4> QED BY <3>1, <4>1 DEF Promise!Step
    <3> QED BY <2>4, <3>2, <3>3
  <2>5. ASSUME NEW h \in Handlers, KeysStep(h) PROVE UNCHANGED abstract
    <3>1. UNCHANGED <<applied, from>> /\ \A u \in Users : snap'[u].until = snap[u].until
      <4>1. CASE KeysClear(h)
        BY <1>2, <4>1 DEF IInv, TypeOK, KeysClear, ClearKeyInstants, Row
      <4>2. CASE KeysLook(h) \/ KeysCall(h) \/ KeysRaise(h)
        BY <4>2 DEF KeysLook, KeysCall, KeysRaise, storeVars
      <4> QED BY <2>5, <4>1, <4>2 DEF KeysStep
    <3>2. UNCHANGED <<paidAt, deliveries, commissions, acked>>
      BY <2>5 DEF KeysStep, KeysLook, KeysCall, KeysClear, KeysRaise, envVars
    <3> QED BY <3>1, <3>2
  <2>6. CASE Tick \/ UNCHANGED vars \/ \E h \in Handlers : Abandon(h)
    BY <2>6 DEF Tick, Abandon, vars, storeVars, envVars
  <2> QED BY <1>2, <2>1, <2>2, <2>3, <2>4, <2>5, <2>6 DEF Next, HandlerStep, Promise!Step
<1>3. IInv /\ Aligned /\ [Next]_vars => Aligned'
  BY AlignedStep
<1> QED BY <1>1, <1>2, <1>3, Invariance, PTL DEF Spec, PromiseButForReplays, Promise!SpecWithReplays,
        Promise!vars
==============================================================================
