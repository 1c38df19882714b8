------------------------ MODULE BalancePaymentProofs ------------------------
(***************************************************************************)
(* What BalancePayment guarantees for any number of users, requests and    *)
(* workers, for every price, and with every fault.                         *)
(***************************************************************************)
EXTENDS BalancePayment, FiniteSetTheorems, TLAPS

(***************************************************************************)
(* The invariant.  A worker in its transaction holds the user's lock, has  *)
(* found no debit row and enough money; after the commit it is the only    *)
(* owner of the request until it is completed or compensated; a settled    *)
(* request (answered "completed", or rewarded) has a debit row and no      *)
(* owner who could still take it back.                                     *)
(***************************************************************************)
Owning == {"vless", "clear", "compensate", "reward"}

BusyHasRequest ==
  \A w \in Workers :
    /\ worker[w].pc # "idle" => Req(w) \in Requests
    /\ worker[w].pc = "reply" => worker[w].status \in Statuses

TransactionIsFunded ==
  \A w \in Workers : worker[w].pc = "inTx" =>
    /\ charge[Req(w)] = 0
    /\ worker[w].cost \in Nat \ {0}
    /\ worker[w].cost <= balance[User(w)]

LockIsExclusive ==
  \A v, w \in Workers :
    worker[v].pc = "inTx" /\ worker[w].pc = "inTx" /\ User(v) = User(w) => v = w

OwnerIsCharged == \A w \in Workers : worker[w].pc \in Owning => charge[Req(w)] # 0

OwnerIsUnique ==
  \A v, w \in Workers :
    worker[v].pc \in Owning /\ worker[w].pc \in Owning /\ Req(v) = Req(w) => v = w

Settled(r) ==
  \/ r \in rewards
  \/ <<r, "completed">> \in answers
  \/ \E w \in Workers : worker[w].status = "completed" /\ worker[w].pc = "reply" /\ Req(w) = r

SettledStands ==
  \A r \in Requests : Settled(r) =>
    /\ charge[r] # 0
    /\ \A w \in Workers : worker[w].pc \in Owning => Req(w) # r

Ownership == OwnerIsCharged /\ OwnerIsUnique /\ SettledStands

IInv ==
  /\ TypeOK
  /\ BusyHasRequest
  /\ TransactionIsFunded
  /\ LockIsExclusive
  /\ Ownership

\* The upsert writes a well-formed row.
LEMMA UpsertStateIsRow ==
  ASSUME NEW row \in Row, NEW state \in StateLabels, NEW until \in Nat,
         NEW plan \in BOOLEAN, NEW devices \in Nat, NEW trialEnd \in Nat
  PROVE  UpsertState(row, state, until, plan, devices, trialEnd) \in Row
BY DefaultDevicesAssumption DEF UpsertState, OrDefault, Row

\* Clearing the key instants leaves a well-formed row.
LEMMA ClearKeyInstantsIsRow ==
  ASSUME NEW row \in Row PROVE ClearKeyInstants(row) \in Row
BY DEF ClearKeyInstants, Row, Null

\* The row of a user without a subscription is well formed.
LEMMA NoRowIsRow == NoRow \in Row
BY DEF NoRow, Row, StateLabels, Null

\* An idle worker is well formed.
LEMMA IdleIsState == Idle \in WorkerState
<1>1. 0 \in 0 .. VlessTries - 1
  BY BalanceAssumption
<1> QED BY <1>1, NoRowIsRow DEF Idle, WorkerState, Null

\* The invariant holds at the beginning.
LEMMA InitEstablishes == Init => IInv
<1> SUFFICES ASSUME Init PROVE IInv
  OBVIOUS
<1>1. TypeOK
  <2>1. snap \in [Users -> Row]
    BY BalanceAssumption DEF Init
  <2>2. NoCard \in CardState /\ PaidByCard \in CardState
    BY DEF NoCard, PaidByCard, CardState, Null
  <2>3. /\ now \in Nat /\ submits \in [Requests -> Nat]
        /\ card \in [Users -> CardState]
    BY <2>2, BalanceAssumption DEF Init
  <2> QED BY <2>1, <2>3, IdleIsState, BalanceAssumption DEF Init, TypeOK
<1>2. \A w \in Workers : worker[w].pc = "idle"
  BY DEF Init, Idle
<1> QED
  BY <1>1, <1>2 DEF Init, IInv, BusyHasRequest, TransactionIsFunded, LockIsExclusive, Ownership,
     OwnerIsCharged, OwnerIsUnique, SettledStands, Settled, Owning

\* What an admissible request costs is positive.
LEMMA CostIsPositive ==
  ASSUME TypeOK, NEW r \in Requests, Active(r), Higher(r)
  PROVE  Cost(r) \in Nat \ {0}
<1>1. CASE Kind[r] = "plan"
  BY <1>1, BalanceAssumption DEF Cost
<1>2. CASE Kind[r] # "plan"
  <2> DEFINE extra == Count[r] - CurrentDevices(snap[Buyer[r]])
  <2>1. Kind[r] = "device"
    BY <1>2, BalanceAssumption
  <2>2. CurrentDevices(snap[Buyer[r]]) \in Nat
    BY BalanceAssumption, DefaultDevicesAssumption DEF TypeOK, CurrentDevices, OrDefault, Row
  <2>3. extra \in Nat \ {0}
    BY <2>1, <2>2, BalanceAssumption DEF Higher
  <2>4. Price[r] \in Nat \ {0}
    BY BalanceAssumption
  <2>5. ASSUME NEW a \in Nat \ {0}, NEW b \in Nat \ {0} PROVE a * b \in Nat \ {0}
    BY <2>5
  <2> HIDE DEF extra
  <2>6. Price[r] * extra \in Nat \ {0}
    BY <2>3, <2>4, <2>5
  <2> QED BY <1>2, <2>6 DEF Cost, extra
<1> QED BY <1>1, <1>2

\* What a purchase writes back is a well-formed row.
LEMMA WrittenRowIsRow ==
  ASSUME TypeOK, NEW w \in Workers, Req(w) \in Requests
  PROVE  WrittenRow(w) \in Row
<1> USE BalanceAssumption
<1>1. worker[w] \in WorkerState /\ snap[User(w)] \in Row /\ Count[Req(w)] \in Nat
      /\ Period[Req(w)] \in Nat
  BY DEF TypeOK, User
<1>2. worker[w].seen \in Row /\ worker[w].at \in Nat
  BY <1>1 DEF WorkerState
<1>3. worker[w].seen.until \in Nat /\ worker[w].seen.state \in StateLabels
      /\ worker[w].seen.plan \in BOOLEAN
  BY <1>2 DEF Row
<1>4. RenewedUntil(worker[w].seen.until, worker[w].at, Period[Req(w)]) \in Nat
  BY <1>1, <1>2, <1>3 DEF RenewedUntil
<1>5. Null \in Nat /\ "active" \in StateLabels
  BY DEF Null, StateLabels
<1>6. UpsertState(snap[User(w)], "active",
                  RenewedUntil(worker[w].seen.until, worker[w].at, Period[Req(w)]),
                  TRUE, Count[Req(w)], Null) \in Row
  BY <1>1, <1>4, <1>5, UpsertStateIsRow
<1>7. UpsertState(snap[User(w)], worker[w].seen.state, worker[w].seen.until,
                  worker[w].seen.plan, Count[Req(w)], Null) \in Row
  BY <1>1, <1>3, <1>5, UpsertStateIsRow
<1> QED BY <1>6, <1>7 DEF WrittenRow

\* What the compensation writes back is a well-formed row.
LEMMA RevertedRowIsRow ==
  ASSUME TypeOK, NEW w \in Workers, Req(w) \in Requests
  PROVE  RevertedRow(w) \in Row
<1>1. worker[w] \in WorkerState /\ snap[User(w)] \in Row
  BY BalanceAssumption DEF TypeOK, User
<1>2. worker[w].pre \in Row
  BY <1>1 DEF WorkerState
<1>3. CASE worker[w].pre = NoRow
  BY <1>1, <1>3 DEF RevertedRow, Row, StateLabels, Null
<1>4. CASE worker[w].pre # NoRow
  <2> DEFINE pre == worker[w].pre
  <2>1. pre.state \in StateLabels /\ pre.until \in Nat /\ pre.plan \in BOOLEAN
        /\ pre.devices \in Nat /\ pre.trialEnd \in Nat
    BY <1>2 DEF Row
  <2>2. UpsertState(snap[User(w)], pre.state, pre.until, pre.plan, pre.devices, pre.trialEnd) \in Row
    BY <1>1, <2>1, UpsertStateIsRow
  <2> QED BY <1>4, <2>2 DEF RevertedRow
<1> QED BY <1>3, <1>4
\* What Finish and Goto do to the workers.
LEMMA FinishKeeps ==
  ASSUME worker \in [Workers -> WorkerState], NEW w \in Workers, NEW status \in Statuses,
         Finish(w, status)
  PROVE  /\ worker' \in [Workers -> WorkerState]
         /\ worker'[w].pc = "reply" /\ worker'[w].status = status
         /\ worker'[w].req = worker[w].req
         /\ \A v \in Workers \ {w} : worker'[v] = worker[v]
<1>1. worker[w] \in WorkerState
  OBVIOUS
<1>2. [worker[w] EXCEPT !.pc = "reply", !.status = status] \in WorkerState
  BY <1>1 DEF WorkerState
<1>3. worker' = [worker EXCEPT ![w] = [worker[w] EXCEPT !.pc = "reply", !.status = status]]
  BY DEF Finish
<1> QED BY <1>1, <1>2, <1>3 DEF WorkerState

\* Goto keeps the types and changes one worker's step only.
LEMMA GotoKeeps ==
  ASSUME worker \in [Workers -> WorkerState], NEW w \in Workers,
         NEW pc \in {"vless", "clear", "reward"}, Goto(w, pc)
  PROVE  /\ worker' \in [Workers -> WorkerState]
         /\ worker'[w].pc = pc /\ worker'[w].req = worker[w].req
         /\ \A v \in Workers \ {w} : worker'[v] = worker[v]
<1>1. worker[w] \in WorkerState
  OBVIOUS
<1>2. [worker[w] EXCEPT !.pc = pc] \in WorkerState
  BY <1>1 DEF WorkerState
<1>3. worker' = [worker EXCEPT ![w] = [worker[w] EXCEPT !.pc = pc]]
  BY DEF Goto
<1> QED BY <1>1, <1>2, <1>3 DEF WorkerState
-----------------------------------------------------------------------------
(* The steps of a worker, one lemma per action that writes the store.      *)

\* Lock, duplicate check and debit keep the invariant.
LEMMA BeginStep ==
  ASSUME IInv, NEW w \in Workers, Begin(w) PROVE IInv'
<1> USE DEF Req, User
<1> DEFINE r == Req(w)
<1>1. /\ worker \in [Workers -> WorkerState] /\ worker[w].pc = "begin" /\ r \in Requests
      /\ UNCHANGED <<now, snap, balance, charge, refunds, rewards, answers, submits, card, raced>>
  BY DEF IInv, TypeOK, BusyHasRequest, Begin, envVars
<1>2. CASE \E status \in Statuses : Finish(w, status) /\ status # "completed"
  <2>1. PICK status \in Statuses \ {"completed"} : Finish(w, status)
    BY <1>2
  <2>2. worker' \in [Workers -> WorkerState] /\ worker'[w].pc = "reply"
        /\ worker'[w].req = worker[w].req /\ worker'[w].status \in Statuses \ {"completed"}
        /\ \A v \in Workers \ {w} : worker'[v] = worker[v]
    BY <1>1, <2>1, FinishKeeps
  <2>3. TypeOK' /\ BusyHasRequest' /\ TransactionIsFunded' /\ LockIsExclusive'
    BY <1>1, <2>2 DEF IInv, TypeOK, BusyHasRequest, TransactionIsFunded, LockIsExclusive
  <2>4. Ownership'
    BY <1>1, <2>2 DEF IInv, Ownership, OwnerIsCharged, OwnerIsUnique, SettledStands, Settled, Owning
  <2> QED BY <2>3, <2>4 DEF IInv
<1>3. CASE /\ ~LockHeld(w) /\ ~Duplicate(r) /\ Active(r) /\ Higher(r) /\ Affordable(r)
           /\ worker' = [worker EXCEPT ![w].pc = "inTx", ![w].seen = snap[User(w)],
                                       ![w].cost = Cost(r)]
  <2>1. Cost(r) \in Nat \ {0} /\ Cost(r) <= balance[User(w)] /\ charge[r] = 0
    BY <1>1, <1>3, CostIsPositive, BalanceAssumption DEF IInv, TypeOK, Affordable, Duplicate
  <2>2. snap[User(w)] \in Row
    BY <1>1, BalanceAssumption DEF IInv, TypeOK
  <2>3. worker' \in [Workers -> WorkerState] /\ worker'[w].pc = "inTx"
        /\ worker'[w].req = worker[w].req /\ worker'[w].cost = Cost(r)
        /\ \A v \in Workers \ {w} : worker'[v] = worker[v]
    <3> DEFINE new == [worker[w] EXCEPT !.pc = "inTx", !.seen = snap[User(w)], !.cost = Cost(r)]
    <3>1. worker[w] \in WorkerState
      BY <1>1
    <3>2. new \in WorkerState /\ new.pc = "inTx" /\ new.req = worker[w].req /\ new.cost = Cost(r)
      BY <2>1, <2>2, <3>1 DEF WorkerState
    <3>3. worker' = [worker EXCEPT ![w] = new]
      BY <1>1, <1>3
    <3> HIDE DEF new
    <3> QED BY <1>1, <3>2, <3>3
  <2>4. TypeOK' /\ BusyHasRequest'
    BY <1>1, <2>3 DEF IInv, TypeOK, BusyHasRequest
  <2>5. TransactionIsFunded'
    BY <1>1, <2>1, <2>3 DEF IInv, TransactionIsFunded
  <2>6. LockIsExclusive'
    <3>1. \A v \in Workers \ {w} : worker[v].pc = "inTx" => User(v) # User(w)
      BY <1>3 DEF LockHeld
    <3>2. \A v \in Workers : User(v)' = User(v)
      BY <1>1, <2>3
    <3>3. \A v \in Workers \ {w} : worker'[v].pc = "inTx" => User(v)' # User(w)'
      BY <1>1, <2>3, <3>1, <3>2
    <3>4. ASSUME NEW v \in Workers \ {w}, NEW x \in Workers \ {w},
                 worker'[v].pc = "inTx", worker'[x].pc = "inTx", User(v)' = User(x)'
          PROVE  v = x
      BY <2>3, <3>2, <3>4 DEF IInv, LockIsExclusive
    <3> QED BY <3>3, <3>4 DEF LockIsExclusive
  <2>7. Ownership'
    BY <1>1, <2>3 DEF IInv, Ownership, OwnerIsCharged, OwnerIsUnique, SettledStands, Settled, Owning
  <2> QED BY <2>4, <2>5, <2>6, <2>7 DEF IInv
<1> QED BY <1>2, <1>3 DEF Begin, Refused, Statuses

\* The write-back and the commit keep the invariant.
LEMMA CommitStep ==
  ASSUME IInv, NEW w \in Workers, Commit(w) PROVE IInv'
<1> USE DEF Req, User
<1> DEFINE r == Req(w)
           u == User(w)
<1>1. /\ worker \in [Workers -> WorkerState] /\ worker[w].pc = "inTx" /\ r \in Requests
      /\ u \in Users
      /\ UNCHANGED <<now, refunds, rewards, answers, submits, card, raced>>
  BY BalanceAssumption DEF IInv, TypeOK, BusyHasRequest, Commit, envVars
<1>2. charge[r] = 0 /\ worker[w].cost \in Nat \ {0} /\ worker[w].cost <= balance[u]
  BY <1>1 DEF IInv, TransactionIsFunded
<1>3. /\ charge' = [charge EXCEPT ![r] = worker[w].cost]
      /\ balance' = [balance EXCEPT ![u] = @ - worker[w].cost]
  BY DEF Commit
<1>4. /\ worker' \in [Workers -> WorkerState]
      /\ worker'[w].pc \in {"vless", "reply"} /\ worker'[w].req = worker[w].req
      /\ worker'[w].pc = "reply" => worker'[w].status \in Statuses
      /\ \A v \in Workers \ {w} : worker'[v] = worker[v]
  <2>1. Goto(w, "vless") \/ (Finish(w, "completed") /\ "completed" \in Statuses)
    BY DEF Commit, Statuses
  <2> QED BY <1>1, <2>1, FinishKeeps, GotoKeeps
<1>5. snap' \in [Users -> Row]
  BY <1>1, WrittenRowIsRow DEF IInv, TypeOK, Commit
<1>6. TypeOK' /\ BusyHasRequest'
  <2>1. charge' \in [Requests -> Nat]
    BY <1>1, <1>2, <1>3 DEF IInv, TypeOK
  <2>2. balance[u] - worker[w].cost \in Nat
    BY <1>1, <1>2 DEF IInv, TypeOK
  <2>3. balance' \in [Users -> Nat]
    BY <1>1, <1>3, <2>2 DEF IInv, TypeOK
  <2>4. BusyHasRequest'
    BY <1>1, <1>4 DEF IInv, BusyHasRequest
  <2> QED BY <1>1, <1>4, <1>5, <2>1, <2>3, <2>4 DEF IInv, TypeOK
<1>7. ASSUME NEW v \in Workers \ {w}, worker[v].pc = "inTx"
      PROVE  User(v) # u /\ Req(v) # r
  BY <1>1, <1>7 DEF IInv, LockIsExclusive
<1>8. TransactionIsFunded' /\ LockIsExclusive'
  <2>1. \A v \in Workers : worker'[v].pc = "inTx" =>
          /\ v # w /\ worker[v].pc = "inTx" /\ worker'[v] = worker[v]
          /\ Req(v) \in Requests /\ User(v) \in Users
    BY <1>4, BalanceAssumption DEF IInv, BusyHasRequest
  <2>2. charge \in [Requests -> Nat] /\ balance \in [Users -> Nat]
    BY DEF IInv, TypeOK
  <2> QED BY <1>3, <1>7, <2>1, <2>2 DEF IInv, TransactionIsFunded, LockIsExclusive
<1>9. \A q \in Requests : charge'[q] = IF q = r THEN worker[w].cost ELSE charge[q]
  BY <1>3 DEF IInv, TypeOK
<1>10. \A v \in Workers : worker[v].pc \in Owning => Req(v) \in Requests /\ Req(v) # r
  BY <1>2 DEF IInv, BusyHasRequest, Ownership, OwnerIsCharged, Owning
<1>11. OwnerIsCharged' /\ OwnerIsUnique'
  BY <1>1, <1>2, <1>4, <1>9, <1>10 DEF IInv, Ownership, OwnerIsCharged, OwnerIsUnique, Owning
<1>12. SettledStands'
  <2>1. ASSUME NEW q \in Requests, Settled(q)'
        PROVE  Settled(q) \/ (q = r /\ worker'[w].pc = "reply")
    BY <1>1, <1>4, <2>1 DEF Settled
  <2>2. ~Settled(r)
    BY <1>1, <1>2 DEF IInv, Ownership, SettledStands
  <2> QED BY <1>1, <1>2, <1>4, <1>9, <1>10, <2>1, <2>2 DEF IInv, Ownership, SettledStands, Owning
<1> QED BY <1>6, <1>8, <1>11, <1>12 DEF IInv, Ownership

\* Taking a purchase back keeps the invariant.
LEMMA CompensateStep ==
  ASSUME IInv, NEW w \in Workers, Compensate(w) PROVE IInv'
<1> USE DEF Req, User
<1> DEFINE r == Req(w)
           u == User(w)
<1>1. /\ worker \in [Workers -> WorkerState] /\ worker[w].pc = "compensate" /\ r \in Requests
      /\ u \in Users
      /\ UNCHANGED <<now, rewards, answers, submits, card>>
  BY BalanceAssumption DEF IInv, TypeOK, BusyHasRequest, Compensate, envVars
<1>2. /\ worker' \in [Workers -> WorkerState]
      /\ worker'[w].pc = "reply" /\ worker'[w].req = worker[w].req
      /\ worker'[w].status = "vless_failed" /\ "vless_failed" \in Statuses
      /\ \A v \in Workers \ {w} : worker'[v] = worker[v]
  <2>1. Finish(w, "vless_failed") /\ "vless_failed" \in Statuses
    BY DEF Compensate, Statuses
  <2> QED BY <1>1, <2>1, FinishKeeps
<1>3. /\ charge' \in [Requests -> Nat] /\ \A q \in Requests \ {r} : charge'[q] = charge[q]
      /\ charge'[r] \in {0, charge[r]}
  BY <1>1 DEF IInv, TypeOK, Compensate, Refund
<1>4. /\ balance' \in [Users -> Nat] /\ \A v \in Users \ {u} : balance'[v] = balance[v]
  BY <1>1, BalanceAssumption DEF IInv, TypeOK, Compensate, Refund
<1>5. snap' \in [Users -> Row] /\ refunds' \subseteq Requests /\ raced' \subseteq Users
  BY <1>1, RevertedRowIsRow DEF IInv, TypeOK, Compensate, Overwrites
<1>6. TypeOK' /\ BusyHasRequest'
  BY <1>1, <1>2, <1>3, <1>4, <1>5 DEF IInv, TypeOK, BusyHasRequest
<1>7. ASSUME NEW v \in Workers, worker'[v].pc = "inTx"
      PROVE  v # w /\ worker'[v] = worker[v] /\ Req(v) \in Requests /\ User(v) \in Users \ {u}
  BY <1>1, <1>2, <1>7, BalanceAssumption DEF IInv, BusyHasRequest, Compensate, Unlocked
<1>8. TransactionIsFunded' /\ LockIsExclusive'
  BY <1>3, <1>4, <1>7 DEF IInv, TransactionIsFunded, LockIsExclusive
<1>9. ASSUME NEW v \in Workers, worker'[v].pc \in Owning
      PROVE  v # w /\ worker'[v] = worker[v] /\ Req(v) \in Requests \ {r}
  BY <1>1, <1>2, <1>9 DEF IInv, BusyHasRequest, Ownership, OwnerIsUnique, Owning
<1>10. OwnerIsCharged' /\ OwnerIsUnique'
  BY <1>3, <1>9 DEF IInv, Ownership, OwnerIsCharged, OwnerIsUnique
<1>11. ASSUME NEW q \in Requests, Settled(q)' PROVE Settled(q) /\ q # r
  <2>1. Settled(q)
    BY <1>1, <1>2, <1>11 DEF Settled
  <2>2. ~Settled(r)
    BY <1>1 DEF IInv, Ownership, SettledStands, Owning
  <2> QED BY <2>1, <2>2
<1>12. SettledStands'
  <2>1. \A q \in Requests : Settled(q)' =>
          charge'[q] # 0 /\ \A v \in Workers : worker[v].pc \in Owning => Req(v) # q
    BY <1>3, <1>11 DEF IInv, Ownership, SettledStands
  <2> QED BY <1>9, <2>1 DEF SettledStands
<1> QED BY <1>6, <1>8, <1>10, <1>12 DEF IInv, Ownership

\* Crediting the referrers keeps the invariant.
LEMMA RewardStep ==
  ASSUME IInv, NEW w \in Workers, Reward(w) PROVE IInv'
<1> USE DEF Req, User
<1> DEFINE r == Req(w)
<1>1. /\ worker \in [Workers -> WorkerState] /\ worker[w].pc = "reward" /\ r \in Requests
      /\ UNCHANGED <<now, snap, charge, refunds, answers, submits, card, raced>>
  BY DEF IInv, TypeOK, BusyHasRequest, Reward, envVars
<1>2. /\ worker' \in [Workers -> WorkerState]
      /\ worker'[w].pc = "reply" /\ worker'[w].req = worker[w].req
      /\ worker'[w].status \in Statuses
      /\ \A v \in Workers \ {w} : worker'[v] = worker[v]
  <2>1. Finish(w, "completed") /\ "completed" \in Statuses
    BY DEF Reward, Statuses
  <2> QED BY <1>1, <2>1, FinishKeeps
<1>3. rewards' \subseteq rewards \cup {r}
  BY DEF Reward
<1>4. /\ balance' \in [Users -> Nat] /\ \A u \in Users : balance'[u] >= balance[u]
  <2>1. CASE UNCHANGED balance
    BY <2>1 DEF IInv, TypeOK
  <2>2. CASE balance' = [u \in Users |-> balance[u] + Commission[r][u]]
    <3>1. \A u \in Users : balance[u] \in Nat /\ Commission[r][u] \in Nat
      BY <1>1, BalanceAssumption DEF IInv, TypeOK
    <3> QED BY <2>2, <3>1
  <2> QED BY <2>1, <2>2 DEF Reward
<1>5. TypeOK' /\ BusyHasRequest'
  BY <1>1, <1>2, <1>3, <1>4 DEF IInv, TypeOK, BusyHasRequest
<1>6. ASSUME NEW v \in Workers, worker'[v].pc = "inTx"
      PROVE  v # w /\ worker'[v] = worker[v] /\ User(v) \in Users
  BY <1>1, <1>2, <1>6, BalanceAssumption DEF IInv, BusyHasRequest
<1>7. TransactionIsFunded'
  <2> SUFFICES ASSUME NEW v \in Workers, worker'[v].pc = "inTx"
               PROVE  /\ charge[Req(v)] = 0 /\ worker[v].cost \in Nat \ {0}
                      /\ worker[v].cost <= balance'[User(v)]
    BY <1>1, <1>6 DEF TransactionIsFunded
  <2>1. charge[Req(v)] = 0 /\ worker[v].cost \in Nat \ {0} /\ worker[v].cost <= balance[User(v)]
    BY <1>6 DEF IInv, TransactionIsFunded
  <2>2. balance[User(v)] \in Nat /\ balance'[User(v)] \in Nat
    BY <1>4, <1>6 DEF IInv, TypeOK
  <2> QED BY <1>4, <1>6, <2>1, <2>2
<1>8. LockIsExclusive'
  BY <1>6 DEF IInv, LockIsExclusive
<1>9. ASSUME NEW v \in Workers, worker'[v].pc \in Owning
      PROVE  v # w /\ worker'[v] = worker[v] /\ Req(v) \in Requests \ {r}
  BY <1>1, <1>2, <1>9 DEF IInv, BusyHasRequest, Ownership, OwnerIsUnique, Owning
<1>10. OwnerIsCharged' /\ OwnerIsUnique'
  BY <1>1, <1>9 DEF IInv, Ownership, OwnerIsCharged, OwnerIsUnique
<1>11. charge[r] # 0
  BY <1>1 DEF IInv, Ownership, OwnerIsCharged, Owning
<1>12. \A q \in Requests : Settled(q)' => Settled(q) \/ q = r
  BY <1>1, <1>2, <1>3 DEF Settled
<1>13. SettledStands'
  BY <1>1, <1>9, <1>11, <1>12 DEF IInv, Ownership, SettledStands
<1> QED BY <1>5, <1>7, <1>8, <1>10, <1>13 DEF IInv, Ownership

(***************************************************************************)
(* The steps that write neither money nor debit rows: making and clearing  *)
(* the keys, a roll-back, the answer and a crash.                          *)
(***************************************************************************)
LEMMA QuietStep ==
  ASSUME IInv, NEW w \in Workers,
         MakeKeys(w) \/ MakeKeysRaises(w) \/ ClearKeys(w) \/ Rollback(w) \/ Reply(w) \/ Crash(w)
  PROVE  IInv'
<1> USE DEF Req, User
<1>1. /\ worker \in [Workers -> WorkerState] /\ worker[w] \in WorkerState
      /\ worker[w].pc # "idle" /\ Req(w) \in Requests /\ User(w) \in Users
      /\ UNCHANGED <<now, balance, charge, refunds, rewards, submits, card, raced>>
  BY BalanceAssumption DEF IInv, TypeOK, BusyHasRequest, MakeKeys, MakeKeysRaises, ClearKeys,
     Rollback, Reply, Crash, envVars
<1>2. /\ worker' \in [Workers -> WorkerState]
      /\ \A v \in Workers \ {w} : worker'[v] = worker[v]
  <2>1. CASE MakeKeys(w) \/ ClearKeys(w) \/ Rollback(w)
    <3>1. \/ Goto(w, "clear") \/ Goto(w, "reward")
          \/ Finish(w, "internal_error") /\ "internal_error" \in Statuses
      BY <2>1 DEF MakeKeys, ClearKeys, Rollback, Statuses
    <3> QED BY <1>1, <3>1, FinishKeeps, GotoKeeps
  <2>2. CASE MakeKeysRaises(w)
    <3>1. CASE worker' = [worker EXCEPT ![w] = [worker[w] EXCEPT !.pc = "compensate"]]
      <4>1. [worker[w] EXCEPT !.pc = "compensate"] \in WorkerState
        BY <1>1 DEF WorkerState
      <4> QED BY <1>1, <3>1, <4>1
    <3>2. CASE /\ worker[w].tries + 1 < VlessTries
               /\ worker' = [worker EXCEPT ![w] = [worker[w] EXCEPT !.tries = worker[w].tries + 1]]
      <4>1. worker[w].tries + 1 \in 0 .. VlessTries - 1
        BY <1>1, <3>2, BalanceAssumption DEF WorkerState
      <4>2. [worker[w] EXCEPT !.tries = worker[w].tries + 1] \in WorkerState
        BY <1>1, <4>1 DEF WorkerState
      <4> QED BY <1>1, <3>2, <4>2
    <3> QED BY <2>2, <3>1, <3>2 DEF MakeKeysRaises
  <2>3. CASE Reply(w) \/ Crash(w)
    <3>1. worker' = [worker EXCEPT ![w] = Idle]
      BY <2>3 DEF Reply, Crash
    <3> QED BY <1>1, <3>1, IdleIsState
  <2> QED BY <2>1, <2>2, <2>3
<1>3. /\ worker'[w].pc # "inTx"
      /\ worker'[w].pc # "idle" => worker'[w].req = worker[w].req
      /\ worker'[w].pc \in Owning => worker[w].pc \in Owning
      /\ worker'[w].pc = "reply" =>
           worker'[w].status = "internal_error" /\ "internal_error" \in Statuses
  BY <1>1 DEF MakeKeys, MakeKeysRaises, ClearKeys, Rollback, Reply, Crash, Goto, Finish, Idle,
     WorkerState, Owning, Statuses
<1>4. snap' \in [Users -> Row]
  BY <1>1, ClearKeyInstantsIsRow DEF IInv, TypeOK, MakeKeys, MakeKeysRaises, ClearKeys, Rollback,
     Reply, Crash
<1>5. \/ UNCHANGED answers
      \/ /\ worker[w].pc = "reply"
         /\ answers' = answers \cup {<<Req(w), worker[w].status>>}
  BY DEF MakeKeys, MakeKeysRaises, ClearKeys, Rollback, Reply, Crash
<1>6. TypeOK' /\ BusyHasRequest' /\ TransactionIsFunded' /\ LockIsExclusive'
  <2>1. answers' \subseteq Requests \X Statuses
    BY <1>1, <1>5 DEF IInv, TypeOK, BusyHasRequest
  <2> QED BY <1>1, <1>2, <1>3, <1>4, <2>1 DEF IInv, TypeOK, BusyHasRequest, TransactionIsFunded,
             LockIsExclusive
<1>7. OwnerIsCharged' /\ OwnerIsUnique'
  BY <1>1, <1>2, <1>3 DEF IInv, Ownership, OwnerIsCharged, OwnerIsUnique, Owning
<1>8. \A q \in Requests : Settled(q)' => Settled(q)
  BY <1>1, <1>2, <1>3, <1>5 DEF Settled
<1>9. SettledStands'
  BY <1>1, <1>2, <1>3, <1>8 DEF IInv, Ownership, SettledStands, Owning
<1> QED BY <1>6, <1>7, <1>9 DEF IInv, Ownership

\* What the clock, card payments and clients do keeps the invariant.
LEMMA EnvironmentStep ==
  ASSUME IInv,
         \/ Tick \/ UNCHANGED vars
         \/ \E u \in Users : CardRead(u) \/ CardCommit(u)
         \/ \E w \in Workers, r \in Requests : Submit(w, r)
  PROVE  IInv'
<1> USE DEF Req, User
<1>1. CASE Tick \/ UNCHANGED vars
  <2>1. /\ UNCHANGED <<snap, balance, charge, refunds, rewards, worker, submits, answers, card, raced>>
        /\ now' \in Nat
    BY <1>1 DEF IInv, TypeOK, Tick, vars
  <2> QED BY <2>1 DEF IInv, TypeOK, BusyHasRequest, TransactionIsFunded, LockIsExclusive, Ownership,
             OwnerIsCharged, OwnerIsUnique, SettledStands, Settled
<1>2. ASSUME NEW u \in Users, CardRead(u) \/ CardCommit(u) PROVE IInv'
  <2>1. UNCHANGED <<now, balance, charge, refunds, rewards, worker, submits, answers>>
    BY <1>2 DEF CardRead, CardCommit
  <2>2. /\ snap' \in [Users -> Row] /\ card' \in [Users -> CardState] /\ raced' \subseteq Users
    <3>1. snap[u] \in Row /\ snap[u].until \in Nat /\ now \in Nat /\ CardPeriod \in Nat
          /\ card[u] \in CardState /\ card[u].seen \in Nat /\ card[u].at \in Nat
      BY BalanceAssumption DEF IInv, TypeOK, Row, CardState
    <3>2. CASE CardRead(u)
      <4>1. PaidPlans(u) \subseteq Requests
        BY DEF PaidPlans, RequestsOf
      <4>2. [pc |-> "open", at |-> now, seen |-> snap[u].until, knows |-> PaidPlans(u)] \in CardState
        BY <3>1, <4>1 DEF CardState
      <4> QED BY <3>2, <4>2 DEF IInv, TypeOK, CardRead
    <3>3. CASE CardCommit(u)
      <4> DEFINE end == RenewedUntil(card[u].seen, card[u].at, CardPeriod)
      <4>1. end \in Nat
        BY <3>1 DEF RenewedUntil
      <4>2. UpsertState(snap[u], "active", end, TRUE, DefaultDevices, Null) \in Row
        <5>1. Null \in Nat /\ "active" \in StateLabels /\ DefaultDevices \in Nat
          BY DefaultDevicesAssumption DEF Null, StateLabels
        <5> HIDE DEF end
        <5> QED BY <3>1, <4>1, <5>1, UpsertStateIsRow
      <4>3. [NoCard EXCEPT !.pc = "done"] \in CardState
        BY DEF NoCard, CardState, Null
      <4>4. raced' \subseteq Users
        BY <3>3 DEF CardCommit, Overwrites, IInv, TypeOK
      <4>5. /\ snap' = [snap EXCEPT ![u] = UpsertState(snap[u], "active", end, TRUE, DefaultDevices, Null)]
            /\ card' = [card EXCEPT ![u] = [NoCard EXCEPT !.pc = "done"]]
        BY <3>3 DEF CardCommit, PaidByCard, NoCard
      <4> QED BY <4>2, <4>3, <4>4, <4>5 DEF IInv, TypeOK
    <3> QED BY <1>2, <3>2, <3>3
  <2> QED BY <2>1, <2>2 DEF IInv, TypeOK, BusyHasRequest, TransactionIsFunded, LockIsExclusive,
             Ownership, OwnerIsCharged, OwnerIsUnique, SettledStands, Settled
<1>3. ASSUME NEW w \in Workers, NEW r \in Requests, Submit(w, r) PROVE IInv'
  <2>1. /\ UNCHANGED <<now, snap, balance, charge, refunds, rewards, answers, card, raced>>
        /\ submits' \in [Requests -> Nat]
    <3>1. submits \in [Requests -> Nat] /\ submits' = [submits EXCEPT ![r] = @ + 1]
      BY <1>3 DEF IInv, TypeOK, Submit, SubmitPlan, SubmitDevice, Submitted
    <3>2. submits' \in [Requests -> Nat]
      BY <3>1
    <3> QED BY <1>3, <3>2 DEF Submit, SubmitPlan, SubmitDevice, Submitted
  <2>2. /\ worker' \in [Workers -> WorkerState] /\ worker'[w].pc = "begin" /\ worker'[w].req = r
        /\ \A v \in Workers \ {w} : worker'[v] = worker[v]
    <3>0. PaidPlans(Buyer[r]) \subseteq Requests
      BY DEF PaidPlans, RequestsOf
    <3>1. PICK pre \in Row, knows \in SUBSET Requests :
            worker' = [worker EXCEPT ![w] = [Idle EXCEPT !.pc = "begin", !.req = r, !.at = now,
                                                         !.pre = pre, !.knows = knows]]
      BY <1>3, <3>0, NoRowIsRow, BalanceAssumption
         DEF IInv, TypeOK, Submit, SubmitPlan, SubmitDevice, Submitted
    <3> DEFINE new == [Idle EXCEPT !.pc = "begin", !.req = r, !.at = now, !.pre = pre,
                                   !.knows = knows]
    <3>2. new \in WorkerState /\ new.pc = "begin" /\ new.req = r
      <4>1. now \in Nat /\ pre \in Row /\ knows \subseteq Requests
        BY <3>1 DEF IInv, TypeOK
      <4> QED BY <4>1, IdleIsState DEF WorkerState
    <3>3. worker \in [Workers -> WorkerState]
      BY DEF IInv, TypeOK
    <3> HIDE DEF new
    <3> QED BY <3>1, <3>2, <3>3 DEF new
  <2>3. TypeOK' /\ BusyHasRequest' /\ TransactionIsFunded' /\ LockIsExclusive'
    BY <2>1, <2>2 DEF IInv, TypeOK, BusyHasRequest, TransactionIsFunded, LockIsExclusive
  <2>4. Ownership'
    BY <2>1, <2>2 DEF IInv, Ownership, OwnerIsCharged, OwnerIsUnique, SettledStands, Settled, Owning
  <2> QED BY <2>3, <2>4 DEF IInv
<1> QED BY <1>1, <1>2, <1>3

\* Every step keeps the invariant.
LEMMA InvariantStep == ASSUME IInv, [Next]_vars PROVE IInv'
<1>1. ASSUME NEW w \in Workers, WorkerStep(w) \/ Crash(w) PROVE IInv'
  BY <1>1, BeginStep, CommitStep, CompensateStep, RewardStep, QuietStep DEF WorkerStep
<1> QED BY <1>1, EnvironmentStep DEF Next
-----------------------------------------------------------------------------
(* Adding up, one unit at a time.                                          *)

\* n units of something that was not counted before.
LEMMA UnitsStack ==
  ASSUME NEW U, IsFiniteSet(U), NEW x, NEW n \in Nat, \A k \in 1 .. n : <<x, k>> \notin U
  PROVE  /\ IsFiniteSet(U \cup ({x} \X (1 .. n)))
         /\ Cardinality(U \cup ({x} \X (1 .. n))) = Cardinality(U) + n
<1> DEFINE T == {x} \X (1 .. n)
<1>1. IsFiniteSet(1 .. n) /\ Cardinality(1 .. n) = n
  <2>1. 1 \in Int /\ n \in Int
    OBVIOUS
  <2>2. IsFiniteSet(1 .. n) /\ Cardinality(1 .. n) = IF 1 > n THEN 0 ELSE n - 1 + 1
    BY <2>1, FS_Interval
  <2> QED BY <2>2
<1>2. IsFiniteSet({x}) /\ Cardinality({x}) = 1
  BY FS_Singleton
<1>3. IsFiniteSet(T) /\ Cardinality(T) = n
  <2>1. IsFiniteSet(T) /\ Cardinality(T) = Cardinality({x}) * Cardinality(1 .. n)
    BY <1>1, <1>2, FS_Product, Zenon
  <2>2. 1 * n = n
    OBVIOUS
  <2> QED BY <1>1, <1>2, <2>1, <2>2
<1>4. U \cap T = {}
  OBVIOUS
<1>5. Cardinality(U \cap T) = 0
  BY <1>4, FS_EmptySet
<1> HIDE DEF T
<1>6. IsFiniteSet(U \cup T) /\ Cardinality(U \cup T) = Cardinality(U) + Cardinality(T) - 0
  BY <1>3, <1>5, FS_Union
<1>7. Cardinality(U) \in Nat
  BY FS_CardinalityType
<1> QED BY <1>3, <1>6, <1>7 DEF T

\* Nothing adds up to zero.
LEMMA NothingIsZero ==
  ASSUME NEW f, NEW S, \A y \in S : f[y] = 0
  PROVE  IsFiniteSet(Units(f, S)) /\ Total(f, S) = 0
<1>1. Units(f, S) = {}
  BY DEF Units
<1> QED BY <1>1, FS_EmptySet DEF Total

\* What is not on the list of what changed adds up to the same.
LEMMA SameTotal ==
  ASSUME NEW f, NEW g, NEW S, \A y \in S : g[y] = f[y]
  PROVE  Units(g, S) = Units(f, S) /\ Total(g, S) = Total(f, S)
<1>1. Units(g, S) = Units(f, S)
  BY DEF Units
<1> QED BY <1>1 DEF Total

\* One more to add up.
LEMMA OneMore ==
  ASSUME NEW f, NEW S, NEW x, x \notin S, f[x] \in Nat, IsFiniteSet(Units(f, S))
  PROVE  /\ IsFiniteSet(Units(f, S \cup {x}))
         /\ Total(f, S \cup {x}) = Total(f, S) + f[x]
<1>1. Units(f, S \cup {x}) = Units(f, S) \cup ({x} \X (1 .. f[x]))
  BY DEF Units
<1>2. \A k \in 1 .. f[x] : <<x, k>> \notin Units(f, S)
  BY DEF Units
<1> DEFINE U == Units(f, S)
           n == f[x]
<1>3. IsFiniteSet(U) /\ n \in Nat /\ \A k \in 1 .. n : <<x, k>> \notin U
  BY <1>2
<1> HIDE DEF U, n
<1>4. /\ IsFiniteSet(U \cup ({x} \X (1 .. n)))
      /\ Cardinality(U \cup ({x} \X (1 .. n))) = Cardinality(U) + n
  BY <1>3, UnitsStack
<1> QED BY <1>1, <1>4 DEF Total, U, n

\* A total is a number.
LEMMA TotalIsNumber ==
  ASSUME NEW f, NEW S, IsFiniteSet(Units(f, S)) PROVE Total(f, S) \in Nat
BY FS_CardinalityType DEF Total

\* What was nothing becomes something.
LEMMA OneRaised ==
  ASSUME NEW f, NEW g, NEW S, NEW x \in S, f[x] = 0, g[x] \in Nat,
         \A y \in S \ {x} : g[y] = f[y], IsFiniteSet(Units(f, S))
  PROVE  /\ IsFiniteSet(Units(g, S))
         /\ Total(g, S) = Total(f, S) + g[x]
<1> DEFINE R == S \ {x}
<1>1. S = R \cup {x} /\ x \notin R
  OBVIOUS
<1>2. Units(f, S) = Units(f, R)
  BY DEF Units
<1>3. Units(g, R) = Units(f, R)
  BY DEF Units
<1>4. IsFiniteSet(Units(g, R)) /\ Total(g, R) = Total(f, S)
  BY <1>2, <1>3 DEF Total
<1> HIDE DEF R
<1>5. /\ IsFiniteSet(Units(g, R \cup {x}))
      /\ Total(g, R \cup {x}) = Total(g, R) + g[x]
  BY <1>1, <1>4, OneMore
<1> QED BY <1>1, <1>4, <1>5
-----------------------------------------------------------------------------
(* The money.                                                              *)

(***************************************************************************)
(* A transaction debits a plan's price; whoever may still take a purchase  *)
(* back works on a plan whose debit row holds the price he would return.   *)
(***************************************************************************)
Priced ==
  \A w \in Workers :
    /\ worker[w].pc = "inTx" /\ Kind[Req(w)] = "plan" => worker[w].cost = Price[Req(w)]
    /\ worker[w].pc \in Owning => Kind[Req(w)] = "plan" /\ charge[Req(w)] = Price[Req(w)]

\* There are finitely many kopecks on record.
Counted ==
  \A u \in Users : /\ IsFiniteSet(Units(charge, RequestsOf(u)))
                   /\ IsFiniteSet(Units(Earned(u), rewards))

Money == Priced /\ Counted /\ BooksBalance

\* Who moves where, and what a transaction remembers when it begins.
LEMMA Movement ==
  ASSUME IInv, NEW w \in Workers, WorkerStep(w) \/ Crash(w)
  PROVE  /\ worker[w].pc # "idle" /\ Req(w) \in Requests /\ User(w) \in Users
         /\ UNCHANGED <<now, card>>
         /\ \A v \in Workers \ {w} : worker'[v] = worker[v]
         /\ worker'[w].pc # "begin"
         /\ worker'[w].pc = "inTx" =>
              /\ Begin(w) /\ worker[w].pc = "begin"
              /\ worker'[w].req = worker[w].req /\ worker'[w].at = worker[w].at
              /\ worker'[w].seen = snap[User(w)] /\ worker'[w].cost = Cost(Req(w))
         /\ worker'[w].pc \in Owning =>
              /\ worker'[w].req = worker[w].req
              /\ \/ worker[w].pc \in Owning /\ UNCHANGED charge
                 \/ Commit(w) /\ Kind[Req(w)] = "plan"
<1>1. worker \in [Workers -> WorkerState] /\ worker[w] \in WorkerState
  BY DEF IInv, TypeOK
<1>2. worker[w].pc # "idle" /\ Req(w) \in Requests /\ User(w) \in Users /\ UNCHANGED <<now, card>>
  <2>1. worker[w].pc # "idle" /\ UNCHANGED <<now, card>>
    BY DEF WorkerStep, Begin, Commit, Rollback, MakeKeys, MakeKeysRaises, ClearKeys, Compensate,
           Reward, Reply, Crash, envVars
  <2> QED BY <2>1, BalanceAssumption DEF IInv, BusyHasRequest, User
<1>3. PICK s : s = worker[w]
  OBVIOUS
<1>4. DOMAIN worker = Workers /\ DOMAIN s = DOMAIN Idle
  BY <1>1, <1>3 DEF WorkerState, Idle
<1> USE DEF Goto, Finish, Owning
<1>5. CASE Begin(w)
  <2>1. PICK q : /\ worker' = [worker EXCEPT ![w] = q]
                 /\ q.pc \in {"reply", "inTx"}
                 /\ q.pc = "inTx" => /\ q.req = s.req /\ q.at = s.at
                                     /\ q.seen = snap[User(w)] /\ q.cost = Cost(Req(w))
    <3>1. CASE \E status \in Statuses : Finish(w, status)
      <4>1. PICK status \in Statuses : Finish(w, status)
        BY <3>1
      <4>2. worker' = [worker EXCEPT ![w] = [s EXCEPT !.pc = "reply", !.status = status]]
        BY <1>3, <4>1
      <4>3. [s EXCEPT !.pc = "reply", !.status = status].pc = "reply"
        BY <1>4 DEF Idle
      <4> QED BY <4>2, <4>3
    <3>2. CASE worker' = [worker EXCEPT ![w].pc = "inTx", ![w].seen = snap[User(w)],
                                        ![w].cost = Cost(Req(w))]
      <4> DEFINE q == [s EXCEPT !.pc = "inTx", !.seen = snap[User(w)], !.cost = Cost(Req(w))]
      <4>1. worker' = [worker EXCEPT ![w] = q]
        BY <1>3, <3>2
      <4>2. q.pc = "inTx" /\ q.req = s.req /\ q.at = s.at /\ q.seen = snap[User(w)]
            /\ q.cost = Cost(Req(w))
        BY <1>4 DEF Idle
      <4> QED BY <4>1, <4>2
    <3> QED BY <1>5, <3>1, <3>2 DEF Begin, Statuses
  <2>2. worker'[w] = q /\ \A v \in Workers \ {w} : worker'[v] = worker[v]
    BY <1>4, <2>1
  <2>3. s.pc = "begin"
    BY <1>3, <1>5 DEF Begin
  <2> QED BY <1>2, <1>3, <1>5, <2>1, <2>2, <2>3
<1>6. CASE Commit(w)
  <2>1. PICK q : /\ worker' = [worker EXCEPT ![w] = q]
                 /\ q.pc \in {"reply", "vless"} /\ q.req = s.req
                 /\ q.pc = "vless" => Kind[Req(w)] = "plan"
    <3>1. CASE Kind[Req(w)] = "plan"
      <4>1. worker' = [worker EXCEPT ![w] = [s EXCEPT !.pc = "vless"]]
        BY <1>3, <1>6, <3>1 DEF Commit
      <4>2. [s EXCEPT !.pc = "vless"].pc = "vless" /\ [s EXCEPT !.pc = "vless"].req = s.req
        BY <1>4 DEF Idle
      <4> QED BY <3>1, <4>1, <4>2
    <3>2. CASE Kind[Req(w)] # "plan"
      <4> DEFINE q == [s EXCEPT !.pc = "reply", !.status = "completed"]
      <4>1. worker' = [worker EXCEPT ![w] = q]
        BY <1>3, <1>6, <3>2 DEF Commit
      <4>2. q.pc = "reply" /\ q.req = s.req
        BY <1>4 DEF Idle
      <4> QED BY <4>1, <4>2
    <3> QED BY <3>1, <3>2
  <2>2. worker'[w] = q /\ \A v \in Workers \ {w} : worker'[v] = worker[v]
    BY <1>4, <2>1
  <2> QED BY <1>2, <1>3, <1>6, <2>1, <2>2
<1>7. CASE MakeKeys(w) \/ MakeKeysRaises(w) \/ ClearKeys(w)
  <2>1. PICK q : /\ worker' = [worker EXCEPT ![w] = q]
                 /\ q.pc \in {"vless", "clear", "compensate", "reward"} /\ q.req = s.req
    <3>1. CASE MakeKeys(w) \/ ClearKeys(w)
      <4>1. PICK pc \in {"clear", "reward"} : worker' = [worker EXCEPT ![w] = [s EXCEPT !.pc = pc]]
        BY <1>3, <3>1 DEF MakeKeys, ClearKeys
      <4>2. [s EXCEPT !.pc = pc].pc = pc /\ [s EXCEPT !.pc = pc].req = s.req
        BY <1>4 DEF Idle
      <4> QED BY <4>1, <4>2
    <3>2. CASE MakeKeysRaises(w)
      <4>1. s.pc = "vless"
        BY <1>3, <3>2 DEF MakeKeysRaises
      <4>2. \/ worker' = [worker EXCEPT ![w] = [s EXCEPT !.tries = s.tries + 1]]
            \/ worker' = [worker EXCEPT ![w] = [s EXCEPT !.pc = "compensate"]]
        BY <1>3, <3>2 DEF MakeKeysRaises
      <4>3. /\ [s EXCEPT !.tries = s.tries + 1].pc = s.pc
            /\ [s EXCEPT !.tries = s.tries + 1].req = s.req
            /\ [s EXCEPT !.pc = "compensate"].pc = "compensate"
            /\ [s EXCEPT !.pc = "compensate"].req = s.req
        BY <1>4 DEF Idle
      <4> QED BY <4>1, <4>2, <4>3
    <3> QED BY <1>7, <3>1, <3>2
  <2>2. worker'[w] = q /\ \A v \in Workers \ {w} : worker'[v] = worker[v]
    BY <1>4, <2>1
  <2>3. s.pc \in {"vless", "clear"} /\ UNCHANGED charge
    BY <1>3, <1>7 DEF MakeKeys, MakeKeysRaises, ClearKeys
  <2> QED BY <1>2, <1>3, <2>1, <2>2, <2>3
<1>8. CASE Rollback(w) \/ Compensate(w) \/ Reward(w)
  <2>1. PICK status : worker' = [worker EXCEPT ![w] = [s EXCEPT !.pc = "reply", !.status = status]]
    BY <1>3, <1>8 DEF Rollback, Compensate, Reward
  <2>2. [s EXCEPT !.pc = "reply", !.status = status].pc = "reply"
    BY <1>4 DEF Idle
  <2>3. worker'[w].pc = "reply" /\ \A v \in Workers \ {w} : worker'[v] = worker[v]
    BY <1>4, <2>1, <2>2
  <2> QED BY <1>2, <2>3
<1>9. CASE Reply(w) \/ Crash(w)
  <2>1. worker' = [worker EXCEPT ![w] = Idle]
    BY <1>9 DEF Reply, Crash
  <2>2. worker'[w].pc = "idle" /\ \A v \in Workers \ {w} : worker'[v] = worker[v]
    BY <1>4, <2>1 DEF Idle
  <2> QED BY <1>2, <2>2
<1> QED BY <1>5, <1>6, <1>7, <1>8, <1>9 DEF WorkerStep

\* A client's call fills an idle worker and nothing else.
LEMMA Arrival ==
  ASSUME IInv, NEW w \in Workers, NEW r \in Requests, Submit(w, r)
  PROVE  /\ UNCHANGED <<now, snap, balance, charge, refunds, rewards, card, raced>>
         /\ \A v \in Workers \ {w} : worker'[v] = worker[v]
         /\ worker'[w].pc = "begin" /\ worker'[w].req = r /\ worker'[w].at = now
         /\ \/ worker'[w].pre = snap[Buyer[r]] /\ worker'[w].knows = PaidPlans(Buyer[r])
            \/ worker'[w].knows = {}
<1>1. /\ UNCHANGED <<now, snap, balance, charge, refunds, rewards, card, raced>>
      /\ \E pre, knows :
           /\ worker' = [worker EXCEPT ![w] = [Idle EXCEPT !.pc = "begin", !.req = r, !.at = now,
                                                         !.pre = pre, !.knows = knows]]
           /\ (pre = snap[Buyer[r]] /\ knows = PaidPlans(Buyer[r])) \/ knows = {}
  BY DEF Submit, SubmitPlan, SubmitDevice, Submitted
<1>2. PICK q : /\ worker' = [worker EXCEPT ![w] = q]
               /\ q.pc = "begin" /\ q.req = r /\ q.at = now
               /\ (q.pre = snap[Buyer[r]] /\ q.knows = PaidPlans(Buyer[r])) \/ q.knows = {}
  <2>1. PICK pre, knows :
          /\ worker' = [worker EXCEPT ![w] = [Idle EXCEPT !.pc = "begin", !.req = r, !.at = now,
                                                        !.pre = pre, !.knows = knows]]
          /\ (pre = snap[Buyer[r]] /\ knows = PaidPlans(Buyer[r])) \/ knows = {}
    BY <1>1
  <2> DEFINE q == [Idle EXCEPT !.pc = "begin", !.req = r, !.at = now, !.pre = pre, !.knows = knows]
  <2>2. q.pc = "begin" /\ q.req = r /\ q.at = now /\ q.pre = pre /\ q.knows = knows
    BY DEF Idle
  <2> HIDE DEF q
  <2> QED BY <2>1, <2>2 DEF q
<1>3. DOMAIN worker = Workers
  BY DEF IInv, TypeOK
<1> QED BY <1>1, <1>2, <1>3

\* Prices stay what they were.
LEMMA PricedStep == ASSUME IInv, Priced, [Next]_vars PROVE Priced'
<1> USE DEF Req, User
<1>1. ASSUME NEW w \in Workers, WorkerStep(w) \/ Crash(w) PROVE Priced'
  <2>1. charge \in [Requests -> Nat] /\ worker[w] \in WorkerState
    BY DEF IInv, TypeOK
  <2>2. \A v \in Workers \ {w} : worker'[v] = worker[v]
    BY <1>1, Movement
  <2>3. ASSUME NEW v \in Workers \ {w}, worker[v].pc \in Owning PROVE charge'[Req(v)] = charge[Req(v)]
    <3>1. Req(v) \in Requests /\ charge[Req(v)] # 0
      BY <2>3 DEF IInv, BusyHasRequest, Ownership, OwnerIsCharged, Owning
    <3>2. CASE Commit(w)
      <4>1. charge[Req(w)] = 0 /\ charge' = [charge EXCEPT ![Req(w)] = worker[w].cost]
        BY <3>2 DEF IInv, TransactionIsFunded, Commit
      <4> QED BY <2>1, <3>1, <4>1
    <3>3. CASE Compensate(w)
      <4>1. Req(w) # Req(v)
        BY <2>3, <3>3 DEF IInv, Ownership, OwnerIsUnique, Owning, Compensate
      <4>2. charge' = [charge EXCEPT ![Req(w)] = 0] \/ UNCHANGED charge
        BY <3>3 DEF Compensate, Refund
      <4> QED BY <2>1, <3>1, <4>1, <4>2
    <3>4. CASE ~ Commit(w) /\ ~ Compensate(w)
      BY <1>1, <3>4 DEF WorkerStep, Begin, Rollback, MakeKeys, MakeKeysRaises, ClearKeys, Reward, Reply,
         Crash
    <3> QED BY <3>2, <3>3, <3>4
  <2>4. worker'[w].pc = "inTx" /\ Kind[worker'[w].req] = "plan"
          => worker'[w].cost = Price[worker'[w].req]
    BY <1>1, Movement DEF Cost
  <2>5. ASSUME worker'[w].pc \in Owning
        PROVE  Kind[worker'[w].req] = "plan" /\ charge'[worker'[w].req] = Price[worker'[w].req]
    <3>1. /\ Req(w) \in Requests /\ worker'[w].req = worker[w].req
          /\ \/ worker[w].pc \in Owning /\ UNCHANGED charge
             \/ Commit(w) /\ Kind[Req(w)] = "plan"
      BY <1>1, <2>5, Movement
    <3>2. CASE worker[w].pc \in Owning /\ UNCHANGED charge
      BY <3>1, <3>2 DEF Priced
    <3>3. CASE Commit(w) /\ Kind[Req(w)] = "plan"
      BY <2>1, <3>1, <3>3 DEF Priced, Commit
    <3> QED BY <3>1, <3>2, <3>3
  <2> QED BY <2>2, <2>3, <2>4, <2>5 DEF Priced
<1>2. ASSUME NEW w \in Workers, NEW r \in Requests, Submit(w, r) PROVE Priced'
  BY <1>2, Arrival DEF Priced, Owning
<1>3. CASE Tick \/ UNCHANGED vars \/ \E u \in Users : CardRead(u) \/ CardCommit(u)
  <2>1. worker' = worker /\ charge' = charge
    BY <1>3 DEF Tick, CardRead, CardCommit, vars
  <2> QED BY <2>1 DEF Priced
<1> QED BY <1>1, <1>2, <1>3 DEF Next

\* Books that are not touched stay as they are.
LEMMA SameBooks ==
  ASSUME Money, UNCHANGED <<balance, charge, rewards>> PROVE Counted' /\ BooksBalance'
<1>1. balance' = balance /\ charge' = charge /\ rewards' = rewards
  OBVIOUS
<1>2. \A u \in Users : /\ IsFiniteSet(Units(charge', RequestsOf(u)))
                       /\ IsFiniteSet(Units(Earned(u), rewards'))
  BY <1>1 DEF Money, Counted
<1>3. \A u \in Users :
        balance'[u] + Total(charge', RequestsOf(u)) = InitialBalance + Total(Earned(u), rewards')
  BY <1>1 DEF Money, BooksBalance
<1>4. Counted'
  BY <1>2 DEF Counted, Units, Earned, RequestsOf
<1>5. BooksBalance'
  BY <1>3 DEF BooksBalance, Total, Units, Earned, RequestsOf
<1> QED BY <1>4, <1>5

\* A debit is taken from the balance and put on record.
LEMMA CommitBooks ==
  ASSUME IInv, Money, NEW w \in Workers, Commit(w) PROVE Counted' /\ BooksBalance'
<1> DEFINE r == Req(w)
           u == User(w)
           c == worker[w].cost
<1>1. /\ r \in Requests /\ u \in Users /\ u = Buyer[r] /\ worker[w].pc = "inTx"
      /\ charge[r] = 0 /\ c \in Nat /\ c <= balance[u]
      /\ charge \in [Requests -> Nat] /\ balance \in [Users -> Nat]
  BY Movement DEF WorkerStep, IInv, TypeOK, TransactionIsFunded, User, Commit
<1>2. /\ charge' = [charge EXCEPT ![r] = c] /\ balance' = [balance EXCEPT ![u] = balance[u] - c]
      /\ UNCHANGED rewards
  BY DEF Commit
<1> HIDE DEF r, u, c
<1>3. ASSUME NEW v \in Users
      PROVE  /\ IsFiniteSet(Units(charge', RequestsOf(v)))
             /\ balance'[v] + Total(charge', RequestsOf(v)) = balance[v] + Total(charge, RequestsOf(v))
  <2>1. IsFiniteSet(Units(charge, RequestsOf(v))) /\ Total(charge, RequestsOf(v)) \in Nat
    BY TotalIsNumber DEF Money, Counted
  <2>2. CASE v = u
    <3>1. r \in RequestsOf(v)
      BY <1>1, <2>2 DEF RequestsOf
    <3>2. charge'[r] = c /\ \A q \in RequestsOf(v) \ {r} : charge'[q] = charge[q]
      BY <1>1, <1>2 DEF RequestsOf
    <3>3. /\ IsFiniteSet(Units(charge', RequestsOf(v)))
          /\ Total(charge', RequestsOf(v)) = Total(charge, RequestsOf(v)) + charge'[r]
      BY <1>1, <2>1, <3>1, <3>2, OneRaised
    <3>4. balance'[v] = balance[v] - c /\ balance[v] \in Nat
      BY <1>1, <1>2, <2>2
    <3> QED BY <1>1, <2>1, <3>2, <3>3, <3>4
  <2>3. CASE v # u
    <3>1. \A q \in RequestsOf(v) : charge'[q] = charge[q]
      BY <1>1, <1>2, <2>3 DEF RequestsOf
    <3>2. /\ Units(charge', RequestsOf(v)) = Units(charge, RequestsOf(v))
          /\ Total(charge', RequestsOf(v)) = Total(charge, RequestsOf(v))
      BY <3>1, SameTotal
    <3>3. balance'[v] = balance[v]
      BY <1>1, <1>2, <2>3
    <3> QED BY <2>1, <3>2, <3>3
  <2> QED BY <2>2, <2>3
<1>4. Counted'
  BY <1>2, <1>3 DEF Counted, Money, Units, Earned, RequestsOf
<1>5. BooksBalance'
  BY <1>2, <1>3 DEF BooksBalance, Money, Total, Units, Earned, RequestsOf
<1> QED BY <1>4, <1>5

\* A refund takes the debit row off the record and gives its price back.
LEMMA CompensateBooks ==
  ASSUME IInv, Money, NEW w \in Workers, Compensate(w) PROVE Counted' /\ BooksBalance'
<1> DEFINE r == Req(w)
           u == User(w)
<1>1. /\ r \in Requests /\ u \in Users /\ u = Buyer[r]
      /\ charge[r] = Price[r] /\ Price[r] \in Nat
      /\ charge \in [Requests -> Nat] /\ balance \in [Users -> Nat]
      /\ UNCHANGED rewards
  BY Movement, BalanceAssumption DEF WorkerStep, IInv, TypeOK, Money, Priced, Owning, User, Compensate
<1>2. CASE UNCHANGED <<balance, charge>>
  BY <1>1, <1>2, SameBooks
<1>3. CASE Refund(w)
  <2>1. /\ charge' = [charge EXCEPT ![r] = 0]
        /\ balance' = [balance EXCEPT ![u] = balance[u] + Price[r]]
    BY <1>3 DEF Refund
  <2> HIDE DEF r, u
  <2>2. ASSUME NEW v \in Users
        PROVE  /\ IsFiniteSet(Units(charge', RequestsOf(v)))
               /\ balance'[v] + Total(charge', RequestsOf(v))
                    = balance[v] + Total(charge, RequestsOf(v))
    <3>1. IsFiniteSet(Units(charge, RequestsOf(v)))
      BY DEF Money, Counted
    <3>2. CASE v = u
      <4>1. r \in RequestsOf(v)
        BY <1>1, <3>2 DEF RequestsOf
      <4>2. charge'[r] = 0 /\ \A q \in RequestsOf(v) \ {r} : charge'[q] = charge[q]
        BY <1>1, <2>1 DEF RequestsOf
      <4>3. Units(charge', RequestsOf(v)) \subseteq Units(charge, RequestsOf(v))
        BY <4>1, <4>2 DEF Units
      <4>4. IsFiniteSet(Units(charge', RequestsOf(v)))
        BY <3>1, <4>3, FS_Subset
      <4>5. Total(charge, RequestsOf(v)) = Total(charge', RequestsOf(v)) + charge[r]
        BY <1>1, <4>1, <4>2, <4>4, OneRaised
      <4>6. balance'[v] = balance[v] + Price[r] /\ balance[v] \in Nat
        BY <1>1, <2>1, <3>2
      <4>7. Total(charge', RequestsOf(v)) \in Nat
        BY <4>4, TotalIsNumber
      <4> QED BY <1>1, <4>4, <4>5, <4>6, <4>7
    <3>3. CASE v # u
      <4>1. \A q \in RequestsOf(v) : charge'[q] = charge[q]
        BY <1>1, <2>1, <3>3 DEF RequestsOf
      <4>2. /\ Units(charge', RequestsOf(v)) = Units(charge, RequestsOf(v))
            /\ Total(charge', RequestsOf(v)) = Total(charge, RequestsOf(v))
        BY <4>1, SameTotal
      <4>3. balance'[v] = balance[v]
        BY <1>1, <2>1, <3>3
      <4> QED BY <3>1, <4>2, <4>3
    <3> QED BY <3>2, <3>3
  <2>3. Counted'
    BY <1>1, <2>2 DEF Counted, Money, Units, Earned, RequestsOf
  <2>4. BooksBalance'
    BY <1>1, <2>2 DEF BooksBalance, Money, Total, Units, Earned, RequestsOf
  <2> QED BY <2>3, <2>4
<1> QED BY <1>2, <1>3 DEF Compensate

\* Commissions are credited when they are put on record.
LEMMA RewardBooks ==
  ASSUME IInv, Money, NEW w \in Workers, Reward(w) PROVE Counted' /\ BooksBalance'
<1> DEFINE r == Req(w)
<1>1. /\ r \in Requests /\ balance \in [Users -> Nat] /\ UNCHANGED charge
  BY Movement DEF WorkerStep, IInv, TypeOK, Reward
<1>2. CASE UNCHANGED <<balance, rewards>>
  BY <1>1, <1>2, SameBooks
<1>3. CASE /\ r \notin rewards /\ rewards' = rewards \cup {r}
           /\ balance' = [v \in Users |-> balance[v] + Commission[r][v]]
  <2> HIDE DEF r
  <2>1. ASSUME NEW v \in Users
        PROVE  /\ IsFiniteSet(Units(Earned(v), rewards'))
               /\ Total(Earned(v), rewards') = Total(Earned(v), rewards) + Commission[r][v]
               /\ balance'[v] = balance[v] + Commission[r][v]
    <3>1. Earned(v)[r] = Commission[r][v] /\ Commission[r][v] \in Nat
      BY <1>1, BalanceAssumption DEF Earned
    <3>2. IsFiniteSet(Units(Earned(v), rewards))
      BY DEF Money, Counted
    <3>3. /\ IsFiniteSet(Units(Earned(v), rewards \cup {r}))
          /\ Total(Earned(v), rewards \cup {r}) = Total(Earned(v), rewards) + Earned(v)[r]
      BY <1>3, <3>1, <3>2, OneMore
    <3> QED BY <1>3, <3>1, <3>3
  <2>2. ASSUME NEW v \in Users
        PROVE  /\ Total(charge, RequestsOf(v)) \in Nat /\ Total(Earned(v), rewards) \in Nat
               /\ balance[v] \in Nat /\ Commission[r][v] \in Nat
    BY <1>1, TotalIsNumber, BalanceAssumption DEF Money, Counted
  <2>3. Counted'
    <3>1. \A v \in Users : /\ IsFiniteSet(Units(charge', RequestsOf(v)))
                           /\ IsFiniteSet(Units(Earned(v), rewards'))
      BY <1>1, <2>1 DEF Money, Counted
    <3> QED BY <3>1 DEF Counted, Units, Earned, RequestsOf
  <2>4. ASSUME NEW v \in Users
        PROVE  balance'[v] + Total(charge, RequestsOf(v)) = InitialBalance + Total(Earned(v), rewards')
    <3>1. balance[v] + Total(charge, RequestsOf(v)) = InitialBalance + Total(Earned(v), rewards)
      BY DEF Money, BooksBalance
    <3>2. ASSUME NEW a \in Nat, NEW b \in Nat, NEW c \in Nat, NEW d \in Nat, NEW e \in Nat,
                 a + b = c + d
          PROVE  (a + e) + b = c + (d + e)
      BY <3>2
    <3>3. InitialBalance \in Nat
      BY BalanceAssumption
    <3>4. /\ Total(charge, RequestsOf(v)) \in Nat /\ Total(Earned(v), rewards) \in Nat
          /\ balance[v] \in Nat /\ Commission[r][v] \in Nat
      BY <2>2
    <3>5. (balance[v] + Commission[r][v]) + Total(charge, RequestsOf(v))
            = InitialBalance + (Total(Earned(v), rewards) + Commission[r][v])
      BY <3>1, <3>2, <3>3, <3>4
    <3> QED BY <2>1, <3>5
  <2>5. BooksBalance'
    BY <1>1, <2>4 DEF BooksBalance, Total, Units, Earned, RequestsOf
  <2> QED BY <2>3, <2>5
<1> QED BY <1>2, <1>3 DEF Reward

\* Every step keeps the books.
LEMMA MoneyStep == ASSUME IInv, Money, [Next]_vars PROVE Money'
<1>1. Priced'
  BY PricedStep DEF Money
<1>2. CASE UNCHANGED <<balance, charge, rewards>>
  BY <1>1, <1>2, SameBooks DEF Money
<1>3. CASE \E w \in Workers : Commit(w) \/ Compensate(w) \/ Reward(w)
  BY <1>1, <1>3, CommitBooks, CompensateBooks, RewardBooks DEF Money
<1>4. \/ UNCHANGED <<balance, charge, rewards>>
      \/ \E w \in Workers : Commit(w) \/ Compensate(w) \/ Reward(w)
  BY DEF Next, WorkerStep, Tick, CardRead, CardCommit, Submit, SubmitPlan, SubmitDevice, Submitted, Begin,
         Rollback, MakeKeys, MakeKeysRaises, ClearKeys, Reply, Crash, vars
<1> QED BY <1>2, <1>3, <1>4

\* The books balance at the beginning.
LEMMA MoneyInit == Init => Money
<1> SUFFICES ASSUME Init PROVE Money
  OBVIOUS
<1>1. \A w \in Workers : worker[w].pc = "idle"
  BY DEF Init, Idle
<1>2. Priced
  BY <1>1 DEF Priced, Owning
<1>3. ASSUME NEW u \in Users
      PROVE  /\ IsFiniteSet(Units(charge, RequestsOf(u))) /\ Total(charge, RequestsOf(u)) = 0
             /\ IsFiniteSet(Units(Earned(u), rewards)) /\ Total(Earned(u), rewards) = 0
             /\ balance[u] = InitialBalance
  <2>1. \A r \in RequestsOf(u) : charge[r] = 0
    BY DEF Init, RequestsOf
  <2>2. \A r \in rewards : Earned(u)[r] = 0
    BY DEF Init
  <2> QED BY <2>1, <2>2, NothingIsZero DEF Init
<1>4. Counted /\ BooksBalance
  BY <1>3, BalanceAssumption DEF Counted, BooksBalance
<1> QED BY <1>2, <1>4 DEF Money
-----------------------------------------------------------------------------
(* What the purchases are worth.                                           *)

\* The clock has started, also for every request on its way.
Started ==
  /\ now >= 1
  /\ \A w \in Workers : worker[w].pc \in {"begin", "inTx"} => worker[w].at >= 1

\* The plans that stand are finitely many.
Countable == \A u \in Users : IsFiniteSet(Units(Period, PaidPlans(u)))

\* A remembered end is worth the purchases its row included.
Sound(until, knows) == IsFiniteSet(Units(Period, knows)) /\ Covers(until, knows)

RowSound(u)    == Covers(snap[u].until, PaidPlans(u))
ReadSound(w)   == worker[w].pc = "inTx" => Covers(worker[w].seen.until, PaidPlans(User(w)))
MemorySound(w) == Sound(worker[w].pre.until, worker[w].knows)
CardSound(u)   == card[u].pc = "open" => Sound(card[u].seen, card[u].knows)

(***************************************************************************)
(* Unless a stale row was written back, the stored row and the row a       *)
(* transaction of the user has read are worth all purchases that stand,    *)
(* and what a card payment or a compensation remembers is worth those it   *)
(* knew of.                                                                *)
(***************************************************************************)
Stored ==
  \A u \in Users \ raced :
    /\ RowSound(u)
    /\ \A w \in Workers : worker[w].pc # "idle" /\ User(w) = u => ReadSound(w)

Remembered ==
  \A u \in Users \ raced :
    /\ CardSound(u)
    /\ \A w \in Workers : worker[w].pc # "idle" /\ User(w) = u => MemorySound(w)

Worth == Started /\ Countable /\ Stored /\ Remembered

\* One more plan on a covering row, extended by its period, is covered too.
LEMMA CoversOneMore ==
  ASSUME NEW P, NEW r \in Requests, r \notin P, IsFiniteSet(Units(Period, P)),
         NEW until \in Nat, NEW at \in Nat, at >= 1, Covers(until, P)
  PROVE  /\ IsFiniteSet(Units(Period, P \cup {r}))
         /\ Covers(RenewedUntil(until, at, Period[r]), P \cup {r})
<1>1. Period[r] \in Nat
  BY BalanceAssumption
<1>2. /\ IsFiniteSet(Units(Period, P \cup {r}))
      /\ Total(Period, P \cup {r}) = Total(Period, P) + Period[r]
  BY <1>1, OneMore
<1>3. Total(Period, P) \in Nat
  BY TotalIsNumber
<1>4. CASE P = {}
  <2>1. Total(Period, P) = 0
    BY <1>4, NothingIsZero
  <2>2. RenewedUntil(until, at, Period[r]) >= 1 + Period[r]
    BY <1>1 DEF RenewedUntil
  <2> QED BY <1>1, <1>2, <2>1, <2>2 DEF Covers
<1>5. CASE P # {}
  <2>1. until >= 1 + Total(Period, P)
    BY <1>5 DEF Covers
  <2>2. RenewedUntil(until, at, Period[r]) >= until + Period[r]
    BY <1>1 DEF RenewedUntil
  <2>3. RenewedUntil(until, at, Period[r]) \in Nat
    BY <1>1 DEF RenewedUntil
  <2> QED BY <1>1, <1>2, <1>3, <2>1, <2>2, <2>3 DEF Covers
<1> QED BY <1>4, <1>5

\* A later end covers what an earlier one does.
LEMMA CoversLater ==
  ASSUME NEW P, IsFiniteSet(Units(Period, P)), NEW a \in Nat, NEW b \in Nat, a <= b, Covers(a, P)
  PROVE  Covers(b, P)
<1>1. Total(Period, P) \in Nat
  BY TotalIsNumber
<1> QED BY <1>1 DEF Covers

\* What covers some purchases covers fewer.
LEMMA CoversFewer ==
  ASSUME NEW P, NEW Q, Q \subseteq P, NEW until \in Nat, Sound(until, P)
  PROVE  IsFiniteSet(Units(Period, Q)) /\ Covers(until, Q)
<1>1. Units(Period, Q) \subseteq Units(Period, P) /\ IsFiniteSet(Units(Period, P))
  BY DEF Units, Sound
<1>2. /\ IsFiniteSet(Units(Period, Q))
      /\ Cardinality(Units(Period, Q)) <= Cardinality(Units(Period, P))
  BY <1>1, FS_Subset
<1>3. Total(Period, Q) \in Nat /\ Total(Period, P) \in Nat /\ Total(Period, Q) <= Total(Period, P)
  BY <1>1, <1>2, FS_CardinalityType DEF Total
<1> QED BY <1>2, <1>3 DEF Sound, Covers

\* Nothing remembered is always worth it.
LEMMA SoundOfNothing == ASSUME NEW until PROVE Sound(until, {})
<1>1. IsFiniteSet(Units(Period, {}))
  BY NothingIsZero
<1> QED BY <1>1 DEF Sound, Covers

\* A stale write is not forgotten.
LEMMA RacedGrows == ASSUME [Next]_vars PROVE raced \subseteq raced'
BY DEF Next, vars, WorkerStep, Tick, CardRead, CardCommit, Submit, SubmitPlan, SubmitDevice, Submitted,
   Begin, Commit, Rollback, MakeKeys, MakeKeysRaises, ClearKeys, Compensate, Reward, Reply, Crash,
   Overwrites

\* A worker keeps its request, and what it remembers, until it is idle again.
LEMMA MemoryKept ==
  ASSUME IInv, NEW w \in Workers, WorkerStep(w) \/ Crash(w), worker'[w].pc # "idle"
  PROVE  /\ worker'[w].req = worker[w].req
         /\ worker'[w].pre = worker[w].pre /\ worker'[w].knows = worker[w].knows
<1>1. worker \in [Workers -> WorkerState] /\ worker[w] \in WorkerState
  BY DEF IInv, TypeOK
<1>2. PICK s : s = worker[w]
  OBVIOUS
<1>3. DOMAIN worker = Workers /\ DOMAIN s = DOMAIN Idle
  BY <1>1, <1>2 DEF WorkerState, Idle
<1> USE DEF Goto, Finish
<1>4. ASSUME NEW q, worker' = [worker EXCEPT ![w] = q],
             q.req = s.req, q.pre = s.pre, q.knows = s.knows
      PROVE  /\ worker'[w].req = worker[w].req
             /\ worker'[w].pre = worker[w].pre /\ worker'[w].knows = worker[w].knows
  BY <1>2, <1>3, <1>4
<1>5. CASE \E pc : worker' = [worker EXCEPT ![w] = [s EXCEPT !.pc = pc]]
  <2>1. PICK pc : worker' = [worker EXCEPT ![w] = [s EXCEPT !.pc = pc]]
    BY <1>5
  <2> DEFINE q == [s EXCEPT !.pc = pc]
  <2>2. q.req = s.req /\ q.pre = s.pre /\ q.knows = s.knows
    BY <1>3 DEF Idle
  <2> QED BY <1>4, <2>1, <2>2
<1>6. CASE \E status : worker' = [worker EXCEPT ![w] = [s EXCEPT !.pc = "reply", !.status = status]]
  <2>1. PICK status : worker' = [worker EXCEPT ![w] = [s EXCEPT !.pc = "reply", !.status = status]]
    BY <1>6
  <2> DEFINE q == [s EXCEPT !.pc = "reply", !.status = status]
  <2>2. q.req = s.req /\ q.pre = s.pre /\ q.knows = s.knows
    BY <1>3 DEF Idle
  <2> QED BY <1>4, <2>1, <2>2
<1>7. CASE worker' = [worker EXCEPT ![w] = [s EXCEPT !.tries = s.tries + 1]]
  <2> DEFINE q == [s EXCEPT !.tries = s.tries + 1]
  <2>1. q.req = s.req /\ q.pre = s.pre /\ q.knows = s.knows
    BY <1>3 DEF Idle
  <2> QED BY <1>4, <1>7, <2>1
<1>8. CASE worker' = [worker EXCEPT ![w] = [s EXCEPT !.pc = "inTx", !.seen = snap[User(w)],
                                                     !.cost = Cost(Req(w))]]
  <2> DEFINE q == [s EXCEPT !.pc = "inTx", !.seen = snap[User(w)], !.cost = Cost(Req(w))]
  <2>1. q.req = s.req /\ q.pre = s.pre /\ q.knows = s.knows
    BY <1>3 DEF Idle
  <2> QED BY <1>4, <1>8, <2>1
<1>9. CASE worker' = [worker EXCEPT ![w] = Idle]
  BY <1>3, <1>9 DEF Idle
<1>10. ASSUME Begin(w)
       PROVE  \/ \E status : worker' = [worker EXCEPT ![w] = [s EXCEPT !.pc = "reply", !.status = status]]
              \/ worker' = [worker EXCEPT ![w] = [s EXCEPT !.pc = "inTx", !.seen = snap[User(w)],
                                                          !.cost = Cost(Req(w))]]
  BY <1>2, <1>10 DEF Begin
<1>11. ASSUME Commit(w) \/ Rollback(w) \/ MakeKeys(w) \/ ClearKeys(w) \/ Compensate(w) \/ Reward(w)
       PROVE  \/ \E pc : worker' = [worker EXCEPT ![w] = [s EXCEPT !.pc = pc]]
              \/ \E status : worker' = [worker EXCEPT ![w] = [s EXCEPT !.pc = "reply", !.status = status]]
  BY <1>2, <1>11 DEF Commit, Rollback, MakeKeys, ClearKeys, Compensate, Reward
<1>12. ASSUME MakeKeysRaises(w)
       PROVE  \/ \E pc : worker' = [worker EXCEPT ![w] = [s EXCEPT !.pc = pc]]
              \/ worker' = [worker EXCEPT ![w] = [s EXCEPT !.tries = s.tries + 1]]
  BY <1>2, <1>12 DEF MakeKeysRaises
<1>13. ASSUME Reply(w) \/ Crash(w) PROVE worker' = [worker EXCEPT ![w] = Idle]
  BY <1>13 DEF Reply, Crash
<1> QED BY <1>5, <1>6, <1>7, <1>8, <1>9, <1>10, <1>11, <1>12, <1>13 DEF WorkerStep

\* What is remembered stays worth what it knew of; new memories are of sound rows.
LEMMA RememberedStep == ASSUME IInv, Worth, [Next]_vars PROVE Remembered'
<1> SUFFICES ASSUME NEW u \in Users \ raced'
             PROVE  /\ CardSound(u)'
                    /\ \A w \in Workers : worker'[w].pc # "idle" /\ User(w)' = u => MemorySound(w)'
  BY DEF Remembered
<1>1. u \in Users \ raced
  BY RacedGrows
<1>2. /\ Sound(snap[u].until, PaidPlans(u)) /\ CardSound(u)
      /\ \A w \in Workers : worker[w].pc # "idle" /\ User(w) = u => MemorySound(w)
  BY <1>1 DEF Worth, Countable, Stored, Remembered, RowSound, Sound
<1>3. \/ card'[u] = card[u] \/ card'[u].pc = "done"
      \/ card'[u] = [pc |-> "open", at |-> now, seen |-> snap[u].until, knows |-> PaidPlans(u)]
  <2>1. card \in [Users -> CardState]
    BY DEF IInv, TypeOK
  <2>2. CASE \E w \in Workers : WorkerStep(w) \/ Crash(w)
    BY <2>2, Movement
  <2>3. CASE \E w \in Workers, r \in Requests : Submit(w, r)
    BY <2>3, Arrival
  <2>4. CASE \E v \in Users : CardRead(v) \/ CardCommit(v)
    BY <2>1, <2>4, <1>1 DEF CardRead, CardCommit, PaidByCard, NoCard
  <2>5. CASE Tick \/ UNCHANGED vars
    BY <2>5 DEF Tick, vars
  <2> QED BY <2>2, <2>3, <2>4, <2>5 DEF Next
<1>4. CardSound(u)'
  <2>1. CASE card'[u].pc = "open" /\ card'[u] = card[u]
    <3>1. Sound(card'[u].seen, card'[u].knows)
      BY <1>2, <2>1 DEF CardSound
    <3> QED BY <3>1 DEF CardSound, Sound, Covers, Total, Units
  <2>2. CASE card'[u].pc = "open" /\ card'[u].seen = snap[u].until /\ card'[u].knows = PaidPlans(u)
    <3>1. Sound(card'[u].seen, card'[u].knows)
      BY <1>2, <2>2
    <3> QED BY <3>1 DEF CardSound, Sound, Covers, Total, Units
  <2> QED BY <1>3, <2>1, <2>2 DEF CardSound
<1>5. ASSUME NEW w \in Workers, worker'[w].pc # "idle", User(w)' = u
      PROVE  MemorySound(w)'
  <2>1. CASE worker[w].pc # "idle" /\ worker'[w].req = worker[w].req
             /\ worker'[w].pre = worker[w].pre /\ worker'[w].knows = worker[w].knows
    <3>1. User(w) = u
      BY <1>5, <2>1 DEF User, Req
    <3>2. MemorySound(w)
      BY <1>2, <2>1, <3>1
    <3> QED BY <2>1, <3>2 DEF MemorySound, Sound, Covers, Total, Units
  <2>2. CASE worker'[w].pre = snap[u] /\ worker'[w].knows = PaidPlans(u)
    BY <1>2, <2>2 DEF MemorySound, Sound, Covers, Total, Units
  <2>3. CASE worker'[w].knows = {}
    BY <2>3, SoundOfNothing DEF MemorySound, Sound, Covers, Total, Units
  <2>4. ASSUME NEW v \in Workers, WorkerStep(v) \/ Crash(v)
        PROVE  worker[w].pc # "idle" /\ worker'[w].req = worker[w].req
               /\ worker'[w].pre = worker[w].pre /\ worker'[w].knows = worker[w].knows
    BY <1>5, <2>4, Movement, MemoryKept
  <2>5. ASSUME NEW v \in Workers, NEW r \in Requests, Submit(v, r)
        PROVE  \/ worker'[w] = worker[w]
               \/ worker'[w].pre = snap[u] /\ worker'[w].knows = PaidPlans(u)
               \/ worker'[w].knows = {}
    BY <1>5, <2>5, Arrival DEF User, Req
  <2>6. CASE Tick \/ UNCHANGED vars \/ \E v \in Users : CardRead(v) \/ CardCommit(v)
    <3>1. worker' = worker
      BY <2>6 DEF Tick, CardRead, CardCommit, vars
    <3> QED BY <1>5, <2>1, <3>1
  <2> QED BY <1>5, <2>1, <2>2, <2>3, <2>4, <2>5, <2>6 DEF Next
<1> QED BY <1>4, <1>5

\* While no debit row changes and no end moves back, what stands stays covered.
LEMMA WorthStays ==
  ASSUME IInv, IInv', Worth, Started', Remembered', [Next]_vars, UNCHANGED charge,
         \A u \in Users \ raced' : snap'[u].until >= snap[u].until \/ RowSound(u)',
         \A w \in Workers : worker'[w].pc = "inTx" =>
           /\ worker'[w].req = worker[w].req /\ worker[w].pc # "idle"
           /\ \/ worker[w].pc = "inTx" /\ worker'[w].seen = worker[w].seen
              \/ worker'[w].seen = snap[User(w)]
  PROVE  Worth'
<1>1. \A u \in Users : PaidPlans(u)' = PaidPlans(u)
  BY DEF PaidPlans, RequestsOf
<1>2. Countable'
  BY <1>1 DEF Worth, Countable, Units
<1>3. ASSUME NEW u \in Users \ raced'
      PROVE  /\ RowSound(u)'
             /\ \A w \in Workers : worker'[w].pc # "idle" /\ User(w)' = u => ReadSound(w)'
  <2>1. u \notin raced
    BY RacedGrows
  <2>2. IsFiniteSet(Units(Period, PaidPlans(u))) /\ Covers(snap[u].until, PaidPlans(u))
    BY <2>1 DEF Worth, Countable, Stored, RowSound
  <2>3. snap[u].until \in Nat /\ snap'[u].until \in Nat
    BY DEF IInv, TypeOK, Row
  <2>4. RowSound(u)'
    <3>1. CASE snap'[u].until >= snap[u].until
      <4>1. Covers(snap'[u].until, PaidPlans(u))
        BY <2>2, <2>3, <3>1, CoversLater
      <4> QED BY <1>1, <4>1 DEF RowSound, Covers, Total, Units
    <3> QED BY <3>1
  <2>5. ASSUME NEW w \in Workers, worker'[w].pc = "inTx", User(w)' = u
        PROVE  Covers(worker'[w].seen.until, PaidPlans(u)')
    <3>1. User(w) = u /\ worker[w].pc # "idle"
      BY <2>5 DEF User, Req
    <3>2. worker[w].pc = "inTx" => Covers(worker[w].seen.until, PaidPlans(u))
      BY <2>1, <3>1 DEF Worth, Stored, ReadSound
    <3> QED BY <1>1, <2>2, <2>5, <3>1, <3>2
  <2> QED BY <2>4, <2>5 DEF ReadSound, Covers, Total, Units
<1>4. Stored'
  BY <1>3 DEF Stored
<1> QED BY <1>2, <1>4 DEF Worth

\* The clock does not stop, and requests remember an instant after its start.
LEMMA StartedStep == ASSUME IInv, Started, [Next]_vars PROVE Started'
<1>0. now \in Nat
  BY DEF IInv, TypeOK
<1>1. ASSUME NEW w \in Workers, WorkerStep(w) \/ Crash(w) PROVE Started'
  BY <1>1, Movement DEF Started
<1>2. ASSUME NEW w \in Workers, NEW r \in Requests, Submit(w, r) PROVE Started'
  BY <1>2, Arrival DEF Started
<1>3. CASE Tick \/ UNCHANGED vars \/ \E u \in Users : CardRead(u) \/ CardCommit(u)
  <2>1. worker' = worker /\ now' \in {now, now + 1}
    BY <1>3 DEF Tick, CardRead, CardCommit, vars
  <2> QED BY <1>0, <2>1 DEF Started
<1> QED BY <1>1, <1>2, <1>3 DEF Next

\* A purchase is worth its period when it commits.
LEMMA CommitWorth ==
  ASSUME IInv, IInv', Worth, Started', Remembered', NEW w \in Workers, Commit(w) PROVE Worth'
<1>a. PICK r, u, s : r = Req(w) /\ u = User(w) /\ s = worker[w]
  OBVIOUS
<1> DEFINE until == snap'[u].until
<1>1. /\ r \in Requests /\ u \in Users /\ u = Buyer[r] /\ s.pc = "inTx" /\ s \in WorkerState
      /\ s.at \in Nat /\ s.at >= 1 /\ s.seen.until \in Nat
      /\ charge[r] = 0 /\ s.cost # 0
      /\ charge \in [Requests -> Nat] /\ snap \in [Users -> Row]
  <2>1. /\ r \in Requests /\ u \in Users /\ u = Buyer[r] /\ s.pc = "inTx"
        /\ s \in WorkerState /\ s.at >= 1 /\ charge[r] = 0 /\ s.cost # 0
        /\ charge \in [Requests -> Nat] /\ snap \in [Users -> Row]
    BY <1>a, Movement DEF WorkerStep, IInv, TypeOK, TransactionIsFunded, Worth, Started, User, Commit
  <2> QED BY <2>1 DEF WorkerState, Row
<1>2. /\ charge' = [charge EXCEPT ![r] = s.cost] /\ UNCHANGED raced
      /\ snap' = [snap EXCEPT ![u] = WrittenRow(w)]
  BY <1>a DEF Commit
<1>3. until = IF Kind[r] = "plan" THEN RenewedUntil(s.seen.until, s.at, Period[r]) ELSE s.seen.until
  <2>1. WrittenRow(w).until
          = IF Kind[r] = "plan" THEN RenewedUntil(s.seen.until, s.at, Period[r]) ELSE s.seen.until
    BY <1>a, <1>1 DEF WrittenRow, UpsertState, Row
  <2> QED BY <1>1, <1>2, <2>1
<1>4. PaidPlans(u)' = IF Kind[r] = "plan" THEN PaidPlans(u) \cup {r} ELSE PaidPlans(u)
  BY <1>1, <1>2 DEF PaidPlans, RequestsOf
<1>5. r \notin PaidPlans(u)
  BY <1>1 DEF PaidPlans
<1>6. ASSUME NEW v \in Users \ {u} PROVE PaidPlans(v)' = PaidPlans(v) /\ snap'[v] = snap[v]
  BY <1>1, <1>2 DEF PaidPlans, RequestsOf
<1>8. /\ IsFiniteSet(Units(Period, PaidPlans(u)'))
      /\ u \notin raced => Covers(until, PaidPlans(u)')
  <2>1. IsFiniteSet(Units(Period, PaidPlans(u)))
    BY <1>1 DEF Worth, Countable
  <2>2. u \notin raced => Covers(s.seen.until, PaidPlans(u))
    BY <1>a, <1>1 DEF Worth, Stored, ReadSound
  <2>3. CASE Kind[r] # "plan"
    BY <1>3, <1>4, <2>1, <2>2, <2>3
  <2>4. CASE Kind[r] = "plan"
    <3> DEFINE P == PaidPlans(u)
    <3>1. Period[r] \in Nat
      BY <1>1, BalanceAssumption
    <3>2. IsFiniteSet(Units(Period, P \cup {r}))
      BY <1>5, <2>1, <3>1, OneMore
    <3>3. ASSUME u \notin raced
          PROVE  Covers(RenewedUntil(s.seen.until, s.at, Period[r]), P \cup {r})
      <4>1. Covers(s.seen.until, P)
        BY <2>2, <3>3
      <4> HIDE DEF P
      <4>2. s.at \in Nat /\ s.at >= 1 /\ s.seen.until \in Nat /\ r \in Requests
            /\ r \notin P /\ IsFiniteSet(Units(Period, P))
        BY <1>1, <1>5, <2>1 DEF P
      <4> QED BY <4>1, <4>2, CoversOneMore
    <3> QED BY <1>3, <1>4, <2>4, <3>2, <3>3
  <2> QED BY <2>3, <2>4
<1>9. Countable'
  <2>1. \A v \in Users : IsFiniteSet(Units(Period, PaidPlans(v)'))
    BY <1>6, <1>8 DEF Worth, Countable
  <2> QED BY <2>1 DEF Countable, Units
<1>10. ASSUME NEW v \in Users \ raced'
       PROVE  /\ Covers(snap'[v].until, PaidPlans(v)')
              /\ \A x \in Workers : worker'[x].pc = "inTx" /\ User(x)' = v =>
                   Covers(worker'[x].seen.until, PaidPlans(v)')
  <2>1. \A x \in Workers : worker'[x].pc = "inTx" =>
          /\ worker'[x] = worker[x] /\ worker[x].pc = "inTx" /\ User(x)' = User(x) /\ User(x) # u
    <3>1. \A x \in Workers \ {w} : worker'[x] = worker[x]
      BY Movement DEF WorkerStep
    <3>2. worker'[w].pc # "inTx"
      BY <1>a, <1>1, Movement DEF WorkerStep
    <3>3. \A x \in Workers \ {w} : worker[x].pc = "inTx" => User(x) # u
      BY <1>a, <1>1 DEF IInv, LockIsExclusive
    <3> QED BY <3>1, <3>2, <3>3 DEF User, Req
  <2>2. CASE v = u
    BY <1>2, <1>8, <1>10, <2>1, <2>2
  <2>3. CASE v # u
    <3>1. PaidPlans(v)' = PaidPlans(v) /\ snap'[v] = snap[v] /\ v \notin raced
      BY <1>2, <1>6, <1>10, <2>3
    <3> QED BY <2>1, <3>1 DEF Worth, Stored, RowSound, ReadSound
  <2> QED BY <2>2, <2>3
<1>11. Stored'
  BY <1>10 DEF Stored, RowSound, ReadSound, Covers, Total, Units
<1> QED BY <1>9, <1>11 DEF Worth

\* A refund that knew of all purchases that stand leaves the row worth them.
LEMMA CompensateWorth ==
  ASSUME IInv, IInv', Worth, Started', Remembered', [Next]_vars,
         NEW w \in Workers, Compensate(w)
  PROVE  Worth'
<1>a. PICK r, u, s : r = Req(w) /\ u = User(w) /\ s = worker[w]
  OBVIOUS
<1>1. /\ r \in Requests /\ u \in Users /\ u = Buyer[r] /\ s.pc # "idle" /\ s.pre.until \in Nat
      /\ charge \in [Requests -> Nat] /\ snap \in [Users -> Row]
      /\ \A x \in Workers : worker'[x].pc = "inTx" => worker'[x] = worker[x]
  <2>1. worker'[w].pc # "inTx"
    BY Movement DEF WorkerStep, Compensate
  <2>2. \A x \in Workers \ {w} : worker'[x] = worker[x]
    BY Movement DEF WorkerStep
  <2>3. s.pre.until \in Nat
    BY <1>a DEF IInv, TypeOK, WorkerState, Row
  <2> QED BY <1>a, <2>1, <2>2, <2>3, Movement DEF WorkerStep, IInv, TypeOK, User
<1>2. CASE UNCHANGED <<charge, snap, refunds, raced>>
  <2>1. \A v \in Users : snap'[v].until >= snap[v].until
    BY <1>1, <1>2 DEF Row
  <2> QED BY <1>1, <1>2, <2>1, WorthStays
<1>3. CASE /\ Refund(w) /\ refunds' = refunds \cup {r}
           /\ snap' = [snap EXCEPT ![u] = RevertedRow(w)]
           /\ Overwrites(u, s.knows, PaidPlans(u) \ {r})
  <2>1. charge' = [charge EXCEPT ![r] = 0]
    BY <1>a, <1>3 DEF Refund
  <2>2. PaidPlans(u)' = PaidPlans(u) \ {r}
    BY <1>1, <2>1 DEF PaidPlans, RequestsOf
  <2>3. ASSUME NEW v \in Users \ {u} PROVE PaidPlans(v)' = PaidPlans(v) /\ snap'[v] = snap[v]
    BY <1>1, <1>3, <2>1 DEF PaidPlans, RequestsOf
  <2>4. snap'[u].until = s.pre.until
    <3>1. RevertedRow(w).until = s.pre.until
      BY <1>a, <1>1 DEF RevertedRow, UpsertState, Row, NoRow
    <3> QED BY <1>1, <1>3, <3>1
  <2>5. Countable'
    <3>1. IsFiniteSet(Units(Period, PaidPlans(u)))
      BY <1>1 DEF Worth, Countable
    <3>2. Units(Period, PaidPlans(u) \ {r}) \subseteq Units(Period, PaidPlans(u))
      BY DEF Units
    <3>3. IsFiniteSet(Units(Period, PaidPlans(u) \ {r}))
      BY <3>1, <3>2, FS_Subset
    <3>4. \A v \in Users : IsFiniteSet(Units(Period, PaidPlans(v)'))
      BY <2>2, <2>3, <3>3 DEF Worth, Countable
    <3> QED BY <3>4 DEF Countable, Units
  <2>6. ASSUME u \notin raced' PROVE Covers(s.pre.until, PaidPlans(u) \ {r})
    <3>1. PaidPlans(u) \ {r} \subseteq s.knows /\ u \notin raced
      BY <1>3, <2>6 DEF Overwrites
    <3>2. Sound(s.pre.until, s.knows)
      BY <1>a, <1>1, <3>1 DEF Worth, Remembered, MemorySound
    <3> QED BY <1>1, <3>1, <3>2, CoversFewer
  <2>7. ASSUME NEW v \in Users \ raced'
        PROVE  /\ Covers(snap'[v].until, PaidPlans(v)')
               /\ \A x \in Workers : worker'[x].pc = "inTx" /\ User(x)' = v =>
                    Covers(worker'[x].seen.until, PaidPlans(v)')
    <3>1. v \notin raced
      BY <1>3 DEF Overwrites
    <3>2. ASSUME NEW x \in Workers, worker'[x].pc = "inTx", User(x)' = v
          PROVE  worker[x].pc = "inTx" /\ User(x) = v /\ worker'[x].seen = worker[x].seen
      BY <1>1, <3>2 DEF User, Req
    <3>3. CASE v # u
      BY <2>3, <3>1, <3>2, <3>3 DEF Worth, Stored, RowSound, ReadSound
    <3>4. CASE v = u
      <4>1. \A x \in Workers : worker'[x].pc = "inTx" => User(x) # u
        <5>1. \A x \in Workers : worker[x].pc = "inTx" => User(x) # u
          BY <1>a DEF Compensate, Unlocked
        <5> QED BY <1>1, <5>1
      <4> QED BY <2>2, <2>4, <2>6, <2>7, <3>2, <3>4, <4>1
    <3> QED BY <3>3, <3>4
  <2>8. Stored'
    BY <2>7 DEF Stored, RowSound, ReadSound, Covers, Total, Units
  <2> QED BY <2>5, <2>8 DEF Worth
<1> QED BY <1>a, <1>2, <1>3 DEF Compensate

\* A card payment that knew of all purchases that stand leaves the row worth them.
LEMMA CardWorth ==
  ASSUME IInv, IInv', Worth, Started', Remembered', [Next]_vars,
         NEW u \in Users, CardCommit(u)
  PROVE  Worth'
<1> DEFINE c == card[u]
           end == RenewedUntil(c.seen, c.at, CardPeriod)
           row == UpsertState(snap[u], "active", end, TRUE, DefaultDevices, Null)
<1>1. /\ snap \in [Users -> Row] /\ \A v \in Users : snap[v].until \in Nat
      /\ c.seen \in Nat /\ c.at \in Nat /\ CardPeriod \in Nat
  BY BalanceAssumption DEF IInv, TypeOK, Row, CardState
<1>2. UNCHANGED <<charge, worker>> /\ snap' = [snap EXCEPT ![u] = row]
  BY DEF CardCommit
<1>3. row.until = end /\ end \in Nat /\ end >= c.seen
  <2>1. row.until = end
    BY <1>1 DEF UpsertState, Row
  <2>2. end \in Nat /\ end >= c.seen
    BY <1>1 DEF RenewedUntil
  <2> QED BY <2>1, <2>2
<1> HIDE DEF row, end
<1>4. PaidPlans(u)' = PaidPlans(u)
  BY <1>2 DEF PaidPlans, RequestsOf
<1>5. ASSUME u \notin raced' PROVE RowSound(u)'
  <2>1. PaidPlans(u) \subseteq c.knows /\ u \notin raced
    BY <1>5 DEF CardCommit, Overwrites
  <2>2. Sound(c.seen, c.knows)
    BY <2>1 DEF Worth, Remembered, CardSound, CardCommit
  <2> HIDE DEF c
  <2>3. IsFiniteSet(Units(Period, PaidPlans(u))) /\ Covers(c.seen, PaidPlans(u))
    BY <1>1, <2>1, <2>2, CoversFewer
  <2>4. Covers(end, PaidPlans(u))
    BY <1>1, <1>3, <2>3, CoversLater
  <2>5. snap'[u].until = end
    BY <1>1, <1>2, <1>3
  <2> QED BY <1>4, <2>4, <2>5 DEF RowSound, Covers, Total, Units
<1>6. \A v \in Users \ {u} : snap'[v].until >= snap[v].until
  BY <1>1, <1>2
<1> QED BY <1>2, <1>5, <1>6, WorthStays

\* Every step keeps the worth of what was paid.
LEMMA WorthStep == ASSUME IInv, IInv', Worth, [Next]_vars PROVE Worth'
<1>1. Started' /\ Remembered'
  BY StartedStep, RememberedStep DEF Worth
<1>2. snap \in [Users -> Row] /\ \A u \in Users : snap[u].until \in Nat
  BY DEF IInv, TypeOK, Row
<1>3. ASSUME NEW w \in Workers,
             \/ Begin(w) \/ Rollback(w) \/ MakeKeys(w) \/ MakeKeysRaises(w) \/ ClearKeys(w)
             \/ Reward(w) \/ Reply(w) \/ Crash(w)
      PROVE  Worth'
  <2>1. UNCHANGED charge
    BY <1>3 DEF Begin, Rollback, MakeKeys, MakeKeysRaises, ClearKeys, Reward, Reply, Crash
  <2>2. \A u \in Users : snap'[u].until >= snap[u].until
    <3>1. CASE ClearKeys(w)
      <4>1. \/ UNCHANGED snap
            \/ snap' = [snap EXCEPT ![User(w)] = ClearKeyInstants(snap[User(w)])]
        BY <3>1 DEF ClearKeys
      <4>2. \A u \in Users : ClearKeyInstants(snap[u]).until = snap[u].until
        BY <1>2 DEF ClearKeyInstants, Row
      <4> QED BY <1>2, <4>1, <4>2
    <3>2. CASE UNCHANGED snap
      BY <1>2, <3>2
    <3> QED BY <1>3, <3>1, <3>2 DEF Begin, Rollback, MakeKeys, MakeKeysRaises, Reward, Reply, Crash
  <2>3. ASSUME NEW x \in Workers, worker'[x].pc = "inTx"
        PROVE  /\ worker'[x].req = worker[x].req /\ worker[x].pc # "idle"
               /\ \/ worker[x].pc = "inTx" /\ worker'[x].seen = worker[x].seen
                  \/ worker'[x].seen = snap[User(x)]
    BY <1>3, <2>3, Movement DEF WorkerStep
  <2> QED BY <1>1, <2>1, <2>2, <2>3, WorthStays
<1>4. ASSUME NEW w \in Workers, NEW r \in Requests, Submit(w, r) PROVE Worth'
  <2>1. UNCHANGED <<charge, snap>>
    BY <1>4, Arrival
  <2>2. \A u \in Users : snap'[u].until >= snap[u].until
    BY <1>2, <2>1
  <2>3. \A x \in Workers : worker'[x].pc = "inTx" => worker'[x] = worker[x]
    BY <1>4, Arrival
  <2> QED BY <1>1, <2>1, <2>2, <2>3, WorthStays
<1>5. CASE Tick \/ UNCHANGED vars \/ \E u \in Users : CardRead(u)
  <2>1. UNCHANGED <<charge, snap, worker>>
    BY <1>5 DEF Tick, CardRead, vars
  <2>2. \A u \in Users : snap'[u].until >= snap[u].until
    BY <1>2, <2>1
  <2> QED BY <1>1, <2>1, <2>2, WorthStays
<1>6. ASSUME NEW u \in Users, CardCommit(u) PROVE Worth'
  BY <1>1, <1>6, CardWorth
<1> QED BY <1>3, <1>4, <1>5, <1>6, CommitWorth, CompensateWorth, <1>1 DEF Next, WorkerStep

\* At the beginning nobody has paid.
LEMMA WorthInit == Init => Worth
<1> SUFFICES ASSUME Init PROVE Worth
  OBVIOUS
<1>1. \A u \in Users : PaidPlans(u) = {}
  BY DEF Init, PaidPlans, RequestsOf
<1>2. Started
  <2>1. now >= 1
    BY BalanceAssumption DEF Init
  <2> QED BY <2>1 DEF Init, Started, Idle
<1>3. Countable
  BY <1>1, NothingIsZero DEF Countable
<1>4. \A w \in Workers : worker[w].pc = "idle"
  BY DEF Init, Idle
<1>5. Stored
  BY <1>1, <1>4 DEF Stored, RowSound, Covers
<1>6. Remembered
  <2>1. \A u \in Users : card[u].pc # "open"
    BY DEF Init, NoCard, PaidByCard
  <2> QED BY <1>4, <2>1 DEF Remembered, CardSound
<1> QED BY <1>2, <1>3, <1>5, <1>6 DEF Worth
-----------------------------------------------------------------------------
(***************************************************************************)
(* IInv is inductive, so it holds in every reachable state.                *)
(***************************************************************************)
THEOREM Invariance == Spec => []IInv
BY InitEstablishes, InvariantStep, PTL DEF Spec

(***************************************************************************)
(* Types are kept; in particular no balance ever becomes negative, so the  *)
(* CHECK of referral_balances never fires in the middle of a purchase.     *)
(***************************************************************************)
THEOREM BalanceNeverNegative == Spec => []TypeOK
<1>1. IInv => TypeOK
  BY DEF IInv
<1> QED BY <1>1, Invariance, PTL

(***************************************************************************)
(* A purchase a caller was told is completed stays paid, for any number of *)
(* repeats, concurrent requests, provider failures and crashes.            *)
(***************************************************************************)
THEOREM CompletedStaysPaid == Spec => []CompletedStands
<1>1. IInv => CompletedStands
  BY DEF IInv, Ownership, SettledStands, Settled, CompletedStands
<1> QED BY <1>1, Invariance, PTL

(***************************************************************************)
(* Commissions are only ever on record for a purchase that stands.         *)
(***************************************************************************)
THEOREM RewardsArePaidFor == Spec => []RewardedIsCharged
<1>1. IInv => RewardedIsCharged
  BY DEF IInv, TypeOK, Ownership, SettledStands, Settled, RewardedIsCharged
<1> QED BY <1>1, Invariance, PTL

(***************************************************************************)
(* No interleaving of purchases, refunds, commissions, failures and        *)
(* crashes loses or makes money: balances and debit rows always add up to  *)
(* what users started with and the commissions on record.                  *)
(***************************************************************************)
THEOREM MoneyIsConserved == Spec => []BooksBalance
<1>1. Init => Money
  BY MoneyInit
<1>2. IInv /\ Money /\ [Next]_vars => Money'
  BY MoneyStep
<1>3. Money => BooksBalance
  BY DEF Money
<1> QED BY <1>1, <1>2, <1>3, Invariance, PTL DEF Spec

(***************************************************************************)
(* However purchases, refunds, failures and card payments overlap, the     *)
(* stored end date covers the periods of all the user's purchases that     *)
(* stand, as long as no row was written back that did not know of one of   *)
(* them: the two stale writes are the only ways to lose a period.          *)
(***************************************************************************)
THEOREM PurchasesAddUp == Spec => []LostOnlyToStaleWrites
<1>1. Init => Worth
  BY WorthInit
<1>2. IInv /\ IInv' /\ Worth /\ [Next]_vars => Worth'
  BY WorthStep
<1>3. Worth => LostOnlyToStaleWrites
  BY DEF Worth, Stored, RowSound, LostOnlyToStaleWrites
<1> QED BY <1>1, <1>2, <1>3, Invariance, PTL DEF Spec
=============================================================================
