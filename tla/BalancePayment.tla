--------------------------- MODULE BalancePayment ---------------------------
(***************************************************************************)
(* Paying from the referral balance: pay_plan_from_balance and             *)
(* add_device_from_balance, called by the web API (which repeats a request *)
(* under the same idempotency key) and by the bot.                         *)
(*                                                                         *)
(* A request is identified by its audit description, which holds the key.  *)
(* Its transaction takes a try-lock on the user, inserts the audit row,    *)
(* debits, reads the subscription and writes it back; the lock covers the  *)
(* balance path only, so the card path may commit between that read and    *)
(* the write: they are two actions.  A card payment is two for the same    *)
(* reason: it reads the row without a lock and writes it later.  The keys  *)
(* are made after the commit, and when the provider raises three times a   *)
(* second transaction takes everything back.                               *)
(***************************************************************************)
EXTENDS SubscriptionSnapshots, FiniteSets

CONSTANTS
  Users, Requests, Workers,
  NoRequest,        \* what an idle worker works on
  Buyer,            \* [Requests -> Users]
  Kind,             \* [Requests -> {"plan", "device"}]
  Price,            \* [Requests -> kopecks]: a plan's total, a device's unit price
  Period,           \* [Requests -> days], of a plan
  Count,            \* [Requests -> device_count asked for]
  Commission,       \* [Requests -> [Users -> kopecks]]: what the referrers earn
  InitialRows,      \* [Users -> the rows a user may have at the beginning]
  InitialBalance,   \* balance everybody starts with
  Faults,           \* what may go wrong: "provider" (raises), "store" (a statement
                    \* fails), "crash" (the process ends)
  VlessTries,       \* the 3 of range(3)
  CardPeriod,       \* days a card payment buys
  MaxCards,         \* bound: card payments per user
  MaxTime,          \* bound: the last instant of the clock
  MaxSubmits,       \* bound: times a client submits one request
  Beginnings        \* the clock, the submissions that came to nothing and the users who
                    \* have paid by card, as a behaviour may find them

ASSUME BalanceAssumption ==
  /\ NoRequest \notin Requests
  /\ Buyer \in [Requests -> Users]
  /\ Kind \in [Requests -> {"plan", "device"}]
  /\ Price \in [Requests -> Nat \ {0}]
  /\ Period \in [Requests -> Nat \ {0}]
  /\ Count \in [Requests -> Nat \ {0}]
  /\ Commission \in [Requests -> [Users -> Nat]]
  /\ InitialRows \in [Users -> SUBSET Row]
  /\ InitialBalance \in Nat
  /\ Faults \subseteq {"provider", "store", "crash"}
  /\ VlessTries \in Nat \ {0}
  /\ CardPeriod \in Nat
  /\ {MaxCards, MaxTime, MaxSubmits} \subseteq Nat
  /\ Beginnings \subseteq [now : Nat \ {0}, submits : [Requests -> Nat], paid : SUBSET Users]

VARIABLES
  now,        \* the clock
  snap,       \* subscription_snapshots
  balance,    \* referral_balances
  charge,     \* referral_transactions: the debit row of a request, 0 without one
  refunds,    \* ... the requests with a refund row
  rewards,    \* ... the requests with commission rows
  worker,     \* what every worker is doing
  submits,    \* submissions per request
  answers,    \* history: <<request, status>> a caller was given
  card,       \* a card payment of each user, and the row it read
  raced       \* history: users whose row was overwritten with a stale one (see Overwrites)

envVars == <<now, submits, card>>
vars    == <<now, snap, balance, charge, refunds, rewards, worker, submits, answers, card, raced>>

Statuses == {"completed", "already_completed", "insufficient", "no_active", "not_higher",
             "in_progress", "vless_failed", "internal_error"}

WorkerState ==
  [pc     : {"idle", "begin", "inTx", "vless", "clear", "compensate", "reward", "reply"},
   req    : Requests \cup {NoRequest},
   pre    : Row,                  \* pre_payment_snap
   seen   : Row,                  \* the row as the transaction read it
   knows  : SUBSET Requests,      \* history: the purchases the row pre includes
   at     : Nat,                  \* now, as read before the transaction
   cost   : Nat,
   tries  : 0 .. VlessTries - 1,
   status : Statuses \cup {"none"}]

Idle == [pc |-> "idle", req |-> NoRequest, pre |-> NoRow, seen |-> NoRow,
         knows |-> {}, at |-> Null, cost |-> 0, tries |-> 0,
         status |-> "none"]

\* process_fulfillment for a card payment: between its read and its commit it is open.
CardState == [pc    : {"none", "open", "done"},
              at    : Nat,               \* paid_at
              seen  : Nat,               \* existing.active_until_utc at the read
              knows : SUBSET Requests]   \* history: the purchases that row includes

NoCard     == [pc |-> "none", at |-> Null, seen |-> Null, knows |-> {}]
PaidByCard == [NoCard EXCEPT !.pc = "done"]

Req(w)  == worker[w].req
User(w) == Buyer[Req(w)]

TypeOK ==
  /\ now \in Nat
  /\ snap \in [Users -> Row]
  /\ balance \in [Users -> Nat]
  /\ charge \in [Requests -> Nat]
  /\ refunds \subseteq Requests
  /\ rewards \subseteq Requests
  /\ worker \in [Workers -> WorkerState]
  /\ submits \in [Requests -> Nat]
  /\ answers \subseteq Requests \X Statuses
  /\ card \in [Users -> CardState]
  /\ raced \subseteq Users

Init ==
  /\ \E b \in Beginnings :
       /\ now = b.now
       /\ submits = b.submits
       /\ card = [u \in Users |-> IF u \in b.paid THEN PaidByCard ELSE NoCard]
  /\ snap \in [Users -> UNION {InitialRows[u] : u \in Users}]
  /\ \A u \in Users : snap[u] \in InitialRows[u]
  /\ balance = [u \in Users |-> InitialBalance]
  /\ charge = [r \in Requests |-> 0]
  /\ refunds = {}
  /\ rewards = {}
  /\ worker = [w \in Workers |-> Idle]
  /\ answers = {}
  /\ raced = {}
-----------------------------------------------------------------------------
(* The environment.                                                        *)

Tick ==
  /\ now < MaxTime
  /\ now' = now + 1
  /\ UNCHANGED <<snap, balance, charge, refunds, rewards, worker, submits, answers, card, raced>>

RequestsOf(u) == {r \in Requests : Buyer[r] = u}
PaidPlans(u)  == {r \in RequestsOf(u) : Kind[r] = "plan" /\ charge[r] # 0}

\* History: a row of u is written back that does not know all of the purchases paid.
Overwrites(u, knows, paid) == raced' = IF paid \subseteq knows THEN raced ELSE raced \cup {u}

(***************************************************************************)
(* A card payment (process_fulfillment): it knows no advisory lock and     *)
(* reads the row without a lock.  One that is rolled back has done         *)
(* nothing; the provider repeats it.                                       *)
(***************************************************************************)
CardRead(u) ==
  /\ Cardinality({v \in Users : card[v].pc # "none"}) < MaxCards
  /\ card[u].pc = "none"
  /\ card' = [card EXCEPT ![u] = [pc |-> "open", at |-> now, seen |-> snap[u].until,
                                 knows |-> PaidPlans(u)]]
  /\ UNCHANGED <<now, snap, balance, charge, refunds, rewards, worker, submits, answers, raced>>

CardCommit(u) ==
  /\ card[u].pc = "open"
  /\ snap' = [snap EXCEPT ![u] =
                 UpsertState(@, "active", RenewedUntil(card[u].seen, card[u].at, CardPeriod),
                             TRUE, DefaultDevices, Null)]
  /\ card' = [card EXCEPT ![u] = PaidByCard]
  /\ Overwrites(u, card[u].knows, PaidPlans(u))
  /\ UNCHANGED <<now, balance, charge, refunds, rewards, worker, submits, answers>>

\* A request reaches a worker, which remembers the row pre, and with it the purchases
\* it knows, for a later compensation.
Submitted(w, r, pre, knows) ==
  /\ worker[w].pc = "idle"
  /\ submits[r] < MaxSubmits
  /\ submits' = [submits EXCEPT ![r] = @ + 1]
  /\ worker' = [worker EXCEPT ![w] = [Idle EXCEPT !.pc = "begin", !.req = r, !.at = now,
                                                 !.pre = pre, !.knows = knows]]
  /\ UNCHANGED <<now, snap, balance, charge, refunds, rewards, answers, card, raced>>

\* pay_plan_from_balance: a read that fails is remembered as no row.
SubmitPlan(w, r) ==
  /\ Kind[r] = "plan"
  /\ \/ Submitted(w, r, snap[Buyer[r]], PaidPlans(Buyer[r]))
     \/ "store" \in Faults /\ Submitted(w, r, NoRow, {})

\* add_device_from_balance has nothing to compensate.
SubmitDevice(w, r) == Kind[r] = "device" /\ Submitted(w, r, NoRow, {})

Submit(w, r) == SubmitPlan(w, r) \/ SubmitDevice(w, r)
-----------------------------------------------------------------------------
(* The transaction.                                                        *)

Goto(w, pc) == worker' = [worker EXCEPT ![w].pc = pc]

Finish(w, status) == worker' = [worker EXCEPT ![w].pc = "reply", ![w].status = status]

\* The balance row of u is not locked by a transaction that debited it.
Unlocked(u) == \A w \in Workers : worker[w].pc = "inTx" => User(w) # u

\* Mutant: no advisory lock.
NeverHeld(w) == FALSE

\* pg_try_advisory_xact_lock finds the user's lock taken.
LockHeld(w) == \E v \in Workers \ {w} : worker[v].pc = "inTx" /\ User(v) = User(w)

CurrentDevices(row) == OrDefault(row.devices, DefaultDevices)

Cost(r) ==
  IF Kind[r] = "plan" THEN Price[r]
  ELSE Price[r] * (Count[r] - CurrentDevices(snap[Buyer[r]]))

\* add_device_from_balance needs an active subscription and a higher count.
Active(r) == Kind[r] = "device" => snap[Buyer[r]].state = "active"
Higher(r) == Kind[r] = "device" => Count[r] > CurrentDevices(snap[Buyer[r]])

Affordable(r) == balance[Buyer[r]] >= Cost(r)

\* Why a request that was not charged before is turned down; the order matters.
Refused(r, status) ==
  \/ status = "no_active" /\ ~Active(r)
  \/ status = "not_higher" /\ Active(r) /\ ~Higher(r)
  \/ status = "insufficient" /\ Active(r) /\ Higher(r) /\ ~Affordable(r)

\* Mutant: the duplicate check is forgotten.
NeverDuplicate(r) == FALSE

\* A row with the request's description is there.
Duplicate(r) == charge[r] # 0

(***************************************************************************)
(* Lock, duplicate check, debit and read.  The debit is carried out by     *)
(* Commit; until then its row lock keeps other writers of the balance out. *)
(***************************************************************************)
Begin(w) ==
  /\ worker[w].pc = "begin"
  /\ \/ LockHeld(w) /\ Finish(w, "in_progress")
     \/ /\ ~LockHeld(w)
        /\ Duplicate(Req(w))
        /\ Finish(w, "already_completed")
     \/ /\ ~LockHeld(w)
        /\ ~Duplicate(Req(w))
        /\ \E status \in Statuses : Refused(Req(w), status) /\ Finish(w, status)
     \/ /\ ~LockHeld(w)
        /\ ~Duplicate(Req(w))
        /\ Active(Req(w)) /\ Higher(Req(w)) /\ Affordable(Req(w))
        /\ worker' = [worker EXCEPT ![w].pc = "inTx",
                                    ![w].seen = snap[User(w)],
                                    ![w].cost = Cost(Req(w))]
  /\ UNCHANGED <<snap, balance, charge, refunds, rewards, answers, raced, envVars>>

\* The row a plan purchase, or an added device, writes back.
WrittenRow(w) ==
  LET r == Req(w)
      seen == worker[w].seen
  IN  IF Kind[r] = "plan"
      THEN UpsertState(snap[User(w)], "active", RenewedUntil(seen.until, worker[w].at, Period[r]),
                       TRUE, Count[r], Null)
      ELSE UpsertState(snap[User(w)], seen.state, seen.until, seen.plan, Count[r], Null)

Commit(w) ==
  /\ worker[w].pc = "inTx"
  /\ balance' = [balance EXCEPT ![User(w)] = @ - worker[w].cost]
  /\ charge' = [charge EXCEPT ![Req(w)] = worker[w].cost]
  /\ snap' = [snap EXCEPT ![User(w)] = WrittenRow(w)]
  /\ IF Kind[Req(w)] = "plan" THEN Goto(w, "vless") ELSE Finish(w, "completed")
  /\ UNCHANGED <<refunds, rewards, answers, raced, envVars>>

\* A statement fails: the transaction is rolled back.
Rollback(w) ==
  /\ "store" \in Faults
  /\ worker[w].pc \in {"begin", "inTx"}
  /\ Finish(w, "internal_error")
  /\ UNCHANGED <<snap, balance, charge, refunds, rewards, answers, raced, envVars>>
-----------------------------------------------------------------------------
(* The keys of a plan purchase, after the commit.                          *)

(***************************************************************************)
(* One attempt of _ensure_vless_keys_atomic.  A provider that reached no   *)
(* panel says so in its outcome, which is not looked at; only an exception *)
(* counts as a failure, and the third one leads to the compensation.       *)
(***************************************************************************)
MakeKeys(w) ==
  /\ worker[w].pc = "vless"
  /\ Goto(w, "clear")
  /\ UNCHANGED <<snap, balance, charge, refunds, rewards, answers, raced, envVars>>

MakeKeysRaises(w) ==
  /\ "provider" \in Faults
  /\ worker[w].pc = "vless"
  /\ worker' = IF worker[w].tries + 1 < VlessTries
               THEN [worker EXCEPT ![w].tries = worker[w].tries + 1]
               ELSE [worker EXCEPT ![w].pc = "compensate"]
  /\ UNCHANGED <<snap, balance, charge, refunds, rewards, answers, raced, envVars>>

\* The key instants are cleared; an UPDATE that fails is suppressed.
ClearKeys(w) ==
  /\ worker[w].pc = "clear"
  /\ \/ snap' = [snap EXCEPT ![User(w)] = ClearKeyInstants(@)]
     \/ "store" \in Faults /\ UNCHANGED snap
  /\ Goto(w, "reward")
  /\ UNCHANGED <<balance, charge, refunds, rewards, answers, raced, envVars>>

\* What the compensation writes: the remembered row, or no subscription.
RevertedRow(w) ==
  LET pre == worker[w].pre
      row == snap[User(w)]
  IN  IF pre = NoRow THEN [row EXCEPT !.state = "inactive", !.until = Null]
      ELSE UpsertState(row, pre.state, pre.until, pre.plan, pre.devices, pre.trialEnd)

\* Mutant: the debit row stays behind.
RefundKeepsDebit(w) ==
  /\ balance' = [balance EXCEPT ![User(w)] = @ + Price[Req(w)]]
  /\ UNCHANGED charge

Refund(w) ==
  /\ balance' = [balance EXCEPT ![User(w)] = @ + Price[Req(w)]]
  /\ charge' = [charge EXCEPT ![Req(w)] = 0]

(***************************************************************************)
(* The compensation, in one transaction.  The description of its refund    *)
(* row is the same for every attempt under one key, so a second refund of  *)
(* a request violates the unique index and rolls everything back.  The     *)
(* caller hears of a failure either way.                                   *)
(***************************************************************************)
Compensate(w) ==
  /\ worker[w].pc = "compensate"
  /\ Unlocked(User(w))
  /\ \/ /\ Req(w) \notin refunds
        /\ Refund(w)
        /\ snap' = [snap EXCEPT ![User(w)] = RevertedRow(w)]
        /\ refunds' = refunds \cup {Req(w)}
        /\ Overwrites(User(w), worker[w].knows, PaidPlans(User(w)) \ {Req(w)})
     \/ /\ Req(w) \in refunds \/ "store" \in Faults
        /\ UNCHANGED <<balance, charge, snap, refunds, raced>>
  /\ Finish(w, "vless_failed")
  /\ UNCHANGED <<rewards, answers, envVars>>

(***************************************************************************)
(* _credit_commissions_best_effort: one transaction that inserts a row per *)
(* referrer unless it is there and credits those it inserted; its failure  *)
(* is swallowed.                                                           *)
(***************************************************************************)
Reward(w) ==
  LET r == Req(w)
  IN  /\ worker[w].pc = "reward"
      /\ \A u \in Users : Commission[r][u] > 0 => Unlocked(u)
      /\ \/ /\ r \notin rewards
            /\ rewards' = rewards \cup {r}
            /\ balance' = [u \in Users |-> balance[u] + Commission[r][u]]
         \/ /\ r \in rewards \/ "store" \in Faults
            /\ UNCHANGED <<rewards, balance>>
      /\ Finish(w, "completed")
      /\ UNCHANGED <<snap, charge, refunds, answers, raced, envVars>>

Reply(w) ==
  /\ worker[w].pc = "reply"
  /\ answers' = answers \cup {<<Req(w), worker[w].status>>}
  /\ worker' = [worker EXCEPT ![w] = Idle]
  /\ UNCHANGED <<snap, balance, charge, refunds, rewards, raced, envVars>>

Crash(w) ==
  /\ "crash" \in Faults
  /\ worker[w].pc # "idle"
  /\ worker' = [worker EXCEPT ![w] = Idle]
  /\ UNCHANGED <<snap, balance, charge, refunds, rewards, answers, raced, envVars>>

WorkerStep(w) ==
  \/ Begin(w) \/ Commit(w) \/ Rollback(w)
  \/ MakeKeys(w) \/ MakeKeysRaises(w) \/ ClearKeys(w)
  \/ Compensate(w) \/ Reward(w) \/ Reply(w)

Next ==
  \/ Tick
  \/ \E u \in Users : CardRead(u) \/ CardCommit(u)
  \/ \E w \in Workers, r \in Requests : Submit(w, r)
  \/ \E w \in Workers : WorkerStep(w) \/ Crash(w)

Spec == Init /\ [][Next]_vars

-----------------------------------------------------------------------------
(* Properties.                                                             *)

(***************************************************************************)
(* A caller who was told "completed" has paid for good: the debit row of   *)
(* the request is never taken back, whatever repeats of the request or     *)
(* other requests of the user do afterwards.                               *)
(***************************************************************************)
CompletedStands ==
  \A r \in Requests : <<r, "completed">> \in answers => charge[r] # 0

(***************************************************************************)
(* Referrers earn from a payment only if it stands: a compensated purchase *)
(* earns nobody anything, and no purchase earns twice.                     *)
(***************************************************************************)
RewardedIsCharged == \A r \in rewards : charge[r] # 0

(***************************************************************************)
(* f[x] added up over the x in S: the units <<x, 1>>, ..., <<x, f[x]>> of  *)
(* every x are counted one by one.                                         *)
(***************************************************************************)
Units(f, S) == UNION {{x} \X (1 .. f[x]) : x \in S}
Total(f, S) == Cardinality(Units(f, S))

Earned(u) == [r \in Requests |-> Commission[r][u]]

(***************************************************************************)
(* The books balance: what a user has, plus what the debit rows say was    *)
(* taken, is what the user started with plus the commissions on record.    *)
(* No interleaving of purchases, refunds, commissions and crashes loses or *)
(* makes money.                                                            *)
(***************************************************************************)
BooksBalance ==
  \A u \in Users :
    balance[u] + Total(charge, RequestsOf(u)) = InitialBalance + Total(Earned(u), rewards)

\* An end date is worth the periods of the plans paid.
Covers(until, paid) == paid # {} => until >= 1 + Total(Period, paid)

(***************************************************************************)
(* A renewal counts from max(now, existing.active_until)                   *)
(* (subscription_timing.py:22), so every purchase that stands should be    *)
(* worth its period.  The code breaks that in two ways: a card payment     *)
(* writes an end computed from a row that was read before a purchase       *)
(* committed, and a compensation writes back a row that was.  Those are    *)
(* the only ways: purchases, refunds, card payments and crashes in any     *)
(* order take no paid period away, unless a row was written back that did  *)
(* not know of a purchase that stood by then.                              *)
(***************************************************************************)
LostOnlyToStaleWrites ==
  \A u \in Users : Covers(snap[u].until, PaidPlans(u)) \/ u \in raced
=============================================================================
