----------------------------- MODULE PanelProofs -----------------------------
(***************************************************************************)
(* The theorems about the panels.  In this order:                          *)
(*   - the provider's calls: the cache never serves what was looked up     *)
(*     before the last change, and every user lock is held by a call that  *)
(*     will release it;                                                    *)
(*   - the client lists: no grant leaves a subscription without an end,    *)
(*     and the relay's own client is never shut out;                       *)
(*   - the routing: a family keeps its egress, no traffic circles between  *)
(*     a panel and the relay, and revert goes back to the start.           *)
(* The last two rest on facts about filtered lists (Lists), stated once.   *)
(***************************************************************************)
EXTENDS ProviderCalls, PanelClients, RuEgress, Integers, TLAPS, FiniteSetTheorems,
        WellFoundedInduction, SequenceTheorems

-----------------------------------------------------------------------------
(* The provider's calls                                                    *)

\* A cell of the cache has the three fields of an entry, and every user has a cell and an epoch.
Shape ==
  /\ DOMAIN cache = Users
  /\ \A u \in Users : cache[u] = [age |-> cache[u].age, found |-> cache[u].found, epoch |-> cache[u].epoch]
  /\ DOMAIN epoch = Users

IInv == Shape /\ EntryIsCurrent

\* The cache starts empty.
LEMMA InitCurrent == Init => IInv
BY DEF Init, IInv, Shape, EntryIsCurrent, NoEntry

\* A call that changes something empties the user's cell before it does anything else.
LEMMA ChangeKeeps ==
  ASSUME IInv, NEW w \in Workers, NEW u \in Users, NEW kind, Change(w, u, kind)
  PROVE  IInv'
<1>1. cache' = [cache EXCEPT ![u] = NoEntry] /\ epoch' = [epoch EXCEPT ![u] = @ + 1]
  BY DEF Change
<1>2. Shape'
  BY <1>1 DEF IInv, Shape, NoEntry
<1>3. EntryIsCurrent'
  BY <1>1 DEF IInv, Shape, EntryIsCurrent
<1> QED BY <1>2, <1>3 DEF IInv

\* A lookup is stored under the epoch it was begun in, if that still stands.
LEMMA FinishKeeps ==
  ASSUME IInv, NEW t \in Tasks, Finish(t)
  PROVE  IInv'
<1> DEFINE u == op[t].user
           new == [age |-> "fresh", found |-> op[t].found, epoch |-> op[t].epoch]
<1>1. epoch' = epoch
  BY DEF Finish
<1>2. CASE cache' = cache
  BY <1>1, <1>2 DEF IInv, Shape, EntryIsCurrent
<1>3. CASE cache' = [cache EXCEPT ![u] = new] /\ epoch[u] = op[t].epoch
  <2>1. Shape'
    BY <1>1, <1>3 DEF IInv, Shape
  <2>2. EntryIsCurrent'
    BY <1>1, <1>3 DEF IInv, Shape, EntryIsCurrent
  <2> QED BY <2>1, <2>2 DEF IInv
<1> QED BY <1>2, <1>3 DEF Finish, MayStore

\* An entry grows old and keeps its epoch.
LEMMA AgeKeeps ==
  ASSUME IInv, NEW u \in Users, Age(u)
  PROVE  IInv'
<1>1. epoch' = epoch
  BY DEF Age
<1>2. PICK a : cache' = [cache EXCEPT ![u] = [cache[u] EXCEPT !.age = a]]
  BY DEF Age
<1>3. cache[u] # NoEntry
  BY DEF Age, NoEntry
<1>4. [cache[u] EXCEPT !.age = a] = [age |-> a, found |-> cache[u].found, epoch |-> cache[u].epoch]
  BY DEF IInv, Shape
<1>5. Shape'
  BY <1>1, <1>2, <1>4 DEF IInv, Shape
<1>6. EntryIsCurrent'
  BY <1>1, <1>2, <1>3, <1>4 DEF IInv, Shape, EntryIsCurrent
<1> QED BY <1>5, <1>6 DEF IInv

\* Every other step leaves cache and epochs alone.
LEMMA StepKeeps ==
  ASSUME IInv, [Next]_vars
  PROVE  IInv'
<1>1. CASE UNCHANGED vars
  BY <1>1 DEF vars, IInv, Shape, EntryIsCurrent
<1>2. ASSUME NEW w \in Workers, NEW u \in Users,
             CreateUser(w, u) \/ ActivateUser(w, u) \/ RevokeUser(w, u) \/ DeleteUser(w, u)
      PROVE  IInv'
  BY <1>2, ChangeKeeps DEF CreateUser, ActivateUser, RevokeUser, DeleteUser
<1>3. ASSUME NEW u \in Users, Age(u) PROVE IInv'
  BY <1>3, AgeKeeps
<1>4. ASSUME NEW t \in Tasks, Finish(t) PROVE IInv'
  BY <1>4, FinishKeeps
<1>5. ASSUME UNCHANGED caching PROVE IInv'
  BY <1>5 DEF caching, IInv, Shape, EntryIsCurrent
<1>6. ASSUME NEW w \in Workers, NEW u \in Users, Reconcile(w, u) \/ Read(w, u) PROVE IInv'
  BY <1>5, <1>6 DEF Reconcile, Read
<1>7. ASSUME NEW u \in Users, ServeStale(u) PROVE IInv'
  BY <1>5, <1>7 DEF ServeStale
<1>8. ASSUME NEW t \in Tasks, TaskStep(t) PROVE IInv'
  BY <1>4, <1>5, <1>8 DEF TaskStep, GotLock, AnswerFromCache, Rebuild, Probe, Fetch, PostAdd, PostDelete
<1>9. ASSUME NEW t \in Tasks, Raise(t) \/ \E s \in Servers : PanelFails(t, s) PROVE IInv'
  BY <1>5, <1>9 DEF Raise, PanelFails
<1>10. CASE Outdate
  BY <1>5, <1>10 DEF Outdate
<1> QED BY <1>1, <1>2, <1>3, <1>6, <1>7, <1>8, <1>9, <1>10 DEF Next

(***************************************************************************)
(* What /sub/ is served from the cache was looked up after the last        *)
(* create, activate, revoke or delete of the user was called, however the  *)
(* calls, the background refreshes and the failures interleave.            *)
(***************************************************************************)
THEOREM CacheIsCurrent == Spec => []EntryIsCurrent
<1>1. IInv => EntryIsCurrent
  BY DEF IInv
<1> QED BY InitCurrent, StepKeeps, <1>1, PTL DEF Spec

-----------------------------------------------------------------------------
(* Nobody waits for a lock that no call will release                       *)

OpFields == {"pc", "user", "kind", "epoch", "built", "left", "copy", "found"}

\* The lines of the dictionary, by their users, and those that left it.
Locked == {u \in Users : lock[u] # NoLock}

\* A line is of calls in progress, and behind its first they wait.
Proper(line) ==
  /\ line \in Seq(Tasks)
  /\ \A i \in DOMAIN line : /\ op[line[i]].pc # "idle"
                            /\ i # 1 => op[line[i]].pc = "waiting"

\* A call stands in one line, once.
Apart(k, l) == \A i \in DOMAIN k, j \in DOMAIN l : k[i] # l[j]
Once(line)  == \A i, j \in DOMAIN line : line[i] = line[j] => i = j

Queues ==
  /\ \A line \in Lines : Proper(line) /\ Once(line)
  /\ \A u, v \in Locked : u # v => Apart(lock[u], lock[v])
  /\ \A u \in Locked, line \in dropped : Apart(lock[u], line)
  /\ \A k, l \in dropped : k # l => Apart(k, l)

LockShape ==
  /\ DOMAIN lock = Users /\ DOMAIN op = Tasks
  /\ \A t \in Tasks : DOMAIN op[t] = OpFields

LockInv == LockShape /\ Queues

\* Idle calls stand in no line, and a call that does not wait stands first or nowhere.
LEMMA Standing ==
  ASSUME LockInv, NEW t \in Tasks, NEW line \in Lines, NEW i \in DOMAIN line, line[i] = t
  PROVE  op[t].pc # "idle" /\ (op[t].pc # "waiting" => i = 1)
BY DEF LockInv, Queues, Proper

\* A call stands in one line only: where it holds a lock, it waits for none.
LEMMA HolderStandsFirst ==
  ASSUME LockInv, NEW t \in Tasks, Holds(t), NEW line \in Lines, NEW i \in DOMAIN line, line[i] = t
  PROVE  i = 1
<1>1. PICK k \in Lines : k # <<>> /\ Head(k) = t
  BY DEF Holds
<1>2. 1 \in DOMAIN k /\ k[1] = t
  BY <1>1 DEF LockInv, Queues, Proper
<1>3. k = line
  BY <1>2 DEF LockInv, Queues, Lines, Locked, Apart
<1> QED BY <1>2, <1>3 DEF LockInv, Queues, Once

\* A call at work goes on while the lines stay as they are.
LEMMA CallGoesOn ==
  ASSUME LockInv, UNCHANGED locking, NEW t \in Tasks, NEW q, op' = [op EXCEPT ![t] = q],
         DOMAIN q = OpFields, q.pc # "idle",
         q.pc = op[t].pc \/ op[t].pc # "waiting" \/ Holds(t)
  PROVE  LockInv'
<1>1. \A x \in Tasks : op'[x] = IF x = t THEN q ELSE op[x]
  BY DEF LockInv, LockShape
<1>2. LockShape'
  BY <1>1 DEF LockInv, LockShape, locking
<1>3. UNCHANGED <<Lines, Locked>>
  BY DEF Lines, Locked, locking
<1>4. ASSUME NEW line \in Lines PROVE Proper(line)'
  <2>1. ASSUME NEW i \in DOMAIN line
        PROVE op'[line[i]].pc # "idle" /\ (i # 1 => op'[line[i]].pc = "waiting")
    <3>1. line[i] \in Tasks
      BY <1>4 DEF LockInv, Queues, Proper
    <3>2. CASE line[i] = t
      BY <1>1, <1>4, <3>1, <3>2, Standing, HolderStandsFirst
    <3>3. CASE line[i] # t
      BY <1>1, <1>4, <3>1, <3>3 DEF LockInv, Queues, Proper
    <3> QED BY <3>2, <3>3
  <2> QED BY <1>4, <2>1 DEF LockInv, Queues, Proper
<1>5. Queues'
  BY <1>3, <1>4 DEF LockInv, Queues, locking
<1> QED BY <1>2, <1>5 DEF LockInv

\* Two lines have no call in common.
LEMMA LinesApart ==
  ASSUME LockInv, NEW k \in Lines, NEW l \in Lines, k # l
  PROVE  Apart(k, l)
<1>1. ASSUME NEW u \in Locked, NEW line \in dropped PROVE Apart(line, lock[u])
  BY <1>1 DEF LockInv, Queues, Apart
<1> QED BY <1>1 DEF LockInv, Queues, Lines, Locked

\* A call that was idle takes its place at the end of a line, or at the head of a new one.
LEMMA EnqueueKeeps ==
  ASSUME LockInv, NEW w \in Tasks, NEW u \in Users, Enqueue(w, u), op[w].pc = "idle",
         NEW q, op' = [op EXCEPT ![w] = q], DOMAIN q = OpFields, q.pc # "idle",
         ~ Free(u) => q.pc = "waiting"
  PROVE  LockInv'
<1>n. PICK n : n = IF lock[u] = NoLock THEN <<w>> ELSE Append(lock[u], w)
  OBVIOUS
<1>1. \A line \in Lines : line \in Seq(Tasks) /\ \A i \in DOMAIN line : line[i] # w
  BY Standing DEF LockInv, Queues, Proper
<1>2. u \in Locked => lock[u] \in Lines
  BY DEF Locked, Lines
<1>3. n \in Seq(Tasks) /\ Len(n) \in Nat \ {0} /\ n[Len(n)] = w /\ DOMAIN n = 1..Len(n)
  <2>1. CASE lock[u] = NoLock
    BY <1>n, <2>1
  <2>2. CASE lock[u] # NoLock
    <3>1. lock[u] \in Seq(Tasks) /\ n = Append(lock[u], w)
      BY <1>n, <1>1, <1>2, <2>2 DEF Locked
    <3> QED BY <3>1
  <2> QED BY <2>1, <2>2
<1>4. \A i \in DOMAIN n : i # Len(n) => u \in Locked /\ i \in DOMAIN lock[u] /\ n[i] = lock[u][i]
  BY <1>n, <1>1, <1>2 DEF Locked
<1>5. \A x \in Tasks : op'[x] = IF x = w THEN q ELSE op[x]
  BY DEF LockInv, LockShape
<1>6. Free(u) => Len(n) = 1
  BY <1>n DEF Free
<1>7. Once(n)
  BY <1>1, <1>2, <1>3, <1>4 DEF Once, LockInv, Queues
<1>8. Proper(n)'
  <2>1. ASSUME NEW i \in DOMAIN n
        PROVE  op'[n[i]].pc # "idle" /\ (i # 1 => op'[n[i]].pc = "waiting")
    <3>1. CASE i = Len(n)
      BY <1>3, <1>5, <1>6, <3>1
    <3>2. CASE i # Len(n)
      BY <1>1, <1>2, <1>4, <1>5, <3>2 DEF LockInv, Queues, Proper
    <3> QED BY <3>1, <3>2
  <2> QED BY <1>3, <2>1 DEF Proper
<1>9. ASSUME NEW line \in Lines PROVE Proper(line)' /\ Once(line)
  BY <1>1, <1>5 DEF LockInv, Queues, Proper
<1>10. ASSUME NEW line \in Lines, u \in Locked => Apart(lock[u], line)
       PROVE  Apart(n, line) /\ Apart(line, n)
  BY <1>1, <1>3, <1>4, <1>10 DEF Apart
<1>11. CASE lock' = [lock EXCEPT ![u] = n] /\ UNCHANGED dropped
  <2>1. LockShape'
    BY <1>5, <1>11 DEF LockInv, LockShape
  <2>2. ASSUME NEW v \in Locked' PROVE lock'[v] = IF v = u THEN n ELSE lock[v]
    BY <1>11 DEF LockInv, LockShape, Locked
  <2>3. ASSUME NEW v \in Locked', v # u PROVE v \in Locked /\ lock[v] \in Lines
    BY <2>2, <2>3 DEF Locked, Lines
  <2>4. \A line \in Lines' : Proper(line)' /\ Once(line)
    <3>1. \A line \in Lines' : line \in dropped \/ \E v \in Locked' : line = lock'[v]
      BY <1>11 DEF Lines, Locked
    <3>2. \A line \in dropped : line \in Lines
      BY DEF Lines
    <3> QED BY <1>7, <1>8, <1>9, <2>2, <2>3, <3>1, <3>2
  <2>5. ASSUME NEW v \in Locked', v # u PROVE Apart(n, lock[v]) /\ Apart(lock[v], n)
    BY <1>10, <2>3, <2>5 DEF LockInv, Queues
  <2>6. ASSUME NEW v \in Locked', NEW x \in Locked', v # x PROVE Apart(lock'[v], lock'[x])
    BY <2>2, <2>3, <2>5, <2>6 DEF LockInv, Queues
  <2>7. ASSUME NEW v \in Locked', NEW line \in dropped PROVE Apart(lock'[v], line)
    <3>1. line \in Lines
      BY DEF Lines
    <3>2. Apart(n, line)
      BY <1>10, <3>1 DEF LockInv, Queues
    <3> QED BY <2>2, <2>3, <3>2 DEF LockInv, Queues
  <2>8. Queues'
    BY <1>11, <2>4, <2>6, <2>7 DEF LockInv, Queues
  <2> QED BY <2>1, <2>8 DEF LockInv
<1>12. CASE /\ n = <<w>>
            /\ lock' = [v \in Users |-> IF v = u THEN <<w>> ELSE NoLock]
            /\ dropped' = dropped \cup ({lock[v] : v \in Users \ {u}} \ {NoLock, <<>>})
  <2>1. LockShape'
    BY <1>5, <1>12 DEF LockInv, LockShape
  <2>2. \A v \in Locked' : v = u /\ lock'[v] = n
    BY <1>12 DEF Locked
  <2>3. \A line \in dropped' : line \in Lines
    BY <1>12 DEF Lines
  <2>4. \A line \in Lines' : line = n \/ line \in dropped'
    BY <2>2 DEF Lines, Locked
  <2>5. \A line \in Lines' : Proper(line)' /\ Once(line)
    BY <1>7, <1>8, <1>9, <2>3, <2>4
  <2>6. \A line \in dropped' : Apart(n, line)
    BY <1>1, <1>12, <2>3 DEF Apart
  <2>7. Queues'
    BY <2>2, <2>3, <2>5, <2>6, LinesApart DEF Queues
  <2> QED BY <2>1, <2>7 DEF LockInv
<1>13. Free(u) => n = <<w>>
  <2>1. Append(<<>>, w) = <<w>>
    OBVIOUS
  <2> QED BY <1>n, <2>1 DEF Free
<1> QED BY <1>n, <1>11, <1>12, <1>13 DEF Enqueue

\* A line without its first, if that is t.
LEMMA RestOfLine ==
  ASSUME NEW t, NEW line \in Seq(Tasks)
  PROVE  /\ Rest(t, line) \in Seq(Tasks)
         /\ \/ Rest(t, line) = line /\ (1 \in DOMAIN line => line[1] # t)
            \/ \A j \in DOMAIN Rest(t, line) :
                 j \in Nat \ {0} /\ j + 1 \in DOMAIN line /\ Rest(t, line)[j] = line[j + 1]
BY DEF Rest

\* A call leaves the line it stands first in, and is idle then.
LEMMA ReleaseKeeps ==
  ASSUME LockInv, NEW t \in Tasks, Release(t), op[t].pc # "waiting" \/ Holds(t),
         op' = [op EXCEPT ![t] = Idle]
  PROVE  LockInv'
<1>1. \A x \in Tasks : op'[x] = IF x = t THEN Idle ELSE op[x]
  BY DEF LockInv, LockShape
<1>2. LockShape'
  BY <1>1 DEF LockInv, LockShape, Release, Idle, OpFields
<1>3. ASSUME NEW line \in Lines, NEW j \in DOMAIN Rest(t, line)
      PROVE  \E i \in DOMAIN line :
               /\ Rest(t, line)[j] = line[i] /\ line[i] # t
               /\ j # 1 => i # 1
  <2>1. line \in Seq(Tasks)
    BY DEF LockInv, Queues, Proper
  <2>2. \A i \in DOMAIN line : line[i] = t => i = 1
    BY Standing, HolderStandsFirst
  <2>3. CASE Rest(t, line) = line /\ (1 \in DOMAIN line => line[1] # t)
    BY <1>3, <2>2, <2>3
  <2>4. CASE \A k \in DOMAIN Rest(t, line) :
               k \in Nat \ {0} /\ k + 1 \in DOMAIN line /\ Rest(t, line)[k] = line[k + 1]
    BY <1>3, <2>2, <2>4
  <2> QED BY <2>1, <2>3, <2>4, RestOfLine
<1>4. ASSUME NEW line \in Lines PROVE Proper(Rest(t, line))' /\ Once(Rest(t, line))
  <2>1. line \in Seq(Tasks) /\ Rest(t, line) \in Seq(Tasks)
    BY RestOfLine DEF LockInv, Queues, Proper
  <2>2. ASSUME NEW j \in DOMAIN Rest(t, line)
        PROVE  /\ op'[Rest(t, line)[j]].pc # "idle"
               /\ j # 1 => op'[Rest(t, line)[j]].pc = "waiting"
    <3>1. PICK i \in DOMAIN line :
                 Rest(t, line)[j] = line[i] /\ line[i] # t /\ (j # 1 => i # 1)
      BY <1>3, <2>2
    <3> QED BY <1>1, <2>1, <3>1 DEF LockInv, Queues, Proper
  <2>3. Once(Rest(t, line))
    <3>1. Once(line)
      BY DEF LockInv, Queues
    <3>2. CASE Rest(t, line) = line
      BY <3>1, <3>2
    <3>3. CASE \A k \in DOMAIN Rest(t, line) :
                 k \in Nat \ {0} /\ k + 1 \in DOMAIN line /\ Rest(t, line)[k] = line[k + 1]
      <4>1. ASSUME NEW i \in DOMAIN Rest(t, line), NEW j \in DOMAIN Rest(t, line),
                   Rest(t, line)[i] = Rest(t, line)[j]
            PROVE  i = j
        <5>1. i + 1 \in DOMAIN line /\ j + 1 \in DOMAIN line /\ line[i + 1] = line[j + 1]
          BY <3>3, <4>1
        <5>2. i + 1 = j + 1
          BY <3>1, <5>1 DEF Once
        <5> QED BY <3>3, <5>2
      <4> QED BY <4>1 DEF Once
    <3> QED BY <2>1, <3>2, <3>3, RestOfLine
  <2> QED BY <2>1, <2>2, <2>3 DEF Proper
<1>5. ASSUME NEW k \in Lines, NEW l \in Lines, Apart(k, l) PROVE Apart(Rest(t, k), Rest(t, l))
  BY <1>3, <1>5 DEF Apart
<1>6. \A u \in Locked' : u \in Locked /\ lock[u] \in Lines /\ lock'[u] = Rest(t, lock[u])
  BY DEF Release, Locked, Lines, LockInv, LockShape
<1>7. \A line \in dropped' : \E k \in dropped : k \in Lines /\ line = Rest(t, k)
  BY DEF Release, Lines
<1>8. \A line \in Lines' : line \in dropped' \/ \E u \in Locked' : line = lock'[u]
  BY DEF Lines, Locked
<1>9. \A line \in Lines' : Proper(line)' /\ Once(line)
  BY <1>4, <1>6, <1>7, <1>8
<1>10. \A u, v \in Locked' : u # v => Apart(lock'[u], lock'[v])
  BY <1>5, <1>6 DEF LockInv, Queues
<1>11. \A u \in Locked', line \in dropped' : Apart(lock'[u], line)
  BY <1>5, <1>6, <1>7 DEF LockInv, Queues
<1>12. \A k, l \in dropped' : k # l => Apart(k, l)
  BY <1>5, <1>7 DEF LockInv, Queues
<1> QED BY <1>2, <1>9, <1>10, <1>11, <1>12 DEF LockInv, Queues

\* A call that starts waits for the panel clients or works.
LEMMA StartedCall ==
  ASSUME NEW o, NEW old, DOMAIN o = OpFields
  PROVE  DOMAIN Start(o, old) = OpFields /\ Start(o, old).pc \in {"rebuilding", "working"}
<1>1. ASSUME NEW s, s = [o EXCEPT !.pc = "rebuilding"] PROVE DOMAIN s = OpFields /\ s.pc = "rebuilding"
  BY <1>1 DEF OpFields
<1>2. ASSUME NEW b, NEW l, NEW s, s = [o EXCEPT !.pc = "working", !.built = b, !.left = l]
      PROVE  DOMAIN s = OpFields /\ s.pc = "working"
  BY <1>2 DEF OpFields
<1> QED BY <1>1, <1>2 DEF Start

\* The calls that ask for a user's lock.
LEMMA AskKeepsLines ==
  ASSUME LockInv, NEW w \in Workers, NEW u \in Users, NEW kind, NEW e,
         AskLock(w, u, kind, e), op[w].pc = "idle"
  PROVE  LockInv'
<1>1. PICK o : o = [Idle EXCEPT !.pc = "waiting", !.user = u, !.kind = kind, !.epoch = e]
  OBVIOUS
<1>2. DOMAIN o = OpFields /\ o.pc = "waiting"
  BY <1>1 DEF Idle, OpFields
<1>3. PICK q : q = IF Free(u) THEN Start(o, outdated) ELSE o
  OBVIOUS
<1>4. op' = [op EXCEPT ![w] = q] /\ Enqueue(w, u)
  BY <1>1, <1>3 DEF AskLock
<1>5. DOMAIN q = OpFields /\ q.pc # "idle" /\ (~ Free(u) => q.pc = "waiting")
  BY <1>2, <1>3, StartedCall
<1>6. w \in Tasks
  BY DEF Tasks
<1> QED BY <1>4, <1>5, <1>6, EnqueueKeeps

\* The background calls take no lock, and neither does reconciliation.
LEMMA BackgroundKeepsLines ==
  ASSUME LockInv,
         \/ \E u \in Users : ServeStale(u)
         \/ \E w \in Workers, u \in Users : Reconcile(w, u)
  PROVE  LockInv'
<1>1. CASE \E u \in Users : ServeStale(u)
  <2>1. PICK u \in Users : ServeStale(u)
    BY <1>1
  <2>2. PICK o : o = [Idle EXCEPT !.user = u, !.kind = "refresh", !.epoch = epoch[u]]
    OBVIOUS
  <2>3. DOMAIN o = OpFields
    BY <2>2 DEF Idle, OpFields
  <2>4. op' = [op EXCEPT ![u] = Start(o, outdated)] /\ UNCHANGED locking /\ op[u].pc = "idle"
    BY <2>1, <2>2 DEF ServeStale
  <2>5. PICK q : q = Start(o, outdated)
    OBVIOUS
  <2>6. DOMAIN q = OpFields /\ q.pc # "idle"
    BY <2>3, <2>5, StartedCall
  <2>7. u \in Tasks
    BY DEF Tasks
  <2> QED BY <2>4, <2>5, <2>6, <2>7, CallGoesOn
<1>2. CASE \E w \in Workers, u \in Users : Reconcile(w, u)
  <2>1. PICK w \in Workers, u \in Users : Reconcile(w, u)
    BY <1>2
  <2>2. PICK q : q = [Idle EXCEPT !.pc = "rebuilding", !.user = u, !.kind = "reconcile"]
    OBVIOUS
  <2>3. DOMAIN q = OpFields /\ q.pc # "idle"
    BY <2>2 DEF Idle, OpFields
  <2>4. op' = [op EXCEPT ![w] = q] /\ UNCHANGED locking /\ op[w].pc = "idle"
    BY <2>1, <2>2 DEF Reconcile
  <2>5. w \in Tasks
    BY DEF Tasks
  <2> QED BY <2>3, <2>4, <2>5, CallGoesOn
<1> QED BY <1>1, <1>2

\* What a call does while it holds its lock, or without one.
LEMMA WorkKeepsLines ==
  ASSUME LockInv, NEW t \in Tasks,
         \/ Rebuild(t) \/ GotLock(t)
         \/ \E s \in Servers : \/ Probe(t, s) \/ Fetch(t, s) \/ PostAdd(t, s) \/ PostDelete(t, s)
                               \/ PanelFails(t, s)
  PROVE  LockInv'
<1>1. UNCHANGED locking /\ DOMAIN op[t] = OpFields
  BY DEF Rebuild, GotLock, Probe, Fetch, PostAdd, PostDelete, PanelFails, LockInv, LockShape
<1>2. CASE Rebuild(t)
  <2>1. PICK q : /\ op' = [op EXCEPT ![t] = q]
                 /\ q = [op[t] EXCEPT !.pc = "working", !.built = rebuilt',
                                      !.left = [s \in Servers |-> WorkOf(op[t].kind)]]
    BY <1>2 DEF Rebuild
  <2>2. DOMAIN q = OpFields /\ q.pc = "working"
    BY <1>1, <2>1 DEF OpFields
  <2>3. op[t].pc # "waiting"
    BY <1>2 DEF Rebuild
  <2> QED BY <1>1, <2>1, <2>2, <2>3, CallGoesOn
<1>3. CASE GotLock(t)
  <2>1. PICK o : o = [op[t] EXCEPT !.epoch = epoch[op[t].user]]
    OBVIOUS
  <2>2. DOMAIN o = OpFields
    BY <1>1, <2>1
  <2>3. PICK q : q = Start(o, outdated)
    OBVIOUS
  <2>4. op' = [op EXCEPT ![t] = q] /\ Holds(t)
    BY <1>3, <2>1, <2>3 DEF GotLock
  <2>5. DOMAIN q = OpFields /\ q.pc # "idle"
    BY <2>2, <2>3, StartedCall
  <2> QED BY <1>1, <2>4, <2>5, CallGoesOn
<1>4. ASSUME NEW s \in Servers,
             Probe(t, s) \/ Fetch(t, s) \/ PostAdd(t, s) \/ PostDelete(t, s) \/ PanelFails(t, s)
      PROVE  LockInv'
  <2>1. op[t].pc = "working"
    BY <1>4 DEF Probe, Fetch, PostAdd, PostDelete, PanelFails, Next1
  <2>2. PICK c, f :
          \/ op' = [op EXCEPT ![t].left[s] = Tail(@), ![t].found = f]
          \/ op' = [op EXCEPT ![t].left[s] = Tail(@)]
          \/ op' = [op EXCEPT ![t].copy[s] = c]
          \/ op' = [op EXCEPT ![t].copy[s] = c, ![t].left[s] = Tail(@)]
    BY <1>4 DEF Probe, Fetch, PostAdd, PostDelete, PanelFails, Rewritten
  <2>3. op' = [op EXCEPT ![t] = op'[t]] /\ DOMAIN op'[t] = OpFields /\ op'[t].pc = "working"
    <3>1. CASE op' = [op EXCEPT ![t].left[s] = Tail(@), ![t].found = f]
      BY <1>1, <2>1, <3>1 DEF LockInv, LockShape, OpFields
    <3>2. CASE op' = [op EXCEPT ![t].left[s] = Tail(@)]
      BY <1>1, <2>1, <3>2 DEF LockInv, LockShape, OpFields
    <3>3. CASE op' = [op EXCEPT ![t].copy[s] = c]
      BY <1>1, <2>1, <3>3 DEF LockInv, LockShape, OpFields
    <3>4. CASE op' = [op EXCEPT ![t].copy[s] = c, ![t].left[s] = Tail(@)]
      BY <1>1, <2>1, <3>4 DEF LockInv, LockShape, OpFields
    <3> QED BY <2>2, <3>1, <3>2, <3>3, <3>4
  <2>4. PICK q : q = op'[t]
    OBVIOUS
  <2> QED BY <1>1, <2>1, <2>3, <2>4, CallGoesOn
<1> QED BY <1>2, <1>3, <1>4

\* Every step keeps the lines in order.
LEMMA LinesAreKept == LockInv /\ [Next]_vars => LockInv'
<1> SUFFICES ASSUME LockInv, [Next]_vars PROVE LockInv'
  OBVIOUS
<1>1. ASSUME UNCHANGED <<locking, op>> PROVE LockInv'
  BY <1>1 DEF locking, LockInv, LockShape, Queues, Lines, Locked, Proper
<1>2. CASE UNCHANGED vars
  BY <1>1, <1>2 DEF vars, locking
<1>3. ASSUME NEW w \in Workers, NEW u \in Users,
             \/ CreateUser(w, u) \/ ActivateUser(w, u) \/ RevokeUser(w, u) \/ DeleteUser(w, u)
             \/ Read(w, u)
      PROVE  LockInv'
  BY <1>3, AskKeepsLines DEF CreateUser, ActivateUser, RevokeUser, DeleteUser, Change, Read
<1>4. ASSUME NEW t \in Tasks, AnswerFromCache(t) \/ Finish(t) \/ Raise(t) PROVE LockInv'
  BY <1>4, ReleaseKeeps DEF AnswerFromCache, Finish, Done, Raise
<1>5. ASSUME (\E u \in Users : Age(u)) \/ Outdate PROVE LockInv'
  BY <1>1, <1>5 DEF Age, Outdate
<1> QED
  BY <1>2, <1>3, <1>4, <1>5, WorkKeepsLines, BackgroundKeepsLines DEF Next, TaskStep

\* The dictionary of locks may be replaced under those who hold and await them, and a
\* call may raise at any place: every lock is still held by a call that will release it.
THEOREM LocksAreHeldByCalls == Spec => []HeldByCalls
<1>1. Init => LockInv
  <2> SUFFICES ASSUME Init PROVE LockInv
    OBVIOUS
  <2>1. Locked = {} /\ Lines = {}
    BY DEF Init, Locked, Lines
  <2> QED BY <2>1 DEF Init, LockInv, LockShape, Queues, Idle, OpFields
<1>2. LockInv => HeldByCalls
  BY DEF LockInv, Queues, Proper, HeldByCalls
<1> QED BY <1>1, <1>2, LinesAreKept, PTL DEF Spec

-----------------------------------------------------------------------------
(***************************************************************************)
(* Filtered lists                                                          *)

\* A set of places has a last one.
LEMMA LastPlace ==
  ASSUME NEW n \in Nat, NEW S, S \subseteq 1 .. n, S # {}
  PROVE  \E m \in S : \A i \in S : i <= m
<1> DEFINE After(c) == {d \in S : d > c}
           Tails    == {After(c) : c \in S}
<1>1. IsFiniteSet(S)
  BY FS_Interval, FS_Subset, 0 \in Int, 1 \in Int, n \in Int
<1>2. IsWellFoundedOn(StrictSubsetOrdering(S), FiniteSubsetsOf(S))
  BY <1>1, FS_StrictSubsetOrderingWellFounded
<1>3. Tails \subseteq FiniteSubsetsOf(S) /\ Tails # {}
  <2>1. PICK c : c \in S
    OBVIOUS
  <2>2. After(c) \in Tails
    BY <2>1
  <2>3. Tails \subseteq SUBSET S
    OBVIOUS
  <2> QED BY <1>1, <2>2, <2>3, FS_FiniteSubsetsOfFinite
<1>4. PICK X \in Tails : \A Y \in Tails : ~ (<<Y, X>> \in StrictSubsetOrdering(S))
  BY <1>2, <1>3, WFMin
<1>5. PICK c \in S : X = After(c)
  OBVIOUS
<1>6. ASSUME NEW d \in S, d > c PROVE FALSE
  <2>1. After(d) \in Tails
    BY <1>6
  <2>2. c \in Int /\ d \in Int /\ \A x \in S : x \in Int
    OBVIOUS
  <2>3. \A x \in S : x > d => x > c
    BY <1>6, <2>2
  <2>4. After(d) \subseteq After(c) /\ d \in After(c) /\ d \notin After(d)
    <3>1. ~ (d > d)
      BY <2>2
    <3> QED BY <1>6, <2>3, <3>1
  <2>5. <<After(d), After(c)>> \in StrictSubsetOrdering(S)
    <3>1. After(d) \in SUBSET S /\ After(c) \in SUBSET S
      OBVIOUS
    <3> QED BY <2>4, <3>1 DEF StrictSubsetOrdering
  <2> QED BY <1>4, <1>5, <2>1, <2>5
<1>7. \A d \in S : d <= c
  BY <1>6
<1> QED BY <1>7

\* And a first one, the last from behind.
LEMMA FirstPlace ==
  ASSUME NEW n \in Nat, NEW S, S \subseteq 1 .. n, S # {}
  PROVE  \E m \in S : \A i \in S : m <= i
<1> DEFINE Back == {n + 1 - i : i \in S}
<1>0. \A i \in S : i \in Nat /\ 1 <= i /\ i <= n
  OBVIOUS
<1>1. Back \subseteq 1 .. n /\ Back # {}
  <2>1. \A i \in S : n + 1 - i \in 1 .. n
    BY <1>0
  <2> QED BY <2>1
<1>2. PICK b \in Back : \A c \in Back : c <= b
  BY <1>1, LastPlace
<1>3. PICK m \in S : b = n + 1 - m
  OBVIOUS
<1>4. ASSUME NEW i \in S PROVE m <= i
  <2>1. n + 1 - i \in Back
    OBVIOUS
  <2>2. n + 1 - i <= n + 1 - m
    BY <1>2, <1>3, <2>1
  <2> QED BY <1>0, <2>2
<1> QED BY <1>4

\* No place of a set is before the first one, and all are counted at the end.
LEMMA UpToEnds ==
  ASSUME NEW n \in Nat, NEW S, S \subseteq 1 .. n
  PROVE  /\ IsFiniteSet(S) /\ Cardinality(S) \in Nat
         /\ UpTo(S, 0) = 0 /\ UpTo(S, n) = Cardinality(S)
<1>1. \A k \in S : k \in Nat /\ 1 <= k /\ k <= n
  OBVIOUS
<1>2. IsFiniteSet(S)
  BY FS_Interval, FS_Subset, 1 \in Int, n \in Int
<1>3. Cardinality(S) \in Nat
  BY <1>2, FS_CardinalityType
<1>4. {i \in S : i <= 0} = {}
  <2>1. \A i \in S : ~ (i <= 0)
    BY <1>1
  <2> QED BY <2>1
<1>5. {i \in S : i <= n} = S
  BY <1>1
<1> QED BY <1>2, <1>3, <1>4, <1>5, FS_EmptySet DEF UpTo

\* Counted place by place, a set has one more at each of its own.
LEMMA UpToStep ==
  ASSUME NEW n \in Nat, NEW S, S \subseteq 1 .. n, NEW i \in Nat \ {0}
  PROVE  /\ UpTo(S, i) \in Nat /\ UpTo(S, i - 1) \in Nat
         /\ UpTo(S, i) = IF i \in S THEN UpTo(S, i - 1) + 1 ELSE UpTo(S, i - 1)
<1> DEFINE low  == {k \in S : k <= i - 1}
           next == {k \in S : k <= i}
<1>1. \A k \in S : k \in Nat
  OBVIOUS
<1>2. \A k \in S : k <= i <=> k <= i - 1 \/ k = i
  BY <1>1
<1>3. IsFiniteSet(low) /\ IsFiniteSet(next)
  BY UpToEnds, FS_Subset
<1>4. Cardinality(low) \in Nat /\ Cardinality(next) \in Nat
  BY <1>3, FS_CardinalityType
<1>5. ASSUME i \in S PROVE Cardinality(next) = Cardinality(low) + 1
  <2>1. ~ (i <= i - 1)
    OBVIOUS
  <2>2. next = low \cup {i} /\ i \notin low
    BY <1>2, <1>5, <2>1
  <2> HIDE DEF low, next
  <2> QED BY <1>3, <2>2, FS_AddElement
<1>6. ASSUME i \notin S PROVE next = low
  BY <1>2, <1>6
<1>7. UpTo(S, i) = Cardinality(next) /\ UpTo(S, i - 1) = Cardinality(low)
  BY DEF UpTo
<1> HIDE DEF low, next
<1> QED BY <1>4, <1>5, <1>6, <1>7

\* The count never falls.
LEMMA UpToGrows ==
  ASSUME NEW n \in Nat, NEW S, S \subseteq 1 .. n, NEW i \in Nat, NEW j \in Nat, i <= j
  PROVE  UpTo(S, i) <= UpTo(S, j)
<1>1. IsFiniteSet({k \in S : k <= j})
  BY UpToEnds, FS_Subset
<1>2. \A k \in S : k <= i => k <= j
  OBVIOUS
<1>3. {k \in S : k <= i} \subseteq {k \in S : k <= j}
  BY <1>2
<1> QED BY <1>1, <1>3, FS_Subset DEF UpTo

\* Two places of the set have different numbers, in their order.
LEMMA UpToTellsApart ==
  ASSUME NEW n \in Nat, NEW S, S \subseteq 1 .. n, NEW i \in S, NEW j \in S, i < j
  PROVE  UpTo(S, i) < UpTo(S, j)
<1>1. j - 1 \in Nat /\ i <= j - 1 /\ j \in Nat \ {0} /\ i \in Nat
  OBVIOUS
<1>2. UpTo(S, i) <= UpTo(S, j - 1)
  BY <1>1, UpToGrows
<1>3. UpTo(S, j) = UpTo(S, j - 1) + 1 /\ UpTo(S, j - 1) \in Nat
  BY <1>1, UpToStep
<1>4. UpTo(S, i) \in Nat
  <2>1. i \in Nat \ {0}
    OBVIOUS
  <2> QED BY <2>1, UpToStep
<1> QED BY <1>2, <1>3, <1>4

\* Every number up to the size of the set is the number of one of its places.
LEMMA UpToMeets ==
  ASSUME NEW n \in Nat, NEW S, S \subseteq 1 .. n, NEW k \in 1 .. Cardinality(S)
  PROVE  \E i \in S : UpTo(S, i) = k
<1> DEFINE Reached == {m \in 1 .. n : UpTo(S, m) >= k}
<1>1. UpTo(S, n) = Cardinality(S) /\ UpTo(S, 0) = 0 /\ Cardinality(S) \in Nat
  BY UpToEnds
<1>2. n # 0
  BY <1>1
<1>3. n \in Reached
  BY <1>1, <1>2
<1>4. PICK m \in Reached : \A i \in Reached : m <= i
  BY <1>3, FirstPlace
<1>5. m - 1 \in Nat /\ m \in Nat \ {0}
  OBVIOUS
<1>6. UpTo(S, m - 1) \in Nat /\ UpTo(S, m - 1) < k
  <2>1. UpTo(S, m - 1) \in Nat
    BY <1>5, UpToStep
  <2>2. CASE m = 1
    BY <1>1, <2>2
  <2>3. CASE m # 1
    BY <1>4, <2>1, <2>3
  <2> QED BY <2>1, <2>2, <2>3
<1>7. UpTo(S, m) >= k
  OBVIOUS
<1>8. m \in S /\ UpTo(S, m) = UpTo(S, m - 1) + 1
  <2>1. UpTo(S, m) = IF m \in S THEN UpTo(S, m - 1) + 1 ELSE UpTo(S, m - 1)
    BY <1>5, UpToStep
  <2> QED BY <1>6, <1>7, <2>1
<1> QED BY <1>6, <1>7, <1>8

\* s is the list with the entries at the places of S: the k-th is at the k-th of them.
Filtered(s, list, S) ==
  /\ s = [k \in 1 .. Cardinality(S) |-> s[k]]
  /\ \A k \in 1 .. Cardinality(S) : \E i \in S : UpTo(S, i) = k /\ s[k] = list[i]

\* A filtered list has the entries of the list at the places kept, and no others.
LEMMA FilteredEntries ==
  ASSUME NEW X, NEW list \in Seq(X), NEW S, S \subseteq DOMAIN list, NEW s, Filtered(s, list, S)
  PROVE  /\ s \in Seq(X)
         /\ Len(s) = Cardinality(S) /\ DOMAIN s = 1 .. Cardinality(S)
         /\ \A i \in S : UpTo(S, i) \in DOMAIN s /\ s[UpTo(S, i)] = list[i]
<1>n. PICK n : n \in Nat /\ DOMAIN list = 1 .. n /\ \A i \in 1 .. n : list[i] \in X
  BY LenProperties, ElementOfSeq
<1>1. Cardinality(S) \in Nat
  BY <1>n, UpToEnds
<1>2. DOMAIN s = 1 .. Cardinality(S)
  BY DEF Filtered
<1>3. ASSUME NEW i \in S PROVE UpTo(S, i) \in DOMAIN s /\ s[UpTo(S, i)] = list[i]
  <2>1. i \in 1 .. n
    BY <1>n
  <2>2. UpTo(S, i) <= Cardinality(S)
    BY <1>n, <2>1, UpToGrows, UpToEnds
  <2>3. UpTo(S, i) \in Nat /\ UpTo(S, i) >= 1
    <3>1. i - 1 \in Nat /\ i \in Nat \ {0}
      BY <2>1
    <3>2. UpTo(S, i) = UpTo(S, i - 1) + 1 /\ UpTo(S, i - 1) \in Nat
      BY <1>n, <3>1, UpToStep
    <3> QED BY <3>2
  <2>4. UpTo(S, i) \in 1 .. Cardinality(S)
    BY <1>1, <2>2, <2>3
  <2>5. PICK j \in S : UpTo(S, j) = UpTo(S, i) /\ s[UpTo(S, i)] = list[j]
    BY <2>4 DEF Filtered
  <2>6. j = i
    <3>1. j \in 1 .. n
      BY <1>n
    <3>2. ~ (i < j) /\ ~ (j < i)
      BY <1>n, <2>3, <2>5, UpToTellsApart
    <3> QED BY <2>1, <3>1, <3>2
  <2> QED BY <1>2, <2>4, <2>5, <2>6
<1>4. s \in Seq(X) /\ Len(s) = Cardinality(S)
  <2>1. \A k \in 1 .. Cardinality(S) : s[k] \in X
    BY <1>n DEF Filtered
  <2>2. s \in [1 .. Cardinality(S) -> X]
    BY <2>1 DEF Filtered
  <2>3. s \in Seq(X)
    BY <1>1, <2>2
  <2> QED BY <1>1, <1>2, <2>3, LenProperties
<1> QED BY <1>2, <1>3, <1>4

\* A selection is the filtered list.
LEMMA SelectedIsFiltered ==
  ASSUME NEW n \in Nat, NEW list, DOMAIN list = 1 .. n, NEW S, S \subseteq 1 .. n
  PROVE  Filtered(Selected(list, S), list, S)
<1> DEFINE s == Selected(list, S)
<1>1. s = [k \in 1 .. Cardinality(S) |-> list[CHOOSE i \in S : UpTo(S, i) = k]]
  BY DEF Selected
<1>2. ASSUME NEW k \in 1 .. Cardinality(S) PROVE \E i \in S : UpTo(S, i) = k /\ s[k] = list[i]
  <2> DEFINE i == CHOOSE j \in S : UpTo(S, j) = k
  <2>1. \E j \in S : UpTo(S, j) = k
    BY <1>2, UpToMeets
  <2>2. i \in S /\ UpTo(S, i) = k
    BY <2>1
  <2>3. s[k] = list[i]
    BY <1>1
  <2> QED BY <2>2, <2>3
<1>3. s = [k \in 1 .. Cardinality(S) |-> s[k]]
  BY <1>1
<1> HIDE DEF s
<1> QED BY <1>2, <1>3 DEF Filtered, s

-----------------------------------------------------------------------------
(* The client lists *)
RowType == [state : {"active", "ended"}, until : Nat, gone : BOOLEAN]
JobType == [op : Rewrites \cup {"none", "load", "grants", "apply", "update"},
            todo : SUBSET [user : Subscribers, until : Nat],
            list : Seq(Client) \cup {NoList}, rest : SUBSET Subscribers]

\* Every entry of the relay's client in a list is the one register-uuid makes.
IsService(c) == c = Entry(Derived(Service), TRUE, Never)
Whole(list) ==
  /\ list \in Seq(Client)
  /\ \A i \in DOMAIN list : OwnerOf(list[i]) = Service => IsService(list[i])

Rows == now \in Nat \ {0} /\ row \in [Subscribers -> RowType]

Panel ==
  /\ Whole(json)
  /\ table \in [Owners -> {"none", "derived", "old"}] /\ table[Service] # "old"
  /\ traffic \in [Owners -> [on : BOOLEAN, until : Nat]]
  /\ traffic[Service] = NoTraffic

\* A writer's copy of the list is whole as well, and a grant that has still to write
\* an end has one to write, for one user.
Fine(w, j) ==
  /\ j \in JobType
  /\ j.list # NoList => Whole(j.list)
  /\ w = "operator" /\ j.op \in {"apply", "update"} =>
       \E u \in Subscribers, t \in Nat \ {0} : j.todo = {[user |-> u, until |-> t]}
Jobs == DOMAIN job = Writers /\ \A w \in Writers : Fine(w, job[w])

ClientsInv == Rows /\ Panel /\ Jobs /\ GrantsEnd

\* Lists of clients are the only ones filtered here.
LEMMA KeptClients ==
  ASSUME NEW list, Whole(list), NEW S, S \subseteq DOMAIN list
  PROVE  Whole(Selected(list, S))
<1> DEFINE s == Selected(list, S)
<1>1. list \in Seq(Client) /\ Len(list) \in Nat /\ S \subseteq 1 .. Len(list) /\ DOMAIN list = 1 .. Len(list)
  BY LenProperties DEF Whole
<1>5. Filtered(s, list, S)
  BY <1>1, SelectedIsFiltered
<1> HIDE DEF s
<1>6. PICK t : t = s
  OBVIOUS
<1>7. PICK C : C = Client
  OBVIOUS
<1>8. t \in Seq(C) /\ \A k \in DOMAIN t : \E i \in S : t[k] = list[i]
  <2>1. list \in Seq(C) /\ Filtered(t, list, S)
    BY <1>1, <1>5, <1>6, <1>7
  <2>2. t \in Seq(C)
    BY <2>1, FilteredEntries
  <2>3. DOMAIN t = 1 .. Cardinality(S)
    BY <2>1, FilteredEntries
  <2>4. \A k \in DOMAIN t : \E i \in S : t[k] = list[i]
    BY <2>1, <2>3 DEF Filtered
  <2> QED BY <2>2, <2>4
<1>9. \A k \in DOMAIN t : OwnerOf(t[k]) = Service => IsService(t[k])
  BY <1>8 DEF Whole
<1> QED BY <1>6, <1>7, <1>8, <1>9 DEF Whole, s

\* One entry replaced, or one more.
LEMMA UpsertedClients ==
  ASSUME NEW list, Whole(list), NEW c \in Client, OwnerOf(c) # Service
  PROVE  Whole(Upsert(list, c))
<1> DEFINE T == {i \in 1 .. Len(list) : OwnerOf(list[i]) = OwnerOf(c) \/ list[i].id = c.id}
           at == IF T # {} THEN Min(T) ELSE 0
<1>1. Upsert(list, c) = IF at = 0 THEN Append(list, c) ELSE [list EXCEPT ![at] = c]
  BY DEF Upsert, SelectInSeq, ReplaceAt
<1>2. list \in Seq(Client) /\ Len(list) \in Nat /\ DOMAIN list = 1 .. Len(list)
  BY LenProperties DEF Whole
<1>3. T # {} => at \in T
  <2>1. T \subseteq 1 .. Len(list)
    OBVIOUS
  <2>2. T # {} => \E m \in T : \A i \in T : m <= i
    BY <1>2, <2>1, FirstPlace
  <2> HIDE DEF T
  <2> QED BY <2>2 DEF Min
<1>4. at = 0 \/ at \in DOMAIN list
  BY <1>2, <1>3
<1> HIDE DEF at, T
<1>5. CASE at = 0
  BY <1>1, <1>2, <1>5 DEF Whole
<1>6. CASE at # 0
  <2>1. [list EXCEPT ![at] = c] \in Seq(Client)
    BY <1>2, <1>4, <1>6
  <2>2. DOMAIN [list EXCEPT ![at] = c] = DOMAIN list
    OBVIOUS
  <2>3. \A i \in DOMAIN list : [list EXCEPT ![at] = c][i] = IF i = at THEN c ELSE list[i]
    OBVIOUS
  <2> QED BY <1>1, <1>6, <2>1, <2>2, <2>3 DEF Whole
<1> QED BY <1>5, <1>6

\* What the mirror makes of a whole list: the relay's client keeps its uuid and its row.
LEMMA MirrorKeepsService ==
  ASSUME NEW list, Whole(list),
         NEW tab \in [Owners -> {"none", "derived", "old"}], tab[Service] # "old",
         NEW tra \in [Owners -> [on : BOOLEAN, until : Nat]], tra[Service] = NoTraffic,
         NEW new, new = Mirror(list, tab, tra)
  PROVE  /\ new.table \in [Owners -> {"none", "derived", "old"}] /\ new.table[Service] # "old"
         /\ new.traffic \in [Owners -> [on : BOOLEAN, until : Nat]]
         /\ new.traffic[Service] = NoTraffic
         /\ tab[Service] # "none" => new.table[Service] # "none"
<1>1. list \in Seq(Client) /\ Len(list) \in Nat /\ DOMAIN list = 1 .. Len(list)
      /\ \A i \in DOMAIN list : list[i] \in Client
  BY LenProperties, ElementOfSeq DEF Whole
<1>2. ASSUME NEW S, S \subseteq DOMAIN list, S # {} PROVE Max(S) \in S
  <2>1. \E m \in S : \A i \in S : i <= m
    BY <1>1, <1>2, LastPlace
  <2>2. \A i \in S : i \in Nat
    BY <1>1, <1>2
  <2>3. \E m \in S : \A i \in S : m >= i
    BY <2>1, <2>2
  <2> QED BY <2>3 DEF Max
<1>3. \A o : NewOf(list, tab, o) \subseteq DOMAIN list
             /\ StatesOf(list, tab, o) \subseteq DOMAIN list
  BY DEF NewOf, StatesOf, Of
<1>4. ASSUME NEW o \in Owners
      PROVE  /\ new.table[o] \in {"none", "derived", "old"}
             /\ new.traffic[o] \in [on : BOOLEAN, until : Nat]
  <2>1. new.table[o] = AfterUuids(list, NewOf(list, tab, o), tab[o])
        /\ new.traffic[o] = AfterStates(list, StatesOf(list, tab, o), tra[o])
    BY DEF Mirror
  <2>2. \A i \in DOMAIN list : list[i].id[2] \in {"none", "derived", "old"}
    BY <1>1 DEF Client
  <2>3. \A i \in DOMAIN list : StateAt(list, i) \in [on : BOOLEAN, until : Nat]
    BY <1>1 DEF Client, StateAt
  <2>4. new.table[o] \in {"none", "derived", "old"}
    BY <1>2, <1>3, <2>1, <2>2 DEF AfterUuids
  <2>5. new.traffic[o] \in [on : BOOLEAN, until : Nat]
    BY <1>2, <1>3, <2>1, <2>3 DEF AfterStates
  <2> QED BY <2>4, <2>5
<1>5. new.table = [o \in Owners |-> new.table[o]] /\ new.traffic = [o \in Owners |-> new.traffic[o]]
  BY DEF Mirror
<1>6. new.table \in [Owners -> {"none", "derived", "old"}]
      /\ new.traffic \in [Owners -> [on : BOOLEAN, until : Nat]]
  BY <1>4, <1>5
<1>7. Service \in Owners
  BY DEF Owners
<1>8. \A i \in Of(list, Service) : IsService(list[i])
  BY DEF Whole, Of
<1>9. \A i \in Of(list, Service) :
         list[i].id[2] = "derived" /\ list[i].id = Uuid(Service, "derived")
         /\ StateAt(list, i) = NoTraffic
  <2> SUFFICES ASSUME NEW i \in Of(list, Service)
               PROVE  list[i].id[2] = "derived" /\ list[i].id = Uuid(Service, "derived")
                      /\ StateAt(list, i) = NoTraffic
    OBVIOUS
  <2>1. list[i] = [id |-> <<Service, "derived">>, on |-> TRUE, until |-> 0]
    BY <1>8 DEF IsService, Entry, Derived, Uuid, Never
  <2>2. list[i].id = <<Service, "derived">> /\ list[i].on = TRUE /\ list[i].until = 0
    BY <2>1
  <2>3. [on |-> list[i].on, until |-> list[i].until] = [on |-> TRUE, until |-> 0]
    BY <2>2, Zenon
  <2>4. list[i].id[2] = "derived"
    BY <2>2
  <2> QED BY <2>2, <2>3, <2>4 DEF Uuid, StateAt, NoTraffic, Never
<1>10. NewOf(list, tab, Service) \subseteq Of(list, Service)
       /\ StatesOf(list, tab, Service) \subseteq Of(list, Service)
  BY DEF NewOf, StatesOf
<1>11. tab[Service] = "derived" => NewOf(list, tab, Service) = {}
  BY <1>9 DEF NewOf
<1>12. new.table[Service] = AfterUuids(list, NewOf(list, tab, Service), tab[Service])
       /\ new.traffic[Service] = AfterStates(list, StatesOf(list, tab, Service), tra[Service])
  BY <1>7 DEF Mirror
<1>13. new.traffic[Service] = NoTraffic
  BY <1>2, <1>3, <1>9, <1>10, <1>12 DEF AfterStates
<1>14. new.table[Service] = IF NewOf(list, tab, Service) = {} THEN tab[Service] ELSE "derived"
  BY <1>2, <1>3, <1>9, <1>10, <1>12 DEF AfterUuids
<1>15. tab[Service] \in {"none", "derived"}
  BY <1>7
<1> QED BY <1>6, <1>11, <1>13, <1>14, <1>15

\* One writer goes on to something fine.
LEMMA JobMoves ==
  ASSUME Jobs, NEW w \in Writers, NEW j, Fine(w, j), job' = [job EXCEPT ![w] = j]
  PROVE  Jobs'
BY DEF Jobs

\* Grants still have their ends while rows get none without one, and the operator's
\* grant in progress, if it goes, is noted.
LEMMA EndsStay ==
  ASSUME GrantsEnd, cut \subseteq cut',
         \A u \in Subscribers : row'[u] = row[u] \/ ~ (row'[u].state = "active" /\ row'[u].until = Never),
         job["operator"].op = "update" =>
           \A t \in job["operator"].todo :
             t.user \in cut' \/ (job'["operator"].op = "update" /\ t \in job'["operator"].todo)
  PROVE  GrantsEnd'
BY DEF GrantsEnd

\* An idle writer, and the operator's --all-expired between two users.
LEMMA IdleIsFine == \A w : Fine(w, NoJob)
BY DEF Fine, JobType, NoJob, Rewrites

\* A job that ended, or that has grants left to make, is fine.
LEMMA EndedIsFine ==
  ASSUME Jobs, NEW w \in Writers
  PROVE  Fine(w, Ended(w)) /\ Ended(w).op # "update"
<1>1. job[w] \in JobType
  BY DEF Jobs, Fine
<1>2. job[w].rest \in SUBSET Subscribers
  BY <1>1 DEF JobType
<1>3. PICK r \in SUBSET Subscribers : r = job[w].rest
  BY <1>2
<1>4. Ended(w) = NoJob \/ Ended(w) = [op |-> "grants", todo |-> {}, list |-> NoList, rest |-> r]
  BY <1>3 DEF Ended, NoJob
<1> QED BY <1>4, IdleIsFine DEF Fine, JobType, NoJob

\* Whatever is not the operator's grant leaves the grants alone.
LEMMA OtherJobKeepsEnds ==
  ASSUME GrantsEnd, Jobs, NEW w \in Writers, NEW j, job' = [job EXCEPT ![w] = j],
         w # "operator" \/ job[w].op # "update", row' = row, cut' = cut
  PROVE  GrantsEnd'
<1>1. job'["operator"] = job["operator"] \/ job["operator"].op # "update"
  BY DEF Jobs, Writers
<1> QED BY <1>1, EndsStay

\* The fields of a job that is fine.
LEMMA JobFields ==
  ASSUME Jobs, NEW w \in Writers
  PROVE  /\ job[w] = [op |-> job[w].op, todo |-> job[w].todo, list |-> job[w].list, rest |-> job[w].rest]
         /\ job[w].op \in Rewrites \cup {"none", "load", "grants", "apply", "update"}
         /\ job[w].todo \in SUBSET [user : Subscribers, until : Nat]
         /\ job[w].list # NoList => Whole(job[w].list)
         /\ job[w].list \in Seq(Client) \cup {NoList}
         /\ job[w].rest \in SUBSET Subscribers
BY DEF Jobs, Fine, JobType

\* A job with other fields.
LEMMA JobIsFine ==
  ASSUME NEW w, NEW kind \in Rewrites \cup {"none", "load", "grants"},
         NEW todo \in SUBSET [user : Subscribers, until : Nat], NEW rest \in SUBSET Subscribers,
         NEW list, list = NoList \/ Whole(list)
  PROVE  Fine(w, [op |-> kind, todo |-> todo, list |-> list, rest |-> rest])
BY DEF Fine, JobType, Whole, Rewrites

IsJob(j) == j = [op |-> j.op, todo |-> j.todo, list |-> j.list, rest |-> j.rest]

\* A job's fields exchanged.
LEMMA JobWithList ==
  ASSUME NEW j, IsJob(j), NEW list
  PROVE  [j EXCEPT !.list = list] = [op |-> j.op, todo |-> j.todo, list |-> list, rest |-> j.rest]
BY DEF IsJob

\* A job with other work to do, its other fields kept.
LEMMA JobWithTodo ==
  ASSUME NEW j, IsJob(j), NEW todo, NEW list
  PROVE  [j EXCEPT !.todo = todo, !.list = list] = [op |-> j.op, todo |-> todo, list |-> list, rest |-> j.rest]
<1>1. PICK k : k = [j EXCEPT !.todo = todo]
  OBVIOUS
<1>2. k = [op |-> j.op, todo |-> todo, list |-> j.list, rest |-> j.rest]
  BY <1>1 DEF IsJob
<1>3. [k EXCEPT !.list = list] = [op |-> j.op, todo |-> todo, list |-> list, rest |-> j.rest]
  BY <1>2
<1> QED BY <1>1, <1>3

\* A job turned to another operation, with a list or with its own.
LEMMA JobWithOp ==
  ASSUME NEW j, IsJob(j), NEW kind, NEW list
  PROVE  /\ [j EXCEPT !.op = kind, !.list = list] = [op |-> kind, todo |-> j.todo, list |-> list, rest |-> j.rest]
         /\ [j EXCEPT !.op = kind] = [op |-> kind, todo |-> j.todo, list |-> j.list, rest |-> j.rest]
<1>1. PICK k : k = [j EXCEPT !.op = kind]
  OBVIOUS
<1>2. k = [op |-> kind, todo |-> j.todo, list |-> j.list, rest |-> j.rest]
  BY <1>1 DEF IsJob
<1>3. [k EXCEPT !.list = list] = [op |-> kind, todo |-> j.todo, list |-> list, rest |-> j.rest]
  BY <1>2
<1> QED BY <1>1, <1>2, <1>3

\* A writer is killed.
LEMMA KilledKeeps ==
  ASSUME ClientsInv, NEW w \in Writers, Killed(w)
  PROVE  ClientsInv'
<1>1. Jobs'
  BY JobMoves, IdleIsFine DEF ClientsInv, Killed
<1>2. Rows' /\ Panel'
  BY DEF ClientsInv, Killed, panel, Rows, Panel
<1>3. GrantsEnd'
  <2>1. cut \subseteq cut' /\ row' = row /\ job' = [job EXCEPT ![w] = NoJob]
    BY DEF Killed
  <2>2. w = "operator" /\ job[w].op = "update" => \A t \in job[w].todo : t.user \in cut'
    BY DEF Killed
  <2>3. w # "operator" => job'["operator"] = job["operator"]
    BY <2>1 DEF ClientsInv, Jobs, Writers
  <2> QED BY <2>1, <2>2, <2>3, EndsStay DEF ClientsInv
<1> QED BY <1>1, <1>2, <1>3 DEF ClientsInv

\* A list is read.
LEMMA FetchKeeps ==
  ASSUME ClientsInv, NEW w \in Writers, FetchList(w)
  PROVE  ClientsInv'
<1> DEFINE j == [op |-> job[w].op, todo |-> job[w].todo, list |-> json, rest |-> job[w].rest]
<1>1. job[w] = [op |-> job[w].op, todo |-> job[w].todo, list |-> job[w].list, rest |-> job[w].rest]
      /\ job[w].todo \in SUBSET [user : Subscribers, until : Nat] /\ job[w].rest \in SUBSET Subscribers
  BY JobFields DEF ClientsInv
<1>2. job[w].op \in Rewrites /\ job' = [job EXCEPT ![w].list = json]
  BY DEF FetchList
<1>3. job' = [job EXCEPT ![w] = j]
  <2>1. [job[w] EXCEPT !.list = json] = j
    BY <1>1, JobWithList DEF IsJob
  <2>2. job' = [job EXCEPT ![w] = [job[w] EXCEPT !.list = json]]
    BY <1>2
  <2> QED BY <2>1, <2>2
<1>4. Fine(w, j)
  BY <1>1, <1>2, JobIsFine DEF ClientsInv, Panel
<1>5. job[w].op # "update"
  BY <1>2 DEF Rewrites
<1> HIDE DEF j
<1>6. Jobs'
  BY <1>3, <1>4, JobMoves DEF ClientsInv
<1>7. Rows' /\ Panel'
  BY DEF ClientsInv, FetchList, panel, Rows, Panel
<1>8. row' = row /\ cut' = cut
  BY DEF FetchList
<1>9. GrantsEnd'
  BY <1>3, <1>5, <1>8, OtherJobKeepsEnds DEF ClientsInv
<1> QED BY <1>6, <1>7, <1>9 DEF ClientsInv

\* One of an add's users is done.
LEMMA NextUser ==
  ASSUME ClientsInv, NEW w \in Writers, NEW t, job[w].op = "add", Next_(w, t),
         row' = row, cut' = cut
  PROVE  Jobs' /\ GrantsEnd'
<1> DEFINE left == job[w].todo \ {t}
           on   == [op |-> "add", todo |-> left, list |-> NoList, rest |-> job[w].rest]
<1>1. job[w] = [op |-> job[w].op, todo |-> job[w].todo, list |-> job[w].list, rest |-> job[w].rest]
      /\ job[w].todo \in SUBSET [user : Subscribers, until : Nat] /\ job[w].rest \in SUBSET Subscribers
  BY JobFields DEF ClientsInv
<1>2. [job[w] EXCEPT !.todo = left, !.list = NoList] = on
  <2>1. IsJob(job[w])
    BY <1>1 DEF IsJob
  <2>2. [job[w] EXCEPT !.todo = left, !.list = NoList] =
          [op |-> job[w].op, todo |-> left, list |-> NoList, rest |-> job[w].rest]
    <3> HIDE DEF left
    <3> QED BY <2>1, JobWithTodo
  <2> QED BY <2>2
<1>3. Fine(w, on)
  <2>1. left \in SUBSET [user : Subscribers, until : Nat]
    BY <1>1
  <2> HIDE DEF left
  <2> QED BY <1>1, <2>1, JobIsFine DEF Rewrites
<1>4. Fine(w, Ended(w))
  BY EndedIsFine DEF ClientsInv
<1>5. PICK j : j = (IF left = {} THEN Ended(w) ELSE on)
  OBVIOUS
<1>6. job' = [job EXCEPT ![w] = j] /\ Fine(w, j)
  <2>1. job' = [job EXCEPT ![w] = IF left = {} THEN Ended(w)
                                   ELSE [job[w] EXCEPT !.todo = left, !.list = NoList]]
    BY DEF Next_
  <2> HIDE DEF left, on
  <2> QED BY <1>2, <1>3, <1>4, <1>5, <2>1
<1>7. Jobs'
  BY <1>6, JobMoves DEF ClientsInv
<1>8. job[w].op # "update"
  OBVIOUS
<1> QED BY <1>6, <1>7, <1>8, OtherJobKeepsEnds DEF ClientsInv

\* An add is posted, or the panel does not answer.
LEMMA PostAddKeeps ==
  ASSUME ClientsInv, NEW w \in Writers, PostAdded(w)
  PROVE  ClientsInv'
<1>1. PICK t \in job[w].todo :
        /\ json' = Upsert(job[w].list, Entry(Derived(t.user), TRUE, ExpiryOf(t.until)))
        /\ Next_(w, t)
  BY DEF PostAdded
<1>2. t \in [user : Subscribers, until : Nat] /\ Whole(job[w].list) /\ job[w].op = "add"
  BY JobFields DEF ClientsInv, PostAdded, HoldsList
<1>3. PICK c : c = Entry(Derived(t.user), TRUE, ExpiryOf(t.until))
  OBVIOUS
<1>4. c \in Client /\ OwnerOf(c) # Service
  <2>1. ExpiryOf(t.until) \in Nat
    BY <1>2, TimesAssumption DEF ExpiryOf, ClientsInv, Rows
  <2>2. PICK n \in Nat : n = ExpiryOf(t.until)
    BY <2>1
  <2>3. c = [id |-> <<t.user, "derived">>, on |-> TRUE, until |-> n]
    BY <1>3, <2>2 DEF Entry, Derived, Uuid
  <2>4. t.user \in Subscribers /\ t.user # Service
    BY <1>2, TimesAssumption
  <2> QED BY <2>3, <2>4 DEF Client, OwnerOf, Owners
<1>5. Whole(json')
  BY <1>1, <1>2, <1>3, <1>4, UpsertedClients
<1>6. Rows' /\ Panel' /\ row' = row /\ cut' = cut
  BY <1>5 DEF ClientsInv, PostAdded, Rows, Panel
<1>7. Jobs' /\ GrantsEnd'
  BY <1>1, <1>2, <1>6, NextUser
<1> QED BY <1>6, <1>7 DEF ClientsInv

\* POST updateClient or addClient fails: the writer goes on to its next user.
LEMMA PostFailsKeeps ==
  ASSUME ClientsInv, NEW w \in Writers, PostFails(w)
  PROVE  ClientsInv'
<1>1. PICK t \in job[w].todo : Next_(w, t)
  BY DEF PostFails
<1>2. job[w].op = "add" /\ row' = row /\ cut' = cut
  BY DEF PostFails
<1>3. Jobs' /\ GrantsEnd'
  BY <1>1, <1>2, NextUser
<1>4. Rows' /\ Panel'
  BY DEF ClientsInv, PostFails, panel, Rows, Panel
<1> QED BY <1>3, <1>4 DEF ClientsInv

\* A copy is posted without some of its entries.
LEMMA WithoutKeeps ==
  ASSUME NEW list, Whole(list)
  PROVE  /\ \A u : Whole(Without(list, u))
         /\ Whole(WithoutUsers(list))
         /\ Whole(Tidied(list))
BY KeptClients DEF Without, WithoutUsers, Tidied

\* POST delClient: the list without one user's entries.
LEMMA PostDeleteKeeps == ASSUME ClientsInv, PostRest PROVE ClientsInv'
<1>1. PICK t \in job["bot"].todo :
        /\ json' = Without(job["bot"].list, t.user)
        /\ IF job["bot"].op = "drop"
           THEN /\ job' = [job EXCEPT !["bot"] = [job["bot"] EXCEPT !.op = "add", !.list = NoList]]
                /\ row' = row
           ELSE /\ job' = [job EXCEPT !["bot"] = NoJob]
                /\ row' = [row EXCEPT ![t.user].gone = TRUE]
  BY DEF PostRest
<1>2. "bot" \in Writers
  BY DEF Writers
<1>3. IsJob(job["bot"]) /\ job["bot"].todo \in SUBSET [user : Subscribers, until : Nat]
      /\ job["bot"].rest \in SUBSET Subscribers /\ Whole(job["bot"].list)
  BY <1>2, JobFields DEF ClientsInv, PostRest, HoldsList, IsJob
<1>4. Whole(json')
  BY <1>1, <1>3, WithoutKeeps
<1>5. Panel'
  BY <1>4 DEF ClientsInv, PostRest, Panel
<1>6. PICK j : job' = [job EXCEPT !["bot"] = j] /\ Fine("bot", j)
  <2>1. CASE job["bot"].op = "drop"
    <3> DEFINE j == [op |-> "add", todo |-> job["bot"].todo, list |-> NoList, rest |-> job["bot"].rest]
    <3>1. Fine("bot", j)
      BY <1>3, JobIsFine DEF Rewrites
    <3>2. [job["bot"] EXCEPT !.op = "add", !.list = NoList] = j
      BY <1>3, JobWithOp
    <3> QED BY <1>1, <2>1, <3>1, <3>2
  <2>2. CASE job["bot"].op # "drop"
    BY <1>1, <2>2, IdleIsFine
  <2> QED BY <2>1, <2>2
<1>7. Jobs'
  BY <1>2, <1>6, JobMoves DEF ClientsInv
<1>8. /\ row' \in [Subscribers -> RowType]
      /\ \A u \in Subscribers : row'[u].state = row[u].state /\ row'[u].until = row[u].until
  <2>1. t.user \in Subscribers
    BY <1>3
  <2>2. row \in [Subscribers -> RowType]
    BY DEF ClientsInv, Rows
  <2>3. CASE row' = row
    BY <2>2, <2>3
  <2>4. CASE row' = [row EXCEPT ![t.user].gone = TRUE]
    <3>1. PICK r \in RowType : r = row[t.user]
      BY <2>1, <2>2
    <3>2. [r EXCEPT !.gone = TRUE] \in RowType /\ [r EXCEPT !.gone = TRUE].state = r.state
          /\ [r EXCEPT !.gone = TRUE].until = r.until
      BY DEF RowType
    <3>3. row' = [row EXCEPT ![t.user] = [r EXCEPT !.gone = TRUE]]
      BY <2>4, <3>1
    <3> QED BY <2>1, <2>2, <3>1, <3>2, <3>3
  <2> QED BY <1>1, <2>3, <2>4
<1>9. Rows'
  BY <1>8 DEF ClientsInv, PostRest, Rows
<1>10. GrantsEnd'
  <2>1. job'["operator"] = job["operator"] /\ cut' = cut
    BY <1>6 DEF ClientsInv, Jobs, Writers, PostRest
  <2> QED BY <1>8, <2>1 DEF ClientsInv, GrantsEnd
<1> QED BY <1>5, <1>7, <1>9, <1>10 DEF ClientsInv

\* rebuild: the list without the users' entries, in whatever form of id.
LEMMA PostWipeKeeps == ASSUME ClientsInv, PostWipe PROVE ClientsInv'
<1>1. "operator" \in Writers
  BY DEF Writers
<1>2. IsJob(job["operator"]) /\ job["operator"].todo \in SUBSET [user : Subscribers, until : Nat]
      /\ job["operator"].rest \in SUBSET Subscribers /\ Whole(job["operator"].list)
  BY <1>1, JobFields DEF ClientsInv, PostWipe, HoldsList, IsJob
<1> DEFINE j == [op |-> "add", todo |-> job["operator"].todo, list |-> NoList, rest |-> job["operator"].rest]
<1>3. Fine("operator", j)
  BY <1>2, JobIsFine DEF Rewrites
<1>4. [job["operator"] EXCEPT !.op = "add", !.list = NoList] = j
  <2>1. PICK q : q = job["operator"]
    OBVIOUS
  <2>2. IsJob(q)
    BY <1>2, <2>1
  <2>3. [q EXCEPT !.op = "add", !.list = NoList] = [op |-> "add", todo |-> q.todo, list |-> NoList, rest |-> q.rest]
    BY <2>2, JobWithOp
  <2> QED BY <2>1, <2>3
<1>5. job' = [job EXCEPT !["operator"] = j]
  BY <1>4 DEF PostWipe
<1>6. job["operator"].op # "update" /\ row' = row /\ cut' = cut
  BY DEF PostWipe, HoldsList
<1> HIDE DEF j
<1>7. Jobs' /\ GrantsEnd'
  BY <1>1, <1>3, <1>5, <1>6, JobMoves, OtherJobKeepsEnds DEF ClientsInv
<1>8. Whole(json')
  BY <1>2, WithoutKeeps DEF PostWipe
<1>9. Rows' /\ Panel'
  BY <1>8 DEF ClientsInv, PostWipe, Rows, Panel
<1> QED BY <1>7, <1>9 DEF ClientsInv

\* cleanup: the list without the entries nobody needs.
LEMMA PostTidyKeeps == ASSUME ClientsInv, PostTidy PROVE ClientsInv'
<1>1. "operator" \in Writers
  BY DEF Writers
<1>2. Whole(job["operator"].list)
  BY <1>1, JobFields DEF ClientsInv, PostTidy, HoldsList
<1>3. job["operator"].op # "update" /\ row' = row /\ cut' = cut /\ job' = [job EXCEPT !["operator"] = NoJob]
  BY DEF PostTidy, HoldsList
<1>4. Jobs' /\ GrantsEnd'
  BY <1>1, <1>3, IdleIsFine, JobMoves, OtherJobKeepsEnds DEF ClientsInv
<1>5. Whole(json')
  BY <1>2, WithoutKeeps DEF PostTidy
<1>6. Rows' /\ Panel'
  BY <1>5 DEF ClientsInv, PostTidy, Rows, Panel
<1> QED BY <1>4, <1>6 DEF ClientsInv
-----------------------------------------------------------------------------
\* A writer begins something.
LEMMA IdleWith ==
  ASSUME NEW kind, NEW todo, NEW rest
  PROVE  /\ [NoJob EXCEPT !.op = kind] = [op |-> kind, todo |-> {}, list |-> NoList, rest |-> {}]
         /\ [NoJob EXCEPT !.op = kind, !.todo = todo] = [op |-> kind, todo |-> todo, list |-> NoList, rest |-> {}]
         /\ [NoJob EXCEPT !.op = kind, !.rest = rest] = [op |-> kind, todo |-> {}, list |-> NoList, rest |-> rest]
<1>1. PICK k : k = [NoJob EXCEPT !.op = kind]
  OBVIOUS
<1>2. k = [op |-> kind, todo |-> {}, list |-> NoList, rest |-> {}]
  BY <1>1 DEF NoJob
<1>3. [k EXCEPT !.todo = todo] = [op |-> kind, todo |-> todo, list |-> NoList, rest |-> {}]
  BY <1>2
<1>4. [k EXCEPT !.rest = rest] = [op |-> kind, todo |-> {}, list |-> NoList, rest |-> rest]
  BY <1>2
<1> QED BY <1>1, <1>2, <1>3, <1>4

\* An idle writer's job with work and users left, field by field.
LEMMA IdleWithAll ==
  ASSUME NEW kind, NEW todo, NEW rest
  PROVE  [NoJob EXCEPT !.op = kind, !.todo = todo, !.rest = rest] =
           [op |-> kind, todo |-> todo, list |-> NoList, rest |-> rest]
<1>1. PICK l : l = [NoJob EXCEPT !.op = kind, !.todo = todo]
  OBVIOUS
<1>2. l = [op |-> kind, todo |-> todo, list |-> NoList, rest |-> {}]
  BY <1>1, IdleWith
<1>3. [l EXCEPT !.rest = rest] = [op |-> kind, todo |-> todo, list |-> NoList, rest |-> rest]
  BY <1>2
<1> QED BY <1>1, <1>3

\* A writer begins a job that is fine, and no one else's job changes.
LEMMA Begins ==
  ASSUME Jobs, NEW w \in Writers, NEW kind \in Rewrites \cup {"none", "load", "grants"},
         NEW todo \in SUBSET [user : Subscribers, until : Nat], NEW rest \in SUBSET Subscribers,
         job' = [job EXCEPT ![w] = [op |-> kind, todo |-> todo, list |-> NoList, rest |-> rest]]
  PROVE  Jobs'
<1>1. Fine(w, [op |-> kind, todo |-> todo, list |-> NoList, rest |-> rest])
  BY JobIsFine
<1>2. PICK j : j = [op |-> kind, todo |-> todo, list |-> NoList, rest |-> rest]
  OBVIOUS
<1> QED BY <1>1, <1>2, JobMoves

\* What is loaded of the rows is of their types.
LEMMA LoadedUsers ==
  ASSUME Rows
  PROVE  \A S \in SUBSET Subscribers : Loaded(S) \in SUBSET [user : Subscribers, until : Nat]
BY DEF Rows, RowType, Loaded

\* One row is another.
LEMMA RowMoves ==
  ASSUME Rows, NEW u \in Subscribers, NEW r \in RowType, row' = [row EXCEPT ![u] = r]
  PROVE  row' \in [Subscribers -> RowType] /\ \A v \in Subscribers : row'[v] = IF v = u THEN r ELSE row[v]
BY DEF Rows

\* Days added make an end.
LEMMA EndsLater ==
  ASSUME Rows, NEW u \in Subscribers
  PROVE  EndAfter(u) \in Nat \ {0}
<1>1. row[u].until \in Nat /\ now \in Nat /\ Days \in Nat \ {0}
  BY TimesAssumption DEF Rows, RowType
<1> QED BY <1>1 DEF EndAfter

\* A purchase: the row gets a later end, which the writer has still to bring to the panel.
LEMMA PurchaseKeeps ==
  ASSUME ClientsInv, NEW u \in Subscribers, Purchase(u)
  PROVE  ClientsInv'
<1>1. PICK end : end = EndAfter(u)
  OBVIOUS
<1>2. end \in Nat \ {0}
  BY <1>1, EndsLater DEF ClientsInv
<1>3. [state |-> "active", until |-> end, gone |-> FALSE] \in RowType
  BY <1>2 DEF RowType
<1>4. row' = [row EXCEPT ![u] = [state |-> "active", until |-> end, gone |-> FALSE]]
  BY <1>1 DEF Purchase
<1>5. row' \in [Subscribers -> RowType] /\ \A v \in Subscribers : row'[v] = row[v] \/ row'[v].until = end
  BY <1>3, <1>4, RowMoves DEF ClientsInv
<1>6. Rows' /\ Panel'
  BY <1>5 DEF ClientsInv, Purchase, panel, Rows, Panel
<1>7. "bot" \in Writers /\ "bot" # "operator"
  BY DEF Writers
<1>8. PICK todo : todo = {[user |-> u, until |-> end]}
  OBVIOUS
<1>9. todo \in SUBSET [user : Subscribers, until : Nat]
  BY <1>2, <1>8
<1>10. job' = [job EXCEPT !["bot"] = [op |-> "drop", todo |-> todo, list |-> NoList, rest |-> {}]]
  BY <1>1, <1>8, IdleWith DEF Purchase
<1>11. Jobs'
  <2>1. {} \in SUBSET Subscribers /\ "drop" \in Rewrites /\ Jobs
    BY DEF ClientsInv, Rewrites
  <2> QED BY <1>7, <1>9, <1>10, <2>1, Begins
<1>12. GrantsEnd'
  <2>1. job'["operator"] = job["operator"] /\ cut' = cut
    BY <1>10 DEF ClientsInv, Jobs, Writers, Purchase
  <2> QED BY <1>2, <1>5, <2>1, EndsStay DEF ClientsInv, Never
<1> QED BY <1>6, <1>11, <1>12 DEF ClientsInv

\* The panel disables a client: its entry stays its own.
LEMMA LapseKeeps ==
  ASSUME ClientsInv, NEW u \in Subscribers, Lapse(u)
  PROVE  ClientsInv'
<1>1. json \in Seq(Client) /\ Len(json) \in Nat /\ DOMAIN json = 1 .. Len(json)
      /\ \A i \in DOMAIN json : json[i] \in Client
  BY LenProperties, ElementOfSeq DEF ClientsInv, Panel, Whole
<1>2. PICK c : c = Entry(Derived(u), FALSE, Far)
  OBVIOUS
<1>3. c \in Client /\ OwnerOf(c) # Service
  <2>1. c = [id |-> <<u, "derived">>, on |-> FALSE, until |-> Far] /\ Far \in Nat /\ u # Service
    BY <1>2, TimesAssumption DEF Entry, Derived, Uuid
  <2> QED BY <2>1 DEF Client, OwnerOf, Owners
<1>4. json' = [i \in DOMAIN json |-> IF json[i].id = Derived(u) THEN c ELSE json[i]]
  BY <1>2 DEF Lapse
<1>5. DOMAIN json' = DOMAIN json /\ \A i \in DOMAIN json : json'[i] = c \/ json'[i] = json[i]
  BY <1>4
<1>6. json' \in Seq(Client)
  <2>1. json' \in [1 .. Len(json) -> Client]
    BY <1>1, <1>3, <1>4
  <2> QED BY <1>1, <2>1
<1>7. Panel'
  <2>1. Whole(json')
    BY <1>3, <1>5, <1>6 DEF ClientsInv, Panel, Whole
  <2> QED BY <2>1 DEF ClientsInv, Lapse, Panel
<1>8. row' \in [Subscribers -> RowType] /\ \A v \in Subscribers : row'[v] = row[v] \/ row'[v].state = "ended"
  <2>1. PICK r \in RowType : r = row[u]
    BY DEF ClientsInv, Rows
  <2>2. [r EXCEPT !.state = "ended"] \in RowType /\ [r EXCEPT !.state = "ended"].state = "ended"
    BY DEF RowType
  <2>3. row' = [row EXCEPT ![u] = [r EXCEPT !.state = "ended"]]
    BY <2>1 DEF Lapse
  <2> QED BY <2>2, <2>3, RowMoves DEF ClientsInv
<1>9. Rows'
  BY <1>8 DEF ClientsInv, Lapse, Rows
<1>10. Jobs' /\ GrantsEnd'
  <2>1. job' = job /\ cut' = cut
    BY DEF Lapse
  <2>2. Jobs'
    BY <2>1 DEF ClientsInv, Jobs
  <2> QED BY <1>8, <2>1, <2>2, EndsStay DEF ClientsInv
<1> QED BY <1>7, <1>9, <1>10 DEF ClientsInv

\* A writer other than a grant begins, and nothing else changes: the row, the lists.
LEMMA BeginKeeps ==
  ASSUME ClientsInv, NEW w \in Writers, w # "operator" \/ job[w].op # "update",
         NEW kind \in Rewrites \cup {"none", "load", "grants"},
         NEW todo \in SUBSET [user : Subscribers, until : Nat], NEW rest \in SUBSET Subscribers,
         job' = [job EXCEPT ![w] = [op |-> kind, todo |-> todo, list |-> NoList, rest |-> rest]],
         UNCHANGED <<now, row, panel, cut>>
  PROVE  ClientsInv'
<1>1. Jobs'
  BY Begins DEF ClientsInv
<1>2. PICK j : job' = [job EXCEPT ![w] = j]
  OBVIOUS
<1>3. row' = row /\ cut' = cut
  OBVIOUS
<1>4. GrantsEnd'
  BY <1>2, <1>3, OtherJobKeepsEnds DEF ClientsInv
<1>5. Rows' /\ Panel'
  BY DEF ClientsInv, panel, Rows, Panel
<1> QED BY <1>1, <1>4, <1>5 DEF ClientsInv

\* The purge of a row long ended: the bot deletes its client.
LEMMA PurgeKeeps == ASSUME ClientsInv, NEW u \in Subscribers, Purge(u) PROVE ClientsInv'
<1>1. PICK todo : todo = {[user |-> u, until |-> row[u].until]}
  OBVIOUS
<1>2. todo \in SUBSET [user : Subscribers, until : Nat]
  <2>1. row[u].until \in Nat
    BY DEF ClientsInv, Rows, RowType
  <2> QED BY <1>1, <2>1
<1>3. job' = [job EXCEPT !["bot"] = [op |-> "delete", todo |-> todo, list |-> NoList, rest |-> {}]]
  BY <1>1, IdleWith DEF Purge
<1>4. {} \in SUBSET Subscribers /\ "delete" \in Rewrites /\ "bot" \in Writers /\ "bot" # "operator"
  BY DEF Rewrites, Writers
<1>5. UNCHANGED <<now, row, panel, cut>>
  BY DEF Purge
<1> QED BY <1>2, <1>3, <1>4, <1>5, BeginKeeps

\* The reprovisioning of everyone with an active row.
LEMMA ReprovisionKeeps == ASSUME ClientsInv, Reprovision PROVE ClientsInv'
<1>1. PICK found : found = {u \in Active : ~row[u].gone}
  OBVIOUS
<1>2. PICK todo : todo = Loaded(found)
  OBVIOUS
<1>3. todo \in SUBSET [user : Subscribers, until : Nat]
  BY <1>1, <1>2, LoadedUsers DEF ClientsInv, Active
<1>4. job' = [job EXCEPT !["reprov"] = [op |-> "add", todo |-> todo, list |-> NoList, rest |-> {}]]
  BY <1>1, <1>2, IdleWith DEF Reprovision
<1>5. {} \in SUBSET Subscribers /\ "add" \in Rewrites /\ "reprov" \in Writers /\ "reprov" # "operator"
  BY DEF Rewrites, Writers
<1>6. UNCHANGED <<now, row, panel, cut>>
  BY DEF Reprovision
<1> QED BY <1>3, <1>4, <1>5, <1>6, BeginKeeps

\* A command begins when the operator is idle.
LEMMA CommandIsFirst == ByOperator => job["operator"].op = "none"
BY DEF ByOperator, NoJob

\* The operator begins a cleanup.
LEMMA CleanupKeeps == ASSUME ClientsInv, Cleanup PROVE ClientsInv'
<1>1. job' = [job EXCEPT !["operator"] = [op |-> "tidy", todo |-> {}, list |-> NoList, rest |-> {}]]
  BY IdleWith DEF Cleanup
<1>2. {} \in SUBSET Subscribers /\ {} \in SUBSET [user : Subscribers, until : Nat] /\ "tidy" \in Rewrites
      /\ "operator" \in Writers
  BY DEF Rewrites, Writers
<1>3. UNCHANGED <<now, row, panel, cut>> /\ job["operator"].op # "update"
  BY CommandIsFirst DEF Cleanup
<1> QED BY <1>1, <1>2, <1>3, BeginKeeps

\* The operator's rebuild loads whom it is about.
LEMMA RebuildLoadKeeps == ASSUME ClientsInv, RebuildLoad PROVE ClientsInv'
<1>1. PICK todo : todo = Loaded(Active)
  OBVIOUS
<1>2. todo \in SUBSET [user : Subscribers, until : Nat]
  <2>1. Active \in SUBSET Subscribers
    BY DEF Active
  <2> QED BY <1>1, <2>1, LoadedUsers DEF ClientsInv
<1>3. \/ job' = [job EXCEPT !["operator"] = [op |-> "wipe", todo |-> todo, list |-> NoList, rest |-> {}]]
      \/ job' = [job EXCEPT !["operator"] = [op |-> "none", todo |-> {}, list |-> NoList, rest |-> {}]]
  <2>1. NoJob = [op |-> "none", todo |-> {}, list |-> NoList, rest |-> {}]
    BY DEF NoJob
  <2>2. [NoJob EXCEPT !.op = "wipe", !.todo = todo] = [op |-> "wipe", todo |-> todo, list |-> NoList, rest |-> {}]
    BY IdleWith
  <2> QED BY <1>1, <2>1, <2>2 DEF RebuildLoad
<1>4. {} \in SUBSET Subscribers /\ {} \in SUBSET [user : Subscribers, until : Nat] /\ "wipe" \in Rewrites
      /\ "operator" \in Writers
  BY DEF Rewrites, Writers
<1>5. UNCHANGED <<now, row, panel, cut>> /\ job["operator"].op # "update"
  BY DEF RebuildLoad
<1>6. CASE job' = [job EXCEPT !["operator"] = [op |-> "wipe", todo |-> todo, list |-> NoList, rest |-> {}]]
  BY <1>2, <1>4, <1>5, <1>6, BeginKeeps
<1>7. CASE job' = [job EXCEPT !["operator"] = [op |-> "none", todo |-> {}, list |-> NoList, rest |-> {}]]
  BY <1>4, <1>5, <1>7, BeginKeeps
<1> QED BY <1>3, <1>6, <1>7

\* The operator begins to grant to everyone whose row has ended.
LEMMA GrantAllExpiredKeeps == ASSUME ClientsInv, GrantAllExpired PROVE ClientsInv'
<1>1. PICK rest : rest = {u \in Subscribers : row[u].state = "ended" /\ ~row[u].gone}
  OBVIOUS
<1>2. job' = [job EXCEPT !["operator"] = [op |-> "grants", todo |-> {}, list |-> NoList, rest |-> rest]]
  BY <1>1, IdleWith DEF GrantAllExpired
<1>3. rest \in SUBSET Subscribers /\ {} \in SUBSET [user : Subscribers, until : Nat] /\ "operator" \in Writers
  BY <1>1 DEF Writers
<1>4. UNCHANGED <<now, row, panel, cut>> /\ job["operator"].op # "update"
  BY CommandIsFirst DEF GrantAllExpired
<1> QED BY <1>2, <1>3, <1>4, BeginKeeps

\* The extension of everybody who is not active, and the rebuild it belongs to.
LEMMA RebuildKeeps == ASSUME ClientsInv, RebuildInbound PROVE ClientsInv'
<1>1. PICK end : end = now + Days
  OBVIOUS
<1>2. end \in Nat \ {0}
  BY <1>1, TimesAssumption DEF ClientsInv, Rows
<1>3. row' \in [Subscribers -> RowType] /\ \A u \in Subscribers : row'[u] = row[u] \/ row'[u].until = end
  <2>1. row \in [Subscribers -> RowType]
    BY DEF ClientsInv, Rows
  <2>2. PICK new : new = [state |-> "active", until |-> end, gone |-> FALSE]
    OBVIOUS
  <2>3. new \in RowType /\ new.until = end
    BY <1>2, <2>2 DEF RowType
  <2>4. row' = row \/ row' = [u \in Subscribers |-> IF u \in Active THEN row[u] ELSE new]
    BY <1>1, <2>2 DEF RebuildInbound, Extended
  <2> QED BY <2>1, <2>3, <2>4
<1>4. Rows' /\ Panel'
  BY <1>3 DEF ClientsInv, RebuildInbound, panel, Rows, Panel
<1>5. job' = [job EXCEPT !["operator"] = [op |-> "load", todo |-> {}, list |-> NoList, rest |-> {}]]
  BY IdleWith DEF RebuildInbound
<1>6. Jobs'
  <2>1. {} \in SUBSET Subscribers /\ {} \in SUBSET [user : Subscribers, until : Nat] /\ "operator" \in Writers
    BY DEF Writers
  <2> QED BY <1>5, <2>1, Begins DEF ClientsInv
<1>7. cut' = cut /\ job["operator"].op # "update"
  BY CommandIsFirst DEF RebuildInbound
<1>8. GrantsEnd'
  BY <1>2, <1>3, <1>7, EndsStay DEF ClientsInv, Never
<1> QED BY <1>4, <1>6, <1>8 DEF ClientsInv

\* A grant begins: the operator holds the end it will write.
LEMMA GrantToKeeps ==
  ASSUME ClientsInv, NEW u \in Subscribers, NEW rest \in SUBSET Subscribers, GrantTo(u, rest),
         job["operator"].op # "update"
  PROVE  ClientsInv'
<1>1. PICK end \in Nat \ {0} : end = EndAfter(u)
  BY EndsLater DEF ClientsInv
<1>2. PICK todo : todo = {[user |-> u, until |-> end]}
  OBVIOUS
<1>3. PICK j : j = [op |-> "apply", todo |-> todo, list |-> NoList, rest |-> rest]
  OBVIOUS
<1>4. job' = [job EXCEPT !["operator"] = j]
  <2>1. [NoJob EXCEPT !.op = "apply", !.todo = todo, !.rest = rest] = j
    BY <1>3, IdleWithAll
  <2>2. job' = [job EXCEPT !["operator"] = [NoJob EXCEPT !.op = "apply", !.todo = todo, !.rest = rest]]
    BY <1>1, <1>2 DEF GrantTo
  <2> QED BY <2>1, <2>2
<1>5. Fine("operator", j)
  <2>1. todo \in SUBSET [user : Subscribers, until : Nat]
    BY <1>2
  <2>2. j \in JobType /\ j.list = NoList
    BY <1>3, <2>1 DEF JobType
  <2> QED BY <1>2, <1>3, <2>2 DEF Fine
<1>6. "operator" \in Writers
  BY DEF Writers
<1>7. Jobs'
  BY <1>4, <1>5, <1>6, JobMoves DEF ClientsInv
<1>8. row' = row /\ cut' = cut
  BY DEF GrantTo
<1>9. GrantsEnd'
  BY <1>4, <1>6, <1>8, OtherJobKeepsEnds DEF ClientsInv
<1>10. Rows' /\ Panel'
  BY DEF ClientsInv, GrantTo, panel, Rows, Panel
<1> QED BY <1>7, <1>9, <1>10 DEF ClientsInv

\* A grant's apply: the row has no end, and the operator holds the one to write.
LEMMA GrantApplyKeeps == ASSUME ClientsInv, GrantApply PROVE ClientsInv'
<1>1. "operator" \in Writers
  BY DEF Writers
<1>2. PICK u \in Subscribers, end \in Nat \ {0} : job["operator"].todo = {[user |-> u, until |-> end]}
  BY <1>1 DEF ClientsInv, Jobs, Fine, GrantApply
<1>3. PICK q : q = job["operator"]
  OBVIOUS
<1>4. PICK j : j = [op |-> "update", todo |-> q.todo, list |-> q.list, rest |-> q.rest]
  OBVIOUS
<1>5. job' = [job EXCEPT !["operator"] = j]
  <2>1. IsJob(q)
    BY <1>1, <1>3, JobFields DEF ClientsInv, IsJob
  <2>2. [q EXCEPT !.op = "update"] = j
    BY <1>4, <2>1, JobWithOp
  <2>3. job' = [job EXCEPT !["operator"] = [q EXCEPT !.op = "update"]]
    BY <1>3 DEF GrantApply
  <2> QED BY <2>2, <2>3
<1>6. Fine("operator", j)
  <2>1. /\ q.todo \in SUBSET [user : Subscribers, until : Nat]
        /\ q.list # NoList => Whole(q.list)
        /\ q.list \in Seq(Client) \cup {NoList}
        /\ q.rest \in SUBSET Subscribers
    BY <1>1, <1>3, JobFields DEF ClientsInv
  <2>2. j \in JobType /\ j.list = q.list /\ j.todo = q.todo
    BY <1>4, <2>1 DEF JobType
  <2> QED BY <1>2, <1>3, <2>1, <2>2 DEF Fine
<1>7. Jobs' /\ job'["operator"] = j
  <2>1. Jobs'
    BY <1>1, <1>5, <1>6, JobMoves DEF ClientsInv
  <2> QED BY <1>1, <1>5, <2>1 DEF ClientsInv, Jobs
<1>8. row' = [row EXCEPT ![u].state = "active", ![u].until = Never]
  <2>1. PICK t \in job["operator"].todo :
          row' = [row EXCEPT ![t.user].state = "active", ![t.user].until = Never]
    BY DEF GrantApply
  <2>2. t.user = u
    BY <1>2
  <2> QED BY <2>1, <2>2
<1>9. row' \in [Subscribers -> RowType] /\ \A v \in Subscribers \ {u} : row'[v] = row[v]
  <2>1. PICK r \in RowType : r = row[u]
    BY DEF ClientsInv, Rows
  <2>2. PICK s : s = [state |-> "active", until |-> Never, gone |-> r.gone]
    OBVIOUS
  <2>3. s \in RowType
    BY <2>1, <2>2 DEF RowType, Never
  <2>4. row' = [row EXCEPT ![u] = s]
    <3>1. row' = [row EXCEPT ![u].state = "active", ![u].until = Never]
      BY <1>8
    <3>2. row \in [Subscribers -> RowType]
      BY DEF ClientsInv, Rows
    <3>3. DOMAIN row' = Subscribers /\ \A v \in Subscribers \ {u} : row'[v] = row[v]
      BY <3>1, <3>2
    <3>4. PICK k : k = [row EXCEPT ![u].state = "active"]
      OBVIOUS
    <3>5. k[u] = [r EXCEPT !.state = "active"] /\ DOMAIN k = Subscribers
      BY <2>1, <3>2, <3>4
    <3>6. row' = [k EXCEPT ![u].until = Never]
      BY <3>1, <3>4
    <3>7. row'[u] = [k[u] EXCEPT !.until = Never]
      BY <3>5, <3>6
    <3>8. k[u] = [state |-> "active", until |-> r.until, gone |-> r.gone]
      BY <3>5 DEF RowType
    <3>9. row'[u] = s
      BY <2>2, <3>7, <3>8
    <3>10. row' = [v \in Subscribers |-> row'[v]]
      BY <3>1, <3>2
    <3> QED BY <3>2, <3>3, <3>9, <3>10
  <2> QED BY <2>3, <2>4, RowMoves DEF ClientsInv
<1>10. Rows' /\ Panel'
  BY <1>9 DEF ClientsInv, GrantApply, panel, Rows, Panel
<1>11. GrantsEnd'
  <2>1. ASSUME NEW v \in Subscribers, row'[v].state = "active", row'[v].until = Never
        PROVE  v \in cut' \/ (job'["operator"].op = "update" /\ \E t \in job'["operator"].todo : t.user = v)
    <3>1. CASE v = u
      <4>1. job'["operator"].op = "update" /\ job'["operator"].todo = {[user |-> u, until |-> end]}
        BY <1>2, <1>3, <1>4, <1>7
      <4>2. [user |-> u, until |-> end].user = v
        BY <3>1
      <4> QED BY <4>1, <4>2
    <3>2. CASE v # u
      <4>1. row'[v] = row[v] /\ cut' = cut /\ job["operator"].op # "update"
        BY <1>9, <3>2 DEF GrantApply
      <4> QED BY <2>1, <4>1 DEF ClientsInv, GrantsEnd
    <3> QED BY <3>1, <3>2
  <2> QED BY <2>1 DEF GrantsEnd
<1> QED BY <1>7, <1>10, <1>11 DEF ClientsInv

\* A grant to one user.
LEMMA GrantKeeps ==
  ASSUME ClientsInv, NEW u \in Subscribers, Grant(u)
  PROVE  ClientsInv'
<1>1. {} \in SUBSET Subscribers /\ GrantTo(u, {}) /\ job["operator"].op # "update"
  BY CommandIsFirst DEF Grant
<1> QED BY <1>1, GrantToKeeps

\* The next grant of a grant to everyone.
LEMMA GrantNextKeeps ==
  ASSUME ClientsInv, NEW u \in Subscribers, GrantNext(u)
  PROVE  ClientsInv'
<1>1. "operator" \in Writers
  BY DEF Writers
<1>2. PICK rest \in SUBSET Subscribers : rest = job["operator"].rest \ {u}
  BY <1>1, JobFields DEF ClientsInv
<1>3. GrantTo(u, rest) /\ job["operator"].op # "update"
  BY <1>2 DEF GrantNext
<1> QED BY <1>3, GrantToKeeps

\* A grant of which a step fails: what it wrote without an end is noted.
LEMMA GrantFailsKeeps == ASSUME ClientsInv, GrantFails PROVE ClientsInv'
<1>1. "operator" \in Writers
  BY DEF Writers
<1>2. PICK j : j = Ended("operator")
  OBVIOUS
<1>3. job' = [job EXCEPT !["operator"] = j] /\ Fine("operator", j)
  BY <1>1, <1>2, EndedIsFine DEF ClientsInv, GrantFails
<1>4. Jobs'
  BY <1>1, <1>3, JobMoves DEF ClientsInv
<1>5. Rows' /\ Panel'
  BY DEF ClientsInv, GrantFails, panel, Rows, Panel
<1>6. GrantsEnd'
  BY EndsStay DEF ClientsInv, GrantFails
<1> QED BY <1>4, <1>5, <1>6 DEF ClientsInv

\* The end is written: the one user of the grant in progress has it now.
LEMMA GrantUpdateKeeps == ASSUME ClientsInv, GrantUpdate PROVE ClientsInv'
<1>1. "operator" \in Writers
  BY DEF Writers
<1>2. PICK u \in Subscribers, end \in Nat \ {0} : job["operator"].todo = {[user |-> u, until |-> end]}
  BY <1>1 DEF ClientsInv, Jobs, Fine, GrantUpdate
<1>3. PICK r : r = [state |-> "active", until |-> end, gone |-> FALSE]
  OBVIOUS
<1>4. r \in RowType /\ r.until = end
  BY <1>3 DEF RowType
<1>5. row' = [row EXCEPT ![u] = r]
  <2>1. PICK t \in job["operator"].todo :
          row' = [row EXCEPT ![t.user] = [state |-> "active", until |-> t.until, gone |-> FALSE]]
    BY DEF GrantUpdate
  <2>2. t.user = u /\ t.until = end
    BY <1>2
  <2> QED BY <1>3, <2>1, <2>2
<1>6. row' \in [Subscribers -> RowType] /\ \A v \in Subscribers : row'[v] = IF v = u THEN r ELSE row[v]
  BY <1>4, <1>5, RowMoves DEF ClientsInv
<1>7. Rows' /\ Panel'
  BY <1>6 DEF ClientsInv, GrantUpdate, panel, Rows, Panel
<1>8. PICK j : job' = [job EXCEPT !["operator"] = j] /\ Fine("operator", j)
  <2>1. IsJob(job["operator"]) /\ job["operator"].todo \in SUBSET [user : Subscribers, until : Nat]
        /\ job["operator"].rest \in SUBSET Subscribers
        /\ (job["operator"].list = NoList \/ Whole(job["operator"].list))
    BY <1>1, JobFields DEF ClientsInv, IsJob
  <2>2. PICK q : q = job["operator"]
    OBVIOUS
  <2>3. PICK k : k = [op |-> "add", todo |-> q.todo, list |-> q.list, rest |-> q.rest]
    OBVIOUS
  <2>4. [q EXCEPT !.op = "add"] = k
    BY <2>1, <2>2, <2>3, JobWithOp
  <2>5. Fine("operator", k)
    BY <2>1, <2>2, <2>3, JobIsFine DEF Rewrites
  <2>6. Fine("operator", Ended("operator"))
    BY <1>1, EndedIsFine DEF ClientsInv
  <2>7. job' = [job EXCEPT !["operator"] = IF managed THEN [q EXCEPT !.op = "add"] ELSE Ended("operator")]
    BY <2>2 DEF GrantUpdate
  <2>8. CASE managed
    BY <2>4, <2>5, <2>7, <2>8
  <2>9. CASE ~managed
    BY <2>6, <2>7, <2>9
  <2> QED BY <2>8, <2>9
<1>9. Jobs'
  BY <1>1, <1>8, JobMoves DEF ClientsInv
<1>10. GrantsEnd'
  <2>1. ASSUME NEW v \in Subscribers, row'[v].state = "active", row'[v].until = Never
        PROVE  v \in cut'
    <3>1. v # u
      BY <1>4, <1>6, <2>1 DEF Never
    <3>2. row'[v] = row[v]
      BY <1>6, <3>1
    <3>3. \A t \in job["operator"].todo : t.user # v
      BY <1>2, <3>1
    <3> QED BY <2>1, <3>2, <3>3 DEF ClientsInv, GrantsEnd, GrantUpdate
  <2> QED BY <2>1 DEF GrantsEnd
<1> QED BY <1>7, <1>9, <1>10 DEF ClientsInv

-----------------------------------------------------------------------------
\* What writes the panel and its tables leaves rows and jobs alone.
LEMMA PanelMoves ==
  ASSUME ClientsInv, UNCHANGED <<now, row, job, cut>>, Panel' PROVE ClientsInv'
BY DEF ClientsInv, Rows, Jobs, GrantsEnd

\* Steps that write nothing but the panel's own database, or restart x-ui.
LEMMA DatabaseKeeps ==
  ASSUME ClientsInv,
         RegisterUuid \/ UnregisterUuid \/ PurgeOrphans \/ SetupRelayClient
  PROVE  ClientsInv'
<1>1. UNCHANGED <<now, row, job, cut>>
  BY DEF RegisterUuid, UnregisterUuid, PurgeOrphans, SetupRelayClient, DbCommand
<1>2. Whole(json) /\ table \in [Owners -> {"none", "derived", "old"}] /\ table[Service] # "old"
      /\ traffic \in [Owners -> [on : BOOLEAN, until : Nat]] /\ traffic[Service] = NoTraffic
  BY DEF ClientsInv, Panel
<1>3. Service \in Owners /\ Service \notin Subscribers
  BY TimesAssumption DEF Owners
<1>4. ASSUME RegisterUuid PROVE Panel'
  <2>1. PICK c : c = Entry(Derived(Service), TRUE, Never)
    OBVIOUS
  <2>2. c \in Client /\ IsService(c)
    BY <1>3, <2>1 DEF IsService, Client, Entry, Derived, Uuid, Never
  <2>3. json' = json \/ json' = Append(json, c)
    BY <1>4, <2>1 DEF RegisterUuid
  <2>4. json \in Seq(Client) /\ Len(json) \in Nat /\ DOMAIN json = 1 .. Len(json)
    BY <1>2, LenProperties DEF Whole
  <2>5. Whole(Append(json, c))
    <3>1. Append(json, c) \in Seq(Client) /\ DOMAIN Append(json, c) = 1 .. Len(json) + 1
      BY <2>2, <2>4
    <3>2. \A i \in 1 .. Len(json) + 1 : Append(json, c)[i] = IF i \in DOMAIN json THEN json[i] ELSE c
      BY <2>2, <2>4
    <3> QED BY <1>2, <2>2, <3>1, <3>2 DEF Whole
  <2>6. Whole(json')
    BY <1>2, <2>3, <2>5
  <2> QED BY <1>2, <1>3, <1>4, <2>6 DEF RegisterUuid, Panel
<1>5. ASSUME UnregisterUuid PROVE Panel'
  <2>1. Whole(json')
    BY <1>2, <1>5, WithoutKeeps DEF UnregisterUuid
  <2>2. NoTraffic \in [on : BOOLEAN, until : Nat]
    BY DEF NoTraffic, Never
  <2>3. traffic' \in [Owners -> [on : BOOLEAN, until : Nat]] /\ traffic'[Service] = NoTraffic
    BY <1>2, <1>3, <1>5, <2>2 DEF UnregisterUuid
  <2> QED BY <1>2, <1>3, <1>5, <2>1, <2>3 DEF UnregisterUuid, Panel
<1>6. ASSUME PurgeOrphans PROVE Panel'
  <2>1. Whole(json')
    BY <1>2, <1>6, WithoutKeeps DEF PurgeOrphans
  <2> QED BY <1>2, <1>3, <1>6, <2>1 DEF PurgeOrphans, Panel
<1>7. ASSUME SetupRelayClient PROVE Panel'
  <2>1. Whole(<<>>)
    BY DEF Whole
  <2> QED BY <1>2, <1>3, <1>7, <2>1 DEF SetupRelayClient, Panel
<1> QED BY <1>1, <1>4, <1>5, <1>6, <1>7, PanelMoves

\* sync_clients_table mirrors the list.
LEMMA SyncKeeps == ASSUME ClientsInv, Sync PROVE ClientsInv'
<1>1. PICK new : new = Mirror(json, table, traffic)
  OBVIOUS
<1>2. table' = new.table /\ traffic' = new.traffic /\ json' = json /\ UNCHANGED <<now, row, job, cut>>
  BY <1>1 DEF Sync
<1>3. Panel'
  BY <1>1, <1>2, MirrorKeepsService DEF ClientsInv, Panel
<1> QED BY <1>2, <1>3, PanelMoves

\* Everything else that leaves rows, lists and jobs as they are.
LEMMA RestKeeps ==
  ASSUME ClientsInv,
         \/ Tick \/ Deactivate \/ RestartXui \/ RestartLost \/ Reloaded
         \/ UNCHANGED clientsVars
  PROVE  ClientsInv'
<1>1. CASE Tick
  BY <1>1 DEF Tick, ClientsInv, Rows, Panel, Jobs, GrantsEnd
<1>2. CASE Deactivate \/ RestartXui \/ RestartLost \/ Reloaded \/ UNCHANGED clientsVars
  BY <1>2, PanelMoves DEF Deactivate, RestartXui, RestartLost, Reloaded,
                          clientsVars, panel, ClientsInv, Panel
<1> QED BY <1>1, <1>2

\* Every step keeps the invariant.
LEMMA ClientsStep ==
  ASSUME ClientsInv, [ClientsNext]_clientsVars
  PROVE  ClientsInv'
<1>1. ASSUME NEW w \in Writers,
             Killed(w) \/ FetchList(w) \/ PostAdded(w) \/ PostFails(w)
      PROVE  ClientsInv'
  BY <1>1, KilledKeeps, FetchKeeps, PostAddKeeps, PostFailsKeeps
<1>2. ASSUME NEW u \in Subscribers, Purchase(u) \/ Lapse(u) \/ Purge(u) \/ Grant(u)
      PROVE  ClientsInv'
  BY <1>2, PurchaseKeeps, LapseKeeps, PurgeKeeps, GrantKeeps
<1>3. ASSUME NEW u \in Subscribers, GrantNext(u) PROVE ClientsInv'
  BY <1>3, GrantNextKeeps
<1>4. CASE PostRest \/ PostWipe \/ PostTidy
  BY <1>4, PostDeleteKeeps, PostWipeKeeps, PostTidyKeeps
<1>5. CASE GrantAllExpired \/ GrantApply \/ GrantUpdate \/ GrantFails
  BY <1>5, GrantAllExpiredKeeps, GrantApplyKeeps, GrantUpdateKeeps, GrantFailsKeeps
<1>6. CASE Reprovision \/ RebuildInbound \/ RebuildLoad \/ Cleanup
  BY <1>6, ReprovisionKeeps, RebuildKeeps, RebuildLoadKeeps, CleanupKeeps
<1>7. CASE RegisterUuid \/ UnregisterUuid \/ PurgeOrphans \/ SetupRelayClient
  BY <1>7, DatabaseKeeps
<1>8. CASE Sync
  BY <1>8, SyncKeeps
<1>9. CASE Tick \/ Deactivate \/ RestartXui \/ RestartLost \/ Reloaded
           \/ UNCHANGED clientsVars
  BY <1>9, RestKeeps
<1> QED BY <1>1, <1>2, <1>3, <1>4, <1>5, <1>6, <1>7, <1>8, <1>9 DEF ClientsNext

\* The panels start with lists that are whole.
LEMMA ClientsStart == ASSUME ClientsInit PROVE ClientsInv
<1>1. Rows /\ Jobs
  <2>1. Rows
    <3>1. /\ [state |-> "active", until |-> 2, gone |-> FALSE] \in RowType
          /\ [state |-> "ended", until |-> 1, gone |-> TRUE] \in RowType
      BY DEF RowType
    <3>2. {[state |-> "active", until |-> 2, gone |-> FALSE],
           [state |-> "ended", until |-> 1, gone |-> TRUE]} \subseteq RowType
      BY <3>1
    <3>3. row \in [Subscribers -> RowType] /\ now = 1
      BY <3>2 DEF ClientsInit
    <3> QED BY <3>3 DEF Rows
  <2> QED BY <2>1, IdleIsFine DEF ClientsInit, Jobs
<1>2. Whole(json)
  BY ListsAssumption DEF ClientsInit, Whole, IsService
<1>3. PICK tab, tra : tab = [o \in Owners |-> "none"] /\ tra = [o \in Owners |-> NoTraffic]
  OBVIOUS
<1>4. PICK new : new = Mirror(json, tab, tra)
  OBVIOUS
<1>5. table = new.table /\ traffic = new.traffic
  BY <1>3, <1>4 DEF ClientsInit
<1>6. tab \in [Owners -> {"none", "derived", "old"}] /\ tab[Service] # "old"
      /\ tra \in [Owners -> [on : BOOLEAN, until : Nat]] /\ tra[Service] = NoTraffic
  BY <1>3 DEF Owners, NoTraffic, Never
<1>7. Panel
  BY <1>2, <1>4, <1>5, <1>6, MirrorKeepsService DEF Panel
<1>8. GrantsEnd
  BY DEF ClientsInit, GrantsEnd, Never
<1> QED BY <1>1, <1>7, <1>8 DEF ClientsInv

(***************************************************************************)
(* No operator's grant leaves a subscription without an end, for any users,*)
(* lists and times: the operator still holds the end it is about to write, *)
(* unless the grant was cut between its apply and its UPDATE.              *)
(***************************************************************************)
THEOREM NoGrantIsEndless == ClientsSpec => []GrantsEnd
<1>1. ClientsInit => ClientsInv
  BY ClientsStart
<1>2. ClientsInv /\ [ClientsNext]_clientsVars => ClientsInv'
  BY ClientsStep
<1>3. ClientsInv => GrantsEnd
  BY DEF ClientsInv
<1> QED BY <1>1, <1>2, <1>3, PTL DEF ClientsSpec

\* What one step may do to the relay's client.
ServiceStep ==
  UnregisterUuid \/ SetupRelayClient \/
    (table[Service] # "none" =>
       table'[Service] # "none" /\ (Derived(Service) \in live => Derived(Service) \in live'))

\* xray is configured with the relay's client whenever the tables have it.
LEMMA ServiceIsConfigured ==
  ASSUME ClientsInv, table[Service] # "none"
  PROVE  Derived(Service) \in Configured(table, traffic, now)
<1>1. Service \in Owners
  BY DEF Owners
<1>2. table[Service] = "derived" /\ traffic[Service] = [on |-> TRUE, until |-> 0]
  BY <1>1 DEF ClientsInv, Panel, NoTraffic, Never
<1>3. traffic[Service].on /\ Runs(traffic[Service].until, now)
  BY <1>2 DEF Runs, Never
<1>4. Service \in {p \in Owners : table[p] # "none" /\ traffic[p].on /\ Runs(traffic[p].until, now)}
  BY <1>1, <1>3
<1>5. Derived(Service) = Uuid(Service, table[Service])
  BY <1>2 DEF Derived
<1> QED BY <1>4, <1>5 DEF Configured

\* What a step may do to the relay's own client.
LEMMA ServiceSteps ==
  ASSUME ClientsInv, [ClientsNext]_clientsVars PROVE ServiceStep
<1> SUFFICES ASSUME ~UnregisterUuid, ~SetupRelayClient, table[Service] # "none"
             PROVE  table'[Service] # "none"
                    /\ (Derived(Service) \in live => Derived(Service) \in live')
  BY DEF ServiceStep
<1>1. Service \in Owners /\ Service \notin Subscribers
  BY TimesAssumption DEF Owners
<1>2. CASE UNCHANGED <<table, live>>
  BY <1>2
<1>3. CASE table' = table /\ live' = Configured(table, traffic, now)
  BY <1>3, ServiceIsConfigured
<1>4. CASE Tick
  <2>1. traffic[Service].until = 0
    BY DEF ClientsInv, Panel, NoTraffic, Never
  <2>2. PICK s : s = Derived(Service)
    OBVIOUS
  <2>3. s[1] = Service
    BY <2>2 DEF Derived, Uuid
  <2>4. s \in live => s \in live'
    BY <1>4, <2>1, <2>3 DEF Tick, Runs, Never
  <2> QED BY <1>4, <2>2, <2>4 DEF Tick
<1>5. CASE RegisterUuid
  BY <1>1, <1>5 DEF RegisterUuid, DbCommand, ClientsInv, Panel
<1>6. CASE PurgeOrphans
  BY <1>1, <1>6 DEF PurgeOrphans, DbCommand
<1>7. CASE Sync
  <2>1. PICK new : new = Mirror(json, table, traffic)
    OBVIOUS
  <2>2. new.table[Service] # "none"
    BY <2>1, MirrorKeepsService DEF ClientsInv, Panel
  <2> QED BY <1>7, <2>1, <2>2 DEF Sync
<1>8. CASE PostTidy \/ RestartXui \/ Reloaded
  BY <1>3, <1>8 DEF PostTidy, RestartXui, Reloaded
<1>9. ASSUME NEW w \in Writers,
             Killed(w) \/ FetchList(w) \/ PostAdded(w) \/ PostFails(w)
      PROVE  UNCHANGED <<table, live>>
  BY <1>9 DEF Killed, FetchList, PostAdded, PostFails, panel
<1>10. ASSUME NEW u \in Subscribers, Purchase(u) \/ Lapse(u) \/ Purge(u) \/ Grant(u)
                                \/ GrantNext(u)
       PROVE  UNCHANGED <<table, live>>
  BY <1>10 DEF Purchase, Lapse, Purge, Grant, GrantNext, GrantTo,
               panel
<1>11. CASE \/ PostRest \/ PostWipe
            \/ GrantAllExpired \/ GrantApply \/ GrantUpdate \/ GrantFails
            \/ Reprovision \/ RebuildInbound \/ RebuildLoad \/ Cleanup
            \/ Deactivate \/ RestartLost \/ UNCHANGED clientsVars
  BY <1>2, <1>11 DEF PostRest, PostWipe, GrantAllExpired, GrantApply, GrantUpdate,
               GrantFails, Reprovision, RebuildInbound, RebuildLoad, Cleanup,
               Deactivate, RestartLost, clientsVars, panel
<1> QED BY <1>2, <1>4, <1>5, <1>6, <1>7, <1>8, <1>9, <1>10, <1>11 DEF ClientsNext

(***************************************************************************)
(* The relay's client stays where xray accepts it, whatever list is posted *)
(* and mirrored and however old a copy it was made from: an action property*)
(* that rests on the relay's row in client_traffics, which no list that is *)
(* whole can shut out, and on the tables, which keep who left the list.    *)
(***************************************************************************)
THEOREM TheRelayKeepsItsWayIn == ClientsSpec => ServiceStays
<1>1. ClientsInit => ClientsInv
  BY ClientsStart
<1>2. ClientsInv /\ [ClientsNext]_clientsVars => ClientsInv'
  BY ClientsStep
<1>3. ClientsInv /\ [ClientsNext]_clientsVars => [ServiceStep]_clientsVars
  BY ServiceSteps
<1>4. ClientsSpec => [][ServiceStep]_clientsVars
  BY <1>1, <1>2, <1>3, PTL DEF ClientsSpec
<1> QED BY <1>4 DEF ServiceStep, ServiceStays

-----------------------------------------------------------------------------
(* The routing of the panels                                               *)
RuleType == [match : Matches, tag : Tags]
OutType  == [tag : Tags, protocol : Protocols, to : Places]

\* The first and the last of some places of a list.
LEMMA FirstOfPlaces ==
  ASSUME NEW n \in Nat, NEW T, T \subseteq 1 .. n, T # {}
  PROVE  Min(T) \in T /\ \A i \in T : Min(T) <= i
<1>1. \E m \in T : \A i \in T : m <= i
  BY FirstPlace
<1> QED BY <1>1 DEF Min

\* The last of some places of a list.
LEMMA LastOfPlaces ==
  ASSUME NEW n \in Nat, NEW T, T \subseteq 1 .. n, T # {}
  PROVE  Max(T) \in T /\ \A i \in T : i <= Max(T)
<1>1. \E m \in T : \A i \in T : i <= m
  BY LastPlace
<1>2. \A i \in T : i \in Nat
  OBVIOUS
<1>3. \E m \in T : \A i \in T : m >= i
  BY <1>1, <1>2
<1>4. Max(T) \in T /\ \A i \in T : Max(T) >= i
  BY <1>3 DEF Max
<1> QED BY <1>2, <1>4

\* What is inserted stands behind the given place, what was behind it moves back.
LEMMA Inserted ==
  ASSUME NEW X, NEW rules \in Seq(X), NEW at \in 0 .. Len(rules), NEW new \in Seq(X), NEW s,
         s = InsertAfter(rules, at, new)
  PROVE  /\ s \in Seq(X) /\ Len(s) = Len(rules) + Len(new)
         /\ \A k \in 1 .. Len(s) :
              s[k] = IF k <= at THEN rules[k]
                     ELSE IF k <= at + Len(new) THEN new[k - at] ELSE rules[k - Len(new)]
<1>1. Len(rules) \in Nat /\ Len(new) \in Nat /\ at \in Nat /\ at <= Len(rules)
  BY LenProperties
<1>2. PICK front : front = SubSeq(rules, 1, at)
  OBVIOUS
<1>3. PICK back : back = SubSeq(rules, at + 1, Len(rules))
  OBVIOUS
<1>4. front \in Seq(X) /\ Len(front) = at /\ \A k \in 1 .. at : front[k] = rules[k]
  BY <1>1, <1>2, SubSeqProperties
<1>5. back \in Seq(X) /\ Len(back) = Len(rules) - at /\ \A k \in 1 .. Len(rules) - at : back[k] = rules[at + k]
  BY <1>1, <1>3, SubSeqProperties
<1>6. s = (front \o new) \o back
  BY <1>2, <1>3 DEF InsertAfter
<1>7. PICK half : half = front \o new
  OBVIOUS
<1>8. half \in Seq(X) /\ Len(half) = at + Len(new)
      /\ \A k \in 1 .. at + Len(new) : half[k] = IF k <= at THEN front[k] ELSE new[k - at]
  <2>1. front \in Seq(X) /\ new \in Seq(X)
    BY <1>4
  <2>2. /\ half \in Seq(X) /\ Len(half) = Len(front) + Len(new)
        /\ \A k \in 1 .. Len(front) + Len(new) : half[k] = IF k <= Len(front) THEN front[k] ELSE new[k - Len(front)]
    BY <1>7, <2>1, ConcatProperties
  <2> QED BY <1>4, <2>2
<1>9. s \in Seq(X) /\ Len(s) = Len(half) + Len(back)
      /\ \A k \in 1 .. Len(s) : s[k] = IF k <= Len(half) THEN half[k] ELSE back[k - Len(half)]
  <2>1. half \in Seq(X) /\ back \in Seq(X) /\ s = half \o back
    BY <1>5, <1>6, <1>7, <1>8
  <2>2. /\ s \in Seq(X) /\ Len(s) = Len(half) + Len(back)
        /\ \A k \in 1 .. Len(half) + Len(back) : s[k] = IF k <= Len(half) THEN half[k] ELSE back[k - Len(half)]
    BY <2>1, ConcatProperties
  <2> QED BY <2>2
<1>10. Len(s) = Len(rules) + Len(new)
  BY <1>1, <1>5, <1>8, <1>9
<1>11. ASSUME NEW k \in 1 .. Len(s)
       PROVE  s[k] = IF k <= at THEN rules[k]
                     ELSE IF k <= at + Len(new) THEN new[k - at] ELSE rules[k - Len(new)]
  <2>1. CASE k <= at
    BY <1>1, <1>4, <1>8, <1>9, <2>1
  <2>2. CASE at < k /\ k <= at + Len(new)
    BY <1>1, <1>8, <1>9, <2>2
  <2>3. CASE at + Len(new) < k
    <3>1. k - (at + Len(new)) \in 1 .. Len(rules) - at /\ at + (k - (at + Len(new))) = k - Len(new)
      BY <1>1, <1>10, <2>3
    <3>2. s[k] = back[k - (at + Len(new))]
      <4>1. Len(half) \in Nat /\ Len(half) = at + Len(new) /\ ~ (k <= Len(half))
        BY <1>1, <1>8, <2>3
      <4> QED BY <1>9, <4>1
    <3>3. ~ (k <= at) /\ ~ (k <= at + Len(new))
      BY <1>1, <2>3
    <3> QED BY <1>5, <3>1, <3>2, <3>3
  <2> QED BY <1>1, <2>1, <2>2, <2>3
<1> QED BY <1>9, <1>10, <1>11

\* What is kept of a list: the entries at the places kept, in their order.
LEMMA Kept ==
  ASSUME NEW X, NEW list \in Seq(X), NEW S, S \subseteq DOMAIN list, NEW s, s = Selected(list, S)
  PROVE  /\ s \in Seq(X)
         /\ \A k \in DOMAIN s : \E i \in S : UpTo(S, i) = k /\ s[k] = list[i]
         /\ \A i \in S : UpTo(S, i) \in DOMAIN s /\ s[UpTo(S, i)] = list[i]
         /\ \A i, j \in S : UpTo(S, i) <= UpTo(S, j) => i <= j
<1>n. PICK n : n \in Nat /\ DOMAIN list = 1 .. n
  BY LenProperties
<1>1. n \in Nat /\ S \subseteq 1 .. n
  BY <1>n
<1>2. Filtered(s, list, S)
  BY <1>n, <1>1, SelectedIsFiltered
<1>3. s \in Seq(X) /\ DOMAIN s = 1 .. Cardinality(S)
      /\ \A i \in S : UpTo(S, i) \in DOMAIN s /\ s[UpTo(S, i)] = list[i]
  <2>0. list \in Seq(X) /\ S \subseteq DOMAIN list /\ Filtered(s, list, S)
    BY <1>2
  <2>1. s \in Seq(X)
    BY <2>0, FilteredEntries
  <2>2. DOMAIN s = 1 .. Cardinality(S)
    BY <2>0, FilteredEntries
  <2>3. \A i \in S : UpTo(S, i) \in DOMAIN s /\ s[UpTo(S, i)] = list[i]
    BY <2>0, FilteredEntries
  <2> QED BY <2>1, <2>2, <2>3
<1>4. ASSUME NEW i \in S, NEW j \in S, UpTo(S, i) <= UpTo(S, j) PROVE i <= j
  <2>1. UpTo(S, i) \in Nat /\ UpTo(S, j) \in Nat
    BY <1>3, LenProperties
  <2>2. CASE j < i
    <3>1. UpTo(S, j) < UpTo(S, i)
      BY <1>1, <2>2, UpToTellsApart
    <3> QED BY <1>4, <2>1, <3>1
  <2>3. i \in Nat /\ j \in Nat
    BY <1>1
  <2> QED BY <2>2, <2>3
<1>5. ASSUME NEW k \in DOMAIN s PROVE \E i \in S : UpTo(S, i) = k /\ s[k] = list[i]
  BY <1>2, <1>3, <1>5 DEF Filtered
<1> QED BY <1>3, <1>4, <1>5

\* s has the rules at the places of S and new ones: nothing else is there, nothing is
\* lost, and what stands before a rule that was kept is new or stood before it.
Put(s, rules, S, new) ==
  /\ s \in Seq(RuleType)
  /\ \A k \in DOMAIN s : (\E i \in S : s[k] = rules[i]) \/ (\E i \in DOMAIN new : s[k] = new[i])
  /\ \A i \in DOMAIN new : \E k \in DOMAIN s : s[k] = new[i]
  /\ \A i \in S : \E k \in DOMAIN s :
       /\ s[k] = rules[i]
       /\ \A l \in DOMAIN s : l <= k => (\E j \in S : j <= i /\ s[l] = rules[j]) \/ (\E j \in DOMAIN new : s[l] = new[j])

\* The commands put new rules among those they keep.
LEMMA Merged ==
  ASSUME NEW rules \in Seq(RuleType), NEW S, S \subseteq DOMAIN rules, NEW others, others = Selected(rules, S),
         NEW at \in 0 .. Len(others), NEW new \in Seq(RuleType), NEW s, s = InsertAfter(others, at, new)
  PROVE  Put(s, rules, S, new)
<1>1. /\ others \in Seq(RuleType)
      /\ \A k \in DOMAIN others : \E i \in S : UpTo(S, i) = k /\ others[k] = rules[i]
      /\ \A i \in S : UpTo(S, i) \in DOMAIN others /\ others[UpTo(S, i)] = rules[i]
      /\ \A i, j \in S : UpTo(S, i) <= UpTo(S, j) => i <= j
  BY Kept
<1>2. PICK m : m = Len(others) /\ m \in Nat /\ DOMAIN others = 1 .. m
  BY <1>1, LenProperties
<1>3. PICK w : w = Len(new) /\ w \in Nat /\ DOMAIN new = 1 .. w
  BY LenProperties
<1>4. at \in Nat /\ at <= m
  BY <1>2
<1>5. /\ s \in Seq(RuleType) /\ Len(s) = m + w
      /\ \A k \in 1 .. Len(s) : s[k] = IF k <= at THEN others[k] ELSE IF k <= at + w THEN new[k - at] ELSE others[k - w]
  BY <1>1, <1>2, <1>3, Inserted
<1>6. DOMAIN s = 1 .. m + w
  BY <1>5, LenProperties
<1>7. ASSUME NEW k \in DOMAIN s
      PROVE  \/ \E i \in S : /\ s[k] = rules[i]
                              /\ UpTo(S, i) = IF k <= at THEN k ELSE k - w
             \/ k > at /\ k <= at + w /\ \E i \in DOMAIN new : s[k] = new[i]
  <2>k. k \in Nat /\ k >= 1 /\ k <= m + w /\ k \in 1 .. Len(s)
    BY <1>2, <1>3, <1>5, <1>6
  <2>1. CASE k <= at
    <3>1. k \in DOMAIN others /\ s[k] = others[k]
      BY <1>2, <1>4, <1>5, <2>k, <2>1
    <3> QED BY <1>1, <2>1, <3>1
  <2>2. CASE k > at /\ k <= at + w
    <3>1. k - at \in DOMAIN new /\ s[k] = new[k - at]
      BY <1>2, <1>3, <1>4, <1>5, <2>k, <2>2
    <3> QED BY <2>2, <3>1
  <2>3. CASE k > at + w
    <3>1. k - w \in 1 .. m /\ ~ (k <= at) /\ ~ (k <= at + w)
      BY <1>2, <1>3, <1>4, <2>k, <2>3
    <3>2. s[k] = others[k - w] /\ k - w \in DOMAIN others
      BY <1>2, <1>5, <2>k, <3>1
    <3> QED BY <1>1, <3>1, <3>2
  <2> QED BY <1>3, <1>4, <2>k, <2>1, <2>2, <2>3
<1>8. ASSUME NEW i \in DOMAIN new PROVE \E k \in DOMAIN s : s[k] = new[i]
  <2>1. at + i \in 1 .. m + w /\ ~ (at + i <= at) /\ at + i <= at + w /\ (at + i) - at = i
    BY <1>2, <1>3, <1>4
  <2>2. s[at + i] = new[i]
    BY <1>5, <2>1
  <2> QED BY <1>6, <2>1, <2>2
<1>9. ASSUME NEW i \in S
      PROVE  \E k \in DOMAIN s :
               /\ s[k] = rules[i]
               /\ \A l \in DOMAIN s : l <= k => (\E j \in S : j <= i /\ s[l] = rules[j]) \/ (\E j \in DOMAIN new : s[l] = new[j])
  <2>1. PICK u : u = UpTo(S, i)
    OBVIOUS
  <2>2. u \in Nat /\ u >= 1 /\ u <= m /\ others[u] = rules[i]
    BY <1>1, <1>2, <2>1
  <2>3. PICK k : k = IF u <= at THEN u ELSE u + w
    OBVIOUS
  <2>4. k \in 1 .. m + w /\ k \in Nat
    BY <1>2, <1>3, <2>2, <2>3
  <2>5. s[k] = others[u]
    <3>1. CASE u <= at
      BY <1>5, <2>3, <2>4, <3>1
    <3>2. CASE ~ (u <= at)
      <4>1. ~ (k <= at) /\ ~ (k <= at + w) /\ k - w = u
        BY <1>3, <1>4, <2>2, <2>3, <3>2
      <4> QED BY <1>5, <2>4, <4>1
    <3> QED BY <3>1, <3>2
  <2>6. ASSUME NEW l \in DOMAIN s, l <= k
        PROVE  (\E j \in S : j <= i /\ s[l] = rules[j]) \/ (\E j \in DOMAIN new : s[l] = new[j])
    <3>1. CASE \E j \in S : s[l] = rules[j] /\ UpTo(S, j) = IF l <= at THEN l ELSE l - w
      <4>1. PICK j \in S : s[l] = rules[j] /\ UpTo(S, j) = IF l <= at THEN l ELSE l - w
        BY <3>1
      <4>2. l \in Nat /\ UpTo(S, j) \in Nat
        BY <1>1, <1>2, <1>3, <1>6
      <4>3. UpTo(S, j) <= u
        BY <1>3, <1>4, <2>2, <2>3, <2>6, <4>1, <4>2
      <4>4. j <= i
        BY <1>1, <2>1, <4>3
      <4> QED BY <4>1, <4>4
    <3>2. CASE \E j \in DOMAIN new : s[l] = new[j]
      BY <3>2
    <3> QED BY <1>7, <3>1, <3>2
  <2> QED BY <1>6, <2>2, <2>4, <2>5, <2>6
<1>10. ASSUME NEW k \in DOMAIN s
       PROVE  (\E i \in S : s[k] = rules[i]) \/ (\E i \in DOMAIN new : s[k] = new[i])
  BY <1>7
<1> QED BY <1>5, <1>8, <1>9, <1>10 DEF Put

-----------------------------------------------------------------------------
(* What the commands do to the templates *)

\* A rule made of a match kind and a tag, and the list of it alone.
LEMMA TypedRule ==
  ASSUME NEW match \in Matches, NEW tag \in Tags, NEW rule, rule = Rule(match, tag)
  PROVE  /\ rule.match = match /\ rule.tag = tag /\ rule \in RuleType
         /\ \E new : new = <<rule>> /\ new \in Seq(RuleType) /\ DOMAIN new = {1} /\ new[1] = rule /\ Len(new) = 1
<1>1. rule.match = match /\ rule.tag = tag /\ rule \in RuleType
  BY DEF Rule, RuleType
<1>2. PICK new : new = <<rule>>
  OBVIOUS
<1>3. new \in Seq(RuleType) /\ DOMAIN new = {1} /\ new[1] = rule /\ Len(new) = 1
  BY <1>1, <1>2
<1> QED BY <1>1, <1>2, <1>3

\* The fields of a template, and the places of its two lists.
LEMMA TemplateShape ==
  ASSUME NEW t, Sound(t)
  PROVE  /\ t.rules \in Seq(RuleType) /\ t.outs \in Seq(OutType)
         /\ t = [rules |-> t.rules, outs |-> t.outs, resolve |-> t.resolve, diagLog |-> t.diagLog]
         /\ t.resolve \in BOOLEAN /\ t.diagLog \in BOOLEAN
         /\ \A i \in DOMAIN t.rules : t.rules[i] \in RuleType
         /\ \A i \in DOMAIN t.outs : t.outs[i] \in OutType
<1>1. t.rules \in Seq(RuleType) /\ t.outs \in Seq(OutType) /\ t.resolve \in BOOLEAN /\ t.diagLog \in BOOLEAN
      /\ t = [rules |-> t.rules, outs |-> t.outs, resolve |-> t.resolve, diagLog |-> t.diagLog]
  BY DEF Sound, Template, RuleType, OutType
<1>2. \A i \in DOMAIN t.rules : t.rules[i] \in RuleType
  BY <1>1, ElementOfSeq, LenProperties
<1>3. \A i \in DOMAIN t.outs : t.outs[i] \in OutType
  BY <1>1, ElementOfSeq, LenProperties
<1> QED BY <1>1, <1>2, <1>3

\* A template whose rules alone were edited is as sound as it was.
LEMMA SoundAgain ==
  ASSUME NEW t, Sound(t), NEW rules \in Seq(RuleType), NEW u, u = [t EXCEPT !.rules = rules]
  PROVE  Sound(u) /\ u.rules = rules /\ u.outs = t.outs
         /\ \A tag, where : Goes(u, tag, where) <=> Goes(t, tag, where)
<1>1. t = [rules |-> t.rules, outs |-> t.outs, resolve |-> t.resolve, diagLog |-> t.diagLog]
  BY TemplateShape
<1>2. u = [rules |-> rules, outs |-> t.outs, resolve |-> t.resolve, diagLog |-> t.diagLog]
  BY <1>1
<1>3. u \in Template
  <2>1. t.outs \in Seq(OutType) /\ t.resolve \in BOOLEAN /\ t.diagLog \in BOOLEAN
    BY TemplateShape
  <2> QED BY <1>2, <2>1 DEF Template, RuleType, OutType
<1>4. u.rules = rules /\ u.outs = t.outs
  BY <1>2
<1> QED BY <1>3, <1>4 DEF Sound, Goes

\* The outbound a tag names is the one the code's search finds.
LEMMA Leads ==
  ASSUME NEW t, Sound(t), NEW i \in DOMAIN t.outs, NEW tag, tag = t.outs[i].tag
  PROVE  LeadsTo(t, tag) = t.outs[i].to
<1>n. PICK n : n \in Nat /\ DOMAIN t.outs = 1 .. n /\ Len(t.outs) = n
  BY TemplateShape, LenProperties
<1> DEFINE I == {k \in 1 .. Len(t.outs) : t.outs[k].tag = tag}
<1>1. LeadsTo(t, tag) = t.outs[IF I # {} THEN Min(I) ELSE 0].to
  BY Zenon DEF LeadsTo, SelectInSeq
<1>2. I \subseteq 1 .. n /\ i \in I
  BY <1>n
<1>3. Min(I) \in I
  BY <1>n, <1>2, FirstOfPlaces
<1>4. Min(I) = i
  BY <1>n, <1>3 DEF Sound
<1> QED BY <1>1, <1>2, <1>4

\* What a tag goes to is where the code's search leads.
LEMMA GoesLeads ==
  ASSUME NEW t, Sound(t), NEW tag, NEW where, Goes(t, tag, where)
  PROVE  LeadsTo(t, tag) \in where /\ tag # "api" /\ tag \in Tags
<1>1. PICK i \in DOMAIN t.outs : t.outs[i].tag = tag /\ t.outs[i].to \in where
  BY DEF Goes
<1>2. t.outs[i] \in OutType
  BY TemplateShape
<1> QED BY <1>1, <1>2, Leads DEF Sound, OutType

PanelRule(t, r) ==
  \/ r.match = "api" /\ r.tag = "api"
  \/ r.match = "private"
  \/ r.match \in {"ruDomain", "ruIp", "vk", "max"} /\ Goes(t, r.tag, Relays)
  \/ r.match = "tiktok" /\ Goes(t, r.tag, {"internet"})

\* A panel has an own rule for a family, and TikTok's stands before every rule about
\* Russian names as long as one outbound leads to a relay.
Has(t, family) == \E i \in DOMAIN t.rules : t.rules[i].match = family
OneRelay(t) ==
  \A i, k \in DOMAIN t.outs : t.outs[i].to \in Relays /\ t.outs[k].to \in Relays => i = k
TiktokFirst(t) ==
  \E i \in DOMAIN t.rules : /\ t.rules[i].match = "tiktok"
                            /\ \A k \in DOMAIN t.rules : t.rules[k].match = "ruDomain" => i < k
Pin(t, family) == Has(t, family) /\ (family = "tiktok" /\ OneRelay(t) => TiktokFirst(t))
Cleaned(t) == \A i \in DOMAIN t.rules : t.rules[i].tag # "relay-to-helsinki"

\* A search from behind answers with a place of the list, or with none.
LEMMA LocalPlace ==
  ASSUME NEW rules \in Seq(RuleType)
  PROVE  AfterLocal(rules) \in 0 .. Len(rules)
<1>n. PICK n : n \in Nat /\ Len(rules) = n
  BY LenProperties
<1> DEFINE I == {k \in 1 .. Len(rules) : IsLocal(rules[k])}
<1>1. AfterLocal(rules) = IF I # {} THEN Max(I) ELSE 0
  BY Zenon DEF AfterLocal, SelectLastInSeq
<1>2. I \subseteq 1 .. n
  BY <1>n
<1>3. ASSUME I # {} PROVE Max(I) \in 1 .. n
  BY <1>n, <1>2, <1>3, LastOfPlaces
<1> HIDE DEF I
<1> QED BY <1>n, <1>1, <1>3

\* Rules a panel may have make a panel's template again.
LEMMA PanelEdit ==
  ASSUME NEW t, PanelTemplate(t), NEW rules \in Seq(RuleType),
         \A k \in DOMAIN rules : PanelRule(t, rules[k]), NEW u, u = [t EXCEPT !.rules = rules]
  PROVE  PanelTemplate(u) /\ u.rules = rules /\ u.outs = t.outs
<1>1. Sound(t)
  BY DEF PanelTemplate
<1>2. Sound(u) /\ u.rules = rules /\ u.outs = t.outs
      /\ \A tag, where : Goes(u, tag, where) <=> Goes(t, tag, where)
  BY <1>1, SoundAgain
<1>3. u.outs # <<>> /\ u.outs[1].to \notin Relays
      /\ \A i \in DOMAIN u.outs :
           /\ u.outs[i].protocol = "freedom" \/ u.outs[i].tag = "direct" => u.outs[i].to = "internet"
           /\ u.outs[i].tag \in {"ru-relay", "relay-to-russia"} => u.outs[i].to \in Relays
  BY <1>2 DEF PanelTemplate
<1>4. ASSUME NEW k \in DOMAIN u.rules PROVE PanelRule(u, u.rules[k])
  <2>1. PanelRule(t, rules[k])
    BY <1>2
  <2> QED BY <1>2, <2>1 DEF PanelRule
<1> QED BY <1>2, <1>3, <1>4 DEF PanelTemplate, PanelRule

\* The rules of a panel are such rules.
LEMMA PanelHas ==
  ASSUME NEW t, PanelTemplate(t)
  PROVE  Sound(t) /\ \A k \in DOMAIN t.rules : PanelRule(t, t.rules[k])
BY DEF PanelTemplate, PanelRule

\* The relay's tag a command detects is that of an outbound to a relay, and a panel
\* with a rule about Russian names has one.
LEMMA RelayTag ==
  ASSUME NEW t, PanelTemplate(t), NEW tag, tag = DetectRelayTag(t)
  PROVE  /\ tag # None => Goes(t, tag, Relays)
         /\ Has(t, "ruDomain") => tag # None
<1>n. PICK n, m : n \in Nat /\ DOMAIN t.outs = 1 .. n /\ Len(t.outs) = n
                  /\ m \in Nat /\ DOMAIN t.rules = 1 .. m /\ Len(t.rules) = m
  BY TemplateShape, PanelHas, LenProperties
<1> DEFINE O == {k \in 1 .. Len(t.outs) : t.outs[k].protocol = "vless" /\ t.outs[k].to = Relay}
           R == {k \in 1 .. Len(t.rules) : t.rules[k].match = "ruDomain"}
           out  == IF O # {} THEN Min(O) ELSE 0
           rule == IF R # {} THEN Min(R) ELSE 0
<1>1. tag = IF out # 0 THEN t.outs[out].tag ELSE IF rule # 0 THEN t.rules[rule].tag ELSE None
  BY Zenon DEF DetectRelayTag, SelectInSeq
<1>2. O \subseteq 1 .. n /\ R \subseteq 1 .. m
  BY <1>n
<1>3. ASSUME out # 0 PROVE Goes(t, tag, Relays) /\ tag # None
  <2>1. out \in O
    BY <1>n, <1>2, <1>3, FirstOfPlaces
  <2>2. tag = t.outs[out].tag /\ t.outs[out].to \in Relays /\ out \in DOMAIN t.outs
    BY <1>n, <1>1, <1>3, <2>1 DEF Relays
  <2>3. t.outs[out].tag \in Tags
    BY <2>2, TemplateShape, PanelHas DEF OutType
  <2> QED BY <2>2, <2>3, TagsAssumption DEF Goes
<1>4. ASSUME out = 0, rule # 0 PROVE Goes(t, tag, Relays) /\ tag # None
  <2>1. rule \in R
    BY <1>n, <1>2, <1>4, FirstOfPlaces
  <2>2. tag = t.rules[rule].tag /\ t.rules[rule].match = "ruDomain" /\ rule \in DOMAIN t.rules
    BY <1>n, <1>1, <1>4, <2>1
  <2>3. Goes(t, tag, Relays)
    BY <2>2, PanelHas DEF PanelRule
  <2>4. t.rules[rule].tag \in Tags
    BY <2>2, TemplateShape, PanelHas DEF RuleType
  <2> QED BY <2>2, <2>3, <2>4, TagsAssumption
<1>5. ASSUME Has(t, "ruDomain") PROVE rule # 0
  <2>1. R # {}
    BY <1>n, <1>5 DEF Has
  <2>2. Min(R) \in 1 .. m
    BY <1>n, <1>2, <2>1, FirstOfPlaces
  <2> HIDE DEF R
  <2> QED BY <1>n, <2>1, <2>2
<1> HIDE DEF out, rule
<1> QED BY <1>1, <1>3, <1>4, <1>5

\* apply-vk and apply-max: the panel stays one, has the rule, and keeps every other one.
LEMMA FamilyMerge ==
  ASSUME NEW t, PanelTemplate(t), NEW family \in {"vk", "max"},
         NEW tag, tag = DetectRelayTag(t), tag # None,
         NEW u, u = MergeDomainFamily(t, family, tag)
  PROVE  PanelTemplate(u) /\ Pin(u, family) /\ \A f : Pin(t, f) => Pin(u, f)
<1>0. family \in Matches
  BY DEF Matches
<1> DEFINE rule   == Rule(family, tag)
           S      == {i \in DOMAIN t.rules : t.rules[i] # rule}
           others == Selected(t.rules, S)
           I      == {k \in 1 .. Len(others) : others[k].tag = tag \/ IsLocal(others[k])}
           at     == IF I # {} THEN Max(I) ELSE 0
           rules  == InsertAfter(others, at, <<rule>>)
<1>1. u = [t EXCEPT !.rules = rules]
  BY Zenon DEF MergeDomainFamily, WithoutRule, SelectLastInSeq
<1>2. Goes(t, tag, Relays) /\ tag \in Tags /\ Sound(t)
  BY RelayTag, GoesLeads, PanelHas
<1>3. t.rules \in Seq(RuleType) /\ S \subseteq DOMAIN t.rules
  BY <1>2, TemplateShape
<1>4. others \in Seq(RuleType)
  BY <1>3, Kept
<1>5. at \in 0 .. Len(others)
  <2>n. PICK n : n \in Nat /\ Len(others) = n
    BY <1>4, LenProperties
  <2>1. I \subseteq 1 .. n
    BY <2>n
  <2>2. ASSUME I # {} PROVE Max(I) \in 1 .. n
    BY <2>n, <2>1, <2>2, LastOfPlaces
  <2> HIDE DEF I
  <2> QED BY <2>n, <2>2
<1>6. rule.match = family /\ rule.tag = tag /\ rule \in RuleType
      /\ \E new : new = <<rule>> /\ new \in Seq(RuleType) /\ DOMAIN new = {1} /\ new[1] = rule /\ Len(new) = 1
  BY <1>0, <1>2, TypedRule
<1>s. \A i \in DOMAIN t.rules : i \in S <=> t.rules[i] # rule
  OBVIOUS
<1> HIDE DEF rule, S, others, at, rules
<1>7. PICK new : new = <<rule>> /\ new \in Seq(RuleType) /\ DOMAIN new = {1} /\ new[1] = rule
  BY <1>6
<1>8. rules = InsertAfter(others, at, new)
  BY <1>7 DEF rules
<1>9. others = Selected(t.rules, S)
  BY DEF others
<1>p. Put(rules, t.rules, S, new)
  <2>1. t.rules \in Seq(RuleType) /\ S \subseteq DOMAIN t.rules /\ new \in Seq(RuleType) /\ at \in 0 .. Len(others)
    BY <1>3, <1>5, <1>7
  <2> QED BY <1>8, <1>9, <2>1, Merged
<1>10. /\ rules \in Seq(RuleType)
       /\ \A k \in DOMAIN rules : (\E i \in S : rules[k] = t.rules[i]) \/ (\E i \in DOMAIN new : rules[k] = new[i])
       /\ \A i \in DOMAIN new : \E k \in DOMAIN rules : rules[k] = new[i]
       /\ \A i \in S : \E k \in DOMAIN rules :
            /\ rules[k] = t.rules[i]
            /\ \A l \in DOMAIN rules : l <= k =>
                 (\E j \in S : j <= i /\ rules[l] = t.rules[j]) \/ (\E j \in DOMAIN new : rules[l] = new[j])
  BY <1>p DEF Put
<1>11. PanelRule(t, rule)
  BY <1>2, <1>6 DEF PanelRule
<1>12. \A k \in DOMAIN rules : PanelRule(t, rules[k])
  <2>1. \A i \in S : PanelRule(t, t.rules[i])
    BY <1>3, PanelHas
  <2> QED BY <1>7, <1>10, <1>11, <2>1
<1>13. PanelTemplate(u) /\ u.rules = rules /\ u.outs = t.outs
  BY <1>1, <1>10, <1>12, PanelEdit
<1>14. Has(u, family)
  BY <1>6, <1>7, <1>10, <1>13 DEF Has
<1>15. ASSUME NEW f, Pin(t, f) PROVE Pin(u, f)
  <2>1. Has(u, f)
    <3>1. PICK i \in DOMAIN t.rules : t.rules[i].match = f
      BY <1>15 DEF Pin, Has
    <3>2. CASE i \in S
      BY <1>10, <1>13, <3>1, <3>2 DEF Has
    <3>3. CASE i \notin S
      BY <1>6, <1>s, <1>14, <3>1, <3>3
    <3> QED BY <3>2, <3>3
  <2>2. ASSUME f = "tiktok", OneRelay(u) PROVE TiktokFirst(u)
    <3>1. OneRelay(t)
      BY <1>13, <2>2 DEF OneRelay
    <3>2. PICK i \in DOMAIN t.rules : t.rules[i].match = "tiktok"
                /\ \A k \in DOMAIN t.rules : t.rules[k].match = "ruDomain" => i < k
      BY <1>15, <2>2, <3>1 DEF Pin, TiktokFirst
    <3>3. i \in S
      BY <1>0, <1>6, <1>s, <3>2
    <3>4. PICK k \in DOMAIN rules :
            /\ rules[k] = t.rules[i]
            /\ \A l \in DOMAIN rules : l <= k =>
                 (\E j \in S : j <= i /\ rules[l] = t.rules[j]) \/ (\E j \in DOMAIN new : rules[l] = new[j])
      BY <1>10, <3>3
    <3>5. ASSUME NEW l \in DOMAIN rules, rules[l].match = "ruDomain" PROVE k < l
      <4>1. \A j \in DOMAIN new : new[j].match # "ruDomain"
        BY <1>6, <1>7
      <4>2. \A j \in S : j <= i => t.rules[j].match # "ruDomain"
        <5>1. \A j \in DOMAIN t.rules : j \in Nat
          BY <1>3, LenProperties
        <5> QED BY <1>3, <3>2, <5>1
      <4>3. ~ (l <= k)
        BY <3>4, <3>5, <4>1, <4>2
      <4>4. l \in Nat /\ k \in Nat
        BY <1>10, LenProperties
      <4> QED BY <4>3, <4>4
    <3> QED BY <1>13, <3>2, <3>4, <3>5 DEF TiktokFirst
  <2> QED BY <2>1, <2>2 DEF Pin
<1>16. Pin(u, family)
  BY <1>14 DEF Pin
<1> QED BY <1>13, <1>15, <1>16

\* The direct outbound a command detects leads to the internet.
LEMMA DirectTag ==
  ASSUME NEW t, PanelTemplate(t), NEW tag, tag = DetectDirectTag(t), tag \in TagsOf(t)
  PROVE  Goes(t, tag, {"internet"})
<1>n. PICK n : n \in Nat /\ DOMAIN t.outs = 1 .. n /\ Len(t.outs) = n
  BY TemplateShape, PanelHas, LenProperties
<1> DEFINE O   == {k \in 1 .. Len(t.outs) : t.outs[k].protocol = "freedom"}
           out == IF O # {} THEN Min(O) ELSE 0
<1>1. tag = IF out # 0 THEN t.outs[out].tag ELSE "direct"
  BY Zenon DEF DetectDirectTag, SelectInSeq
<1>2. O \subseteq 1 .. n
  BY <1>n
<1>3. CASE out # 0
  <2>1. out \in O
    BY <1>n, <1>2, <1>3, FirstOfPlaces
  <2> QED BY <1>n, <1>1, <1>3, <2>1 DEF PanelTemplate, Goes
<1>4. CASE out = 0
  BY <1>1, <1>4 DEF TagsOf, PanelTemplate, Goes
<1> HIDE DEF out
<1> QED BY <1>3, <1>4

\* apply-tiktok: before the rules of the one relay, and no other rule is lost.
LEMMA TiktokMerge ==
  ASSUME NEW t, PanelTemplate(t),
         NEW tag, tag = DetectDirectTag(t), tag \in TagsOf(t),
         NEW u, u = MergeTiktokDirect(t, tag)
  PROVE  PanelTemplate(u) /\ Pin(u, "tiktok") /\ \A f : Pin(t, f) => Pin(u, f)
<1> DEFINE rule   == Rule("tiktok", tag)
           S      == {i \in DOMAIN t.rules : t.rules[i] # rule}
           others == Selected(t.rules, S)
           relay  == DetectRelayTag(t)
           I      == {k \in 1 .. Len(others) : others[k].tag = relay}
           first  == IF I # {} THEN Min(I) ELSE 0
           at     == IF relay # None /\ first # 0 THEN first - 1 ELSE AfterLocal(others)
           rules  == InsertAfter(others, at, <<rule>>)
<1>1. u = [t EXCEPT !.rules = rules]
  BY Zenon DEF MergeTiktokDirect, WithoutRule, SelectInSeq
<1>2. Goes(t, tag, {"internet"}) /\ tag \in Tags /\ Sound(t)
  BY DirectTag, GoesLeads, PanelHas
<1>3. t.rules \in Seq(RuleType) /\ S \subseteq DOMAIN t.rules
  BY <1>2, TemplateShape
<1>4. others \in Seq(RuleType)
  BY <1>3, Kept
<1>n. PICK n : n \in Nat /\ Len(others) = n /\ DOMAIN others = 1 .. n
  BY <1>4, LenProperties
<1>i. I \subseteq 1 .. n /\ (I # {} => first \in I /\ \A k \in I : first <= k)
  <2>1. I \subseteq 1 .. n
    BY <1>n
  <2> QED BY <1>n, <2>1, FirstOfPlaces
<1>5. at \in 0 .. Len(others)
  <2>1. AfterLocal(others) \in 0 .. Len(others)
    BY <1>4, LocalPlace
  <2>2. first # 0 => first \in 1 .. n
    BY <1>i
  <2> HIDE DEF first, I
  <2> QED BY <1>n, <2>1, <2>2
<1>6. rule.match = "tiktok" /\ rule.tag = tag /\ rule \in RuleType
      /\ \E new : new = <<rule>> /\ new \in Seq(RuleType) /\ DOMAIN new = {1} /\ new[1] = rule /\ Len(new) = 1
  <2>1. "tiktok" \in Matches
    BY DEF Matches
  <2> QED BY <1>2, <2>1, TypedRule
<1>t. \A i \in DOMAIN t.rules : i \notin S => t.rules[i] = rule
  OBVIOUS
<1>7. PICK new : new = <<rule>> /\ new \in Seq(RuleType) /\ DOMAIN new = {1} /\ new[1] = rule /\ Len(new) = 1
  BY <1>6
<1>8. rules = InsertAfter(others, at, new)
  BY <1>7 DEF rules
<1> HIDE DEF rule, S, others, at, rules, relay
<1>9. others = Selected(t.rules, S)
  BY DEF others
<1>p. Put(rules, t.rules, S, new)
  <2>1. t.rules \in Seq(RuleType) /\ S \subseteq DOMAIN t.rules /\ new \in Seq(RuleType) /\ at \in 0 .. Len(others)
    BY <1>3, <1>5, <1>7
  <2> QED BY <1>8, <1>9, <2>1, Merged
<1>10. /\ rules \in Seq(RuleType)
       /\ \A k \in DOMAIN rules : (\E i \in S : rules[k] = t.rules[i]) \/ (\E i \in DOMAIN new : rules[k] = new[i])
       /\ \A i \in DOMAIN new : \E k \in DOMAIN rules : rules[k] = new[i]
       /\ \A i \in S : \E k \in DOMAIN rules :
            /\ rules[k] = t.rules[i]
            /\ \A l \in DOMAIN rules : l <= k =>
                 (\E j \in S : j <= i /\ rules[l] = t.rules[j]) \/ (\E j \in DOMAIN new : rules[l] = new[j])
  BY <1>p DEF Put
<1>11. PanelRule(t, rule)
  BY <1>2, <1>6 DEF PanelRule
<1>12. \A k \in DOMAIN rules : PanelRule(t, rules[k])
  <2>1. \A i \in S : PanelRule(t, t.rules[i])
    BY <1>3, PanelHas
  <2> QED BY <1>7, <1>10, <1>11, <2>1
<1>13. PanelTemplate(u) /\ u.rules = rules /\ u.outs = t.outs
  BY <1>1, <1>10, <1>12, PanelEdit
<1>14. ASSUME NEW f, Has(t, f) \/ f = "tiktok" PROVE Has(u, f)
  <2>1. Has(u, "tiktok")
    BY <1>6, <1>7, <1>10, <1>13 DEF Has
  <2>2. ASSUME NEW i \in DOMAIN t.rules, t.rules[i].match = f PROVE Has(u, f)
    <3>1. CASE i \in S
      BY <1>10, <1>13, <2>2, <3>1 DEF Has
    <3>2. CASE i \notin S
      BY <1>6, <1>t, <2>1, <2>2, <3>2
    <3> QED BY <3>1, <3>2
  <2> QED BY <1>14, <2>1, <2>2 DEF Has
<1>15. ASSUME OneRelay(u) PROVE TiktokFirst(u)
  <2>1. /\ rules \in Seq(RuleType) /\ Len(rules) = n + 1
        /\ \A k \in 1 .. Len(rules) :
             rules[k] = IF k <= at THEN others[k] ELSE IF k <= at + 1 THEN new[k - at] ELSE others[k - 1]
    <3>1. others \in Seq(RuleType) /\ at \in 0 .. Len(others) /\ new \in Seq(RuleType)
      BY <1>4, <1>5, <1>7
    <3>2. /\ rules \in Seq(RuleType) /\ Len(rules) = Len(others) + Len(new)
          /\ \A k \in 1 .. Len(rules) :
               rules[k] = IF k <= at THEN others[k] ELSE IF k <= at + Len(new) THEN new[k - at] ELSE others[k - Len(new)]
      BY <1>8, <3>1, Inserted
    <3> QED BY <1>7, <1>n, <3>2
  <2>2. at \in Nat /\ at <= n
    BY <1>5, <1>n
  <2>3. DOMAIN rules = 1 .. n + 1
    BY <2>1, LenProperties
  <2>4. at + 1 \in DOMAIN rules /\ rules[at + 1] = rule
    <3>1. at + 1 \in 1 .. n + 1 /\ ~ (at + 1 <= at) /\ at + 1 <= at + 1 /\ (at + 1) - at = 1
      BY <1>n, <2>2
    <3> QED BY <1>7, <2>1, <2>3, <3>1
  <2>5. ASSUME NEW l \in DOMAIN rules, rules[l].match = "ruDomain" PROVE at + 1 < l
    <3>l. l \in Nat /\ l >= 1 /\ l <= n + 1 /\ l \in 1 .. Len(rules)
      BY <1>n, <2>1, <2>3
    <3>0. l # at + 1
      BY <1>6, <2>4, <2>5
    <3>1. ASSUME l <= at PROVE FALSE
      <4>1. rules[l] = others[l] /\ l \in 1 .. n
        BY <1>n, <2>1, <2>2, <3>l, <3>1
      <4>2. PICK i \in S : others[l] = t.rules[i]
        BY <1>3, <1>9, <1>n, <4>1, Kept
      <4>3. t.rules[i].match = "ruDomain" /\ i \in DOMAIN t.rules
        BY <1>3, <2>5, <4>1, <4>2
      <4>4. Has(t, "ruDomain")
        BY <4>3 DEF Has
      <4>5. relay # None /\ Goes(t, relay, Relays)
        BY <4>4, RelayTag DEF relay
      <4>6. Goes(t, t.rules[i].tag, Relays)
        BY <4>3, PanelHas DEF PanelRule
      <4>7. t.rules[i].tag = relay
        <5>1. OneRelay(t)
          BY <1>13, <1>15 DEF OneRelay
        <5> QED BY <4>5, <4>6, <5>1 DEF OneRelay, Goes
      <4>8. l \in I
        BY <1>n, <4>1, <4>2, <4>7
      <4>9. first \in Nat /\ first # 0 /\ first <= l
        BY <1>i, <1>n, <4>8
      <4>10. at = first - 1
        BY <4>5, <4>9 DEF at
      <4> HIDE DEF first
      <4> QED BY <3>1, <3>l, <4>9, <4>10
    <3> QED BY <2>2, <3>0, <3>1, <3>l
  <2> QED BY <1>6, <1>13, <2>4, <2>5 DEF TiktokFirst
<1>16. Pin(u, "tiktok") /\ \A f : Pin(t, f) => Pin(u, f)
  BY <1>14, <1>15 DEF Pin
<1> QED BY <1>13, <1>16

\* An outbound to a relay and its rules, as apply brings them and export wrote them down.
RelayRoute(out, new) ==
  /\ out \in OutType /\ out.tag \in {"ru-relay", "relay-to-russia"}
  /\ out.to \in Relays /\ out.protocol # "freedom"
  /\ new \in Seq(RuleType)
  /\ \A i \in DOMAIN new : new[i].tag = out.tag /\ new[i].match \in {"private", "ruDomain", "ruIp", "vk", "max"}

\* The outbounds once one of them was dropped and appended anew: the others and that one.
Anew(outs, t, out) ==
  /\ outs \in Seq(OutType) /\ outs # <<>> /\ outs[1].to \notin Relays
  /\ \A i, k \in DOMAIN outs : outs[i].tag = outs[k].tag => i = k
  /\ \A i \in DOMAIN outs : (\E j \in DOMAIN t.outs : outs[i] = t.outs[j] /\ t.outs[j].tag # out.tag) \/ outs[i] = out
  /\ \A j \in DOMAIN t.outs : t.outs[j].tag # out.tag => \E i \in DOMAIN outs : outs[i] = t.outs[j]
  /\ \E i \in DOMAIN outs : outs[i] = out

\* ReplaceRoute makes them so.
LEMMA Outbounds ==
  ASSUME NEW t, PanelTemplate(t), NEW out, NEW new, RelayRoute(out, new),
         NEW outs, outs = Append(WithoutTag(t.outs, out.tag), out)
  PROVE  Anew(outs, t, out)
<1> DEFINE S == {i \in DOMAIN t.outs : t.outs[i].tag # out.tag}
<1>0. Sound(t) /\ t.outs \in Seq(OutType) /\ S \subseteq DOMAIN t.outs
  BY PanelHas, TemplateShape
<1>1. PICK others : others = Selected(t.outs, S)
  OBVIOUS
<1>2. outs = Append(others, out)
  BY Zenon, <1>1 DEF WithoutTag
<1>s. \A i \in DOMAIN t.outs : i \in S <=> t.outs[i].tag # out.tag
  OBVIOUS
<1> HIDE DEF S
<1>3. /\ others \in Seq(OutType)
      /\ \A k \in DOMAIN others : \E i \in S : UpTo(S, i) = k /\ others[k] = t.outs[i]
      /\ \A i \in S : UpTo(S, i) \in DOMAIN others /\ others[UpTo(S, i)] = t.outs[i]
      /\ \A i, j \in S : UpTo(S, i) <= UpTo(S, j) => i <= j
  BY <1>0, <1>1, Kept
<1>4. PICK n : n \in Nat /\ Len(others) = n /\ DOMAIN others = 1 .. n
  BY <1>3, LenProperties
<1>5. /\ outs \in Seq(OutType) /\ Len(outs) = n + 1
      /\ \A i \in 1 .. n : outs[i] = others[i]
      /\ outs[n + 1] = out
  <2>1. out \in OutType
    BY DEF RelayRoute
  <2> QED BY <1>2, <1>3, <1>4, <2>1, AppendProperties
<1>6. DOMAIN outs = 1 .. n + 1
  BY <1>5, LenProperties
<1>7. \A i \in DOMAIN outs : i \in 1 .. n \/ i = n + 1
  BY <1>4, <1>6
<1>8. ASSUME NEW i \in 1 .. n PROVE \E j \in S : UpTo(S, j) = i /\ outs[i] = t.outs[j] /\ outs[i].tag # out.tag
  BY <1>0, <1>3, <1>4, <1>5, <1>s
<1>9. ASSUME NEW i \in DOMAIN outs, NEW k \in DOMAIN outs, outs[i].tag = outs[k].tag PROVE i = k
  <2>1. CASE i = n + 1 \/ k = n + 1
    BY <1>5, <1>7, <1>8, <1>9, <2>1
  <2>2. CASE i \in 1 .. n /\ k \in 1 .. n
    <3>1. PICK j \in S : UpTo(S, j) = i /\ outs[i] = t.outs[j]
      BY <1>8, <2>2
    <3>2. PICK l \in S : UpTo(S, l) = k /\ outs[k] = t.outs[l]
      BY <1>8, <2>2
    <3>3. j = l
      BY <1>0, <1>9, <3>1, <3>2 DEF Sound
    <3> QED BY <3>1, <3>2, <3>3
  <2> QED BY <1>7, <2>1, <2>2
<1>10. ASSUME NEW i \in DOMAIN outs
       PROVE  (\E j \in DOMAIN t.outs : outs[i] = t.outs[j] /\ t.outs[j].tag # out.tag) \/ outs[i] = out
  BY <1>0, <1>5, <1>7, <1>8
<1>11. ASSUME NEW j \in DOMAIN t.outs, t.outs[j].tag # out.tag PROVE \E i \in DOMAIN outs : outs[i] = t.outs[j]
  <2>1. j \in S
    BY <1>11, <1>s
  <2>2. UpTo(S, j) \in 1 .. n /\ others[UpTo(S, j)] = t.outs[j]
    BY <1>3, <1>4, <2>1
  <2>3. UpTo(S, j) \in DOMAIN outs /\ outs[UpTo(S, j)] = others[UpTo(S, j)]
    BY <1>4, <1>5, <1>6, <2>2
  <2> QED BY <2>2, <2>3
<1>12. n + 1 \in DOMAIN outs
  BY <1>4, <1>6
<1>13. outs[1].to \notin Relays
  <2>1. 1 \in DOMAIN t.outs /\ t.outs[1].to \notin Relays
    <3>1. t.outs # <<>> /\ t.outs[1].to \notin Relays
      BY DEF PanelTemplate
    <3> QED BY <1>0, <3>1, EmptySeq, LenProperties
  <2>2. t.outs[1].tag # out.tag
    BY <2>1 DEF PanelTemplate, RelayRoute
  <2>3. 1 \in S
    BY <1>s, <2>1, <2>2
  <2>4. PICK u : u = UpTo(S, 1)
    OBVIOUS
  <2>5. u \in 1 .. n /\ others[u] = t.outs[1]
    BY <1>3, <1>4, <2>3, <2>4
  <2>6. 1 \in 1 .. n
    BY <1>4, <2>5
  <2>7. PICK j \in S : UpTo(S, j) = 1 /\ outs[1] = t.outs[j]
    BY <1>8, <2>6
  <2>8. j = 1
    <3>1. UpTo(S, j) <= UpTo(S, 1)
      BY <1>4, <2>4, <2>5, <2>7
    <3>2. j <= 1
      BY <1>3, <2>3, <3>1
    <3>3. j \in Nat /\ j >= 1
      BY <1>0, LenProperties
    <3> QED BY <3>2, <3>3
  <2> QED BY <2>1, <2>7, <2>8
<1>14. outs # <<>>
  BY <1>12
<1> QED BY <1>5, <1>9, <1>10, <1>11, <1>12, <1>13, <1>14 DEF Anew

\* apply and import: a panel with a route to a relay, old or new, is a panel's template.
LEMMA RouteReplaced ==
  ASSUME NEW t, PanelTemplate(t), NEW out, NEW new, RelayRoute(out, new),
         NEW u, u = ReplaceRoute(t, out, new)
  PROVE  PanelTemplate(u)
<1> DEFINE S == {i \in DOMAIN t.rules : t.rules[i].tag # out.tag}
<1>0. Sound(t) /\ t.rules \in Seq(RuleType) /\ S \subseteq DOMAIN t.rules
  BY PanelHas, TemplateShape
<1>1. PICK outs : outs = Append(WithoutTag(t.outs, out.tag), out)
  OBVIOUS
<1>2. PICK others : others = Selected(t.rules, S)
  OBVIOUS
<1>3. PICK at : at = AfterLocal(others)
  OBVIOUS
<1>4. PICK rules : rules = InsertAfter(others, at, new)
  OBVIOUS
<1>5. others = WithoutTag(t.rules, out.tag)
  BY Zenon, <1>2 DEF WithoutTag
<1>6. u = [rules |-> rules, outs |-> outs, resolve |-> TRUE, diagLog |-> t.diagLog]
  <2>1. u = [t EXCEPT !.resolve = TRUE, !.outs = outs, !.rules = rules]
    BY Zenon, <1>1, <1>3, <1>4, <1>5 DEF ReplaceRoute
  <2>2. t = [rules |-> t.rules, outs |-> t.outs, resolve |-> t.resolve, diagLog |-> t.diagLog]
    BY <1>0, TemplateShape
  <2> QED BY <2>1, <2>2
<1>s. \A i \in DOMAIN t.rules : i \in S <=> t.rules[i].tag # out.tag
  OBVIOUS
<1> HIDE DEF S
<1>7. Put(rules, t.rules, S, new)
  <2>1. others \in Seq(RuleType)
    BY <1>0, <1>2, Kept
  <2>2. at \in 0 .. Len(others)
    BY <1>3, <2>1, LocalPlace
  <2>3. new \in Seq(RuleType)
    BY DEF RelayRoute
  <2> QED BY <1>0, <1>2, <1>4, <2>2, <2>3, Merged
<1>8. /\ outs \in Seq(OutType) /\ outs # <<>> /\ outs[1].to \notin Relays
      /\ \A i, k \in DOMAIN outs : outs[i].tag = outs[k].tag => i = k
      /\ \A i \in DOMAIN outs : (\E j \in DOMAIN t.outs : outs[i] = t.outs[j] /\ t.outs[j].tag # out.tag) \/ outs[i] = out
      /\ \A j \in DOMAIN t.outs : t.outs[j].tag # out.tag => \E i \in DOMAIN outs : outs[i] = t.outs[j]
      /\ \E i \in DOMAIN outs : outs[i] = out
  <2>1. Anew(outs, t, out)
    BY <1>1, Outbounds
  <2> QED BY <2>1 DEF Anew
<1>9. u.rules = rules /\ u.outs = outs
  BY <1>6
<1>10. Sound(u)
  <2>1. u \in Template
    <3>1. t.diagLog \in BOOLEAN
      BY <1>0, TemplateShape
    <3>2. rules \in Seq(RuleType)
      BY <1>7 DEF Put
    <3> QED BY <1>6, <1>8, <3>1, <3>2 DEF Template, RuleType, OutType
  <2>2. out.tag # "api"
    BY DEF RelayRoute
  <2>3. \A i \in DOMAIN t.outs : t.outs[i].tag # "api"
    BY <1>0 DEF Sound
  <2>4. \A i \in DOMAIN outs : outs[i].tag # "api"
    BY <1>8, <2>2, <2>3
  <2>5. \A i, k \in DOMAIN u.outs : u.outs[i].tag = u.outs[k].tag => i = k
    BY <1>8, <1>9
  <2>6. \A i \in DOMAIN u.outs : u.outs[i].tag # "api"
    BY <1>9, <2>4
  <2> QED BY <2>1, <2>5, <2>6 DEF Sound
<1>11. ASSUME NEW i \in DOMAIN outs
       PROVE  /\ outs[i].protocol = "freedom" \/ outs[i].tag = "direct" => outs[i].to = "internet"
              /\ outs[i].tag \in {"ru-relay", "relay-to-russia"} => outs[i].to \in Relays
  <2>1. CASE outs[i] = out
    BY <2>1 DEF RelayRoute
  <2>2. CASE \E j \in DOMAIN t.outs : outs[i] = t.outs[j]
    BY <2>2 DEF PanelTemplate
  <2> QED BY <1>8, <2>1, <2>2
<1>12. ASSUME NEW tag, NEW where, Goes(t, tag, where), tag # out.tag PROVE Goes(u, tag, where)
  BY <1>8, <1>9, <1>12 DEF Goes
<1>13. Goes(u, out.tag, Relays)
  BY <1>8, <1>9 DEF Goes, RelayRoute
<1>14. ASSUME NEW k \in DOMAIN rules PROVE PanelRule(u, rules[k])
  <2>1. CASE \E i \in S : rules[k] = t.rules[i]
    <3>1. PICK i \in S : rules[k] = t.rules[i]
      BY <2>1
    <3>2. PanelRule(t, rules[k]) /\ rules[k].tag # out.tag
      BY <1>0, <1>s, <3>1, PanelHas
    <3> QED BY <1>12, <3>2 DEF PanelRule
  <2>2. CASE \E i \in DOMAIN new : rules[k] = new[i]
    <3>1. rules[k].tag = out.tag /\ rules[k].match \in {"private", "ruDomain", "ruIp", "vk", "max"}
      BY <2>2 DEF RelayRoute
    <3> QED BY <1>13, <3>1 DEF PanelRule
  <2> QED BY <1>7, <2>1, <2>2 DEF Put
<1>15. \A k \in DOMAIN u.rules : PanelRule(u, u.rules[k])
  BY <1>9, <1>14
<1>16. /\ u.outs # <<>> /\ u.outs[1].to \notin Relays
       /\ \A i \in DOMAIN u.outs :
            /\ u.outs[i].protocol = "freedom" \/ u.outs[i].tag = "direct" => u.outs[i].to = "internet"
            /\ u.outs[i].tag \in {"ru-relay", "relay-to-russia"} => u.outs[i].to \in Relays
  BY <1>8, <1>9, <1>11
<1> QED BY <1>10, <1>15, <1>16 DEF PanelTemplate, PanelRule

\* apply brings the relay's outbound and the rules for Russian names and addresses.
LEMMA RuRoute ==
  RelayRoute(RelayOutbound, RuRules)
<1>1. RelayOutbound = [tag |-> "relay-to-russia", protocol |-> "vless", to |-> Relay]
  BY DEF RelayOutbound, Outbound
<1>2. Relay \in Relays
  BY DEF Relays
<1>3. RelayOutbound \in OutType
  BY <1>1, <1>2, TagsAssumption DEF OutType, Protocols, Places
<1>4. PICK names : names = Rule("ruDomain", "relay-to-russia")
  OBVIOUS
<1>5. PICK addresses : addresses = Rule("ruIp", "relay-to-russia")
  OBVIOUS
<1>6. "ruDomain" \in Matches /\ "ruIp" \in Matches /\ "relay-to-russia" \in Tags
  BY TagsAssumption DEF Matches
<1>7. names \in RuleType /\ names.match = "ruDomain" /\ names.tag = "relay-to-russia"
      /\ addresses \in RuleType /\ addresses.match = "ruIp" /\ addresses.tag = "relay-to-russia"
  BY <1>4, <1>5, <1>6, TypedRule
<1>8. RuRules = <<names, addresses>>
  BY <1>4, <1>5 DEF RuRules
<1>9. PICK rules : rules = RuRules
  OBVIOUS
<1>10. rules \in Seq(RuleType) /\ DOMAIN rules = {1, 2} /\ rules[1] = names /\ rules[2] = addresses
  BY <1>7, <1>8, <1>9
<1> QED BY <1>1, <1>2, <1>3, <1>7, <1>9, <1>10 DEF RelayRoute

\* export writes down such a route.
LEMMA Exports ==
  ASSUME NEW t, PanelTemplate(t), NEW n \in Nat, n = Len(t.outs),
         NEW O, O = {k \in 1 .. n : t.outs[k].tag = "ru-relay"}, O # {}, NEW new, new = RulesOf(t, "ru-relay")
  PROVE  RelayRoute(t.outs[Min(O)], new)
<1> DEFINE S == {i \in DOMAIN t.rules : t.rules[i].tag = "ru-relay"}
<1>0. Sound(t) /\ t.rules \in Seq(RuleType) /\ S \subseteq DOMAIN t.rules /\ t.outs \in Seq(OutType)
  BY PanelHas, TemplateShape
<1>1. PICK i : i = Min(O)
  OBVIOUS
<1>2. i \in O
  <2>1. O \subseteq 1 .. n
    OBVIOUS
  <2> QED BY <1>1, <2>1, FirstOfPlaces
<1>3. i \in DOMAIN t.outs /\ t.outs[i].tag = "ru-relay"
  BY <1>0, <1>2, LenProperties
<1>4. t.outs[i].to \in Relays /\ t.outs[i].protocol # "freedom"
  <2>1. t.outs[i].to \in Relays /\ (t.outs[i].protocol = "freedom" => t.outs[i].to = "internet")
    BY <1>3 DEF PanelTemplate
  <2>2. "internet" \notin Relays
    BY HostsAssumption DEF Relays
  <2> QED BY <2>1, <2>2
<1>5. t.outs[i] \in OutType
  BY <1>0, <1>3, TemplateShape
<1>6. new = Selected(t.rules, S)
  BY Zenon DEF RulesOf
<1>s. \A j \in S : j \in DOMAIN t.rules /\ t.rules[j].tag = "ru-relay"
  OBVIOUS
<1> HIDE DEF S
<1>7. new \in Seq(RuleType) /\ \A k \in DOMAIN new : \E j \in S : new[k] = t.rules[j]
  <2>1. /\ new \in Seq(RuleType)
        /\ \A k \in DOMAIN new : \E j \in S : UpTo(S, j) = k /\ new[k] = t.rules[j]
    BY <1>0, <1>6, Kept
  <2> QED BY <2>1
<1>8. ASSUME NEW k \in DOMAIN new
      PROVE  new[k].tag = "ru-relay" /\ new[k].match \in {"private", "ruDomain", "ruIp", "vk", "max"}
  <2>1. PICK j \in S : new[k] = t.rules[j]
    BY <1>7
  <2>2. PanelRule(t, new[k]) /\ new[k].tag = "ru-relay"
    BY <1>s, <2>1, PanelHas
  <2>3. ~ Goes(t, "ru-relay", {"internet"})
    <3>1. ASSUME NEW l \in DOMAIN t.outs, t.outs[l].tag = "ru-relay" PROVE t.outs[l].to # "internet"
      <4>1. t.outs[l].to \in Relays
        BY <3>1 DEF PanelTemplate
      <4> QED BY <4>1, HostsAssumption DEF Relays
    <3> QED BY <3>1 DEF Goes
  <2> QED BY <2>2, <2>3 DEF PanelRule
<1> QED BY <1>1, <1>3, <1>4, <1>5, <1>7, <1>8 DEF RelayRoute

\* repoint: one outbound leads to the relay's address, and it led to a relay before.
LEMMA Repoints ==
  ASSUME NEW t, PanelTemplate(t), "ru-relay" \in TagsOf(t),
         NEW u, u = RepointRelayOutbound(t, "ru-relay")
  PROVE  PanelTemplate(u) /\ \A f : Pin(t, f) => Pin(u, f)
<1>0. Sound(t) /\ t.outs \in Seq(OutType)
  BY PanelHas, TemplateShape
<1>n. PICK n : n \in Nat /\ Len(t.outs) = n /\ DOMAIN t.outs = 1 .. n
  BY <1>0, LenProperties
<1> DEFINE O == {k \in 1 .. Len(t.outs) : t.outs[k].tag = "ru-relay"}
<1>1. PICK at : at = Min(O)
  OBVIOUS
<1>2. at \in DOMAIN t.outs /\ t.outs[at].tag = "ru-relay" /\ O # {}
  <2>1. O \subseteq 1 .. n /\ O # {}
    BY <1>n DEF TagsOf
  <2> QED BY <1>1, <1>n, <2>1, FirstOfPlaces
<1>3. PICK out : out = [t.outs[at] EXCEPT !.to = Relay]
  OBVIOUS
<1>4. PICK outs : outs = [t.outs EXCEPT ![at] = out]
  OBVIOUS
<1>5. u = [t EXCEPT !.outs[at].to = Relay]
  BY Zenon, <1>1, <1>2 DEF RepointRelayOutbound, SelectInSeq
<1>6. t = [rules |-> t.rules, outs |-> t.outs, resolve |-> t.resolve, diagLog |-> t.diagLog]
      /\ t.rules \in Seq(RuleType) /\ t.resolve \in BOOLEAN /\ t.diagLog \in BOOLEAN
  BY <1>0, TemplateShape
<1>7. u = [rules |-> t.rules, outs |-> outs, resolve |-> t.resolve, diagLog |-> t.diagLog]
  <2>1. u = [t EXCEPT !.outs = outs]
    BY <1>3, <1>4, <1>5
  <2> QED BY <1>6, <2>1
<1>8. out \in OutType /\ out.tag = "ru-relay" /\ out.to = Relay /\ out.protocol = t.outs[at].protocol
  <2>1. t.outs[at] \in OutType
    BY <1>0, <1>2, TemplateShape
  <2>2. Relay \in Places
    BY DEF Places, Relays
  <2> QED BY <1>2, <1>3, <2>1, <2>2 DEF OutType
<1>9. DOMAIN outs = DOMAIN t.outs /\ \A i \in DOMAIN outs : outs[i] = IF i = at THEN out ELSE t.outs[i]
  BY <1>4
<1>10. outs \in Seq(OutType)
  <2>1. \A i \in DOMAIN t.outs : t.outs[i] \in OutType
    BY <1>0, TemplateShape
  <2>2. outs = [i \in 1 .. n |-> outs[i]] /\ \A i \in 1 .. n : outs[i] \in OutType
    BY <1>4, <1>8, <1>9, <1>n, <2>1
  <2>3. outs \in [1 .. n -> OutType]
    BY <2>2
  <2> QED BY <1>n, <2>3
<1>11. t.outs[at].to \in Relays /\ Relay \in Relays /\ "internet" \notin Relays
  BY <1>2, HostsAssumption DEF PanelTemplate, Relays
<1>12. ASSUME NEW i \in DOMAIN outs
       PROVE  outs[i].tag = t.outs[i].tag /\ outs[i].protocol = t.outs[i].protocol
              /\ (outs[i].to \in Relays <=> t.outs[i].to \in Relays)
              /\ (outs[i].to = "internet" <=> t.outs[i].to = "internet")
  <2>1. CASE i = at
    BY <1>2, <1>8, <1>9, <1>11, <2>1
  <2>2. CASE i # at
    BY <1>9, <2>2
  <2> QED BY <2>1, <2>2
<1>13. u.rules = t.rules /\ u.outs = outs
  BY <1>7
<1>14. Sound(u)
  <2>1. u \in Template
    BY <1>6, <1>7, <1>10 DEF Template, RuleType, OutType
  <2>2. \A i, k \in DOMAIN u.outs : u.outs[i].tag = u.outs[k].tag => i = k
    BY <1>0, <1>9, <1>12, <1>13 DEF Sound
  <2>3. \A i \in DOMAIN u.outs : u.outs[i].tag # "api"
    BY <1>0, <1>9, <1>12, <1>13 DEF Sound
  <2> QED BY <2>1, <2>2, <2>3 DEF Sound
<1>15. \A tag : /\ Goes(t, tag, Relays) => Goes(u, tag, Relays)
                /\ Goes(t, tag, {"internet"}) => Goes(u, tag, {"internet"})
  BY <1>9, <1>12, <1>13 DEF Goes
<1>16. \A k \in DOMAIN u.rules : PanelRule(u, u.rules[k])
  BY <1>13, <1>15, PanelHas DEF PanelRule
<1>17. u.outs # <<>> /\ u.outs[1].to \notin Relays
  <2>1. t.outs # <<>> /\ t.outs[1].to \notin Relays
    BY DEF PanelTemplate
  <2>2. 1 \in DOMAIN t.outs
    BY <1>0, <2>1, EmptySeq, LenProperties
  <2> QED BY <1>9, <1>12, <1>13, <2>1, <2>2
<1>18. \A i \in DOMAIN u.outs :
         /\ u.outs[i].protocol = "freedom" \/ u.outs[i].tag = "direct" => u.outs[i].to = "internet"
         /\ u.outs[i].tag \in {"ru-relay", "relay-to-russia"} => u.outs[i].to \in Relays
  <2>1. ASSUME NEW i \in DOMAIN t.outs
        PROVE  /\ t.outs[i].protocol = "freedom" \/ t.outs[i].tag = "direct" => t.outs[i].to = "internet"
               /\ t.outs[i].tag \in {"ru-relay", "relay-to-russia"} => t.outs[i].to \in Relays
    BY DEF PanelTemplate
  <2> QED BY <1>9, <1>12, <1>13, <2>1
<1>19. PanelTemplate(u)
  BY <1>14, <1>16, <1>17, <1>18 DEF PanelTemplate, PanelRule
<1>20. OneRelay(u) => OneRelay(t)
  BY <1>9, <1>12, <1>13 DEF OneRelay
<1>21. ASSUME NEW f, Pin(t, f) PROVE Pin(u, f)
  BY <1>13, <1>20, <1>21 DEF Pin, Has, TiktokFirst
<1> QED BY <1>19, <1>21

\* reset-logs touches neither the rules nor the outbounds.
LEMMA LogsReset ==
  ASSUME NEW t, Sound(t), NEW u, u = [t EXCEPT !.diagLog = TRUE]
  PROVE  Sound(u) /\ u.rules = t.rules /\ u.outs = t.outs /\ \A f : Pin(t, f) => Pin(u, f)
<1>1. t = [rules |-> t.rules, outs |-> t.outs, resolve |-> t.resolve, diagLog |-> t.diagLog]
      /\ t.rules \in Seq(RuleType) /\ t.outs \in Seq(OutType) /\ t.resolve \in BOOLEAN
  BY TemplateShape
<1>2. u = [rules |-> t.rules, outs |-> t.outs, resolve |-> t.resolve, diagLog |-> TRUE]
  BY <1>1
<1>3. u \in Template
  BY <1>1, <1>2 DEF Template, RuleType, OutType
<1>4. u.rules = t.rules /\ u.outs = t.outs
  BY <1>2
<1>5. Sound(u)
  BY <1>3, <1>4 DEF Sound
<1> QED BY <1>4, <1>5 DEF Pin, Has, TiktokFirst, OneRelay

\* So a panel's template stays one.
LEMMA PanelLogs ==
  ASSUME NEW t, PanelTemplate(t), NEW u, u = [t EXCEPT !.diagLog = TRUE]
  PROVE  PanelTemplate(u) /\ \A f : Pin(t, f) => Pin(u, f)
<1>1. Sound(u) /\ u.rules = t.rules /\ u.outs = t.outs /\ \A f : Pin(t, f) => Pin(u, f)
  BY PanelHas, LogsReset
<1>2. \A tag, where : Goes(t, tag, where) => Goes(u, tag, where)
  BY <1>1 DEF Goes
<1> QED BY <1>1, <1>2 DEF PanelTemplate

EntryRule(t, r) ==
  \/ r.match \in {"private", "ruDomain", "ruIp"}
  \/ r.match = "banks" /\ r.tag = "direct"
  \/ r.match = "supercell" /\ r.tag = ForeignEgressTag(t)

\* The rules of a cascade entry are such rules.
LEMMA EntryHas ==
  ASSUME NEW t, EntryTemplate(t)
  PROVE  Sound(t) /\ \A k \in DOMAIN t.rules : EntryRule(t, t.rules[k])
BY DEF EntryTemplate, EntryRule

\* A rule put among those of a cascade entry: the entry stays one, has the rule, and
\* keeps every other kind.
LEMMA EntryEdit ==
  ASSUME NEW t, EntryTemplate(t), NEW S, S \subseteq DOMAIN t.rules,
         NEW others, others = Selected(t.rules, S),
         NEW match \in Matches, NEW tag \in Tags, NEW rule, rule = Rule(match, tag),
         EntryRule(t, rule), \A i \in DOMAIN t.rules : i \notin S => t.rules[i].match = match,
         NEW u, u = [t EXCEPT !.rules = InsertAfter(others, AfterLocal(others), <<rule>>)],
         match # "tiktok"
  PROVE  EntryTemplate(u) /\ Has(u, match) /\ \A f : Has(t, f) => Has(u, f)
<1>0. Sound(t) /\ t.rules \in Seq(RuleType)
  BY EntryHas, TemplateShape
<1>1. PICK at : at = AfterLocal(others)
  OBVIOUS
<1>2. rule.match = match /\ rule.tag = tag
      /\ \E new : new = <<rule>> /\ new \in Seq(RuleType) /\ DOMAIN new = {1} /\ new[1] = rule /\ Len(new) = 1
  BY TypedRule
<1>3. PICK new : new = <<rule>> /\ new \in Seq(RuleType) /\ DOMAIN new = {1} /\ new[1] = rule
  BY <1>2
<1>4. PICK rules : rules = InsertAfter(others, at, new)
  OBVIOUS
<1>5. Put(rules, t.rules, S, new)
  <2>1. others \in Seq(RuleType)
    BY <1>0, Kept
  <2>2. at \in 0 .. Len(others)
    BY <1>1, <2>1, LocalPlace
  <2> QED BY <1>0, <1>3, <1>4, <2>2, Merged
<1>6. u = [t EXCEPT !.rules = rules]
  BY <1>1, <1>3, <1>4
<1>7. Sound(u) /\ u.rules = rules /\ u.outs = t.outs
      /\ \A g, where : Goes(u, g, where) <=> Goes(t, g, where)
  <2>1. rules \in Seq(RuleType)
    BY <1>5 DEF Put
  <2> QED BY <1>0, <1>6, <2>1, SoundAgain
<1>8. ForeignEgressTag(u) = ForeignEgressTag(t)
  <2> DEFINE I == {k \in 1 .. Len(t.outs) : t.outs[k].protocol = "vless"}
             J == {k \in 1 .. Len(u.outs) : u.outs[k].protocol = "vless"}
             i == IF I # {} THEN Min(I) ELSE 0
             j == IF J # {} THEN Min(J) ELSE 0
  <2>1. ForeignEgressTag(t) = IF i # 0 THEN t.outs[i].tag ELSE IF t.outs # <<>> THEN t.outs[1].tag ELSE None
    BY Zenon DEF ForeignEgressTag, SelectInSeq
  <2>2. ForeignEgressTag(u) = IF j # 0 THEN u.outs[j].tag ELSE IF u.outs # <<>> THEN u.outs[1].tag ELSE None
    BY Zenon DEF ForeignEgressTag, SelectInSeq
  <2>3. I = J
    BY <1>7
  <2> HIDE DEF I, J
  <2> QED BY <1>7, <2>1, <2>2, <2>3
<1>9. \A k \in DOMAIN rules : EntryRule(t, rules[k])
  <2>1. \A i \in S : EntryRule(t, t.rules[i])
    BY EntryHas
  <2>2. \A k \in DOMAIN rules : (\E i \in S : rules[k] = t.rules[i]) \/ (\E i \in DOMAIN new : rules[k] = new[i])
    BY <1>5 DEF Put
  <2> QED BY <1>3, <2>1, <2>2
<1>10. \A k \in DOMAIN u.rules : EntryRule(u, u.rules[k])
  BY <1>7, <1>8, <1>9 DEF EntryRule
<1>11. EntryTemplate(u)
  <2>1. Goes(t, "direct", {"internet"}) /\ ForeignEgressTag(t) # None
        /\ Goes(t, ForeignEgressTag(t), {"foreign"})
    BY DEF EntryTemplate
  <2>2. Goes(u, "direct", {"internet"}) /\ ForeignEgressTag(u) # None
        /\ Goes(u, ForeignEgressTag(u), {"foreign"})
    BY <1>7, <1>8, <2>1
  <2> QED BY <1>7, <1>10, <2>2 DEF EntryTemplate, EntryRule
<1>12. Has(u, match)
  <2>1. \E k \in DOMAIN rules : rules[k] = new[1]
    BY <1>3, <1>5 DEF Put
  <2> QED BY <1>2, <1>3, <1>7, <2>1 DEF Has
<1>13. ASSUME NEW f, Has(t, f) PROVE Has(u, f)
  <2>1. PICK i \in DOMAIN t.rules : t.rules[i].match = f
    BY <1>13 DEF Has
  <2>2. CASE i \in S
    <3>1. \E k \in DOMAIN rules : rules[k] = t.rules[i]
      BY <1>5, <2>2 DEF Put
    <3> QED BY <1>7, <2>1, <3>1 DEF Has
  <2>3. CASE i \notin S
    BY <1>12, <2>1, <2>3
  <2> QED BY <2>2, <2>3
<1> QED BY <1>11, <1>12, <1>13

\* cascade_apply_banks.py
LEMMA BanksMerge ==
  ASSUME NEW t, EntryTemplate(t), NEW u, u = MergeBanksDirect(t)
  PROVE  EntryTemplate(u) /\ Has(u, "banks") /\ \A f : Has(t, f) => Has(u, f)
<1> DEFINE rule == Rule("banks", "direct")
           S    == {i \in DOMAIN t.rules : t.rules[i] # rule}
<1>1. PICK others : others = Selected(t.rules, S)
  OBVIOUS
<1>2. u = [t EXCEPT !.rules = InsertAfter(others, AfterLocal(others), <<rule>>)]
  BY Zenon, <1>1 DEF MergeBanksDirect, WithoutRule
<1>3. "banks" \in Matches /\ "direct" \in Tags
  BY TagsAssumption DEF Matches
<1>4. rule.match = "banks" /\ rule.tag = "direct"
  BY DEF Rule
<1>5. EntryRule(t, rule)
  BY <1>4 DEF EntryRule
<1>6. S \subseteq DOMAIN t.rules /\ \A i \in DOMAIN t.rules : i \notin S => t.rules[i].match = "banks"
  BY <1>4
<1>7. PICK r : r = rule
  OBVIOUS
<1> HIDE DEF rule, S
<1>8. r = Rule("banks", "direct")
  BY <1>7 DEF rule
<1>9. u = [t EXCEPT !.rules = InsertAfter(others, AfterLocal(others), <<r>>)]
  BY <1>2, <1>7
<1> QED BY <1>1, <1>3, <1>5, <1>6, <1>7, <1>8, <1>9, EntryEdit

\* cascade_apply_supercell.py
LEMMA SupercellMerge ==
  ASSUME NEW t, EntryTemplate(t), NEW u, u = MergeSupercellEgress(t)
  PROVE  EntryTemplate(u) /\ Has(u, "supercell") /\ \A f : Has(t, f) => Has(u, f)
<1> DEFINE S   == {i \in DOMAIN t.rules : t.rules[i].match # "supercell"}
<1>1. PICK others : others = Selected(t.rules, S)
  OBVIOUS
<1>2. PICK tag : tag = ForeignEgressTag(t)
  OBVIOUS
<1>3. tag # None /\ Goes(t, tag, {"foreign"}) /\ Sound(t)
  BY <1>2 DEF EntryTemplate
<1>4. PICK r : r = Rule("supercell", tag)
  OBVIOUS
<1>5. u = [t EXCEPT !.rules = InsertAfter(others, AfterLocal(others), <<r>>)]
  BY Zenon, <1>1, <1>2, <1>3, <1>4 DEF MergeSupercellEgress
<1>6. "supercell" \in Matches /\ tag \in Tags
  BY <1>3, GoesLeads DEF Matches
<1>7. EntryRule(t, r)
  <2>1. r.match = "supercell" /\ r.tag = tag
    BY <1>4 DEF Rule
  <2> QED BY <1>2, <2>1 DEF EntryRule
<1>8. S \subseteq DOMAIN t.rules /\ \A i \in DOMAIN t.rules : i \notin S => t.rules[i].match = "supercell"
  OBVIOUS
<1> HIDE DEF S
<1> QED BY <1>1, <1>4, <1>5, <1>6, <1>7, <1>8, EntryEdit

-----------------------------------------------------------------------------
(* The relay *)

\* The relay's template with and without the way on to Helsinki: what is not the panel's
\* own leaves directly or that way, and whatever no other rule takes is taken by the last.
RelayTemplate(t) ==
  /\ Sound(t)
  /\ Goes(t, "direct", {"internet"})
  /\ Has(t, "rest")
  /\ \A i \in DOMAIN t.rules :
       IF t.rules[i].match = "api" THEN t.rules[i].tag = "api"
       ELSE t.rules[i].tag \in {"direct", "relay-to-helsinki"}

\* setup_relay.py writes such a template.
LEMMA SplitIsOne ==
  RelayTemplate(SplitTemplate)
<1>1. PICK api, private, names, addresses, rest :
        /\ api = Rule("api", "api") /\ private = Rule("private", "direct")
        /\ names = Rule("ruDomain", "direct") /\ addresses = Rule("ruIp", "direct")
        /\ rest = Rule("rest", "relay-to-helsinki")
  OBVIOUS
<1>2. {"api", "private", "ruDomain", "ruIp", "rest"} \subseteq Matches
      /\ {"api", "direct", "blocked", "relay-to-helsinki"} \subseteq Tags
  BY TagsAssumption DEF Matches
<1>3. /\ api \in RuleType /\ api.match = "api" /\ api.tag = "api"
      /\ private \in RuleType /\ private.match = "private" /\ private.tag = "direct"
      /\ names \in RuleType /\ names.match = "ruDomain" /\ names.tag = "direct"
      /\ addresses \in RuleType /\ addresses.match = "ruIp" /\ addresses.tag = "direct"
      /\ rest \in RuleType /\ rest.match = "rest" /\ rest.tag = "relay-to-helsinki"
  BY <1>1, <1>2, TypedRule
<1>4. PICK rules : rules = <<api, private, names, addresses, rest>>
  OBVIOUS
<1>5. rules \in Seq(RuleType) /\ DOMAIN rules = 1 .. 5
      /\ rules[1] = api /\ rules[2] = private /\ rules[3] = names /\ rules[4] = addresses /\ rules[5] = rest
  BY <1>3, <1>4
<1>6. PICK direct, on, blocked :
        /\ direct = [tag |-> "direct", protocol |-> "freedom", to |-> "internet"]
        /\ on = [tag |-> "relay-to-helsinki", protocol |-> "vless", to |-> "helsinki"]
        /\ blocked = [tag |-> "blocked", protocol |-> "blackhole", to |-> "nowhere"]
  OBVIOUS
<1>7. direct \in OutType /\ on \in OutType /\ blocked \in OutType
  BY <1>2, <1>6 DEF OutType, Protocols, Places
<1>8. PICK outs : outs = <<direct, on, blocked>>
  OBVIOUS
<1>9. outs \in Seq(OutType) /\ DOMAIN outs = {1, 2, 3} /\ outs[1] = direct /\ outs[2] = on /\ outs[3] = blocked
  BY <1>7, <1>8
<1>10. PICK t : t = SplitTemplate
  OBVIOUS
<1>11. t = [rules |-> rules, outs |-> outs, resolve |-> TRUE, diagLog |-> FALSE]
  BY <1>1, <1>4, <1>6, <1>8, <1>10 DEF SplitTemplate, DirectOut, BlockedOut, Outbound
<1>12. t \in Template
  BY <1>5, <1>9, <1>11 DEF Template, RuleType, OutType
<1>13. t.rules = rules /\ t.outs = outs
  BY <1>11
<1>14. Sound(t)
  BY <1>6, <1>9, <1>12, <1>13 DEF Sound
<1>15. Goes(t, "direct", {"internet"})
  BY <1>6, <1>9, <1>13 DEF Goes
<1>16. Has(t, "rest")
  BY <1>3, <1>5, <1>13 DEF Has
<1>17. \A i \in DOMAIN rules : IF rules[i].match = "api" THEN rules[i].tag = "api"
                               ELSE rules[i].tag \in {"direct", "relay-to-helsinki"}
  <2>1. \A i \in DOMAIN rules : i = 1 \/ i = 2 \/ i = 3 \/ i = 4 \/ i = 5
    BY <1>5
  <2> QED BY <1>3, <1>5, <2>1
<1> QED BY <1>10, <1>13, <1>14, <1>15, <1>16, <1>17 DEF RelayTemplate

\* clean-relay drops the outbound to Helsinki and turns its rules to the direct one.
LEMMA RelayCleaned ==
  ASSUME NEW t, RelayTemplate(t), NEW u, u = CleanRelayRouting(t, "relay-to-helsinki")
  PROVE  RelayTemplate(u) /\ Cleaned(u)
<1> DEFINE S == {i \in DOMAIN t.outs : t.outs[i].tag # "relay-to-helsinki"}
<1>0. Sound(t) /\ t.outs \in Seq(OutType) /\ t.rules \in Seq(RuleType) /\ S \subseteq DOMAIN t.outs
  BY TemplateShape DEF RelayTemplate
<1>1. PICK outs : outs = Selected(t.outs, S)
  OBVIOUS
<1>2. PICK rules : rules = [i \in DOMAIN t.rules |->
                     IF t.rules[i].tag = "relay-to-helsinki" THEN Rule(t.rules[i].match, "direct") ELSE t.rules[i]]
  OBVIOUS
<1>3. u = [t EXCEPT !.outs = outs, !.rules = rules]
  BY Zenon, <1>1, <1>2 DEF CleanRelayRouting, WithoutTag
<1>4. t = [rules |-> t.rules, outs |-> t.outs, resolve |-> t.resolve, diagLog |-> t.diagLog]
      /\ t.resolve \in BOOLEAN /\ t.diagLog \in BOOLEAN
  BY <1>0, TemplateShape
<1>5. u = [rules |-> rules, outs |-> outs, resolve |-> t.resolve, diagLog |-> t.diagLog]
  BY <1>3, <1>4
<1>s. \A i \in DOMAIN t.outs : i \in S <=> t.outs[i].tag # "relay-to-helsinki"
  OBVIOUS
<1> HIDE DEF S
<1>6. /\ outs \in Seq(OutType)
      /\ \A k \in DOMAIN outs : \E i \in S : UpTo(S, i) = k /\ outs[k] = t.outs[i]
      /\ \A i \in S : UpTo(S, i) \in DOMAIN outs /\ outs[UpTo(S, i)] = t.outs[i]
      /\ \A i, j \in S : UpTo(S, i) <= UpTo(S, j) => i <= j
  BY <1>0, <1>1, Kept
<1>7. ASSUME NEW i \in DOMAIN t.rules
      PROVE  rules[i] \in RuleType /\ rules[i].match = t.rules[i].match
             /\ rules[i].tag = IF t.rules[i].tag = "relay-to-helsinki" THEN "direct" ELSE t.rules[i].tag
  <2>1. t.rules[i] \in RuleType
    BY <1>0, TemplateShape
  <2>2. "direct" \in Tags
    BY TagsAssumption
  <2> QED BY <1>2, <2>1, <2>2 DEF Rule, RuleType
<1>8. PICK n : n \in Nat /\ DOMAIN t.rules = 1 .. n
  BY <1>0, LenProperties
<1>9. rules \in Seq(RuleType) /\ DOMAIN rules = DOMAIN t.rules
  <2>1. rules = [i \in 1 .. n |-> rules[i]] /\ \A i \in 1 .. n : rules[i] \in RuleType
    BY <1>2, <1>7, <1>8
  <2>2. rules \in [1 .. n -> RuleType]
    BY <2>1
  <2> QED BY <1>2, <1>8, <2>2
<1>10. u.rules = rules /\ u.outs = outs
  BY <1>5
<1>11. Sound(u)
  <2>1. u \in Template
    BY <1>4, <1>5, <1>6, <1>9 DEF Template, RuleType, OutType
  <2>2. ASSUME NEW i \in DOMAIN outs, NEW k \in DOMAIN outs, outs[i].tag = outs[k].tag PROVE i = k
    <3>1. PICK j \in S : UpTo(S, j) = i /\ outs[i] = t.outs[j]
      BY <1>6
    <3>2. PICK l \in S : UpTo(S, l) = k /\ outs[k] = t.outs[l]
      BY <1>6
    <3>3. j = l
      BY <1>0, <2>2, <3>1, <3>2 DEF Sound
    <3> QED BY <3>1, <3>2, <3>3
  <2>3. \A i \in DOMAIN outs : outs[i].tag # "api"
    BY <1>0, <1>6 DEF Sound
  <2> QED BY <1>10, <2>1, <2>2, <2>3 DEF Sound
<1>12. Goes(u, "direct", {"internet"})
  <2>1. PICK i \in DOMAIN t.outs : t.outs[i].tag = "direct" /\ t.outs[i].to = "internet"
    BY DEF RelayTemplate, Goes
  <2>2. UpTo(S, i) \in DOMAIN outs /\ outs[UpTo(S, i)] = t.outs[i]
    BY <1>6, <1>s, <2>1
  <2> QED BY <1>10, <2>1, <2>2 DEF Goes
<1>13. Has(u, "rest")
  BY <1>7, <1>9, <1>10 DEF RelayTemplate, Has
<1>14. \A i \in DOMAIN rules : /\ IF rules[i].match = "api" THEN rules[i].tag = "api" ELSE rules[i].tag = "direct"
                               /\ rules[i].tag # "relay-to-helsinki"
  BY <1>7, <1>9 DEF RelayTemplate
<1> QED BY <1>10, <1>11, <1>12, <1>13, <1>14 DEF RelayTemplate, Cleaned

\* reset-logs on the relay
LEMMA RelayLogs ==
  ASSUME NEW t, RelayTemplate(t), NEW u, u = [t EXCEPT !.diagLog = TRUE]
  PROVE  RelayTemplate(u) /\ (Cleaned(t) => Cleaned(u))
<1>1. Sound(u) /\ u.rules = t.rules /\ u.outs = t.outs
  BY LogsReset DEF RelayTemplate
<1>2. \A tag, where : Goes(t, tag, where) => Goes(u, tag, where)
  BY <1>1 DEF Goes
<1> QED BY <1>1, <1>2 DEF RelayTemplate, Cleaned, Has

(* Where a connection leaves *)

\* A rule that takes a connection on the first pass.
Takes(t, d, k) ==
  /\ d \in Matching(t.rules[k].match)
  /\ d \in ByName => t.rules[k].match \notin AboutAddresses

\* The first rule that takes a connection decides.
LEMMA FirstRuleDecides ==
  ASSUME NEW t, Sound(t), NEW d, NEW i \in DOMAIN t.rules, Takes(t, d, i)
  PROVE  \E k \in DOMAIN t.rules : /\ Takes(t, d, k) /\ EgressTag(t, d) = t.rules[k].tag
                                   /\ \A l \in DOMAIN t.rules : Takes(t, d, l) => k <= l
<1>n. PICK n : n \in Nat /\ Len(t.rules) = n /\ DOMAIN t.rules = 1 .. n
  BY TemplateShape, LenProperties
<1> DEFINE N == {k \in 1 .. Len(t.rules) : /\ d \in Matching(t.rules[k].match)
                                           /\ d \in ByName => t.rules[k].match \notin AboutAddresses}
           A == {k \in 1 .. Len(t.rules) : d \in Matching(t.rules[k].match)}
           byName == IF N # {} THEN Min(N) ELSE 0
           byAny  == IF A # {} THEN Min(A) ELSE 0
<1>1. EgressTag(t, d) = IF byName # 0 THEN t.rules[byName].tag
                               ELSE IF t.resolve /\ byAny # 0 THEN t.rules[byAny].tag ELSE t.outs[1].tag
  BY Zenon DEF EgressTag, SelectInSeq
<1>2. \A k : k \in N <=> k \in DOMAIN t.rules /\ Takes(t, d, k)
  BY <1>n DEF Takes
<1>3. N \subseteq 1 .. n /\ N # {}
  BY <1>n, <1>2
<1> HIDE DEF N, byAny
<1>4. Min(N) \in N /\ \A k \in N : Min(N) <= k
  BY <1>n, <1>3, FirstOfPlaces
<1>5. byName = Min(N) /\ byName # 0
  BY <1>3, <1>4
<1> HIDE DEF byName
<1> QED BY <1>1, <1>2, <1>4, <1>5

\* A rule decides, or the first outbound.
LEMMA SomethingDecides ==
  ASSUME NEW t, Sound(t), NEW d
  PROVE  \/ EgressTag(t, d) = t.outs[1].tag
         \/ \E k \in DOMAIN t.rules : d \in Matching(t.rules[k].match) /\ EgressTag(t, d) = t.rules[k].tag
<1>n. PICK n : n \in Nat /\ Len(t.rules) = n /\ DOMAIN t.rules = 1 .. n
  BY TemplateShape, LenProperties
<1> DEFINE N == {k \in 1 .. Len(t.rules) : /\ d \in Matching(t.rules[k].match)
                                           /\ d \in ByName => t.rules[k].match \notin AboutAddresses}
           A == {k \in 1 .. Len(t.rules) : d \in Matching(t.rules[k].match)}
           byName == IF N # {} THEN Min(N) ELSE 0
           byAny  == IF A # {} THEN Min(A) ELSE 0
<1>1. EgressTag(t, d) = IF byName # 0 THEN t.rules[byName].tag
                               ELSE IF t.resolve /\ byAny # 0 THEN t.rules[byAny].tag ELSE t.outs[1].tag
  BY Zenon DEF EgressTag, SelectInSeq
<1>2. N \subseteq A /\ A \subseteq 1 .. n
  BY <1>n
<1>3. \A k \in A : k \in DOMAIN t.rules /\ d \in Matching(t.rules[k].match)
  BY <1>n
<1> HIDE DEF N, A
<1>4. (byName # 0 => byName \in A) /\ (byAny # 0 => byAny \in A)
  BY <1>n, <1>2, FirstOfPlaces
<1> HIDE DEF byName, byAny
<1> QED BY <1>1, <1>3, <1>4

\* What the match kinds of the rules take, of the destinations the properties are about.
LEMMA WhoIsTaken ==
  ASSUME NEW match \in Matches
  PROVE  /\ "api" \in Matching(match) => match = "api"
         /\ "vkSite" \in Matching(match) => match \in {"vk", "rest"}
         /\ "maxSite" \in Matching(match) => match \in {"max", "ruDomain", "ruIp", "rest"}
         /\ "tiktokRu" \in Matching(match) => match \in {"tiktok", "ruDomain", "ruIp", "rest"}
         /\ "tiktokEdge" \in Matching(match) => match \in {"tiktok", "ruIp", "rest"}
         /\ "bankCom" \in Matching(match) => match \in {"banks", "rest"}
         /\ "gameEdge" \in Matching(match) => match \in {"supercell", "ruIp", "rest"}
BY DEF Matches, Matching, Destinations

\* Every family's own rule takes its destination, and the last rule everything but api.
LEMMA OwnRuleTakes ==
  /\ "vkSite" \in Matching("vk") /\ "maxSite" \in Matching("max")
  /\ "tiktokRu" \in Matching("tiktok") /\ "tiktokEdge" \in Matching("tiktok")
  /\ "bankCom" \in Matching("banks") /\ "gameEdge" \in Matching("supercell")
  /\ \A d \in Destinations \ {"api"} : d \in Matching("rest") /\ d \notin Matching("api")
BY DEF Matching, Destinations

\* Where a panel's connections for api leave never is the relay.
LEMMA ApiStays ==
  ASSUME NEW t, PanelTemplate(t)
  PROVE  Egress(t, "api") # Relay
<1>0. Sound(t) /\ t.outs \in Seq(OutType)
  BY PanelHas, TemplateShape
<1>1. CASE EgressTag(t, "api") = t.outs[1].tag
  <2>1. t.outs # <<>> /\ t.outs[1].to \notin Relays
    BY DEF PanelTemplate
  <2>2. 1 \in DOMAIN t.outs
    BY <1>0, <2>1, EmptySeq, LenProperties
  <2>3. t.outs[1].tag # "api"
    BY <1>0, <2>2 DEF Sound
  <2>4. LeadsTo(t, t.outs[1].tag) = t.outs[1].to
    BY <1>0, <2>2, Leads
  <2>5. Egress(t, "api") = t.outs[1].to
    BY <1>1, <2>3, <2>4 DEF Egress
  <2> QED BY <2>1, <2>5 DEF Relays
<1>2. CASE \E k \in DOMAIN t.rules : "api" \in Matching(t.rules[k].match) /\ EgressTag(t, "api") = t.rules[k].tag
  <2>1. PICK k \in DOMAIN t.rules : "api" \in Matching(t.rules[k].match) /\ EgressTag(t, "api") = t.rules[k].tag
    BY <1>2
  <2>2. t.rules[k].match \in Matches
    BY <1>0, TemplateShape DEF RuleType
  <2>3. t.rules[k].match = "api"
    BY <2>1, <2>2, WhoIsTaken
  <2>4. t.rules[k].tag = "api"
    BY <2>3, PanelHas DEF PanelRule
  <2>5. Egress(t, "api") = "api"
    BY <2>1, <2>4 DEF Egress
  <2> QED BY <2>5, HostsAssumption
<1> QED BY <1>0, <1>1, <1>2, SomethingDecides

\* A cleaned relay sends everything but its own api out in Russia.
LEMMA CleanGoesOut ==
  ASSUME NEW t, RelayTemplate(t), Cleaned(t), NEW d \in Destinations \ {"api"}
  PROVE  Egress(t, d) = "internet"
<1>0. Sound(t) /\ Goes(t, "direct", {"internet"})
  BY DEF RelayTemplate
<1>1. PICK i \in DOMAIN t.rules : t.rules[i].match = "rest"
  BY DEF RelayTemplate, Has
<1>2. Takes(t, d, i)
  BY <1>1, OwnRuleTakes DEF Takes, AboutAddresses
<1>3. PICK k \in DOMAIN t.rules : Takes(t, d, k) /\ EgressTag(t, d) = t.rules[k].tag
  BY <1>0, <1>2, FirstRuleDecides
<1>4. t.rules[k].match # "api"
  BY <1>3, OwnRuleTakes DEF Takes
<1>5. t.rules[k].tag = "direct"
  BY <1>4 DEF RelayTemplate, Cleaned
<1>6. LeadsTo(t, "direct") \in {"internet"}
  BY <1>0, GoesLeads
<1> QED BY <1>3, <1>5, <1>6 DEF Egress

\* A rule with a tag that goes somewhere sends its connections there.
LEMMA TagDecides ==
  ASSUME NEW t, Sound(t), NEW d, NEW tag, NEW where, EgressTag(t, d) = tag, Goes(t, tag, where)
  PROVE  Egress(t, d) \in where
BY GoesLeads DEF Egress

\* VK and MAX reach a relay from a panel with a rule for them.
LEMMA VkAndMaxReachARelay ==
  ASSUME NEW t, PanelTemplate(t)
  PROVE  /\ Has(t, "vk") => Egress(t, "vkSite") \in Relays
         /\ Has(t, "max") => Egress(t, "maxSite") \in Relays
<1>0. Sound(t) /\ \A k \in DOMAIN t.rules : t.rules[k].match \in Matches
  BY PanelHas, TemplateShape DEF RuleType
<1>1. ASSUME NEW d \in {"vkSite", "maxSite"}, NEW i \in DOMAIN t.rules,
             t.rules[i].match = IF d = "vkSite" THEN "vk" ELSE "max"
      PROVE  Egress(t, d) \in Relays
  <2>1. Takes(t, d, i)
    BY <1>1, OwnRuleTakes DEF Takes, AboutAddresses
  <2>2. PICK k \in DOMAIN t.rules : Takes(t, d, k) /\ EgressTag(t, d) = t.rules[k].tag
    BY <1>0, <2>1, FirstRuleDecides
  <2>3. t.rules[k].match \in {"vk", "max", "ruDomain", "rest"}
    <3>1. t.rules[k].match \in {"vk", "max", "ruDomain", "ruIp", "rest"}
      BY <1>0, <1>1, <2>2, WhoIsTaken DEF Takes
    <3>2. d \in ByName
      BY <1>1 DEF ByName, Destinations
    <3> QED BY <2>2, <3>1, <3>2 DEF Takes, AboutAddresses
  <2>4. Goes(t, t.rules[k].tag, Relays)
    BY <2>3, PanelHas DEF PanelRule
  <2> QED BY <1>0, <2>2, <2>4, TagDecides
<1> QED BY <1>1 DEF Has

\* TikTok leaves a panel directly once its rule stands before the rules about Russian names.
LEMMA TiktokLeavesDirectly ==
  ASSUME NEW t, PanelTemplate(t), TiktokFirst(t), NEW d \in {"tiktokRu", "tiktokEdge"}
  PROVE  Egress(t, d) = "internet"
<1>0. Sound(t) /\ \A k \in DOMAIN t.rules : t.rules[k].match \in Matches
  BY PanelHas, TemplateShape DEF RuleType
<1>1. PICK i \in DOMAIN t.rules : /\ t.rules[i].match = "tiktok"
                                  /\ \A k \in DOMAIN t.rules : t.rules[k].match = "ruDomain" => i < k
  BY DEF TiktokFirst
<1>2. Takes(t, d, i)
  BY <1>1, OwnRuleTakes DEF Takes, AboutAddresses
<1>3. PICK k \in DOMAIN t.rules : Takes(t, d, k) /\ EgressTag(t, d) = t.rules[k].tag
                                  /\ \A l \in DOMAIN t.rules : Takes(t, d, l) => k <= l
  BY <1>0, <1>2, FirstRuleDecides
<1>4. t.rules[k].match # "ruDomain"
  <2>1. i \in Nat /\ k \in Nat
    BY <1>0, TemplateShape, LenProperties
  <2> QED BY <1>1, <1>2, <1>3, <2>1
<1>5. t.rules[k].match \in {"tiktok", "rest"}
  <2>1. t.rules[k].match \in {"tiktok", "ruDomain", "ruIp", "rest"}
    BY <1>0, <1>3, WhoIsTaken DEF Takes
  <2>2. d \in ByName
    BY DEF ByName, Destinations
  <2> QED BY <1>3, <1>4, <2>1, <2>2 DEF Takes, AboutAddresses
<1>6. Goes(t, t.rules[k].tag, {"internet"})
  BY <1>5, PanelHas DEF PanelRule
<1>7. Egress(t, d) \in {"internet"}
  BY <1>0, <1>3, <1>6, TagDecides
<1> QED BY <1>7

\* Banks leave a cascade entry in Russia, games abroad.
LEMMA BanksAndGames ==
  ASSUME NEW t, EntryTemplate(t)
  PROVE  /\ Has(t, "banks") => Egress(t, "bankCom") = "internet"
         /\ Has(t, "supercell") => Egress(t, "gameEdge") = "foreign"
<1>0. Sound(t) /\ \A k \in DOMAIN t.rules : t.rules[k].match \in Matches
  BY EntryHas, TemplateShape DEF RuleType
<1>1. ASSUME NEW i \in DOMAIN t.rules, t.rules[i].match = "banks" PROVE Egress(t, "bankCom") = "internet"
  <2>1. Takes(t, "bankCom", i)
    BY <1>1, OwnRuleTakes DEF Takes, AboutAddresses
  <2>2. PICK k \in DOMAIN t.rules : Takes(t, "bankCom", k) /\ EgressTag(t, "bankCom") = t.rules[k].tag
    BY <1>0, <2>1, FirstRuleDecides
  <2>3. t.rules[k].match \in {"banks", "rest"}
    BY <1>0, <2>2, WhoIsTaken DEF Takes
  <2>4. t.rules[k].tag = "direct"
    BY <2>3, EntryHas DEF EntryRule
  <2>5. Goes(t, "direct", {"internet"})
    BY DEF EntryTemplate
  <2>6. Egress(t, "bankCom") \in {"internet"}
    BY <1>0, <2>2, <2>4, <2>5, TagDecides
  <2> QED BY <2>6
<1>2. ASSUME NEW i \in DOMAIN t.rules, t.rules[i].match = "supercell" PROVE Egress(t, "gameEdge") = "foreign"
  <2>1. Takes(t, "gameEdge", i)
    BY <1>2, OwnRuleTakes DEF Takes, AboutAddresses
  <2>2. PICK k \in DOMAIN t.rules : Takes(t, "gameEdge", k) /\ EgressTag(t, "gameEdge") = t.rules[k].tag
    BY <1>0, <2>1, FirstRuleDecides
  <2>3. t.rules[k].match \in {"supercell", "rest"}
    <3>1. t.rules[k].match \in {"supercell", "ruIp", "rest"}
      BY <1>0, <2>2, WhoIsTaken DEF Takes
    <3>2. "gameEdge" \in ByName
      BY DEF ByName, Destinations
    <3> QED BY <2>2, <3>1, <3>2 DEF Takes, AboutAddresses
  <2>4. t.rules[k].tag = ForeignEgressTag(t)
    BY <2>3, EntryHas DEF EntryRule
  <2>5. Goes(t, ForeignEgressTag(t), {"foreign"})
    BY DEF EntryTemplate
  <2>6. Egress(t, "gameEdge") \in {"foreign"}
    BY <1>0, <2>2, <2>4, <2>5, TagDecides
  <2> QED BY <2>6
<1> QED BY <1>1, <1>2 DEF Has

Routes(h, t) ==
  /\ h \in Panels => PanelTemplate(t)
  /\ h = Relay => RelayTemplate(t)
  /\ h \in Entries => EntryTemplate(t)

\* What a host may hold, and what a rule that was reported needs of it.
Carries(h, t) == Routes(h, t) \/ (h \in Panels /\ t = Torn)
Stays(h, t, f) == Routes(h, t) /\ IF h = Relay THEN Cleaned(t) ELSE Pin(t, f)

MayPin == (Panels \X {"vk", "max", "tiktok"}) \cup (Entries \X {"banks", "supercell"})
          \cup ({Relay} \X {"clean"})

\* What is stored and what runs route as the hosts' templates do, or are torn.
Routed ==
  /\ DOMAIN template = Hosts /\ DOMAIN running = Hosts
  /\ \A h \in Hosts : Carries(h, template[h]) /\ Carries(h, running[h])

\* What a command may bring back does as well; a slot that is whole is from before
\* every committed merge, and there is one before there is such a merge.
Saved ==
  /\ DOMAIN backup = Panels /\ DOMAIN before = Panels
  /\ \A h \in Panels :
       /\ backup[h] \in {None, Torn} \cup before[h]
       /\ \A t \in before[h] : PanelTemplate(t)
       /\ h \in merged => backup[h] # None
       /\ h \notin merged => template[h] \in {Torn} \cup before[h]
  /\ exported # None => RelayRoute(exported.outbound, exported.rules)

\* A merge at work has its backup, and a template to write.
Merging ==
  merging # None =>
    /\ merging.host \in Panels /\ backup[merging.host] # None
    /\ PanelTemplate(merging.next)
    /\ merging.keeps => \A f : Stays(merging.host, template[merging.host], f)
                              => Stays(merging.host, merging.next, f)

\* The rules a command reported in place are there, and so is the one about to be reported.
Pinned ==
  /\ pinned \subseteq MayPin
  /\ \A h, f : <<h, f>> \in pinned => Stays(h, template[h], f) /\ Stays(h, running[h], f)
  /\ restarting # None =>
       /\ restarting.host \in Hosts
       /\ restarting.family # None =>
            /\ <<restarting.host, restarting.family>> \in MayPin
            /\ Stays(restarting.host, template[restarting.host], restarting.family)

EgressInv == Routed /\ Saved /\ Merging /\ Pinned

\* A template of a host's kind is there, and not torn.
LEMMA WholeIsNotTorn ==
  ASSUME NEW t, PanelTemplate(t) \/ RelayTemplate(t) \/ EntryTemplate(t)
  PROVE  t # Torn /\ t # None
BY TornAssumption DEF PanelTemplate, RelayTemplate, EntryTemplate, Sound

\* So a panel whose template could be loaded holds one of its kind.
LEMMA ParsedIsWhole ==
  ASSUME EgressInv, NEW h \in Panels, Parses(h)
  PROVE  PanelTemplate(template[h])
BY DEF EgressInv, Routed, Carries, Routes, Parses, Hosts

\* The hosts start with such templates.
LEMMA EgressStart ==
  ASSUME EgressInit
  PROVE  EgressInv
<1>1. DOMAIN template = Hosts /\ running = template /\ \A h \in Hosts : template[h] \in Starting[h]
  BY DEF EgressInit
<1>2. ASSUME NEW h \in Hosts PROVE Routes(h, template[h])
  <2>1. h = Relay => RelayTemplate(template[h])
    BY <1>1, <1>2, SplitIsOne, StartingAssumption
  <2> QED BY <1>1, <2>1, StartingAssumption DEF Routes
<1>3. Routed
  BY <1>1, <1>2 DEF Routed, Carries
<1>4. Saved
  <2>1. \A h \in Panels : PanelTemplate(template[h])
    BY <1>2 DEF Routes, Hosts
  <2>2. /\ backup = [h \in Panels |-> None] /\ before = [h \in Panels |-> {template[h]}]
        /\ merged = {} /\ exported = None
    BY DEF EgressInit
  <2> QED BY <2>1, <2>2 DEF Saved
<1>5. Merging /\ Pinned
  BY DEF Merging, Pinned, EgressInit
<1> QED BY <1>3, <1>4, <1>5 DEF EgressInv

\* What is stored on a host gives way to a template of its kind, or a torn one.  The
\* host keeps the rules reported in place, or they are forgotten.
LEMMA Stores ==
  ASSUME EgressInv, NEW h \in Hosts, NEW t, NEW family,
         Store(h, t, family), Carries(h, t),
         family # None => <<h, family>> \in MayPin /\ Stays(h, t, family),
         running' = running,
         \/ pinned' = pinned /\ \A f : <<h, f>> \in MayPin /\ Stays(h, template[h], f) => Stays(h, t, f)
         \/ Unpin(h)
  PROVE  Routed' /\ Pinned' /\ template'[h] = t
         /\ \A k \in Hosts : k # h => template'[k] = template[k]
<1>1. DOMAIN template' = Hosts /\ template'[h] = t
      /\ \A k \in Hosts : k # h => template'[k] = template[k]
  BY DEF EgressInv, Routed, Store
<1>2. Routed'
  <2>1. \A k \in Hosts : Carries(k, template'[k]) /\ Carries(k, running'[k])
    BY <1>1 DEF EgressInv, Routed
  <2>2. DOMAIN running' = Hosts
    BY DEF EgressInv, Routed
  <2> QED BY <1>1, <2>1, <2>2 DEF Routed, Carries, Routes
<1>3. Pinned'
  <2>1. pinned' \subseteq pinned /\ pinned \subseteq MayPin
    BY DEF Unpin, EgressInv, Pinned
  <2>2. ASSUME NEW k, NEW f, <<k, f>> \in pinned'
        PROVE  Stays(k, template'[k], f) /\ Stays(k, running'[k], f)
    <3>1. Stays(k, template[k], f) /\ Stays(k, running[k], f)
      BY <2>1, <2>2 DEF EgressInv, Pinned
    <3>2. k \in Hosts
      BY <2>1, <2>2 DEF MayPin, Hosts
    <3>3. CASE k # h
      BY <1>1, <3>1, <3>2, <3>3
    <3>4. CASE k = h
      <4>1. CASE pinned' = pinned /\ \A g : <<h, g>> \in MayPin /\ Stays(h, template[h], g) => Stays(h, t, g)
        BY <1>1, <2>1, <2>2, <3>1, <3>4, <4>1
      <4>2. CASE Unpin(h)
        BY <2>2, <3>4, <4>2 DEF Unpin
      <4> QED BY <4>1, <4>2
    <3> QED BY <3>3, <3>4
  <2>3. restarting' = [host |-> h, family |-> family]
    BY DEF Store
  <2>4. restarting'.host = h /\ restarting'.family = family
    BY <2>3
  <2> QED BY <1>1, <2>1, <2>2, <2>4 DEF Pinned, MayPin
<1> QED BY <1>1, <1>2, <1>3

\* A command that commits, with what the history makes of it.
LEMMA Commits ==
  ASSUME EgressInv, NEW h \in Hosts, NEW t, NEW family,
         Commit(h, t, family), Routes(h, t) \/ (h \in Panels /\ t = Torn), merging = None,
         family # None => <<h, family>> \in MayPin /\ Stays(h, t, family),
         UNCHANGED <<running, backup, exported>>,
         \/ pinned' = pinned /\ \A f : <<h, f>> \in MayPin /\ Stays(h, template[h], f) => Stays(h, t, f)
         \/ Unpin(h)
  PROVE  EgressInv'
<1>1. Store(h, t, family) /\ Note(h, t) /\ merging' = None /\ merged' = merged
  BY DEF Commit
<1>2. Routed' /\ Pinned' /\ template'[h] = t /\ \A k \in Hosts : k # h => template'[k] = template[k]
  BY <1>1, Stores DEF Carries
<1>3. Saved'
  <2>1. /\ DOMAIN before' = Panels
        /\ \A k \in Panels : before[k] \subseteq before'[k]
        /\ \A k \in Panels : before'[k] \subseteq before[k] \cup (IF k = h THEN {t} \ {Torn} ELSE {})
        /\ h \in Panels /\ h \notin merged => t \in {Torn} \cup before'[h]
    BY <1>1 DEF Note, EgressInv, Saved
  <2>2. h \in Panels /\ t # Torn => PanelTemplate(t)
    BY DEF Routes
  <2>3. ASSUME NEW k \in Panels
        PROVE  /\ backup'[k] \in {None, Torn} \cup before'[k]
               /\ \A u \in before'[k] : PanelTemplate(u)
               /\ k \in merged' => backup'[k] # None
               /\ k \notin merged' => template'[k] \in {Torn} \cup before'[k]
    <3>1. /\ backup[k] \in {None, Torn} \cup before[k]
          /\ \A u \in before[k] : PanelTemplate(u)
          /\ k \in merged => backup[k] # None
          /\ k \notin merged => template[k] \in {Torn} \cup before[k]
      BY DEF EgressInv, Saved
    <3>2. k \in Hosts /\ before[k] \subseteq before'[k]
      BY <2>1 DEF Hosts
    <3>3. \A u \in before'[k] : PanelTemplate(u)
      BY <2>1, <2>2, <3>1
    <3>4. k \notin merged' => template'[k] \in {Torn} \cup before'[k]
      BY <1>1, <1>2, <2>1, <3>1, <3>2
    <3> QED BY <1>1, <3>1, <3>2, <3>3, <3>4
  <2> QED BY <2>1, <2>3 DEF EgressInv, Saved, PanelTemplate, Sound, Goes
<1>4. Merging'
  BY <1>1 DEF Merging
<1> QED BY <1>2, <1>3, <1>4 DEF EgressInv

\* A merge begins: the slot is as it was, or gets the template, whole or torn.
LEMMA MergeKeeps ==
  ASSUME EgressInv, NEW h \in Panels, NEW next, NEW keeps \in BOOLEAN, Merge(h, next, keeps),
         PanelTemplate(next),
         keeps => \A f : Stays(h, template[h], f) => Stays(h, next, f)
  PROVE  EgressInv'
<1>1. UNCHANGED <<template, running, exported, restarting, pinned, merged, before>> /\ h \in Hosts
  BY DEF Merge, past, Hosts
<1>2. template[h] # Torn /\ template[h] # None /\ (h \notin merged => template[h] \in before[h])
  BY ParsedIsWhole, WholeIsNotTorn DEF Merge, EgressInv, Saved
<1>3. \/ backup[h] = None /\ backup' = [backup EXCEPT ![h] = Torn] /\ merging' = None
      \/ /\ backup' = [backup EXCEPT ![h] = IF backup[h] = None THEN template[h] ELSE backup[h]]
         /\ merging' = [host |-> h, next |-> next, keeps |-> keeps]
  BY DEF Merge, BackupOnce
<1>4. backup[h] = None => h \notin merged
  BY DEF EgressInv, Saved
<1>5. PICK slot : backup' = [backup EXCEPT ![h] = slot] /\ slot \in {Torn} \cup before[h] /\ slot # None
  <2>1. CASE backup[h] = None /\ backup' = [backup EXCEPT ![h] = Torn]
    BY <2>1, TornAssumption
  <2>2. CASE backup' = [backup EXCEPT ![h] = IF backup[h] = None THEN template[h] ELSE backup[h]]
    <3>1. CASE backup[h] = None
      BY <1>2, <1>4, <2>2, <3>1
    <3>2. CASE backup[h] # None
      BY <2>2, <3>2 DEF EgressInv, Saved
    <3> QED BY <3>1, <3>2
  <2> QED BY <1>3, <2>1, <2>2
<1>6. Saved'
  <2>1. DOMAIN backup' = Panels /\ backup'[h] = slot /\ \A k \in Panels : k # h => backup'[k] = backup[k]
    BY <1>5 DEF EgressInv, Saved
  <2>2. ASSUME NEW k \in Panels
        PROVE  backup'[k] \in {None, Torn} \cup before[k] /\ (k \in merged => backup'[k] # None)
    BY <1>5, <2>1 DEF EgressInv, Saved
  <2> QED BY <1>1, <2>1, <2>2 DEF EgressInv, Saved
<1>7. Merging'
  <2>1. backup'[h] # None
    BY <1>5 DEF EgressInv, Saved
  <2>2. CASE merging' = None
    BY <2>2 DEF Merging
  <2>3. CASE merging' = [host |-> h, next |-> next, keeps |-> keeps]
    <3>1. merging'.host = h /\ merging'.next = next /\ merging'.keeps = keeps
      BY <2>3
    <3> QED BY <1>1, <2>1, <3>1 DEF Merging
  <2> QED BY <1>3, <2>2, <2>3
<1>8. Routed' /\ Pinned'
  BY <1>1 DEF EgressInv, Routed, Pinned
<1> QED BY <1>6, <1>7, <1>8 DEF EgressInv

\* And it commits: from now on the panel has a slot that is older than the merge.
LEMMA CommitMergeKeeps == ASSUME EgressInv, CommitMerge PROVE EgressInv'
<1>1. PICK h, next, keeps : h = merging.host /\ next = merging.next /\ keeps = merging.keeps
  OBVIOUS
<1>2. /\ h \in Panels /\ backup[h] # None /\ PanelTemplate(next)
      /\ keeps => \A f : Stays(h, template[h], f) => Stays(h, next, f)
  BY <1>1 DEF CommitMerge, EgressInv, Merging
<1>3. /\ Store(h, next, None) /\ merged' = merged \cup {h} /\ merging' = None
      /\ UNCHANGED <<running, backup, exported, before>>
      /\ IF keeps THEN pinned' = pinned ELSE Unpin(h)
  BY <1>1 DEF CommitMerge
<1>4. h \in Hosts /\ Carries(h, next)
  BY <1>2, HostsAssumption DEF Hosts, Carries, Routes
<1>5. Routed' /\ Pinned' /\ template'[h] = next /\ \A k \in Hosts : k # h => template'[k] = template[k]
  BY <1>2, <1>3, <1>4, Stores
<1>6. Saved'
  <2>1. ASSUME NEW k \in Panels
        PROVE  (k \in merged' => backup[k] # None) /\ (k \notin merged' => template'[k] = template[k])
    BY <1>2, <1>3, <1>5 DEF EgressInv, Saved, Hosts
  <2> QED BY <1>3, <2>1 DEF EgressInv, Saved
<1> QED BY <1>3, <1>5, <1>6 DEF EgressInv, Merging

\* The commands on a panel.
LEMMA PanelCommands ==
  ASSUME EgressInv, NEW h \in Panels,
         \/ Apply(h) \/ Export(h) \/ Import(h) \/ Repoint(h) \/ Revert(h)
         \/ ApplyFamily(h, "vk") \/ ApplyFamily(h, "max") \/ ApplyTiktok(h)
         \/ FixSniffing(h)
  PROVE  EgressInv'
<1>1. h \in Hosts /\ h # Relay /\ h \notin Entries /\ merging = None
  BY HostsAssumption DEF Hosts, Apply, Export, Import, Repoint, Revert, ApplyFamily, ApplyTiktok,
                         FixSniffing, Merge, Command
<1>2. PICK t : t = template[h]
  OBVIOUS
<1>3. Parses(h) => PanelTemplate(t)
  BY <1>2, ParsedIsWhole
<1>4. \A u : PanelTemplate(u) => Routes(h, u) /\ \A f : Stays(h, u, f) <=> Pin(u, f)
  BY <1>1 DEF Routes, Stays
<1>5. CASE Apply(h)
  <2>1. PICK u : u = MergeRuRouting(t)
    OBVIOUS
  <2>2. Merge(h, u, FALSE) /\ PanelTemplate(t)
    BY <1>2, <1>3, <1>5, <2>1 DEF Apply, Merge
  <2>3. PanelTemplate(u)
    <3>1. u = ReplaceRoute(t, RelayOutbound, RuRules)
      BY <2>1 DEF MergeRuRouting
    <3> QED BY <2>2, <3>1, RuRoute, RouteReplaced
  <2> QED BY <2>2, <2>3, MergeKeeps
<1>6. CASE Export(h)
  <2>0. PanelTemplate(t)
    BY <1>3, <1>6 DEF Export
  <2>1. UNCHANGED <<template, running, backup, merging, restarting, pinned, merged, before>>
    BY <1>6 DEF Export, ready, past
  <2>2. PICK n : n \in Nat /\ n = Len(t.outs)
    BY <2>0, PanelHas, TemplateShape, LenProperties
  <2>3. PICK O : O = {k \in 1 .. n : t.outs[k].tag = "ru-relay"}
    OBVIOUS
  <2>4. PICK new : new = RulesOf(t, "ru-relay")
    OBVIOUS
  <2>5. O # {} /\ exported' = [outbound |-> t.outs[Min(O)], rules |-> new]
    <3> DEFINE P   == {k \in 1 .. Len(t.outs) : t.outs[k].tag = "ru-relay"}
               out == IF P # {} THEN Min(P) ELSE 0
    <3>1. out # 0 /\ exported' = [outbound |-> t.outs[out], rules |-> RulesOf(t, "ru-relay")]
      BY Zenon, <1>2, <1>6 DEF Export, SelectInSeq
    <3>2. P = O
      BY <2>2, <2>3
    <3> HIDE DEF P
    <3> QED BY <2>4, <3>1, <3>2
  <2>6. RelayRoute(t.outs[Min(O)], new)
    BY <2>0, <2>2, <2>3, <2>4, <2>5, Exports
  <2>7. RelayRoute(exported'.outbound, exported'.rules)
    BY <2>5, <2>6
  <2>8. Routed' /\ Pinned' /\ Merging'
    BY <2>1 DEF EgressInv, Routed, Pinned, Merging
  <2>9. Saved'
    BY <2>1, <2>7 DEF EgressInv, Saved
  <2> QED BY <2>8, <2>9 DEF EgressInv
<1>7. CASE Import(h)
  <2>1. PICK u : u = ApplyExportedRouting(t, exported)
    OBVIOUS
  <2>2. Merge(h, u, FALSE) /\ PanelTemplate(t)
    BY <1>2, <1>3, <1>7, <2>1 DEF Import, Merge
  <2>3. PanelTemplate(u)
    <3>1. u = ReplaceRoute(t, exported.outbound, exported.rules)
      BY <2>1 DEF ApplyExportedRouting
    <3>2. RelayRoute(exported.outbound, exported.rules)
      BY <1>7 DEF Import, EgressInv, Saved
    <3> QED BY <2>2, <3>1, <3>2, RouteReplaced
  <2> QED BY <2>2, <2>3, MergeKeeps
<1>8. CASE Repoint(h)
  <2>1. PICK u : u = RepointRelayOutbound(t, "ru-relay")
    OBVIOUS
  <2>2. Merge(h, u, TRUE) /\ PanelTemplate(t)
    BY <1>2, <1>3, <1>8, <2>1 DEF Repoint
  <2>3. PanelTemplate(u) /\ \A f : Pin(t, f) => Pin(u, f)
    BY <1>2, <1>8, <2>1, <2>2, Repoints DEF Repoint
  <2> QED BY <1>2, <1>4, <2>2, <2>3, MergeKeeps
<1>9. CASE Revert(h)
  <2>1. Routes(h, backup[h]) \/ (h \in Panels /\ backup[h] = Torn)
    BY <1>4, <1>9 DEF Revert, EgressInv, Saved
  <2>2. Commit(h, backup[h], None) /\ UNCHANGED <<running, backup, exported>> /\ Unpin(h)
    BY <1>9 DEF Revert
  <2> QED BY <1>1, <2>1, <2>2, Commits
<1>10. ASSUME NEW family \in {"vk", "max"}, ApplyFamily(h, family) PROVE EgressInv'
  <2>1. PICK tag : tag = DetectRelayTag(t)
    OBVIOUS
  <2>2. PICK u : u = MergeDomainFamily(t, family, tag)
    OBVIOUS
  <2>3. tag # None /\ Commit(h, u, family) /\ pinned' = pinned /\ UNCHANGED <<running, backup, exported>>
    BY Zenon, <1>2, <1>10, <2>1, <2>2 DEF ApplyFamily
  <2>4. PanelTemplate(t)
    BY <1>3, <1>10 DEF ApplyFamily
  <2>5. PanelTemplate(u) /\ Pin(u, family) /\ \A f : Pin(t, f) => Pin(u, f)
    BY <2>1, <2>2, <2>3, <2>4, FamilyMerge
  <2>6. <<h, family>> \in MayPin
    BY DEF MayPin
  <2>7. Routes(h, u) /\ Stays(h, u, family) /\ \A f : Stays(h, template[h], f) => Stays(h, u, f)
    BY <1>2, <1>4, <2>4, <2>5
  <2> QED BY <1>1, <2>3, <2>6, <2>7, Commits
<1>11. CASE ApplyTiktok(h)
  <2>1. PICK tag : tag = DetectDirectTag(t)
    OBVIOUS
  <2>2. PICK u : u = MergeTiktokDirect(t, tag)
    OBVIOUS
  <2>3. tag \in TagsOf(t) /\ Commit(h, u, "tiktok") /\ pinned' = pinned
        /\ UNCHANGED <<running, backup, exported>>
    BY Zenon, <1>2, <1>11, <2>1, <2>2 DEF ApplyTiktok
  <2>4. PanelTemplate(t)
    BY <1>3, <1>11 DEF ApplyTiktok
  <2>5. PanelTemplate(u) /\ Pin(u, "tiktok") /\ \A f : Pin(t, f) => Pin(u, f)
    BY <2>1, <2>2, <2>3, <2>4, TiktokMerge
  <2>6. <<h, "tiktok">> \in MayPin
    BY DEF MayPin
  <2>7. Routes(h, u) /\ Stays(h, u, "tiktok") /\ \A f : Stays(h, template[h], f) => Stays(h, u, f)
    BY <1>2, <1>4, <2>4, <2>5
  <2> QED BY <1>1, <2>3, <2>6, <2>7, Commits
<1>12. CASE FixSniffing(h)
  <2>1. UNCHANGED <<template, running, backup, exported, pinned, merging, merged, before>>
        /\ restarting' = [host |-> h, family |-> None]
    BY <1>12 DEF FixSniffing, Restarts, past
  <2>2. Routed' /\ Saved' /\ Merging'
    BY <2>1 DEF EgressInv, Routed, Saved, Merging
  <2>3. Pinned'
    BY <1>1, <2>1 DEF EgressInv, Pinned
  <2> QED BY <2>2, <2>3 DEF EgressInv
<1> QED BY <1>5, <1>6, <1>7, <1>8, <1>9, <1>10, <1>11, <1>12

\* The commands on the relay, and reset-logs on any host with a panel.
LEMMA RelayCommands ==
  ASSUME EgressInv,
         \/ \E h \in XuiHosts : ResetLogs(h)
         \/ CleanRelay \/ CleanRelayAgain \/ SetupRelay
  PROVE  EgressInv'
<1>1. Relay \in Hosts /\ Relay \notin Panels /\ Relay \notin Entries
  BY HostsAssumption DEF Hosts
<1>2. \A u : RelayTemplate(u) => Routes(Relay, u) /\ \A f : Stays(Relay, u, f) <=> Cleaned(u)
  BY <1>1 DEF Routes, Stays
<1>3. RelayTemplate(template[Relay])
  BY <1>1 DEF EgressInv, Routed, Carries, Routes
<1>4. ASSUME NEW h \in XuiHosts, ResetLogs(h) PROVE EgressInv'
  <2>1. h \in Hosts
    BY DEF XuiHosts, Hosts
  <2>2. PICK t : t = template[h]
    OBVIOUS
  <2>3. PICK u : u = [t EXCEPT !.diagLog = TRUE]
    OBVIOUS
  <2>4. Commit(h, u, None) /\ pinned' = pinned /\ merging = None /\ UNCHANGED <<running, backup, exported>>
    BY <1>4, <2>2, <2>3 DEF ResetLogs, Command
  <2>5. Routes(h, u) /\ \A f : Stays(h, t, f) => Stays(h, u, f)
    <3>1. CASE h \in Panels
      <4>1. PanelTemplate(t)
        BY <1>4, <2>2, <3>1, ParsedIsWhole DEF ResetLogs
      <4>2. h # Relay /\ h \notin Entries
        BY <3>1, HostsAssumption
      <4> QED BY <2>3, <4>1, <4>2, PanelLogs DEF Routes, Stays
    <3>2. CASE h = Relay
      <4>1. RelayTemplate(u) /\ (Cleaned(t) => Cleaned(u))
        BY <1>3, <2>2, <2>3, <3>2, RelayLogs
      <4> QED BY <1>2, <1>3, <2>2, <3>2, <4>1
    <3> QED BY <3>1, <3>2 DEF XuiHosts
  <2> QED BY <2>1, <2>2, <2>4, <2>5, Commits
<1>5. CASE CleanRelay
  <2>1. PICK u : u = CleanRelayRouting(template[Relay], "relay-to-helsinki")
    OBVIOUS
  <2>2. Commit(Relay, u, "clean") /\ pinned' = pinned /\ merging = None
        /\ UNCHANGED <<running, backup, exported>>
    BY <1>5, <2>1 DEF CleanRelay, Command
  <2>3. RelayTemplate(u) /\ Cleaned(u)
    BY <1>3, <2>1, RelayCleaned
  <2>4. Routes(Relay, u) /\ \A f : Stays(Relay, u, f)
    BY <1>2, <2>3
  <2>5. <<Relay, "clean">> \in MayPin
    BY DEF MayPin
  <2> QED BY <1>1, <2>2, <2>4, <2>5, Commits
<1>6. CASE CleanRelayAgain
  BY <1>6 DEF CleanRelayAgain, ready, past, EgressInv, Routed, Saved, Merging, Pinned
<1>7. CASE SetupRelay
  <2>1. PICK u : u = SplitTemplate
    OBVIOUS
  <2>2. Commit(Relay, u, None) /\ Unpin(Relay) /\ merging = None /\ UNCHANGED <<running, backup, exported>>
    BY <1>7, <2>1 DEF SetupRelay, Command
  <2>3. Routes(Relay, u)
    BY <1>2, <2>1, SplitIsOne
  <2> QED BY <1>1, <2>2, <2>3, Commits
<1> QED BY <1>4, <1>5, <1>6, <1>7

\* The scripts of the cascade entries.
LEMMA EntryCommands ==
  ASSUME EgressInv, NEW h \in Entries, ApplyBanks(h) \/ ApplySupercell(h)
  PROVE  EgressInv'
<1>1. h \in Hosts /\ h # Relay /\ h \notin Panels /\ merging = None
  BY HostsAssumption DEF Hosts, ApplyBanks, ApplySupercell, CascadeApply, Command
<1>2. PICK t : t = template[h]
  OBVIOUS
<1>3. EntryTemplate(t)
  BY <1>1, <1>2 DEF EgressInv, Routed, Carries, Routes
<1>4. ASSUME NEW family \in {"banks", "supercell"}, NEW u, CascadeApply(h, family, u),
             EntryTemplate(u), Has(u, family), \A f : Has(t, f) => Has(u, f)
      PROVE  EgressInv'
  <2>1. pinned' = pinned /\ UNCHANGED <<running, backup, exported>>
    BY <1>4 DEF CascadeApply
  <2>2. CASE Commit(h, u, family)
    <3>1. Routes(h, u) /\ <<h, family>> \in MayPin /\ Stays(h, u, family)
      BY <1>1, <1>4 DEF Routes, MayPin, Stays, Pin
    <3>2. \A f : f # "tiktok" /\ Stays(h, template[h], f) => Stays(h, u, f)
      BY <1>1, <1>2, <1>4, <3>1 DEF Stays, Pin
    <3>3. \A f : <<h, f>> \in MayPin => f # "tiktok"
      BY <1>1 DEF MayPin
    <3> QED BY <1>1, <2>1, <2>2, <3>1, <3>2, <3>3, Commits
  <2>3. CASE UNCHANGED <<template, ready, past>>
    BY <2>1, <2>3 DEF ready, past, EgressInv, Routed, Saved, Merging, Pinned
  <2> QED BY <1>4, <2>2, <2>3 DEF CascadeApply
<1>5. CASE ApplyBanks(h)
  <2>1. PICK u : u = MergeBanksDirect(t)
    OBVIOUS
  <2>2. CascadeApply(h, "banks", u)
    BY <1>2, <1>5, <2>1 DEF ApplyBanks
  <2>3. EntryTemplate(u) /\ Has(u, "banks") /\ \A f : Has(t, f) => Has(u, f)
    BY <1>3, <2>1, BanksMerge
  <2> QED BY <1>4, <2>2, <2>3
<1>6. CASE ApplySupercell(h)
  <2>1. PICK u : u = MergeSupercellEgress(t)
    OBVIOUS
  <2>2. CascadeApply(h, "supercell", u)
    BY <1>2, <1>6, <2>1 DEF ApplySupercell
  <2>3. EntryTemplate(u) /\ Has(u, "supercell") /\ \A f : Has(t, f) => Has(u, f)
    BY <1>3, <2>1, SupercellMerge
  <2> QED BY <1>4, <2>2, <2>3
<1> QED BY <1>5, <1>6

\* Restarts: xray runs what is stored, or the command never comes to that.
LEMMA RestartsKeep ==
  ASSUME EgressInv,
         Restart \/ Interrupted \/ \E h \in XuiHosts : XuiRestarted(h)
  PROVE  EgressInv'
<1>0. ASSUME NEW h \in Hosts, running' = [running EXCEPT ![h] = template[h]], template' = template
      PROVE  /\ Routed'
             /\ \A k, f : <<k, f>> \in MayPin /\ Stays(k, template[k], f)
                           /\ (k # h => Stays(k, running[k], f)) => Stays(k, running'[k], f)
  <2>1. DOMAIN running' = Hosts /\ running'[h] = template[h]
        /\ \A k \in Hosts : k # h => running'[k] = running[k]
    BY <1>0 DEF EgressInv, Routed
  <2>2. \A k \in Hosts : Carries(k, template'[k]) /\ Carries(k, running'[k])
    BY <1>0, <2>1 DEF EgressInv, Routed
  <2>3. Routed'
    BY <1>0, <2>1, <2>2 DEF EgressInv, Routed, Carries, Routes
  <2>4. \A k, f : <<k, f>> \in MayPin => k \in Hosts
    BY DEF MayPin, Hosts
  <2> QED BY <2>1, <2>3, <2>4
<1>1. CASE Restart
  <2>1. PICK h : h = restarting.host
    OBVIOUS
  <2>2. /\ h \in Hosts
        /\ running' = [running EXCEPT ![h] = template[h]] /\ restarting' = None
        /\ UNCHANGED <<template, backup, exported, merging, merged, before>>
        /\ pinned' = IF restarting.family = None THEN pinned ELSE pinned \cup {<<h, restarting.family>>}
    BY <1>1, <2>1 DEF Restart, EgressInv, Pinned, past
  <2>3. Routed'
    BY <1>0, <2>2
  <2>4. \A p \in pinned' : p \in pinned \/ (p = <<h, restarting.family>> /\ restarting.family # None)
    BY <2>2
  <2>5. restarting.family # None =>
          <<h, restarting.family>> \in MayPin /\ Stays(h, template[h], restarting.family)
    BY <1>1, <2>1 DEF Restart, EgressInv, Pinned
  <2>6. pinned' \subseteq MayPin
    BY <2>4, <2>5 DEF EgressInv, Pinned
  <2>7. ASSUME NEW k, NEW f, <<k, f>> \in pinned'
        PROVE  Stays(k, template[k], f) /\ Stays(k, running'[k], f)
    <3>1. <<k, f>> \in pinned \/ (k = h /\ f = restarting.family /\ restarting.family # None)
      BY <2>4, <2>7
    <3>2. Stays(k, template[k], f) /\ (k # h => Stays(k, running[k], f))
      BY <2>5, <3>1 DEF EgressInv, Pinned
    <3> QED BY <1>0, <2>2, <2>6, <2>7, <3>2
  <2>8. Pinned'
    BY <2>2, <2>6, <2>7 DEF Pinned
  <2>9. Saved' /\ Merging'
    BY <2>2 DEF EgressInv, Saved, Merging
  <2> QED BY <2>3, <2>8, <2>9 DEF EgressInv
<1>2. CASE Interrupted
  BY <1>2 DEF Interrupted, past, EgressInv, Routed, Saved, Merging, Pinned
<1>3. ASSUME NEW h \in XuiHosts, XuiRestarted(h) PROVE EgressInv'
  <2>1. /\ h \in Hosts
        /\ running' = [running EXCEPT ![h] = template[h]]
        /\ UNCHANGED <<template, backup, exported, merging, merged, before, pinned, restarting>>
    BY <1>3 DEF XuiRestarted, XuiHosts, Hosts, ready, past
  <2>2. Routed'
    BY <1>0, <2>1
  <2>3. \A k, f : <<k, f>> \in pinned => Stays(k, template[k], f) /\ Stays(k, running'[k], f)
    BY <1>0, <2>1 DEF EgressInv, Pinned
  <2>4. Pinned'
    BY <2>1, <2>3 DEF EgressInv, Pinned
  <2>5. Saved' /\ Merging'
    BY <2>1 DEF EgressInv, Saved, Merging
  <2> QED BY <2>2, <2>4, <2>5 DEF EgressInv
<1> QED BY <1>1, <1>2, <1>3

\* Every step keeps it.
LEMMA EgressStep ==
  ASSUME EgressInv, [EgressNext]_egressVars
  PROVE  EgressInv'
<1>1. CASE UNCHANGED egressVars
  BY <1>1 DEF egressVars, EgressInv, Routed, Saved, Merging, Pinned
<1>2. CASE EgressNext
  BY <1>2, PanelCommands, CommitMergeKeeps, RelayCommands, EntryCommands, RestartsKeep DEF EgressNext
<1> QED BY <1>1, <1>2

(***************************************************************************)
(* The inductive invariant of the routing: what is stored, saved, exported *)
(* and running routes as the templates of the hosts do, and the rules that *)
(* commands reported in place are there, TikTok's before the rules about   *)
(* Russian names.                                                          *)
(***************************************************************************)
THEOREM EgressIsRouted == EgressSpec => []EgressInv
<1>1. EgressInit => EgressInv
  BY EgressStart
<1>2. EgressInv /\ [EgressNext]_egressVars => EgressInv'
  BY EgressStep
<1> QED BY <1>1, <1>2, PTL DEF EgressSpec

\* With one relay's tag at most, one outbound at most leads to a relay.
LEMMA RelaysAreFew ==
  ASSUME NEW t, Sound(t), Cardinality(RelaysOf(t)) <= 1
  PROVE  OneRelay(t)
<1>0. t.outs \in Seq(OutType)
  BY TemplateShape
<1>n. PICK n : n \in Nat /\ DOMAIN t.outs = 1 .. n
  BY <1>0, LenProperties
<1>1. IsFiniteSet(TagsOf(t))
  <2>1. IsFiniteSet(DOMAIN t.outs)
    BY <1>n, FS_Interval, 1 \in Int, n \in Int
  <2>2. TagsOf(t) = {t.outs[i].tag : i \in DOMAIN t.outs}
    BY DEF TagsOf
  <2>3. PICK f : f = [i \in DOMAIN t.outs |-> t.outs[i].tag]
    OBVIOUS
  <2>4. f \in Surjection(DOMAIN t.outs, TagsOf(t))
    BY <2>2, <2>3 DEF Surjection
  <2> QED BY <2>1, <2>4, FS_Surjection
<1>2. PICK R : R = RelaysOf(t)
  OBVIOUS
<1>3. IsFiniteSet(R) /\ Cardinality(R) <= 1
  <2>1. R \subseteq TagsOf(t)
    BY <1>2 DEF RelaysOf
  <2> QED BY <1>1, <1>2, <2>1, FS_Subset
<1>4. \A a, b \in R : a = b
  <2>1. Cardinality(R) = 0 \/ Cardinality(R) = 1
    BY <1>3, FS_CardinalityType
  <2>2. CASE Cardinality(R) = 0
    BY <1>3, <2>2, FS_EmptySet
  <2>3. CASE Cardinality(R) = 1
    BY <1>3, <2>3, FS_Singleton
  <2> QED BY <2>1, <2>2, <2>3
<1>5. \A i \in DOMAIN t.outs : t.outs[i].to \in Relays => t.outs[i].tag \in R
  BY <1>2, Leads DEF RelaysOf, TagsOf
<1>6. ASSUME NEW i \in DOMAIN t.outs, NEW k \in DOMAIN t.outs,
             t.outs[i].to \in Relays, t.outs[k].to \in Relays
      PROVE  i = k
  <2>1. t.outs[i].tag = t.outs[k].tag
    BY <1>4, <1>5, <1>6
  <2> QED BY <2>1 DEF Sound
<1> QED BY <1>6 DEF OneRelay

\* What the invariant says of the running templates decides where the families leave.
LEMMA KeepTheirEgress ==
  ASSUME EgressInv
  PROVE  FamiliesKeepTheirEgress
<1>1. ASSUME NEW p \in pinned, p[1] # Relay, Cardinality(RelaysOf(running[p[1]])) <= 1
      PROVE  CASE p[2] = "vk"     -> Egress(running[p[1]], "vkSite") \in Relays
               [] p[2] = "max"    -> Egress(running[p[1]], "maxSite") \in Relays
               [] p[2] = "tiktok" -> \A d \in {"tiktokRu", "tiktokEdge"} : Egress(running[p[1]], d) = "internet"
               [] p[2] = "banks"  -> Egress(running[p[1]], "bankCom") = "internet"
               [] OTHER           -> Egress(running[p[1]], "gameEdge") = "foreign"
  <2>1. p \in MayPin
    BY DEF EgressInv, Pinned
  <2>2. PICK h, f : p = <<h, f>> /\ p[1] = h /\ p[2] = f
    BY <2>1 DEF MayPin
  <2>3. PICK t : t = running[h]
    OBVIOUS
  <2>4. Pin(t, f) /\ Routes(h, t)
    BY <1>1, <2>2, <2>3 DEF EgressInv, Pinned, Stays
  <2>5. CASE h \in Panels /\ f \in {"vk", "max", "tiktok"}
    <3>1. PanelTemplate(t)
      BY <2>4, <2>5 DEF Routes
    <3>2. OneRelay(t)
      BY <1>1, <2>2, <2>3, <3>1, RelaysAreFew, PanelHas
    <3>3. CASE f = "vk"
      BY <2>2, <2>3, <2>4, <3>1, <3>3, VkAndMaxReachARelay DEF Pin
    <3>4. CASE f = "max"
      BY <2>2, <2>3, <2>4, <3>1, <3>4, VkAndMaxReachARelay DEF Pin
    <3>5. CASE f = "tiktok"
      <4>1. TiktokFirst(t)
        BY <2>4, <3>2, <3>5 DEF Pin
      <4>2. \A d \in {"tiktokRu", "tiktokEdge"} : Egress(t, d) = "internet"
        BY <3>1, <4>1, TiktokLeavesDirectly
      <4> QED BY <2>2, <2>3, <3>5, <4>2
    <3> QED BY <2>5, <3>3, <3>4, <3>5
  <2>6. CASE h \in Entries /\ f \in {"banks", "supercell"}
    <3>1. EntryTemplate(t)
      BY <2>4, <2>6 DEF Routes
    <3> QED BY <2>2, <2>3, <2>4, <2>6, <3>1, BanksAndGames DEF Pin
  <2> QED BY <1>1, <2>1, <2>2, <2>5, <2>6 DEF MayPin
<1> QED BY <1>1 DEF FamiliesKeepTheirEgress

(***************************************************************************)
(* A family whose own rule a command reported in place keeps its egress in *)
(* the running xray, for any panels, cascade entries, starting templates   *)
(* of that kind and any number of commands, killed ones included.          *)
(***************************************************************************)
THEOREM FamiliesAlwaysKeepTheirEgress ==
  EgressSpec => []FamiliesKeepTheirEgress
<1>1. EgressInv => FamiliesKeepTheirEgress
  BY KeepTheirEgress
<1> QED BY <1>1, EgressIsRouted, PTL

\* And where a cleaned relay sends what a panel sends it.
LEMMA RoutesEnd ==
  ASSUME EgressInv
  PROVE  EveryRouteEnds
<1>1. ASSUME <<Relay, "clean">> \in pinned, NEW h \in Panels, NEW d \in Destinations,
             running[h] # Torn, Egress(running[h], d) = Relay
      PROVE  Egress(running[Relay], d) = "internet"
  <2>1. PanelTemplate(running[h])
    BY <1>1 DEF EgressInv, Routed, Carries, Routes, Hosts
  <2>2. d # "api"
    BY <1>1, <2>1, ApiStays
  <2>3. RelayTemplate(running[Relay]) /\ Cleaned(running[Relay])
    BY <1>1 DEF EgressInv, Pinned, Stays, Routes
  <2> QED BY <2>2, <2>3, CleanGoesOut
<1> QED BY <1>1 DEF EveryRouteEnds

(***************************************************************************)
(* From the restart that ends clean-relay until the next setup, whatever a *)
(* running panel sends to the relay leaves the running relay in Russia: no *)
(* traffic circles between them, whatever templates the panels started     *)
(* with and whichever commands ran, or were cut, on them and on the relay. *)
(***************************************************************************)
THEOREM EveryRouteAlwaysEnds ==
  EgressSpec => []EveryRouteEnds
<1>1. EgressInv => EveryRouteEnds
  BY RoutesEnd
<1> QED BY <1>1, EgressIsRouted, PTL

(***************************************************************************)
(* revert, where its file was written whole, brings back a template from   *)
(* before every merge that was committed on the panel, whatever was cut,   *)
(* merged and reverted since: a merge commits only once there is a slot,   *)
(* and a slot is filled only where no merge was committed.                 *)
(***************************************************************************)
THEOREM RevertGoesBehindEveryMerge ==
  EgressSpec => RevertUndoesEveryMerge
<1>1. EgressInv => \A h \in Panels : Revert(h) /\ backup[h] # Torn => template'[h] \in before[h]
  <2>1. ASSUME EgressInv, NEW h \in Panels, Revert(h), backup[h] # Torn PROVE template'[h] \in before[h]
    BY <2>1 DEF Revert, Commit, Store, EgressInv, Routed, Saved, Hosts
  <2> QED BY <2>1
<1>2. EgressInv /\ [EgressNext]_egressVars
      => [\A h \in Panels : Revert(h) /\ backup[h] # Torn => template'[h] \in before[h]]_egressVars
  BY <1>1
<1> QED BY <1>2, EgressIsRouted, PTL DEF EgressSpec, RevertUndoesEveryMerge
=============================================================================
