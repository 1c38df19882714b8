--------------------------- MODULE ProviderCalls ---------------------------
(***************************************************************************)
(* The calls of one process to XuiVlessProvider, interleaved at their      *)
(* awaits: the cache of user configurations with its epochs, the user      *)
(* locks and their eviction, the background refresh, the list of panel     *)
(* clients that is rebuilt every ten minutes, and XuiApiClient's rewrite   *)
(* of an inbound (GET the client list, change it, POST it back), which a   *)
(* v3 panel needs for every add and delete.                                *)
(*                                                                         *)
(* VlessPanels has what such a call does as one step; here is what happens *)
(* between its steps.  Only the existence of a client is kept: it is what  *)
(* the probe behind /sub/ looks at, and what a lost rewrite destroys.      *)
(***************************************************************************)
EXTENDS Naturals, Sequences, FiniteSets

CONSTANTS
  Users,
  Importing,      \* those whose app fetches its subscription
  Servers,        \* the xui inbounds, each on a panel of its own
  Workers,        \* calls in progress besides the background refreshes
  NoLock, NoUser, NoCopy,
  MaxLocks,       \* the size at which _user_locks is replaced (1000 in the code)
  MaxChanges,     \* bound: create, activate, revoke, delete and reconcile calls
  MaxRebuilds,    \* bound: times the list of panel clients goes out of date
  MaxFaults       \* bound: calls to a panel or the database that fail

ASSUME BoundsAssumption ==
  /\ Users # {} /\ IsFiniteSet(Users) /\ IsFiniteSet(Workers)
  /\ Users \cap Workers = {}
  /\ Importing \subseteq Users /\ NoUser \notin Users
  /\ MaxLocks \in Nat /\ MaxChanges \in Nat /\ MaxRebuilds \in Nat /\ MaxFaults \in Nat

VARIABLES
  store,      \* the client list of every inbound, on the panel
  cache,      \* _config_cache
  epoch,      \* _cache_epoch
  lock,       \* _user_locks: the holder and then the waiters of a user's lock
  dropped,    \* the same of locks that are no longer in the dictionary
  rebuilt,    \* how often the panel clients were rebuilt; each time with new locks
  outdated,   \* the list of panel clients is older than its time to live
  op,         \* the calls
  changes, faults

vars == <<store, cache, epoch, lock, dropped, rebuilt, outdated, op, changes, faults>>
caching == <<cache, epoch>>
locking == <<lock, dropped>>

\* A background refresh is the task named after its user: _refreshing admits one.
Tasks == Workers \cup Users

NoEntry == [age |-> "none", found |-> {}, epoch |-> 0]
Idle == [pc |-> "idle", user |-> NoUser, kind |-> "none", epoch |-> 0,
         built |-> 0, left |-> [s \in Servers |-> <<>>],
         copy |-> [s \in Servers |-> NoCopy], found |-> {}]

Init ==
  /\ store \in [Servers -> {{}, Users}]
  /\ cache = [u \in Users |-> NoEntry]
  /\ epoch = [u \in Users |-> 0]
  /\ lock = [u \in Users |-> NoLock]
  /\ dropped = {}
  /\ rebuilt = 0 /\ outdated = FALSE
  /\ op = [t \in Tasks |-> Idle]
  /\ changes = 0 /\ faults = 0

-----------------------------------------------------------------------------
(* The user locks: asyncio.Lock serves its waiters in order.               *)

Lines == {lock[u] : u \in {v \in Users : lock[v] # NoLock}} \cup dropped

Holds(t)    == \E line \in Lines : line # <<>> /\ Head(line) = t
Free(u)     == lock[u] \in {NoLock, <<>>}

\* _user_lock, then `async with`: when the dictionary has grown too large it is
\* replaced, whatever is going on under the other locks.
Enqueue(t, u) ==
  LET with   == [lock EXCEPT ![u] = IF @ = NoLock THEN <<t>> ELSE Append(@, t)]
      large  == Cardinality({v \in Users : with[v] # NoLock}) > MaxLocks
      others == {lock[v] : v \in Users \ {u}} \ {NoLock, <<>>}
  IN  IF Free(u) /\ large
        THEN /\ lock' = [v \in Users |-> IF v = u THEN <<t>> ELSE NoLock]
             /\ dropped' = dropped \cup others
        ELSE lock' = with /\ UNCHANGED dropped

\* Whoever leaves holds the lock, and the first of the waiters gets it.
Rest(t, line) == IF line # <<>> /\ Head(line) = t THEN Tail(line) ELSE line

ReleaseFromTable(t) ==
  /\ lock' = [u \in Users |-> IF lock[u] # NoLock THEN Rest(t, lock[u]) ELSE NoLock]
  /\ UNCHANGED dropped

\* A call releases the lock object it took, which may have left the dictionary.
Release(t) ==
  /\ lock' = [u \in Users |-> IF lock[u] # NoLock THEN Rest(t, lock[u]) ELSE NoLock]
  /\ dropped' = {Rest(t, line) : line \in dropped} \ {<<>>}

-----------------------------------------------------------------------------
(* The panel clients.                                                      *)

\* What is asked of one inbound, in order.  activate_user deletes and adds again;
\* revoke_user only disables, which the probe does not see.
WorkOf(kind) ==
  CASE kind = "create"    -> <<"add">>
    [] kind = "activate"  -> <<"delete", "add">>
    [] kind = "delete"    -> <<"delete">>
    [] kind = "reconcile" -> <<"fill">>
    [] kind \in {"compute", "refresh"} -> <<"probe">>
    [] OTHER              -> <<>>

\* _get_clients returns the list it has, or waits for a new one.
Start(o, old) ==
  IF old THEN [o EXCEPT !.pc = "rebuilding"]
  ELSE [o EXCEPT !.pc = "working", !.built = rebuilt, !.left = [s \in Servers |-> WorkOf(o.kind)]]

\* A rebuilt list has new XuiApiClient objects, with new locks.  The objects an
\* earlier call holds go on working: they reopen their connection.
Rebuild(t) ==
  /\ op[t].pc = "rebuilding"
  /\ rebuilt' = IF rebuilt < MaxRebuilds THEN rebuilt + 1 ELSE rebuilt
  /\ outdated' = FALSE
  /\ op' = [op EXCEPT ![t] = [@ EXCEPT !.pc = "working", !.built = rebuilt',
                                       !.left = [s \in Servers |-> WorkOf(op[t].kind)]]]
  /\ UNCHANGED <<store, caching, locking, changes, faults>>

\* The list of servers cannot be read: the call raises, and leaves the lock.
Raise(t) ==
  /\ op[t].pc = "rebuilding"
  /\ faults < MaxFaults /\ faults' = faults + 1
  /\ op' = [op EXCEPT ![t] = Idle]
  /\ Release(t)
  /\ UNCHANGED <<store, caching, rebuilt, outdated, changes>>

-----------------------------------------------------------------------------
(* Calls that change the user's clients.                                   *)

\* A lock that is free is taken at once; otherwise the call waits for it.
AskLock(w, u, kind, e) ==
  LET o == [Idle EXCEPT !.pc = "waiting", !.user = u, !.kind = kind, !.epoch = e]
  IN  /\ Enqueue(w, u)
      /\ op' = [op EXCEPT ![w] = IF Free(u) THEN Start(o, outdated) ELSE o]

\* _invalidate_config_cache comes first, before the call waits for the lock.
Change(w, u, kind) ==
  /\ op[w].pc = "idle" /\ changes < MaxChanges
  /\ changes' = changes + 1
  /\ cache' = [cache EXCEPT ![u] = NoEntry]
  /\ epoch' = [epoch EXCEPT ![u] = @ + 1]
  /\ AskLock(w, u, kind, epoch[u] + 1)
  /\ UNCHANGED <<store, rebuilt, outdated, faults>>

CreateUser(w, u)   == Change(w, u, "create")
ActivateUser(w, u) == Change(w, u, "activate")
RevokeUser(w, u)   == Change(w, u, "revoke")
DeleteUser(w, u)   == Change(w, u, "delete")

\* reconcile_all_users adds what is missing; it neither locks nor invalidates, and
\* always asks for a new list of panel clients.
Reconcile(w, u) ==
  /\ op[w].pc = "idle" /\ changes < MaxChanges /\ rebuilt < MaxRebuilds
  /\ changes' = changes + 1
  /\ outdated' = TRUE
  /\ op' = [op EXCEPT ![w] = [Idle EXCEPT !.pc = "rebuilding", !.user = u, !.kind = "reconcile"]]
  /\ UNCHANGED <<store, caching, locking, rebuilt, faults>>

-----------------------------------------------------------------------------
(* get_user_config.  A fresh entry is returned and nothing changes.        *)

\* _schedule_refresh; the epoch is the one of the moment it is scheduled.
ServeStale(u) ==
  /\ u \in Importing /\ cache[u].age = "stale" /\ op[u].pc = "idle"
  /\ op' = [op EXCEPT ![u] = Start([Idle EXCEPT !.user = u, !.kind = "refresh",
                                                 !.epoch = epoch[u]], outdated)]
  /\ UNCHANGED <<store, caching, locking, rebuilt, outdated, changes, faults>>

\* _compute_user_config: wait for the user's lock.
Read(w, u) ==
  /\ u \in Importing /\ op[w].pc = "idle" /\ cache[u].age \in {"none", "dead"}
  /\ AskLock(w, u, "compute", epoch[u])
  /\ UNCHANGED <<store, caching, rebuilt, outdated, changes, faults>>

\* Another read filled the cache while this one waited.
FilledWhenever(u)  == cache[u].age # "none"
FilledMeanwhile(u) == cache[u].age = "fresh"

AnswerFromCache(w) ==
  /\ op[w].pc = "waiting" /\ Holds(w)
  /\ op[w].kind = "compute" /\ FilledMeanwhile(op[w].user)
  /\ op' = [op EXCEPT ![w] = Idle]
  /\ Release(w)
  /\ UNCHANGED <<store, caching, rebuilt, outdated, changes, faults>>

GotLock(w) ==
  /\ op[w].pc = "waiting" /\ Holds(w)
  /\ ~(op[w].kind = "compute" /\ FilledMeanwhile(op[w].user))
  /\ op' = [op EXCEPT ![w] = Start([@ EXCEPT !.epoch = epoch[op[w].user]], outdated)]
  /\ UNCHANGED <<store, caching, locking, rebuilt, outdated, changes, faults>>

-----------------------------------------------------------------------------
(* The work on one inbound.                                                *)

Next1(t, s, act) == op[t].pc = "working" /\ op[t].left[s] # <<>> /\ Head(op[t].left[s]) = act

\* resolve_client_uuid: no answer and no client are the same to its caller.
Probe(t, s) ==
  /\ Next1(t, s, "probe")
  /\ \E answers \in BOOLEAN :
       /\ answers \/ faults < MaxFaults
       /\ faults' = IF answers THEN faults ELSE faults + 1
       /\ op' = [op EXCEPT ![t].left[s] = Tail(@),
                           ![t].found = IF answers /\ op[t].user \in store[s] THEN @ \cup {s} ELSE @]
  /\ UNCHANGED <<store, caching, locking, rebuilt, outdated, changes>>

\* _mutation_lock belongs to the XuiApiClient object.
InboundBusy(t, s) ==
  \E x \in Tasks : op[x].built = op[t].built /\ op[x].copy[s] # NoCopy

\* _get_inbound of a rewrite; a client that reconciliation finds is left alone.
Fetch(t, s) ==
  /\ \E act \in {"add", "delete", "fill"} :
       /\ Next1(t, s, act)
       /\ op[t].copy[s] = NoCopy /\ ~InboundBusy(t, s)
       /\ op' = IF act = "fill" /\ op[t].user \in store[s]
                  THEN [op EXCEPT ![t].left[s] = Tail(@)]
                  ELSE [op EXCEPT ![t].copy[s] = store[s]]
  /\ UNCHANGED <<store, caching, locking, rebuilt, outdated, changes, faults>>

Rewritten(t, s) == [op EXCEPT ![t].copy[s] = NoCopy, ![t].left[s] = Tail(@)]

\* inbounds/update: the panel's list becomes the changed copy.
PostAdd(t, s) ==
  /\ op[t].pc = "working" /\ op[t].copy[s] # NoCopy /\ Head(op[t].left[s]) # "delete"
  /\ store' = [store EXCEPT ![s] = op[t].copy[s] \cup {op[t].user}]
  /\ op' = Rewritten(t, s)
  /\ UNCHANGED <<caching, locking, rebuilt, outdated, changes, faults>>

PostDelete(t, s) ==
  /\ op[t].pc = "working" /\ op[t].copy[s] # NoCopy /\ Head(op[t].left[s]) = "delete"
  /\ store' = [store EXCEPT ![s] = op[t].copy[s] \ {op[t].user}]
  /\ op' = Rewritten(t, s)
  /\ UNCHANGED <<caching, locking, rebuilt, outdated, changes, faults>>

\* The panel does not answer the GET or the POST: an outcome, not an exception.
PanelFails(t, s) ==
  /\ op[t].pc = "working" /\ op[t].left[s] # <<>> /\ Head(op[t].left[s]) # "probe"
  /\ op[t].copy[s] # NoCopy \/ ~InboundBusy(t, s)
  /\ faults < MaxFaults /\ faults' = faults + 1
  /\ op' = Rewritten(t, s)
  /\ UNCHANGED <<store, caching, locking, rebuilt, outdated, changes>>

Done(t) == op[t].pc = "working" /\ \A s \in Servers : op[t].left[s] = <<>>

\* The epoch was bumped since the result's epoch was read: drop the result.
MayAlwaysStore(t) == TRUE
MayStore(t) == epoch[op[t].user] = op[t].epoch

\* _store_config_cache, and the end of the call.
Finish(t) ==
  LET u == op[t].user
      reads == op[t].kind \in {"compute", "refresh"}
  IN  /\ Done(t)
      /\ cache' = IF reads /\ MayStore(t)
                    THEN [cache EXCEPT ![u] = [age |-> "fresh", found |-> op[t].found,
                                               epoch |-> op[t].epoch]]
                    ELSE cache
      /\ Release(t)
      /\ op' = [op EXCEPT ![t] = Idle]
      /\ UNCHANGED <<store, epoch, rebuilt, outdated, changes, faults>>

-----------------------------------------------------------------------------
\* Entries grow old, and so does the list of panel clients.
Age(u) ==
  /\ cache[u].age \in {"fresh", "stale"}
  /\ cache' = [cache EXCEPT ![u].age = IF @ = "fresh" THEN "stale" ELSE "dead"]
  /\ UNCHANGED <<store, epoch, locking, rebuilt, outdated, op, changes, faults>>

Outdate ==
  /\ ~outdated /\ rebuilt < MaxRebuilds
  /\ outdated' = TRUE
  /\ UNCHANGED <<store, caching, locking, rebuilt, op, changes, faults>>

TaskStep(t) ==
  \/ t \in Workers /\ (GotLock(t) \/ AnswerFromCache(t))
  \/ Rebuild(t)
  \/ \E s \in Servers : Probe(t, s) \/ Fetch(t, s) \/ PostAdd(t, s) \/ PostDelete(t, s)
  \/ Finish(t)

Next ==
  \/ \E w \in Workers, u \in Users :
       \/ CreateUser(w, u) \/ ActivateUser(w, u) \/ RevokeUser(w, u) \/ DeleteUser(w, u)
       \/ Reconcile(w, u)
       \/ Read(w, u)
  \/ \E u \in Users : ServeStale(u) \/ Age(u)
  \/ \E t \in Tasks : TaskStep(t) \/ Raise(t) \/ (\E s \in Servers : PanelFails(t, s))
  \/ Outdate

Spec == Init /\ [][Next]_vars

\* The event loop runs every task that can run; users keep importing their
\* subscription, and time passes.
Fairness ==
  /\ \A t \in Tasks : WF_vars(TaskStep(t))
  /\ \A u \in Importing :
       /\ SF_vars(\E w \in Workers : Read(w, u))
       /\ WF_vars(ServeStale(u))
       /\ WF_vars(Age(u))

FairSpec == Spec /\ Fairness

-----------------------------------------------------------------------------
(***************************************************************************)
(* What the cache serves was looked up entirely after the last create,     *)
(* activate, revoke or delete of that user was called, although the lookup *)
(* of a refresh takes no lock and the call may come at any point of it.    *)
(***************************************************************************)
EntryIsCurrent ==
  \A u \in Users : cache[u] # NoEntry => cache[u].epoch = epoch[u]

(***************************************************************************)
(* A user's lock is held by a call in progress, which will release it: the *)
(* dictionary is replaced under locks that are held, and nobody who waits  *)
(* for one that was in it is stranded.                                     *)
(***************************************************************************)
HeldByCalls ==
  \A line \in Lines : line # <<>> => op[Head(line)].pc # "idle"

(***************************************************************************)
(* Whatever a silent panel, a change under way or a reconciliation made of *)
(* the entry: when changes and faults stop, what /sub/ serves becomes what *)
(* the panels have.                                                        *)
(***************************************************************************)
CacheCatchesUp ==
  \A u \in Importing :
    <>[](cache[u] # NoEntry => cache[u].found = {s \in Servers : u \in store[s]})
==============================================================================
