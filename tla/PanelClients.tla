---------------------------- MODULE PanelClients ----------------------------
(***************************************************************************)
(* The clients of one inbound of a v3 panel, and everybody who writes      *)
(* them.  The panel keeps them three times: in the inbound's settings      *)
(* (JSON), which its API reads and writes as a whole; in the tables xray's *)
(* configuration is made from; and in the xray that runs.  The API reaches *)
(* only the first: sync_clients_table.py mirrors it every five minutes and *)
(* restarts x-ui if that changed anything.                                 *)
(*                                                                         *)
(* The bot, reprovision_active.py (every half hour) and the operator's     *)
(* scripts (rebuild_panel_clients.py, grant_subscription.py,               *)
(* cleanup_duplicate_clients.py) are processes without a common lock: each *)
(* gets the list, changes it and posts it back.  manage_ru_egress.py and   *)
(* unregister_relay_uuid.py write the panel's database instead, and so     *)
(* every place at once.  Inbounds are independent of each other: one is    *)
(* enough.                                                                 *)
(***************************************************************************)
EXTENDS Naturals, Sequences, FiniteSets, SequencesExt, Lists

CONSTANTS
  Subscribers,
  Service,       \* relay-from-foreign, the client of the relay
  Stored,        \* users with a vless_uuid in user_identities, from before uuids were derived
  StartLists,    \* the lists the inbound may start with
  Days,          \* what a purchase, a grant or --extend-expired adds
  Far,           \* 365 days from now: after every other instant
  NoList,
  MaxTime,       \* bound: the last instant of the clock
  MaxEvents      \* bound: duplicates at the start, commands of the operator, purchases
                 \* and deletions of the bot, calls that fail, processes killed: together

Owners  == Subscribers \cup {Service}
Writers == {"bot", "reprov", "operator"}
Never   == 0      \* expiryTime 0, and a missing active_until_utc

ASSUME TimesAssumption ==
  /\ Service \notin Subscribers /\ Stored \subseteq Subscribers
  /\ Days \in Nat \ {0} /\ MaxTime \in Nat /\ Far \in Nat /\ Far > MaxTime + 2 * Days
  /\ MaxEvents \in Nat

VARIABLES
  now,
  row,          \* row[u]: the subscription_snapshots row
  managed,      \* vpn_servers.is_active of this inbound
  json,         \* clients in the settings of the inbound, in their order
  table,        \* table[o]: the uuid linked in clients + client_inbounds, or "none"
  traffic,      \* traffic[o]: the client_traffics row
  live,         \* the uuids the running xray accepts
  restart,      \* x-ui after a change of the tables: "done", "due", or "lost"
  job,          \* job[w]: what a writer is doing; rest: whom grant_all_expired has still to grant
  events,       \* how many of those there were
  cut           \* history: users whose grant was killed before its UPDATE

panel == <<json, table, traffic, live, restart>>
clientsVars == <<now, row, managed, panel, job, events, cut>>

\* A uuid is the derived one of its owner, or an old one.
Uuid(o, gen) == <<o, gen>>
Derived(u)   == Uuid(u, "derived")
Entry(id, on, until) == [id |-> id, on |-> on, until |-> until]
OwnerOf(c)   == c.id[1]     \* what the email names

Client == [id : Owners \X {"derived", "old"}, on : BOOLEAN, until : Nat]

\* The relay's client is what register-uuid makes.
ASSUME ListsAssumption ==
  \A list \in StartLists :
    /\ list \in Seq(Client)
    /\ \A i \in DOMAIN list : OwnerOf(list[i]) = Service => list[i] = Entry(Derived(Service), TRUE, Never)

NoTraffic == [on |-> TRUE, until |-> Never]    \* no row: nothing shuts the client out
NoJob     == [op |-> "none", todo |-> {}, list |-> NoList, rest |-> {}]

Runs(until, t) == until = Never \/ until > t

\* What xray is configured with when x-ui starts it.
Configured(tab, tra, t) ==
  {Uuid(o, tab[o]) : o \in {p \in Owners : tab[p] # "none" /\ tra[p].on /\ Runs(tra[p].until, t)}}
-----------------------------------------------------------------------------
(* sync_clients_table.py                                                   *)

\* The places of a list that hold clients of o.
Of(list, o) == {i \in DOMAIN list : OwnerOf(list[i]) = o}

\* Those whose uuid the tables do not have: a new email, or a new uuid for a known
\* one.  A uuid is known from its first entry on; the row it had before keeps it.
NewOf(list, tab, o) ==
  {i \in Of(list, o) : list[i].id # Uuid(o, tab[o]) /\ \A k \in 1 .. i - 1 : list[k].id # list[i].id}

\* Mutant: enable and expiry are mirrored with a new uuid only.
StatesOfNew(list, tab, o) == NewOf(list, tab, o)

\* Those whose enable and expiry are mirrored: every entry.
StatesOf(list, tab, o) == Of(list, o)

StateAt(list, i) == [on |-> list[i].on, until |-> list[i].until]

\* The entries are written one after the other, so what the last of S says stands.
AfterStates(list, S, old) == IF S = {} THEN old ELSE StateAt(list, Max(S))
AfterUuids(list, S, old)  == IF S = {} THEN old ELSE list[Max(S)].id[2]

\* Something is written for o: a uuid, or a state unlike the one before.
Changes(list, tab, tra, o) ==
  LET states == StatesOf(list, tab, o)
  IN  \/ NewOf(list, tab, o) # {}
      \/ \E i \in states : AfterStates(list, {k \in states : k < i}, tra[o]) # StateAt(list, i)

\* Mutant: what is not in the list is dropped from the tables first.
MirrorPruning(list, tab, tra) ==
  LET kept == [o \in Owners |-> IF Of(list, o) = {} THEN "none" ELSE tab[o]]
  IN  [table   |-> [o \in Owners |-> AfterUuids(list, NewOf(list, kept, o), kept[o])],
       traffic |-> [o \in Owners |-> AfterStates(list, StatesOf(list, kept, o), tra[o])],
       changed |-> kept # tab \/ \E o \in Owners : Changes(list, kept, tra, o)]

\* Rows of clients that left the list stay.
Mirror(list, tab, tra) ==
  [table   |-> [o \in Owners |-> AfterUuids(list, NewOf(list, tab, o), tab[o])],
   traffic |-> [o \in Owners |-> AfterStates(list, StatesOf(list, tab, o), tra[o])],
   changed |-> \E o \in Owners : Changes(list, tab, tra, o)]
-----------------------------------------------------------------------------
ClientsInit ==
  /\ now = 1
  /\ row \in [Subscribers -> {[state |-> "active", until |-> 2, gone |-> FALSE],
                              [state |-> "ended", until |-> 1, gone |-> TRUE]}]
  /\ managed \in BOOLEAN
  /\ json \in StartLists
  /\ LET fresh == Mirror(json, [o \in Owners |-> "none"], [o \in Owners |-> NoTraffic])
     IN  table = fresh.table /\ traffic = fresh.traffic
  /\ live = Configured(table, traffic, now)
  /\ restart = "done"
  /\ job = [w \in Writers |-> NoJob]
  /\ events = Len(json) - Cardinality({OwnerOf(json[i]) : i \in DOMAIN json})
  /\ cut = {}

\* Time passes; x-ui drops a client whose time is over.
Tick ==
  /\ now < MaxTime
  /\ now' = now + 1
  /\ live' = {id \in live : Runs(traffic[id[1]].until, now + 1)}
  /\ UNCHANGED <<row, managed, json, table, traffic, restart, job, events, cut>>

Event == events < MaxEvents /\ events' = events + 1

\* A process is killed: what it holds and had still to do is gone.
Killed(w) ==
  /\ job[w].op # "none"
  /\ Event
  /\ job' = [job EXCEPT ![w] = NoJob]
  /\ cut' = IF job[w].op = "update" THEN cut \cup {t.user : t \in job[w].todo} ELSE cut
  /\ UNCHANGED <<now, row, managed, panel>>

-----------------------------------------------------------------------------
(* Rewriting the list: get, change, post.                                  *)

\* _expiry_from_datetime: a missing end, and one that is past, is a year from now.
ExpiryOf(until) == IF until > now THEN until ELSE Far

\* The first client with that email or uuid is replaced, else one is appended.
Upsert(list, c) ==
  LET at == SelectInSeq(list, LAMBDA d : OwnerOf(d) = OwnerOf(c) \/ d.id = c.id)
  IN  IF at = 0 THEN Append(list, c) ELSE ReplaceAt(list, at, c)

Without(list, u) == Selected(list, {i \in DOMAIN list : list[i].id # Derived(u)})
WithoutUsers(list) == Selected(list, {i \in DOMAIN list : OwnerOf(list[i]) \notin Subscribers})

\* The client has the uuid that user_identities has for its email.
HasStoredUuid(c) == OwnerOf(c) \in Stored /\ c.id[2] = "old"

\* cleanup_duplicate_clients.py, of the clients with one email: the one with the
\* uuid of user_identities, or the last.
IsKept(list, i) ==
  LET same == Of(list, OwnerOf(list[i]))
      right == {k \in same : HasStoredUuid(list[k])}
  IN  \/ Cardinality(same) = 1
      \/ IF right # {} THEN i \in right ELSE \A k \in same : k <= i

Tidied(list) == Selected(list, {i \in DOMAIN list : IsKept(list, i)})

Rewrites == {"add", "drop", "delete", "wipe", "tidy"}

\* GET of the inbound; an add takes the next of its users.
FetchList(w) ==
  /\ job[w].op \in Rewrites
  /\ job[w].list = NoList
  /\ job' = [job EXCEPT ![w].list = json]
  /\ UNCHANGED <<now, row, managed, panel, events, cut>>

HoldsList(w, op) == job[w].op = op /\ job[w].list # NoList

\* The writer ends, or grant_all_expired goes on with the next user.
Ended(w) == IF job[w].rest = {} THEN NoJob ELSE [NoJob EXCEPT !.op = "grants", !.rest = job[w].rest]

\* The user is done; the writer ends with its last one.
Next_(w, t) ==
  LET left == job[w].todo \ {t}
  IN  job' = [job EXCEPT ![w] = IF left = {} THEN Ended(w) ELSE [@ EXCEPT !.todo = left, !.list = NoList]]

\* add_client of reprovisioning, rebuild, grant and the bot's activate_user.
PostAdded(w) ==
  /\ HoldsList(w, "add")
  /\ \E t \in job[w].todo :
       /\ json' = Upsert(job[w].list, Entry(Derived(t.user), TRUE, ExpiryOf(t.until)))
       /\ Next_(w, t)
  /\ UNCHANGED <<now, row, managed, table, traffic, live, restart, events, cut>>

\* The panel does not answer; the next user is tried.
PostFails(w) ==
  /\ job[w].op = "add"
  /\ Event
  /\ \E t \in job[w].todo : Next_(w, t)
  /\ UNCHANGED <<now, row, managed, panel, cut>>

\* delete_client by uuid: the first half of activate_user, or delete_user.
PostRest ==
  /\ HoldsList("bot", "drop") \/ HoldsList("bot", "delete")
  /\ \E t \in job["bot"].todo :
       /\ json' = Without(job["bot"].list, t.user)
       /\ IF job["bot"].op = "drop"
          THEN /\ job' = [job EXCEPT !["bot"] = [@ EXCEPT !.op = "add", !.list = NoList]]
               /\ UNCHANGED row
          ELSE /\ job' = [job EXCEPT !["bot"] = NoJob]
               /\ row' = [row EXCEPT ![t.user].gone = TRUE]
  /\ UNCHANGED <<now, managed, table, traffic, live, restart, events, cut>>

\* phase_wipe keeps the clients that are no bot user's.
PostWipe ==
  /\ HoldsList("operator", "wipe")
  /\ json' = WithoutUsers(job["operator"].list)
  /\ job' = [job EXCEPT !["operator"] = [@ EXCEPT !.op = "add", !.list = NoList]]
  /\ UNCHANGED <<now, row, managed, table, traffic, live, restart, events, cut>>

\* The cleaned list is posted and xray restarted through the API.
PostTidy ==
  /\ HoldsList("operator", "tidy")
  /\ json' = Tidied(job["operator"].list)
  /\ live' = Configured(table, traffic, now)
  /\ restart' = "done"
  /\ job' = [job EXCEPT !["operator"] = NoJob]
  /\ UNCHANGED <<now, row, managed, table, traffic, events, cut>>
-----------------------------------------------------------------------------
(* Who starts what.                                                        *)

\* Days are added to an end that is still to come, or else to this instant.
EndAfter(u) == (IF row[u].until > now THEN row[u].until ELSE now) + Days

\* A purchase: the row, then the keys, deleted and added anew.
Purchase(u) ==
  /\ managed /\ job["bot"] = NoJob
  /\ Event
  /\ row' = [row EXCEPT ![u] = [state |-> "active", until |-> EndAfter(u), gone |-> FALSE]]
  /\ job' = [job EXCEPT !["bot"] =
               [NoJob EXCEPT !.op = "drop", !.todo = {[user |-> u, until |-> EndAfter(u)]}]]
  /\ UNCHANGED <<now, managed, panel, cut>>

\* The hourly job: the panel disables the client by itself, for another year,
\* and the row is marked.
Lapse(u) ==
  /\ managed
  /\ row[u].state = "active" /\ row[u].until # Never /\ row[u].until <= now
  /\ row' = [row EXCEPT ![u].state = "ended"]
  /\ json' = [i \in DOMAIN json |-> IF json[i].id = Derived(u) THEN Entry(Derived(u), FALSE, Far)
                                                               ELSE json[i]]
  /\ UNCHANGED <<now, managed, table, traffic, live, restart, job, events, cut>>

\* The same job, after the grace period.
Purge(u) ==
  /\ managed /\ job["bot"] = NoJob
  /\ Event
  /\ row[u].state = "ended" /\ ~row[u].gone
  /\ job' = [job EXCEPT !["bot"] =
               [NoJob EXCEPT !.op = "delete", !.todo = {[user |-> u, until |-> row[u].until]}]]
  /\ UNCHANGED <<now, row, managed, panel, cut>>

Loaded(S) == {[user |-> u, until |-> row[u].until] : u \in S}
Active    == {u \in Subscribers : row[u].state = "active"}

\* reprovision_active.py: active users whose keys are not deleted.
Reprovision ==
  LET found == {u \in Active : ~row[u].gone}
  IN  /\ managed /\ job["reprov"] = NoJob
      /\ found # {}
      /\ job' = [job EXCEPT !["reprov"] = [NoJob EXCEPT !.op = "add", !.todo = Loaded(found)]]
      /\ UNCHANGED <<now, row, managed, panel, events, cut>>

ByOperator ==
  /\ job["operator"] = NoJob
  /\ Event

\* rebuild_panel_clients.py --extend-expired: everybody who is not active.
Extended == [u \in Subscribers |-> IF u \in Active THEN row[u]
                                   ELSE [state |-> "active", until |-> now + Days, gone |-> FALSE]]

\* rebuild_panel_clients.py, with or without it.
RebuildInbound ==
  /\ ByOperator
  /\ row' \in {row, Extended}
  /\ job' = [job EXCEPT !["operator"] = [NoJob EXCEPT !.op = "load"]]
  /\ UNCHANGED <<now, managed, panel, cut>>

\* It loads users and servers and ends if there are none.
RebuildLoad ==
  /\ job["operator"].op = "load"
  /\ job' = [job EXCEPT !["operator"] =
               IF managed /\ Active # {}
               THEN [NoJob EXCEPT !.op = "wipe", !.todo = Loaded(Active)] ELSE NoJob]
  /\ UNCHANGED <<now, row, managed, panel, events, cut>>

\* grant_subscription.py: the row is read and the end computed from it.
GrantTo(u, rest) ==
  /\ job' = [job EXCEPT !["operator"] =
               [NoJob EXCEPT !.op = "apply", !.todo = {[user |-> u, until |-> EndAfter(u)]},
                            !.rest = rest]]
  /\ UNCHANGED <<now, row, managed, panel, cut>>

Grant(u) == ByOperator /\ GrantTo(u, {})

\* --all-expired: who is granted is read once, before the first grant.
GrantAllExpired ==
  LET targets == {u \in Subscribers : row[u].state = "ended" /\ ~row[u].gone}
  IN  /\ ByOperator
      /\ targets # {}
      /\ job' = [job EXCEPT !["operator"] = [NoJob EXCEPT !.op = "grants", !.rest = targets]]
      /\ UNCHANGED <<now, row, managed, panel, cut>>

GrantNext(u) ==
  /\ job["operator"].op = "grants" /\ u \in job["operator"].rest
  /\ GrantTo(u, job["operator"].rest \ {u})
  /\ UNCHANGED events

\* The fact is applied: active, no end.
GrantApply ==
  /\ job["operator"].op = "apply"
  /\ \E t \in job["operator"].todo :
       row' = [row EXCEPT ![t.user].state = "active", ![t.user].until = Never]
  /\ job' = [job EXCEPT !["operator"].op = "update"]
  /\ UNCHANGED <<now, managed, panel, events, cut>>

\* A grant raises before or after its apply; the next user is tried.
GrantFails ==
  /\ job["operator"].op \in {"apply", "update"}
  /\ Event
  /\ cut' = IF job["operator"].op = "update" THEN cut \cup {t.user : t \in job["operator"].todo} ELSE cut
  /\ job' = [job EXCEPT !["operator"] = Ended("operator")]
  /\ UNCHANGED <<now, row, managed, panel>>

\* Mutant: the plan's end is written before the fact is applied.
GrantClobbered ==
  /\ job["operator"].op = "update"
  /\ \E t \in job["operator"].todo :
       row' = [row EXCEPT ![t.user] = [state |-> "active", until |-> Never, gone |-> FALSE]]
  /\ job' = [job EXCEPT !["operator"] = IF managed THEN [@ EXCEPT !.op = "add"] ELSE Ended("operator")]
  /\ UNCHANGED <<now, managed, panel, events, cut>>

\* Then the end is written, and the keys are added.
GrantUpdate ==
  /\ job["operator"].op = "update"
  /\ \E t \in job["operator"].todo :
       row' = [row EXCEPT ![t.user] = [state |-> "active", until |-> t.until, gone |-> FALSE]]
  /\ job' = [job EXCEPT !["operator"] = IF managed THEN [@ EXCEPT !.op = "add"] ELSE Ended("operator")]
  /\ UNCHANGED <<now, managed, panel, events, cut>>

\* cleanup_duplicate_clients.py
Cleanup ==
  /\ ByOperator
  /\ job' = [job EXCEPT !["operator"] = [NoJob EXCEPT !.op = "tidy"]]
  /\ UNCHANGED <<now, row, managed, panel, cut>>

\* --mode deactivate
Deactivate ==
  /\ ByOperator
  /\ managed' = FALSE
  /\ UNCHANGED <<now, row, panel, job, cut>>

\* The commands that write the panel's database, and its tables with it; each
\* then restarts x-ui.
DbCommand ==
  /\ ByOperator
  /\ restart' = "due"
  /\ UNCHANGED <<now, row, managed, live, job, cut>>

\* --mode register-uuid
RegisterUuid ==
  /\ DbCommand
  /\ table' = [table EXCEPT ![Service] = "derived"]
  /\ json' = IF \E i \in DOMAIN json : json[i].id = Derived(Service) THEN json
             ELSE Append(json, Entry(Derived(Service), TRUE, Never))
  /\ UNCHANGED traffic

\* unregister_relay_uuid.py
UnregisterUuid ==
  /\ DbCommand
  /\ table' = [table EXCEPT ![Service] = "none"]
  /\ traffic' = [traffic EXCEPT ![Service] = NoTraffic]
  /\ json' = Without(json, Service)

\* --mode purge-orphans, on an inbound the bot no longer manages: whoever has a
\* bot user's email, if the tables have one.
PurgeOrphans ==
  /\ DbCommand
  /\ ~managed
  /\ \E u \in Subscribers : table[u] # "none"
  /\ table' = [o \in Owners |-> IF o \in Subscribers THEN "none" ELSE table[o]]
  /\ json' = WithoutUsers(json)
  /\ UNCHANGED traffic

\* setup_relay.py: the inbound is deleted and made anew, without clients.
SetupRelayClient ==
  /\ DbCommand
  /\ ~managed
  /\ table' = [o \in Owners |-> "none"]
  /\ json' = <<>>
  /\ UNCHANGED traffic
-----------------------------------------------------------------------------
\* The mirror is committed; x-ui is restarted afterwards if it changed.
Sync ==
  LET new == Mirror(json, table, traffic)
  IN  /\ restart # "due"
      /\ new.changed
      /\ table' = new.table
      /\ traffic' = new.traffic
      /\ restart' = "due"
      /\ UNCHANGED <<now, row, managed, json, live, job, events, cut>>

RestartXui ==
  /\ restart = "due"
  /\ live' = Configured(table, traffic, now)
  /\ restart' = "done"
  /\ UNCHANGED <<now, row, managed, json, table, traffic, job, events, cut>>

\* Killed after the commit, or neither restart command works.
RestartLost ==
  /\ restart = "due"
  /\ Event
  /\ restart' = "lost"
  /\ UNCHANGED <<now, row, managed, json, table, traffic, live, job, cut>>

\* x-ui starts xray anew for a reason of its own.
Reloaded ==
  /\ restart # "due"
  /\ live # Configured(table, traffic, now)
  /\ live' = Configured(table, traffic, now)
  /\ restart' = "done"
  /\ UNCHANGED <<now, row, managed, json, table, traffic, job, events, cut>>

ClientsNext ==
  \/ Tick
  \/ \E w \in Writers : Killed(w) \/ FetchList(w) \/ PostAdded(w) \/ PostFails(w)
  \/ PostRest \/ PostWipe \/ PostTidy
  \/ \E u \in Subscribers : Purchase(u) \/ Lapse(u) \/ Purge(u) \/ Grant(u)
  \/ GrantAllExpired \/ GrantApply \/ GrantUpdate \/ GrantFails \/ \E u \in Subscribers : GrantNext(u)
  \/ Reprovision \/ RebuildInbound \/ RebuildLoad \/ Cleanup \/ Deactivate
  \/ RegisterUuid \/ UnregisterUuid \/ PurgeOrphans \/ SetupRelayClient
  \/ Sync \/ RestartXui \/ RestartLost \/ Reloaded

ClientsSpec == ClientsInit /\ [][ClientsNext]_clientsVars

\* Both timers fire for ever, and a pass that is not killed goes on.
FairClientsSpec ==
  /\ ClientsSpec
  /\ WF_clientsVars(Reprovision) /\ WF_clientsVars(FetchList("reprov")) /\ WF_clientsVars(PostAdded("reprov"))
  /\ WF_clientsVars(Sync) /\ WF_clientsVars(RestartXui)
-----------------------------------------------------------------------------
(***************************************************************************)
(* An active subscription gets its key back: whatever rewrites lost it     *)
(* (the wipe of a rebuild that was killed, a post from an old copy), once  *)
(* the row stays active the running xray comes to accept the uuid the      *)
(* user's link names, and goes on accepting it.  Unless the inbound is no  *)
(* longer managed, its list has the user twice (the mirror then swaps the  *)
(* two uuids at every pass, until cleanup_duplicate_clients.py is run), or *)
(* the last restart was lost: the next pass finds nothing changed.         *)
(***************************************************************************)
IsDuplicated(u) == Cardinality(Of(json, u)) > 1

ActiveIsServed ==
  \A u \in Subscribers :
    <>[](managed /\ u \in Active /\ ~row[u].gone /\ ~IsDuplicated(u) /\ restart # "lost")
      => <>[](Derived(u) \in live)

(***************************************************************************)
(* The relay never loses its way in: once xray accepts its uuid, no wipe,  *)
(* rebuild, cleanup, purge or sync ends that, not even where a post from a *)
(* copy older than its registration takes it out of the list again         *)
(* (rebuild_panel_clients.py:13 "preserves relay/service UUIDs").  Only    *)
(* unregister_relay_uuid.py and a new setup of the relay do.               *)
(***************************************************************************)
ServiceStays ==
  [][UnregisterUuid \/ SetupRelayClient \/
       (table[Service] # "none" =>
          table'[Service] # "none" /\ (Derived(Service) \in live => Derived(Service) \in live'))]_clientsVars

(***************************************************************************)
(* No operator's grant leaves a subscription without an end, however it is *)
(* interleaved with purchases, rebuilds and the hourly job, unless it is   *)
(* killed between the apply and the UPDATE (grant_subscription.py:147 "so  *)
(* the duration UPDATE must run AFTER it").                                *)
(***************************************************************************)
GrantsEnd ==
  \A u \in Subscribers :
    row[u].state = "active" /\ row[u].until = Never =>
      u \in cut \/ (job["operator"].op = "update" /\ \E t \in job["operator"].todo : t.user = u)
=============================================================================
