--------------------------- MODULE AccessIssuance ---------------------------
(***************************************************************************)
(* Issuance of access for one user: IssuanceService (issue, resend,        *)
(* revoke) over the table issuance_state, in the three places it runs in.  *)
(* The bot resends, support's ensure-access issues, and every command of   *)
(* the operator is a process of its own.  Each process has a memory that   *)
(* the others do not see, a restart empties it, and the reconciliation     *)
(* job and the bot's own late revocation write the table behind all of     *)
(* them.  Requests interleave at their awaits; the database and the        *)
(* provider may fail at any of them.                                       *)
(*                                                                         *)
(* What is kept of a row is its state and its place in the order of        *)
(* updated_at.  The reference is a function of user and key for every      *)
(* provider, so all calls under one key agree on it.                       *)
(***************************************************************************)
EXTENDS Naturals, Sequences, FiniteSets

CONSTANTS
  Keys,           \* issue_idempotency_key
  EnsureKey,      \* the one key ensure-access issues under
  NoKey,
  Bot, Admin,     \* the two long-lived processes
  Chats,          \* resend requests in progress in the bot
  Supports,       \* ensure-access requests in progress
  Operators,      \* commands of the operator
  Updates,        \* Telegram update ids of resend requests
  ResendLimit,    \* resend commands per window (3 in the code)
  MaxAsked, MaxPayments, MaxFaults    \* bounds on the environment

ASSUME AccessAssumption ==
  /\ EnsureKey \in Keys /\ NoKey \notin Keys /\ IsFiniteSet(Keys)
  /\ Bot # Admin /\ {Bot, Admin} \cap Operators = {}
  /\ Chats \cap Supports = {} /\ (Chats \cup Supports) \cap Operators = {}
  /\ Updates \cap Keys = {}
  /\ ResendLimit \in Nat /\ MaxAsked \in Nat /\ MaxPayments \in Nat /\ MaxFaults \in Nat

VARIABLES
  rows,       \* issuance_state
  order,      \* its keys, the last updated first
  sub,        \* the row: "active", active and past its end ("lapsed"), or "other"
  ledger,     \* _ledger of every process
  answered,   \* the keys of _issue_idempotent_result
  resent,     \* the keys of _resend_cached
  cooling,    \* the bot's resend cooldown
  window,     \* resend commands in the bot's current window
  req,        \* the requests
  during,     \* history: the keys that were issued at some time of a request
  job,        \* the reconciliation process
  heartbeat,  \* status of the last row of access_reconcile_runs
  asked, payments, faults

table  == <<rows, order>>
memory == <<ledger, answered, resent>>
limits == <<cooling, window>>
jobs   == <<job, heartbeat>>
vars   == <<table, sub, memory, limits, req, during, jobs, asked, payments, faults>>

Requests  == Chats \cup Supports \cup Operators
Processes == {Bot, Admin} \cup Operators
Host(r)   == IF r \in Chats THEN Bot ELSE IF r \in Supports THEN Admin ELSE r

States == {"none", "issued", "revoked"}

NoRequest == [op |-> "none", key |-> NoKey, id |-> NoKey, pc |-> "done", out |-> "none"]

Nothing == [k \in Keys |-> "none"]

Init ==
  /\ rows = Nothing /\ order = <<>> /\ sub = "other"
  /\ ledger = [p \in Processes |-> Nothing]
  /\ answered = [p \in Processes |-> {}] /\ resent = [p \in Processes |-> {}]
  /\ cooling = FALSE /\ window = 0
  /\ req = [r \in Requests |-> NoRequest]
  /\ during = [r \in Requests |-> {}]
  /\ job = "idle" /\ heartbeat = "none"
  /\ asked = 0 /\ payments = 0 /\ faults = 0

-----------------------------------------------------------------------------
(* The table                                                               *)

Issued == {k \in Keys : rows[k] = "issued"}

\* fetch_by_issue_keys, for the key of a request.
Fetched(r) == rows[req[r].key]

\* get_current_for_user: the row updated last, whatever its state.
Current == IF order = <<>> THEN NoKey ELSE Head(order)
CurrentIsIssued == Current \in Issued

\* An update by the reconciliation gives its rows one time; the key breaks the tie.
Touch(ks) == order' = SelectSeq(order, LAMBDA k : k \in ks)
                      \o SelectSeq(order, LAMBDA k : k \notin ks)

IssueOrGet(k) ==
  IF rows[k] = "none"
    THEN rows' = [rows EXCEPT ![k] = "issued"] /\ order' = <<k>> \o order
    ELSE UNCHANGED table

MarkRevoked(k) ==
  IF rows[k] = "issued"
    THEN rows' = [rows EXCEPT ![k] = "revoked"] /\ Touch({k})
    ELSE UNCHANGED table

-----------------------------------------------------------------------------
(* The steps of a request                                                  *)

At(r, op, pc) == req[r].op = op /\ req[r].pc = pc
GoTo(r, pc)   == req' = [req EXCEPT ![r].pc = pc]
Answer(r, out) == req' = [req EXCEPT ![r].pc = "done", ![r].out = out]

\* What the service answers; ensure-access goes on from an issue that succeeded.
Reply(r, out) ==
  IF r \notin Supports THEN Answer(r, out)
  ELSE IF out \in {"issued", "already"} THEN GoTo(r, "after")
  ELSE Answer(r, "failed")

Remember(r, k, state) ==
  /\ ledger' = [ledger EXCEPT ![Host(r)][k] = state]
  /\ answered' = [answered EXCEPT ![Host(r)] = IF state = "issued" THEN @ \cup {k} ELSE @ \ {k}]
  /\ UNCHANGED resent

\* A call of the database or the provider that fails; restarts and evictions count too.
Fault == faults < MaxFaults /\ faults' = faults + 1
Works == UNCHANGED faults

Ask(r, request) ==
  /\ req[r].pc = "done" /\ asked < MaxAsked
  /\ asked' = asked + 1
  /\ req' = [req EXCEPT ![r] = request]
  /\ UNCHANGED <<table, sub, jobs, payments, faults>>

AskResend(r, u) ==
  LET request == [NoRequest EXCEPT !.id = u, !.pc = "snapshot"] IN
  /\ IF window < ResendLimit
       THEN Ask(r, request) /\ window' = window + 1
       ELSE Ask(r, [request EXCEPT !.pc = "done", !.out = "limited"]) /\ UNCHANGED window
  /\ UNCHANGED <<memory, cooling>>

AskEnsure(r) ==
  /\ Ask(r, [NoRequest EXCEPT !.pc = "support"])
  /\ UNCHANGED <<memory, limits>>

\* A new process, with a memory of its own.
AskOperator(r, op, k) ==
  /\ Ask(r, [op |-> op, key |-> k, id |-> k, pc |-> "service", out |-> "none"])
  /\ ledger' = [ledger EXCEPT ![r] = Nothing]
  /\ answered' = [answered EXCEPT ![r] = {}] /\ resent' = [resent EXCEPT ![r] = {}]
  /\ UNCHANGED limits

-----------------------------------------------------------------------------
(* TelegramAccessResendHandler                                             *)

ReadSnapshot(r) ==
  /\ At(r, "none", "snapshot") /\ Works
  /\ CASE sub = "active" /\ ~cooling -> GoTo(r, "lookup") /\ cooling' = TRUE
       [] sub = "active" /\ cooling  -> Answer(r, "cooldown") /\ UNCHANGED cooling
       [] sub = "lapsed"             -> GoTo(r, "late") /\ UNCHANGED cooling
       [] OTHER                      -> Answer(r, "not_eligible") /\ UNCHANGED cooling
  /\ UNCHANGED <<table, memory, window>>

LookUpLate(r) ==
  /\ At(r, "none", "late") /\ Works
  /\ IF CurrentIsIssued THEN req' = [req EXCEPT ![r].pc = "bury", ![r].key = Current]
                        ELSE Answer(r, "not_eligible")
  /\ UNCHANGED <<table, memory, limits>>

\* The revocation of what the lookup saw, however long ago it looked.
RevokeLate(r) ==
  /\ At(r, "none", "bury") /\ Works
  /\ MarkRevoked(req[r].key) /\ Answer(r, "not_eligible")
  /\ UNCHANGED <<memory, limits>>

LookUp(r) ==
  /\ At(r, "none", "lookup") /\ Works
  /\ IF CurrentIsIssued
       THEN req' = [req EXCEPT ![r].pc = "service", ![r].op = "resend", ![r].key = Current]
       ELSE Answer(r, "not_ready")
  /\ UNCHANGED <<table, memory, limits>>

-----------------------------------------------------------------------------
(* IssuanceService.execute                                                 *)

\* Delivery, from the cache when this request was delivered before.
Deliverable(r) == IF req[r].id \in resent[Host(r)] THEN Reply(r, "ready") ELSE GoTo(r, "deliver")

\* Up to the first await the process's memory decides.
Recall(r) ==
  LET k == req[r].key  known == ledger[Host(r)][k] IN
  /\ req[r].pc = "service" /\ Works
  /\ CASE req[r].op = "issue" /\ known = "revoked"                    -> Reply(r, "error")
       [] req[r].op = "issue" /\ known # "revoked" /\ k \in answered[Host(r)] -> Reply(r, "already")
       [] req[r].op \in {"resend", "revoke"} /\ known = "revoked"     -> Reply(r, "revoked")
       [] req[r].op = "resend" /\ known = "issued"                    -> Deliverable(r)
       [] req[r].op = "revoke" /\ known = "issued"                    -> GoTo(r, "withdraw")
       [] OTHER                                                       -> GoTo(r, "fetch")
  /\ UNCHANGED <<table, memory, limits>>

FetchToIssue(r) ==
  /\ At(r, "issue", "fetch") /\ Works
  /\ CASE Fetched(r) = "issued"  -> Remember(r, req[r].key, "issued") /\ Reply(r, "already")
       [] Fetched(r) = "revoked" -> Reply(r, "error") /\ UNCHANGED memory
       [] Fetched(r) = "none"    -> GoTo(r, "create") /\ UNCHANGED memory
  /\ UNCHANGED <<table, limits>>

FetchToResendUnchecked(r) ==
  /\ At(r, "resend", "fetch") /\ Works
  /\ IF Fetched(r) = "none" THEN Reply(r, "unsafe") ELSE Deliverable(r)
  /\ UNCHANGED <<table, memory, limits>>

\* A row that is found issued is used for this delivery and not remembered.
FetchToResend(r) ==
  /\ At(r, "resend", "fetch") /\ Works
  /\ CASE Fetched(r) = "issued"  -> Deliverable(r) /\ UNCHANGED memory
       [] Fetched(r) = "revoked" -> Remember(r, req[r].key, "revoked") /\ Reply(r, "revoked")
       [] Fetched(r) = "none"    -> Reply(r, "unsafe") /\ UNCHANGED memory
  /\ UNCHANGED <<table, limits>>

FetchToRevoke(r) ==
  /\ At(r, "revoke", "fetch") /\ Works
  /\ CASE Fetched(r) = "issued"  -> GoTo(r, "withdraw") /\ UNCHANGED memory
       [] Fetched(r) = "revoked" -> Remember(r, req[r].key, "revoked") /\ Reply(r, "revoked")
       [] Fetched(r) = "none"    -> Reply(r, "not_entitled") /\ UNCHANGED memory
  /\ UNCHANGED <<table, limits>>

\* The provider's part of an operation.
CallProvider(r) ==
  /\ \/ At(r, "issue", "create") /\ GoTo(r, "persist") /\ UNCHANGED memory
     \/ At(r, "revoke", "withdraw") /\ GoTo(r, "mark") /\ UNCHANGED memory
     \/ /\ At(r, "resend", "deliver") /\ Reply(r, "ready")
        /\ resent' = [resent EXCEPT ![Host(r)] = @ \cup {req[r].id}]
        /\ UNCHANGED <<ledger, answered>>
  /\ Works /\ UNCHANGED <<table, limits>>

\* The provider was called before the row is written; a row written meanwhile stays
\* as it is, revoked or not, and the request is answered "issued".
PersistIssue(r) ==
  /\ At(r, "issue", "persist") /\ Works
  /\ IssueOrGet(req[r].key)
  /\ Remember(r, req[r].key, "issued") /\ Reply(r, "issued")
  /\ UNCHANGED limits

PersistRevoke(r) ==
  /\ At(r, "revoke", "mark") /\ Works
  /\ MarkRevoked(req[r].key)
  /\ Remember(r, req[r].key, "revoked") /\ Reply(r, "revoked")
  /\ UNCHANGED limits

\* As if the revocation at the provider were all that counts.
FailedSilently(r) ==
  CASE req[r].pc \in {"create", "withdraw", "deliver"} -> "unavailable"
    [] req[r].pc \in {"late", "bury"}                  -> "not_eligible"
    [] req[r].pc \in {"support", "before", "after"}    -> "failed"
    [] req[r].pc = "mark"                              -> "revoked"
    [] OTHER                                           -> "error"

\* What a failed call ends the request with, by the place it failed at.
FailedWith(r) ==
  CASE req[r].pc \in {"create", "withdraw", "deliver"} -> "unavailable"
    [] req[r].pc \in {"late", "bury"}                  -> "not_eligible"
    [] req[r].pc \in {"support", "before", "after"}    -> "failed"
    [] OTHER                                           -> "error"

CallFails(r) ==
  /\ req[r].pc \notin {"done", "service"} /\ Fault
  /\ Reply(r, FailedWith(r))
  /\ UNCHANGED <<table, memory, limits>>

-----------------------------------------------------------------------------
(* Adm02EnsureAccessHandler, after authorization and the opt-in            *)

\* The row's label decides, not its end.
ReadForSupport(r) ==
  /\ At(r, "none", "support") /\ Works
  /\ IF sub \in {"active", "lapsed"} THEN GoTo(r, "before") ELSE Answer(r, "inactive")
  /\ UNCHANGED <<table, memory, limits>>

LookBefore(r) ==
  /\ At(r, "none", "before") /\ Works
  /\ IF CurrentIsIssued
       THEN Answer(r, "access_ready")
       ELSE req' = [req EXCEPT ![r].pc = "service", ![r].op = "issue", ![r].key = EnsureKey,
                               ![r].id = EnsureKey]
  /\ UNCHANGED <<table, memory, limits>>

\* As if the service's answer were enough.
LookAfterNever(r) ==
  /\ At(r, "issue", "after") /\ Works
  /\ Answer(r, "access_ready")
  /\ UNCHANGED <<table, memory, limits>>

LookAfter(r) ==
  /\ At(r, "issue", "after") /\ Works
  /\ Answer(r, IF CurrentIsIssued THEN "access_ready" ELSE "failed")
  /\ UNCHANGED <<table, memory, limits>>

-----------------------------------------------------------------------------
(* reconcile_expired_access, a process of its own at every firing          *)

\* record_access_reconcile_started, _completed, _failed.
Record(status) == heartbeat' = status

StartJob ==
  /\ job = "idle" /\ job' = "started" /\ Record("started")
  /\ UNCHANGED <<table, faults>>

\* As if the end were compared the wrong way round.
NotLapsed == sub = "active"

\* One statement over rows of users whose label is active and whose end has passed.
Lapsed == sub = "lapsed"

Reconcile ==
  /\ job = "started"
  /\ \/ /\ Works /\ job' = "updated"
        /\ IF Lapsed
             THEN /\ rows' = [k \in Keys |-> IF k \in Issued THEN "revoked" ELSE rows[k]]
                  /\ Touch(Issued)
             ELSE UNCHANGED table
     \/ Fault /\ job' = "broken" /\ UNCHANGED table
  /\ UNCHANGED heartbeat

\* The heartbeat is the last write, and the process may be gone before it.
EndJob ==
  /\ job \in {"updated", "broken"} /\ job' = "idle"
  /\ \/ Record(IF job = "updated" THEN "completed" ELSE "failed") /\ Works
     \/ Fault /\ UNCHANGED heartbeat
  /\ UNCHANGED table

Job ==
  /\ StartJob \/ Reconcile \/ EndJob
  /\ UNCHANGED <<sub, memory, limits, req, asked, payments>>

-----------------------------------------------------------------------------
(* The environment: payments, the passing of time, the scheduler of        *)
(* SubscriptionLifecycle, cancellation, restarts                           *)

Pay ==
  /\ payments < MaxPayments /\ payments' = payments + 1
  /\ sub' = "active"
  /\ UNCHANGED <<table, memory, limits, req, jobs, asked, faults>>

SubscriptionChanges ==
  /\ \/ sub = "active" /\ sub' \in {"lapsed", "other"}
     \/ sub = "lapsed" /\ sub' = "other"
  /\ UNCHANGED <<table, memory, limits, req, jobs, asked, payments, faults>>

WindowEnds ==
  /\ \/ cooling /\ cooling' = FALSE /\ UNCHANGED window
     \/ window > 0 /\ window' = 0 /\ UNCHANGED cooling
  /\ UNCHANGED <<table, sub, memory, req, jobs, asked, payments, faults>>

\* A process starts again: its memory is empty and its requests are gone.
Restart(p) ==
  /\ Fault
  /\ ledger' = [ledger EXCEPT ![p] = Nothing]
  /\ answered' = [answered EXCEPT ![p] = {}] /\ resent' = [resent EXCEPT ![p] = {}]
  /\ req' = [r \in Requests |-> IF Host(r) = p /\ req[r].pc # "done" THEN NoRequest ELSE req[r]]
  /\ IF p = Bot THEN cooling' = FALSE /\ window' = 0 ELSE UNCHANGED limits
  /\ UNCHANGED <<table, sub, jobs, asked, payments>>

\* What a process remembers of keys.
Remembered(p) == {k \in Keys : ledger[p][k] # "none"}

\* A cache at its limit, reached by the requests of other users: what was put in first
\* goes, in each cache on its own (_maybe_evict_caches).
Evict(p) ==
  /\ Fault
  /\ \/ /\ \E k \in Remembered(p) : ledger' = [ledger EXCEPT ![p][k] = "none"]
        /\ UNCHANGED <<answered, resent>>
     \/ /\ \E k \in answered[p] : answered' = [answered EXCEPT ![p] = @ \ {k}]
        /\ UNCHANGED <<ledger, resent>>
     \/ /\ \E id \in resent[p] : resent' = [resent EXCEPT ![p] = @ \ {id}]
        /\ UNCHANGED <<ledger, answered>>
  /\ UNCHANGED <<table, sub, limits, req, jobs, asked, payments>>

-----------------------------------------------------------------------------

Step(r) ==
  /\ \/ ReadSnapshot(r) \/ LookUpLate(r) \/ RevokeLate(r) \/ LookUp(r)
     \/ Recall(r) \/ FetchToIssue(r) \/ FetchToResend(r) \/ FetchToRevoke(r)
     \/ CallProvider(r) \/ PersistIssue(r) \/ PersistRevoke(r) \/ CallFails(r)
     \/ ReadForSupport(r) \/ LookBefore(r) \/ LookAfter(r)
  /\ UNCHANGED <<sub, jobs, asked, payments>>

Act ==
  \/ \E r \in Chats, u \in Updates : AskResend(r, u)
  \/ \E r \in Supports : AskEnsure(r)
  \/ \E r \in Operators, op \in {"issue", "resend", "revoke"}, k \in Keys : AskOperator(r, op, k)
  \/ \E r \in Requests : Step(r)
  \/ Job \/ Pay \/ SubscriptionChanges \/ WindowEnds
  \/ \E p \in {Bot, Admin} : Restart(p) \/ Evict(p)

\* History: a request starts with the keys issued then and gathers those issued since;
\* forgotten when its answer claims nothing about them.
Witness ==
  during' = [r \in Requests |->
               IF req'[r].pc = "done" /\ req'[r].out \notin {"ready", "access_ready"} THEN {}
               ELSE IF req[r].pc = "done" /\ req'[r] = req[r] THEN during[r]
               ELSE (IF req[r].pc = "done" THEN {} ELSE during[r]) \cup Issued']

Next == Act /\ Witness

Spec == Init /\ [][Next]_vars
FairSpec == Spec /\ WF_vars(Job /\ Witness)

-----------------------------------------------------------------------------
(* Properties                                                              *)

\* What a process remembers as revoked, and whatever was answered "revoked", is revoked
\* in the table and stays so: no answer outruns the durable state, and no issue by
\* another process brings a revoked key back (_sync_revoked_memory, issue_or_get).
RevokedIsDurable ==
  /\ \A p \in Processes, k \in Keys : ledger[p][k] = "revoked" => rows[k] = "revoked"
  /\ \A r \in Requests : req[r].out = "revoked" => rows[req[r].key] = "revoked"

\* Instructions are handed out only for a key that was issued at some time of the
\* request, whatever the process remembers and whoever revokes meanwhile.
DeliveredWasIssued ==
  \A r \in Requests : req[r].out = "ready" => req[r].key \in during[r]

\* Support is told that access is ready only if the user did have an issued key at some
\* time of the request, although the service answers from a memory that may be stale.
ReadyIsReal ==
  \A r \in Supports : req[r].out = "access_ready" => during[r] # {}

\* As long as the subscription is active by label and past its end, all issued keys
\* come to be revoked, or the row is renewed or marked first.
LapsedIsRevoked ==
  sub = "lapsed" /\ Issued # {} ~> sub # "lapsed" \/ Issued = {}
=============================================================================
