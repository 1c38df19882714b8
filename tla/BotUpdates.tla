----------------------------- MODULE BotUpdates -----------------------------
(***************************************************************************)
(* How the bot takes updates from Telegram and answers them: long polling  *)
(* with an offset that lives in memory, or a webhook with a table of       *)
(* update ids seen; UC-01 bootstrap under an idempotency record; referral  *)
(* relationships from /start ref_...; the ledger of outbound replies; and  *)
(* the registry that remembers which message shows which invoice.          *)
(*                                                                         *)
(* Every database statement is a step of its own, because the code opens a *)
(* connection for each.  The process may crash between any two of them;    *)
(* what lived in memory is gone then.                                      *)
(***************************************************************************)
EXTENDS Naturals, Sequences, FiniteSets

CONSTANTS
  Users, NoOne,
  LastUpdate,      \* bound: update ids are 1 .. LastUpdate
  Workers,         \* requests the process handles at the same time
  Scripts,         \* what the users send: a set of [Updates -> Message]
  Switched,        \* bound: the scripts during which the operator changes the way of intake
  Referred,        \* relationships that exist at the beginning: a set of such sets
  BatchLimit,      \* max_updates_per_batch
  Ttl,             \* TELEGRAM_UPDATE_DEDUP_TTL_SECONDS
  MaxTime,         \* bound: the last instant of the clock
  MaxCalls,        \* bound: webhook calls Telegram makes, repetitions included
  MaxDisruptions   \* bound: restarts, and changes of the way of intake, together

Updates == 1 .. LastUpdate

\* "start" is /start with the code of user ref (or none), "resend" a command
\* the webhook guards against repetition, "buy" one that makes an invoice,
\* "status" any other, "broken" an update the bridge cannot map.
Kinds   == {"start", "resend", "buy", "status", "broken"}
Message == [from : Users, kind : Kinds, ref : Users \cup {NoOne}]

\* Relationships <<referred, referrer, level>> as earlier runs of this code left them: one
\* referrer per level, nobody their own, and the second level the first level's first.
Consistent(R) ==
  \A r \in R :
    /\ r[1] # r[2]
    /\ \A q \in R : q[1] = r[1] /\ q[3] = r[3] => q = r
    /\ r[3] = 2 => \E m \in Users : {<<r[1], m, 1>>, <<m, r[2], 1>>} \subseteq R

ASSUME BotUpdatesAssumption ==
  /\ NoOne \notin Users
  /\ LastUpdate \in Nat
  /\ Scripts \subseteq [Updates -> Message] /\ Switched \subseteq Scripts
  /\ Referred \subseteq SUBSET (Users \X Users \X {1, 2})
  /\ \A R \in Referred : Consistent(R)
  /\ BatchLimit \in Nat \ {0}
  /\ Ttl \in Nat \ {0}
  /\ MaxTime \in Nat /\ MaxCalls \in Nat /\ MaxDisruptions \in Nat

Null == 0

VARIABLES
  now,
  mode,         \* "polling" or "webhook": how the bot gets its updates
  msg,          \* what is sent: a member of Scripts
  arrived,      \* updates 1 .. arrived have reached Telegram
  confirmed,    \* updates Telegram will not hand out again
  calls,        \* webhook calls made
  offset,       \* _current_offset of Slice1RawPollingRuntime, Null before the first batch
  seen,         \* telegram_update_dedup: expires_at per update
  idem,         \* idempotency_records of UC-01, one key per user and update
  identities,   \* user_identities
  snap,         \* subscription_snapshots: state_label
  audit,        \* updates with a UC-01 audit event
  referrals,    \* referral_relationships: <<referred, referrer, level>>
  ledger,       \* slice1_uc01_outbound_deliveries
  pendingPay,   \* _pending_by_user: the invoice waiting for its message
  registry,     \* payment_message_registry: invoice -> message that shows it
  worker,       \* what every request is doing
  disruptions,
  \* History, for the properties only.
  handled,      \* updates some worker finished
  admitted      \* per update, when the webhook let it through

telegramVars == <<now, mode, msg, arrived>>
storeVars    == <<seen, idem, identities, snap, audit, referrals, ledger>>
memoryVars   == <<offset, pendingPay, registry>>
historyVars  == <<handled, admitted>>
vars == <<telegramVars, confirmed, calls, storeVars, memoryVars, worker, disruptions, historyVars>>

Steps == {"idle", "take", "begin", "identity", "snapshot", "audit", "complete", "replay", "look",
          "refer", "referUp", "referL1", "referL2", "pend", "send", "mark"}

\* inbox: what is left of the batch; called: it came by the webhook; keyed: the reply
\* carries uc01_idempotency_key; up: referrer_of_referrer_id; late: history, the ledger
\* said "sent" at the start.
Idle == [pc |-> "idle", inbox |-> <<>>, called |-> FALSE, keyed |-> FALSE, up |-> NoOne,
         late |-> FALSE]

Upd(w)  == Head(worker[w].inbox)
User(w) == msg[Upd(w)].from
At(w, pc) == worker[w].pc = pc
Goto(w, pc) == worker' = [worker EXCEPT ![w].pc = pc]

Init ==
  /\ now = 1 /\ arrived = 0 /\ disruptions = 0
  /\ mode \in {"polling", "webhook"}
  /\ msg \in Scripts
  /\ confirmed = {} /\ handled = {}
  /\ referrals \in Referred
  /\ identities = {r[1] : r \in referrals} \cup {r[2] : r \in referrals}
  /\ calls = 0
  /\ offset = Null
  /\ seen = [u \in Updates |-> Null]
  /\ idem = [u \in Updates |-> "none"]
  /\ snap = [i \in Users |-> IF i \in identities THEN "inactive" ELSE "none"]
  /\ audit = {}
  /\ ledger = [u \in Updates |-> "none"]
  /\ pendingPay = [i \in Users |-> Null]
  /\ registry = [u \in Updates |-> Null]
  /\ worker = [w \in Workers |-> Idle]
  /\ admitted = [u \in Updates |-> <<>>]
-----------------------------------------------------------------------------
(* The world: time, the users, and the other ways to become a subscriber.  *)

\* Nothing but the marks of the webhook depends on the time.
Tick ==
  /\ now < MaxTime
  /\ \E u \in Updates : seen[u] > now
  /\ now' = now + 1
  /\ UNCHANGED <<mode, msg, arrived, confirmed, calls, storeVars, memoryVars, worker, disruptions, historyVars>>

Arrive ==
  /\ arrived < LastUpdate
  /\ arrived' = arrived + 1
  /\ UNCHANGED <<now, mode, msg, confirmed, calls, storeVars, memoryVars, worker, disruptions, historyVars>>

\* A registered user pays (see Fulfillment); here only the row matters.
Subscribe(i) ==
  /\ i \in identities
  /\ snap[i] = "inactive"
  /\ snap' = [snap EXCEPT ![i] = "active"]
  /\ UNCHANGED <<telegramVars, confirmed, calls, seen, idem, identities, audit, referrals, ledger,
                 memoryVars, worker, disruptions, historyVars>>

(***************************************************************************)
(* The operator sets or deletes the webhook (setWebhook, deleteWebhook     *)
(* with drop_pending_updates false): what waits at Telegram goes on        *)
(* waiting, and what is in hand is finished by whoever has it.             *)
(***************************************************************************)
ConfigureWebhook ==
  /\ msg \in Switched
  /\ disruptions < MaxDisruptions
  /\ disruptions' = disruptions + 1
  /\ mode' = IF mode = "polling" THEN "webhook" ELSE "polling"
  /\ UNCHANGED <<now, msg, arrived, confirmed, calls, storeVars, memoryVars, worker, historyVars>>
-----------------------------------------------------------------------------
(* Intake.                                                                 *)

\* Messages that are waiting at Telegram and not below the offset.
Waiting == {u \in 1 .. arrived : u \notin confirmed /\ u >= offset}

\* The first BatchLimit of them, oldest first.
Batch == [k \in 1 .. Cardinality({u \in Waiting : Cardinality({v \in Waiting : v < u}) < BatchLimit}) |->
            CHOOSE u \in Waiting : Cardinality({v \in Waiting : v < u}) = k - 1]

\* Mutant: an off-by-one.
AdvancedTooFar(batch) ==
  LET next == batch[Len(batch)] + 2 IN IF next > offset THEN next ELSE offset

\* advance_polling_offset: one above the batch, and never back.
Advanced(batch) ==
  LET next == batch[Len(batch)] + 1 IN IF next > offset THEN next ELSE offset

\* getUpdates confirms what lies below the offset it is called with.
ConfirmedByPoll == confirmed \cup {u \in 1 .. arrived : u < offset}

(***************************************************************************)
(* One poll.  The offset moves on before anything of the batch is done;    *)
(* Telegram hears of it with the next poll only, which a new process       *)
(* starts without an offset.  A failed fetch changes nothing.              *)
(***************************************************************************)
Poll(w) ==
  /\ mode = "polling"
  /\ w = CHOOSE v \in Workers : TRUE    \* one loop polls
  /\ At(w, "idle")
  /\ confirmed' = ConfirmedByPoll
  /\ IF Waiting = {}
     THEN UNCHANGED <<offset, worker>>
     ELSE /\ offset' = Advanced(Batch)
          /\ worker' = [worker EXCEPT ![w] = [Idle EXCEPT !.pc = "take", !.inbox = Batch]]
  /\ UNCHANGED <<telegramVars, calls, storeVars, pendingPay, registry, disruptions, historyVars>>

\* Mutant: the lifetime is counted from the wrong end.
FirstSeenEarly(u) == seen[u] = Null \/ seen[u] < now + Ttl

\* mark_if_first_seen: inserted, or an expired row taken over.
FirstSeen(u) == seen[u] = Null \/ seen[u] <= now

(***************************************************************************)
(* Telegram calls the webhook; a call that is refused (rate limit, secret, *)
(* body) comes to nothing and is repeated.  A guarded command is marked as *)
(* seen before it is handled, and a repetition is answered with 200.       *)
(***************************************************************************)
Receive(w, u) ==
  /\ mode = "webhook"
  /\ At(w, "idle")
  /\ u \in 1 .. arrived /\ u \notin confirmed
  /\ calls < MaxCalls
  /\ calls' = calls + 1
  /\ \/ /\ msg[u].kind = "resend" /\ ~FirstSeen(u)
        /\ confirmed' = confirmed \cup {u}
        /\ UNCHANGED <<seen, admitted, worker>>
     \/ /\ msg[u].kind = "resend" => FirstSeen(u)
        /\ seen' = [seen EXCEPT ![u] = IF msg[u].kind = "resend" THEN now + Ttl ELSE @]
        /\ admitted' = [admitted EXCEPT ![u] = Append(@, now)]
        /\ worker' = [worker EXCEPT ![w] = [Idle EXCEPT !.pc = "take", !.inbox = <<u>>, !.called = TRUE]]
        /\ UNCHANGED confirmed
  /\ UNCHANGED <<telegramVars, idem, identities, snap, audit, referrals, ledger, memoryVars, disruptions,
                 handled>>

(***************************************************************************)
(* The current update is done with, whatever came of it: failures are      *)
(* counted and swallowed, the batch goes on, and the webhook answers 200   *)
(* (which Telegram may not get in time).                                   *)
(***************************************************************************)
Finish(w) ==
  /\ worker' = [worker EXCEPT ![w] = IF Len(@.inbox) = 1 THEN Idle
                                     ELSE [Idle EXCEPT !.pc = "take", !.inbox = Tail(worker[w].inbox)]]
  /\ handled' = handled \cup {Upd(w)}
  /\ \/ UNCHANGED confirmed
     \/ worker[w].called /\ confirmed' = confirmed \cup {Upd(w)}

\* The next update of the batch, by kind.
Take(w) ==
  /\ At(w, "take")
  /\ CASE msg[Upd(w)].kind = "start" ->
            /\ worker' = [worker EXCEPT ![w].pc = "begin", ![w].late = (ledger[Upd(w)] = "sent")]
            /\ UNCHANGED <<confirmed, handled, pendingPay>>
       [] msg[Upd(w)].kind = "broken" ->
            /\ Finish(w)
            /\ UNCHANGED pendingPay
       [] msg[Upd(w)].kind = "buy" ->
            /\ pendingPay' = [pendingPay EXCEPT ![User(w)] = Upd(w)]
            /\ Goto(w, "send")
            /\ UNCHANGED <<confirmed, handled>>
       [] OTHER ->
            /\ Goto(w, "send")
            /\ UNCHANGED <<confirmed, handled, pendingPay>>
  /\ UNCHANGED <<telegramVars, calls, storeVars, offset, registry, disruptions, admitted>>
-----------------------------------------------------------------------------
(* UC-01 bootstrap.                                                        *)

outside == <<telegramVars, confirmed, calls, seen, memoryVars, disruptions, historyVars>>

Begin(w) ==
  /\ At(w, "begin")
  /\ idem' = [idem EXCEPT ![Upd(w)] = IF @ = "none" THEN "open" ELSE @]
  /\ Goto(w, IF idem[Upd(w)] = "completed" THEN "replay" ELSE "identity")
  /\ UNCHANGED <<outside, identities, snap, audit, referrals, ledger>>

CreateIfAbsent(w) ==
  /\ At(w, "identity")
  /\ identities' = identities \cup {User(w)}
  /\ Goto(w, "snapshot")
  /\ UNCHANGED <<outside, idem, snap, audit, referrals, ledger>>

PutIfAbsent(i) == [snap EXCEPT ![i] = IF @ = "none" THEN "inactive" ELSE @]

PutSnapshot(w) ==
  /\ At(w, "snapshot")
  /\ snap' = PutIfAbsent(User(w))
  /\ Goto(w, "audit")
  /\ UNCHANGED <<outside, idem, identities, audit, referrals, ledger>>

\* Mutant: the record is completed before the audit event is there.
AppendAuditLate(w) ==
  /\ At(w, "audit")
  /\ Goto(w, "complete")
  /\ UNCHANGED <<outside, idem, identities, snap, audit, referrals, ledger>>

AppendAudit(w) ==
  /\ At(w, "audit")
  /\ audit' = audit \cup {Upd(w)}
  /\ Goto(w, "complete")
  /\ UNCHANGED <<outside, idem, identities, snap, referrals, ledger>>

Complete(w) ==
  /\ At(w, "complete")
  /\ idem' = [idem EXCEPT ![Upd(w)] = "completed"]
  /\ worker' = [worker EXCEPT ![w].keyed = TRUE,
                              ![w].pc = IF msg[Upd(w)].ref # NoOne THEN "refer" ELSE "pend"]
  /\ UNCHANGED <<outside, identities, snap, audit, referrals, ledger>>

\* The record was completed by an earlier delivery.
Replay(w) ==
  /\ At(w, "replay")
  /\ User(w) \in identities
  /\ snap' = PutIfAbsent(User(w))
  /\ worker' = [worker EXCEPT ![w].pc = "look", ![w].keyed = TRUE]
  /\ UNCHANGED <<outside, idem, identities, audit, referrals, ledger>>

\* A statement fails: the user is told, without a key, and nothing is undone.
BootstrapFails(w) ==
  /\ worker[w].pc \in {"begin", "identity", "snapshot", "audit", "complete", "replay"}
  /\ Goto(w, "send")
  /\ UNCHANGED <<outside, idem, identities, snap, audit, referrals, ledger>>

\* Mutant: a replay is answered unless the ledger has never heard of it.
AnswersKnown(u) == ledger[u] # "none"

\* A replay is answered again while its reply is pending, and else suppressed.
AnswersReplay(u) == ledger[u] = "pending"

LookAtLedger(w) ==
  /\ At(w, "look")
  /\ \/ /\ AnswersReplay(Upd(w))
        /\ Goto(w, "pend")
        /\ UNCHANGED <<confirmed, handled>>
     \/ /\ ~AnswersReplay(Upd(w))
        /\ Finish(w)
  /\ UNCHANGED <<telegramVars, calls, storeVars, memoryVars, disruptions, admitted>>
-----------------------------------------------------------------------------
(* Referral relationships: apply_referral_on_registration.                 *)

ReferrersOf(i) == {r \in referrals : r[1] = i}
FirstLevel(i)  == {r \in ReferrersOf(i) : r[3] = 1}

\* find_by_code: whose code the deep link carries.
Referrer(w) == msg[Upd(w)].ref

\* The self-referral guard and the guard against a second one.
Refer(w) ==
  /\ At(w, "refer")
  /\ Goto(w, IF Referrer(w) = User(w) \/ ReferrersOf(User(w)) # {} THEN "pend" ELSE "referUp")
  /\ UNCHANGED <<outside, idem, identities, snap, audit, referrals, ledger>>

\* Who referred the referrer.
ReferUp(w) ==
  /\ At(w, "referUp")
  /\ LET above == {r[2] : r \in FirstLevel(Referrer(w))}
     IN  \E up \in IF above = {} THEN {NoOne} ELSE above :
           worker' = [worker EXCEPT ![w].pc = "referL1", ![w].up = up]
  /\ UNCHANGED <<outside, idem, identities, snap, audit, referrals, ledger>>

\* A row of this level exists: the unique index refuses another.
Taken(i, level) == \E r \in referrals : r[1] = i /\ r[3] = level

\* create_relationship
Related(i, by, level) == referrals \cup {<<i, by, level>>}

CreateFirstLevel(w) ==
  /\ At(w, "referL1")
  /\ ~Taken(User(w), 1)
  /\ referrals' = Related(User(w), Referrer(w), 1)
  /\ Goto(w, IF worker[w].up \notin {NoOne, User(w)} THEN "referL2" ELSE "pend")
  /\ UNCHANGED <<outside, idem, identities, snap, audit, ledger>>

CreateSecondLevel(w) ==
  /\ At(w, "referL2")
  /\ ~Taken(User(w), 2)
  /\ referrals' = Related(User(w), worker[w].up, 2)
  /\ Goto(w, "pend")
  /\ UNCHANGED <<outside, idem, identities, snap, audit, ledger>>

\* Mutant: the violated index is ignored and the second level still written.
ReferralGoesOn(w) ==
  /\ worker[w].pc \in {"refer", "referUp", "referL1", "referL2", "look", "pend", "mark"}
  /\ IF At(w, "referL1") /\ worker[w].up \notin {NoOne, User(w)}
     THEN Goto(w, "referL2") /\ UNCHANGED <<confirmed, handled>>
     ELSE Finish(w)
  /\ UNCHANGED <<telegramVars, calls, storeVars, memoryVars, disruptions, admitted>>

\* A statement of these steps raises (a lost connection, the unique index):
\* the update has failed, the user hears nothing.
Raises(w) ==
  /\ worker[w].pc \in {"refer", "referUp", "referL1", "referL2", "look", "pend", "mark"}
  /\ Finish(w)
  /\ UNCHANGED <<telegramVars, calls, storeVars, memoryVars, disruptions, admitted>>
-----------------------------------------------------------------------------
(* The reply.                                                              *)

EnsurePending(w) ==
  /\ At(w, "pend")
  /\ ledger' = [ledger EXCEPT ![Upd(w)] = IF @ = "none" THEN "pending" ELSE @]
  /\ Goto(w, "send")
  /\ UNCHANGED <<outside, idem, identities, snap, audit, referrals>>

(***************************************************************************)
(* pop_pending_payment_for_user and register_payment_message: the message  *)
(* just sent (named by its update) is taken for the waiting invoice's.     *)
(***************************************************************************)
NoteMessage(w) ==
  LET invoice == pendingPay[User(w)]
  IN  /\ pendingPay' = [pendingPay EXCEPT ![User(w)] = Null]
      /\ registry' = IF invoice = Null THEN registry
                     ELSE [registry EXCEPT ![invoice] = Upd(w)]

\* The send succeeds, after whatever fallbacks (edit, plain text, no markup).
Send(w) ==
  /\ At(w, "send")
  /\ \/ /\ worker[w].keyed
        /\ Goto(w, "mark")
        /\ UNCHANGED <<confirmed, handled, pendingPay, registry>>
     \/ /\ ~worker[w].keyed
        /\ NoteMessage(w)
        /\ Finish(w)
  /\ UNCHANGED <<telegramVars, calls, storeVars, offset, disruptions, admitted>>

\* Every fallback raises; Telegram may have shown the message all the same.
SendFails(w) ==
  /\ At(w, "send")
  /\ Finish(w)
  /\ UNCHANGED <<telegramVars, calls, storeVars, memoryVars, disruptions, admitted>>

MarkSent(w) ==
  /\ At(w, "mark")
  /\ ledger' = [ledger EXCEPT ![Upd(w)] = IF @ = "pending" THEN "sent" ELSE @]
  /\ NoteMessage(w)
  /\ Finish(w)
  /\ UNCHANGED <<telegramVars, calls, seen, idem, identities, snap, audit, referrals, offset, disruptions,
                 admitted>>

\* The process ends and starts again, with empty memory.
Crash ==
  /\ disruptions < MaxDisruptions
  /\ disruptions' = disruptions + 1
  /\ worker' = [w \in Workers |-> Idle]
  /\ offset' = Null
  /\ pendingPay' = [i \in Users |-> Null]
  /\ registry' = [u \in Updates |-> Null]
  /\ UNCHANGED <<telegramVars, confirmed, calls, storeVars, historyVars>>

WorkerStep(w) ==
  \/ Take(w)
  \/ Begin(w) \/ CreateIfAbsent(w) \/ PutSnapshot(w) \/ AppendAudit(w) \/ Complete(w)
  \/ Replay(w) \/ LookAtLedger(w) \/ BootstrapFails(w)
  \/ Refer(w) \/ ReferUp(w) \/ CreateFirstLevel(w) \/ CreateSecondLevel(w) \/ Raises(w)
  \/ EnsurePending(w) \/ Send(w) \/ SendFails(w) \/ MarkSent(w)

Next ==
  \/ Tick
  \/ Arrive
  \/ ConfigureWebhook
  \/ \E i \in Users : Subscribe(i)
  \/ \E w \in Workers : Poll(w)
  \/ \E w \in Workers, u \in Updates : Receive(w, u)
  \/ \E w \in Workers : WorkerStep(w)
  \/ Crash

Spec == Init /\ [][Next]_vars

(***************************************************************************)
(* The event loop runs what can run; the polling loop polls for ever; and  *)
(* Telegram repeats a webhook call that got no 200.                        *)
(***************************************************************************)
Fairness ==
  /\ \A w \in Workers : WF_vars(WorkerStep(w)) /\ WF_vars(Poll(w))
  /\ \A u \in Updates : SF_vars(\E w \in Workers : Receive(w, u))

FairSpec == Spec /\ Fairness
-----------------------------------------------------------------------------
(* Properties.                                                             *)

(***************************************************************************)
(* A completed idempotency record means that the whole bootstrap was done: *)
(* later deliveries of the update skip it, whichever of its statements had *)
(* failed or been cut short before (BootstrapIdentityHandler.handle).      *)
(***************************************************************************)
CompletedIsBootstrapped ==
  \A u \in Updates :
    idem[u] = "completed" =>
      msg[u].from \in identities /\ snap[msg[u].from] # "none" /\ u \in audit

(***************************************************************************)
(* Commissions follow the relationships, so they must be consistent        *)
(* whatever /start messages race: one referrer per level, nobody refers    *)
(* themselves, and the second level is the first level's first level.      *)
(***************************************************************************)
SecondLevelFollowsFirst == Consistent(referrals)

(***************************************************************************)
(* A guarded command is let through again only after the mark's lifetime,  *)
(* however often and however concurrently Telegram repeats the call.       *)
(***************************************************************************)
AdmittedApart ==
  \A u \in Updates : msg[u].kind = "resend" =>
    \A k \in 1 .. Len(admitted[u]) - 1 : admitted[u][k + 1] >= admitted[u][k] + Ttl

(***************************************************************************)
(* Once the ledger says that the reply to a /start was sent, no delivery   *)
(* that begins afterwards sends it again (only an error may be told).      *)
(***************************************************************************)
AnsweredIsFinal ==
  \A w \in Workers : worker[w].late =>
    worker[w].pc \notin {"pend", "mark"} /\ (At(w, "send") => ~worker[w].keyed)

(***************************************************************************)
(* Every update is worked through in the end, over restarts and a      *)
(* change between polling and the webhook, unless Telegram gives up        *)
(* calling the webhook or the guard swallows a repeated command.           *)
(***************************************************************************)
UpdatesAreHandled ==
  \A u \in Updates :
    u <= arrived ~>
      \/ u \in handled
      \/ mode = "webhook" /\ calls = MaxCalls
      \/ msg[u].kind = "resend" /\ u \in confirmed
==============================================================================
