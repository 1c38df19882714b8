------------------------------- MODULE BotProofs -------------------------------
(***************************************************************************)
(* What BotUpdates guarantees for any number of users, updates, workers,   *)
(* restarts and changes of the way of intake, whatever is sent.            *)
(*                                                                         *)
(* Every worker takes its update through a sequence of statements that     *)
(* each commit on their own, next to the others and to repetitions of the  *)
(* same update.  The invariant says of each point of that sequence what    *)
(* the tables are known to hold there (Reached, Replied, Referring), and   *)
(* what makes it inductive is that the tables only ever grow in these      *)
(* respects, so that what one worker has seen no other takes back.         *)
(***************************************************************************)
EXTENDS BotUpdates, Storefront, Integers, TLAPS, FiniteSetTheorems, WellFoundedInduction

Fields == {"pc", "inbox", "called", "keyed", "up", "late"}

\* A worker that is not idle has an update in hand.
WellFormed(s) ==
  /\ DOMAIN s = Fields
  /\ s.inbox \in Seq(Updates)
  /\ s.pc # "idle" => s.inbox # <<>>

Shape ==
  /\ msg \in [Updates -> Message]
  /\ arrived \in 0 .. LastUpdate
  /\ DOMAIN idem = Updates /\ DOMAIN ledger = Updates
  /\ DOMAIN snap = Users /\ DOMAIN worker = Workers
  /\ \A w \in Workers : WellFormed(worker[w])

\* What UC-01 has done for update u.
Bootstrapped(u) == msg[u].from \in identities /\ snap[msg[u].from] # "none" /\ u \in audit

\* How far the bootstrap of the update at hand has come, at least.
Reached(s) ==
  LET u == Head(s.inbox)
      i == msg[u].from
  IN  /\ s.pc = "snapshot" => i \in identities
      /\ s.pc = "audit"    => i \in identities /\ snap[i] # "none"
      /\ s.pc = "complete" => Bootstrapped(u)

AfterCompletion == {"replay", "look", "refer", "referUp", "referL1", "referL2", "pend", "mark"}

\* What is known of the record and of the ledger where a reply is made, and that a
\* delivery which found the reply sent is on the way that makes none.
Replied(s) ==
  LET u == Head(s.inbox)
  IN  /\ s.pc \in AfterCompletion => idem[u] = "completed"
      /\ s.pc = "send" /\ s.keyed => idem[u] = "completed"
      /\ s.pc \in {"take", "begin", "identity", "snapshot", "audit", "complete", "replay"} =>
           ~ s.keyed
      /\ s.late => /\ ledger[u] = "sent"
                   /\ s.pc \in {"begin", "replay", "look", "send"}
                   /\ s.pc = "send" => ~ s.keyed

\* What the guards of apply_referral_on_registration have established.
Referring(s) ==
  LET u == Head(s.inbox)
      i == msg[u].from
      r == msg[u].ref
  IN  /\ s.pc \in {"refer", "referUp", "referL1", "referL2"} => r \in Users
      /\ s.pc \in {"referUp", "referL1"} => r # i
      /\ s.pc = "referL1" /\ s.up # NoOne => <<r, s.up, 1>> \in referrals
      /\ s.pc = "referL2" =>
           s.up \in Users \ {i} /\ {<<i, r, 1>>, <<r, s.up, 1>>} \subseteq referrals

Sound(s) == Reached(s) /\ Replied(s) /\ Referring(s)

\* The tables: a record completed stands for a bootstrap, and the ledger knows replies to
\* completed ones only.
Tables ==
  /\ CompletedIsBootstrapped
  /\ \A u \in Updates : ledger[u] # "none" => idem[u] = "completed"
  /\ referrals \subseteq Users \X Users \X {1, 2}
  /\ SecondLevelFollowsFirst

IInv ==
  /\ Shape
  /\ Tables
  /\ \A w \in Workers : Sound(worker[w])
-----------------------------------------------------------------------------
(* The tables only grow.                                                   *)

Grows ==
  /\ msg' = msg
  /\ arrived' \in 0 .. LastUpdate
  /\ DOMAIN idem' = Updates /\ DOMAIN ledger' = Updates /\ DOMAIN snap' = Users
  /\ identities \subseteq identities' /\ audit \subseteq audit' /\ referrals \subseteq referrals'
  /\ \A i \in Users : snap[i] # "none" => snap'[i] # "none"
  /\ \A u \in Updates : /\ idem[u] = "completed" => idem'[u] = "completed"
                        /\ ledger[u] = "sent" => ledger'[u] = "sent"

\* The update in hand is one that was sent, by a user.
LEMMA InHand ==
  ASSUME Shape, NEW s, WellFormed(s), s.pc # "idle"
  PROVE  /\ Head(s.inbox) \in Updates
         /\ msg[Head(s.inbox)].from \in Users
         /\ msg[Head(s.inbox)].ref # NoOne => msg[Head(s.inbox)].ref \in Users
<1>1. Head(s.inbox) \in Updates
  BY DEF WellFormed
<1> QED BY <1>1 DEF Shape, Message

\* What is known at a point of the sequence stays known while the tables grow.
LEMMA SoundStays ==
  ASSUME Shape, Grows, NEW s, WellFormed(s), Sound(s) PROVE Sound(s)'
<1>1. CASE s.pc = "idle"
  BY <1>1 DEF Sound, Reached, Replied, Referring, AfterCompletion
<1>2. CASE s.pc # "idle"
  <2> DEFINE u == Head(s.inbox)
  <2>1. u \in Updates /\ msg[u].from \in Users /\ msg' = msg
    BY <1>2, InHand DEF Grows
  <2>2. Reached(s)'
    BY <2>1 DEF Sound, Reached, Bootstrapped, Grows
  <2>3. Replied(s)'
    BY <2>1 DEF Sound, Replied, Grows
  <2>4. Referring(s)'
    BY <2>1 DEF Sound, Referring, Grows
  <2> QED BY <2>2, <2>3, <2>4 DEF Sound
<1> QED BY <1>1, <1>2

\* One worker takes a step into q, and the tables grow.
LEMMA StepKeeps ==
  ASSUME IInv, Grows, Tables', NEW w \in Workers, NEW q, worker' = [worker EXCEPT ![w] = q],
         WellFormed(q), Sound(q)'
  PROVE  IInv'
<1>1. DOMAIN worker' = Workers /\ worker'[w] = q /\ \A v \in Workers \ {w} : worker'[v] = worker[v]
  BY DEF IInv, Shape
<1>2. Shape'
  BY <1>1 DEF IInv, Shape, Grows
<1>3. ASSUME NEW v \in Workers PROVE Sound(worker[v])'
  <2>1. CASE v = w
    BY <1>1, <2>1
  <2>2. CASE v # w
    <3>1. PICK s : s = worker[v]
      OBVIOUS
    <3>2. WellFormed(s) /\ Sound(s) /\ worker'[v] = s
      BY <1>1, <2>2, <3>1 DEF IInv, Shape
    <3>3. Sound(s)'
      BY <3>2, SoundStays DEF IInv
    <3> QED BY <3>2, <3>3
  <2> QED BY <2>1, <2>2
<1> QED BY <1>2, <1>3 DEF IInv

\* The tables that decide stay as they are.
Quiet == UNCHANGED <<msg, arrived, idem, identities, snap, audit, referrals, ledger>>

\* Then they grow, and stay consistent.
LEMMA QuietGrows ==
  ASSUME IInv, Quiet PROVE Grows /\ Tables'
BY DEF Quiet, Grows, IInv, Shape, Tables, CompletedIsBootstrapped, SecondLevelFollowsFirst, Consistent

\* A worker that has nothing, or has not looked at its next update yet, claims nothing.
LEMMA FreshIsSound ==
  ASSUME NEW s, s.pc \in {"idle", "take"}, ~ s.late, ~ s.keyed PROVE Sound(s)'
BY DEF Sound, Reached, Replied, Referring, AfterCompletion

\* A worker is done with its update and turns to the next one, if there is one.
LEMMA FinishKeeps ==
  ASSUME IInv, Grows, Tables', NEW w \in Workers, worker[w].pc # "idle", Finish(w) PROVE IInv'
<1>1. PICK inbox : inbox = worker[w].inbox
  OBVIOUS
<1>2. inbox \in Seq(Updates) /\ inbox # <<>>
  BY <1>1 DEF IInv, Shape, WellFormed
<1>3. CASE Len(inbox) = 1
  <2>1. PICK q : q = Idle
    OBVIOUS
  <2>2. worker' = [worker EXCEPT ![w] = q]
    BY <1>1, <1>3, <2>1 DEF Finish
  <2>3. WellFormed(q) /\ q.pc = "idle" /\ ~ q.late /\ ~ q.keyed
    BY <2>1 DEF Idle, WellFormed, Fields
  <2>4. Sound(q)'
    BY <2>3, FreshIsSound
  <2> QED BY <2>2, <2>3, <2>4, StepKeeps
<1>4. CASE Len(inbox) # 1
  <2>1. PICK q : q = [Idle EXCEPT !.pc = "take", !.inbox = Tail(inbox)]
    OBVIOUS
  <2>2. worker' = [worker EXCEPT ![w] = q]
    BY <1>1, <1>4, <2>1 DEF Finish
  <2>3. Tail(inbox) \in Seq(Updates) /\ Tail(inbox) # <<>>
    <3>1. Len(inbox) \in Nat /\ Len(inbox) # 0
      BY <1>2
    <3>2. Tail(inbox) \in Seq(Updates) /\ Len(Tail(inbox)) = Len(inbox) - 1
      BY <1>2
    <3> QED BY <1>4, <3>1, <3>2
  <2>4. WellFormed(q) /\ q.pc = "take" /\ ~ q.late /\ ~ q.keyed
    BY <2>1, <2>3 DEF Idle, WellFormed, Fields
  <2>5. Sound(q)'
    BY <2>4, FreshIsSound
  <2> QED BY <2>2, <2>4, <2>5, StepKeeps
<1> QED BY <1>3, <1>4

\* A worker goes on with its update: enough that the new point is sound.
LEMMA GotoKeeps ==
  ASSUME IInv, Grows, Tables', NEW w \in Workers, worker[w].pc # "idle",
         NEW pc, pc # "idle", Goto(w, pc),
         \A q : /\ q.pc = pc /\ q.inbox = worker[w].inbox /\ q.up = worker[w].up
                /\ q.keyed = worker[w].keyed /\ q.late = worker[w].late
                => Sound(q)'
  PROVE  IInv'
<1>1. PICK q : q = [worker[w] EXCEPT !.pc = pc]
  OBVIOUS
<1>2. worker' = [worker EXCEPT ![w] = q]
  BY <1>1 DEF Goto
<1>3. DOMAIN worker[w] = Fields
  BY DEF IInv, Shape, WellFormed
<1>4. DOMAIN q = Fields /\ q.pc = pc /\ q.inbox = worker[w].inbox /\ q.up = worker[w].up
      /\ q.keyed = worker[w].keyed /\ q.late = worker[w].late
  BY <1>1, <1>3 DEF Fields
<1>5. WellFormed(q)
  BY <1>4 DEF IInv, Shape, WellFormed
<1>6. Sound(q)'
  BY <1>4
<1> QED BY <1>2, <1>5, <1>6, StepKeeps
-----------------------------------------------------------------------------
(* UC-01.                                                                  *)

\* The steps of the bootstrap leave the relationships, the ledger and the messages alone.
LEMMA BootstrapKeeps ==
  ASSUME IInv, NEW w \in Workers,
         \/ Begin(w) \/ CreateIfAbsent(w) \/ PutSnapshot(w) \/ AppendAudit(w)
         \/ Complete(w) \/ Replay(w) \/ BootstrapFails(w)
  PROVE  IInv'
<1> DEFINE u == Head(worker[w].inbox)
           i == msg[u].from
<1>1. /\ worker[w].pc # "idle" /\ UNCHANGED <<msg, arrived, referrals, ledger>>
      /\ identities' \in {identities, identities \cup {i}}
      /\ audit' \in {audit, audit \cup {u}}
  BY DEF Begin, CreateIfAbsent, PutSnapshot, AppendAudit, Complete, Replay, BootstrapFails, At,
     outside, telegramVars, Upd, User
<1>2. PICK s : s = worker[w]
  OBVIOUS
<1>3. WellFormed(s) /\ Sound(s) /\ s.pc # "idle" /\ Shape
  BY <1>1, <1>2 DEF IInv, Shape
<1>4. u \in Updates /\ i \in Users
  BY <1>2, <1>3, InHand
<1> USE DEF Upd, User
<1>5. ASSUME idem' = idem, snap' = snap PROVE Grows
  BY <1>1, <1>3, <1>5 DEF Shape, Grows
<1>6. ASSUME idem' = idem, snap' = snap PROVE Tables'
  BY <1>1, <1>6 DEF IInv, Tables, CompletedIsBootstrapped, SecondLevelFollowsFirst, Consistent
<1>7. CASE Begin(w)
  <2>1. idem' = [idem EXCEPT ![u] = IF idem[u] = "none" THEN "open" ELSE idem[u]] /\ snap' = snap
        /\ UNCHANGED <<identities, audit>>
    BY <1>7 DEF Begin
  <2>2. \A v \in Updates : /\ idem'[v] = "completed" <=> idem[v] = "completed"
    BY <1>3, <2>1 DEF Shape
  <2>3. Grows
    BY <1>1, <1>3, <2>1, <2>2 DEF Shape, Grows
  <2>4. Tables'
    BY <1>1, <2>1, <2>2
       DEF IInv, Tables, CompletedIsBootstrapped, SecondLevelFollowsFirst, Consistent
  <2>5. PICK pc : /\ pc \in {"replay", "identity"}
                  /\ pc = "replay" <=> idem[u] = "completed"
                  /\ Goto(w, pc)
    BY <1>7 DEF Begin
  <2>6. s.late => idem[u] = "completed"
    BY <1>2, <1>3, <1>4 DEF IInv, Tables, Sound, Replied
  <2>7. s.pc = "begin" /\ ~ s.keyed
    BY <1>2, <1>3, <1>7 DEF Begin, At, Sound, Replied
  <2>8. ASSUME NEW q, q.pc = pc, q.inbox = s.inbox, q.up = s.up, q.keyed = s.keyed, q.late = s.late
        PROVE  Sound(q)'
    <3>1. Reached(q)' /\ Referring(q)'
      BY <2>5, <2>8 DEF Reached, Referring
    <3>2. s.late => ledger[u] = "sent"
      BY <1>2, <1>3 DEF Sound, Replied
    <3>3. Replied(q)'
      BY <1>1, <1>2, <1>4, <2>2, <2>5, <2>6, <2>7, <2>8, <3>2 DEF Replied, AfterCompletion
    <3> QED BY <3>1, <3>3 DEF Sound
  <2> QED BY <1>1, <1>2, <2>3, <2>4, <2>5, <2>8, GotoKeeps
<1>8. CASE CreateIfAbsent(w)
  <2>1. Grows /\ Tables'
    BY <1>1, <1>3, <1>8
       DEF CreateIfAbsent, Shape, Grows, IInv, Tables, CompletedIsBootstrapped,
           SecondLevelFollowsFirst, Consistent
  <2>2. Goto(w, "snapshot") /\ i \in identities' /\ s.pc = "identity" /\ idem' = idem
    BY <1>2, <1>8 DEF CreateIfAbsent, At
  <2> QED BY <1>1, <1>2, <1>3, <1>4, <2>1, <2>2, GotoKeeps
          DEF Sound, Reached, Replied, Referring, AfterCompletion
<1>9. CASE PutSnapshot(w) \/ Replay(w)
  <2>1. /\ snap' = [snap EXCEPT ![i] = IF snap[i] = "none" THEN "inactive" ELSE snap[i]]
        /\ UNCHANGED <<idem, identities, audit>>
    BY <1>9 DEF PutSnapshot, Replay, PutIfAbsent
  <2>2. snap'[i] # "none" /\ \A v \in Users : snap[v] # "none" => snap'[v] # "none"
    BY <1>3, <1>4, <2>1 DEF Shape
  <2>3. Grows
    BY <1>1, <1>3, <2>1, <2>2 DEF Shape, Grows
  <2>4. Tables'
    <3>1. CompletedIsBootstrapped'
      BY <1>1, <1>3, <2>1, <2>2 DEF IInv, Tables, CompletedIsBootstrapped, Shape, Message
    <3>2. SecondLevelFollowsFirst'
      BY <1>1 DEF IInv, Tables, SecondLevelFollowsFirst, Consistent
    <3> QED BY <1>1, <2>1, <3>1, <3>2 DEF IInv, Tables
  <2>5. CASE PutSnapshot(w)
    <3>1. Goto(w, "audit") /\ s.pc = "snapshot"
      BY <1>2, <2>5 DEF PutSnapshot, At
    <3> QED BY <1>1, <1>2, <1>3, <1>4, <2>1, <2>2, <2>3, <2>4, <3>1, GotoKeeps
            DEF Sound, Reached, Replied, Referring, AfterCompletion
  <2>6. CASE Replay(w)
    <3>1. PICK q : q = [worker[w] EXCEPT !.pc = "look", !.keyed = TRUE]
      OBVIOUS
    <3>2. worker' = [worker EXCEPT ![w] = q] /\ s.pc = "replay"
      BY <1>2, <2>6, <3>1 DEF Replay, At
    <3>3. DOMAIN q = Fields /\ q.pc = "look" /\ q.inbox = s.inbox /\ q.late = s.late
      BY <1>2, <1>3, <3>1 DEF WellFormed, Fields
    <3>4. WellFormed(q)
      BY <1>3, <3>2, <3>3 DEF WellFormed
    <3>5. Sound(q)'
      BY <1>1, <1>2, <1>3, <1>4, <2>1, <3>2, <3>3
         DEF Sound, Reached, Replied, Referring, AfterCompletion
    <3> QED BY <2>3, <2>4, <3>2, <3>4, <3>5, StepKeeps
  <2> QED BY <1>9, <2>5, <2>6
<1>10. CASE AppendAudit(w)
  <2>1. Grows /\ Tables'
    BY <1>1, <1>3, <1>10
       DEF AppendAudit, Shape, Grows, IInv, Tables, CompletedIsBootstrapped,
           SecondLevelFollowsFirst, Consistent
  <2>2. Goto(w, "complete") /\ u \in audit' /\ s.pc = "audit"
        /\ UNCHANGED <<idem, identities, snap>>
    BY <1>2, <1>10 DEF AppendAudit, At
  <2> QED BY <1>1, <1>2, <1>3, <1>4, <2>1, <2>2, GotoKeeps
          DEF Sound, Reached, Replied, Referring, AfterCompletion, Bootstrapped
<1>11. CASE Complete(w)
  <2>1. idem' = [idem EXCEPT ![u] = "completed"] /\ UNCHANGED <<identities, snap, audit>>
        /\ s.pc = "complete"
    BY <1>2, <1>11 DEF Complete, At
  <2>2. Bootstrapped(u)
    BY <1>2, <1>3, <2>1 DEF Sound, Reached
  <2>3. Grows
    BY <1>1, <1>3, <2>1 DEF Shape, Grows
  <2>4. Tables'
    BY <1>1, <1>3, <2>1, <2>2
       DEF IInv, Tables, CompletedIsBootstrapped, SecondLevelFollowsFirst, Consistent, Shape,
           Bootstrapped
  <2>5. PICK pc : /\ pc = IF msg[u].ref # NoOne THEN "refer" ELSE "pend"
                  /\ worker' = [worker EXCEPT ![w].keyed = TRUE, ![w].pc = pc]
    BY <1>11 DEF Complete
  <2>6. PICK q : q = [worker[w] EXCEPT !.keyed = TRUE, !.pc = pc]
    OBVIOUS
  <2>7. worker' = [worker EXCEPT ![w] = q]
    BY <2>5, <2>6
  <2>8. DOMAIN q = Fields /\ q.pc = pc /\ q.inbox = s.inbox /\ q.late = s.late
    BY <1>2, <1>3, <2>6 DEF WellFormed, Fields
  <2>9. pc \in {"refer", "pend"} /\ (pc = "refer" => msg[u].ref \in Users)
    BY <1>2, <1>3, <2>5, InHand
  <2>10. WellFormed(q)
    BY <1>3, <2>1, <2>8, <2>9 DEF WellFormed
  <2>11. idem'[u] = "completed" /\ ~ s.late
    BY <1>3, <1>4, <2>1 DEF Shape, Sound, Replied
  <2>12. Sound(q)'
    BY <1>1, <1>2, <2>8, <2>9, <2>11 DEF Sound, Reached, Replied, Referring
  <2> QED BY <2>3, <2>4, <2>7, <2>10, <2>12, StepKeeps
<1>12. CASE BootstrapFails(w)
  <2>1. Goto(w, "send") /\ UNCHANGED <<idem, identities, snap, audit>>
        /\ s.pc \in {"begin", "identity", "snapshot", "audit", "complete", "replay"}
    BY <1>2, <1>12 DEF BootstrapFails
  <2>2. Grows /\ Tables'
    BY <1>5, <1>6, <2>1
  <2> QED BY <1>1, <1>2, <1>3, <1>4, <2>1, <2>2, GotoKeeps
          DEF Sound, Reached, Replied, Referring, AfterCompletion
<1> QED BY <1>7, <1>8, <1>9, <1>10, <1>11, <1>12

\* A step that ends the work on an update without touching the tables, as one that fails does.
LEMMA EndingKeeps ==
  ASSUME IInv, NEW w \in Workers, worker[w].pc # "idle", Quiet, Finish(w) PROVE IInv'
BY QuietGrows, FinishKeeps

\* The next update is taken up; whether its reply was sent already is noted.
LEMMA TakeKeeps ==
  ASSUME IInv, NEW w \in Workers, Take(w) PROVE IInv'
<1> DEFINE u == Head(worker[w].inbox)
<1>1. Quiet /\ worker[w].pc = "take"
  BY DEF Take, Quiet, At, telegramVars, storeVars
<1>2. Grows /\ Tables'
  BY <1>1, QuietGrows
<1>3. PICK s : s = worker[w]
  OBVIOUS
<1>4. WellFormed(s) /\ Sound(s) /\ s.pc = "take" /\ Shape
  BY <1>1, <1>3 DEF IInv, Shape
<1>5. u \in Updates /\ msg[u].from \in Users
  BY <1>3, <1>4, InHand
<1>6. CASE Finish(w)
  BY <1>1, <1>6, EndingKeeps
<1>7. CASE Goto(w, "send")
  <2>1. ~ s.late /\ ~ s.keyed
    BY <1>4 DEF Sound, Replied
  <2> QED BY <1>1, <1>2, <1>3, <1>7, <2>1, GotoKeeps
          DEF Sound, Reached, Replied, Referring, AfterCompletion
<1>8. CASE worker' = [worker EXCEPT ![w].pc = "begin", ![w].late = (ledger[u] = "sent")]
  <2>1. PICK sent \in BOOLEAN : sent <=> ledger[u] = "sent"
    OBVIOUS
  <2>2. PICK q : q = [worker[w] EXCEPT !.pc = "begin", !.late = sent]
    OBVIOUS
  <2>3. worker' = [worker EXCEPT ![w] = q]
    BY <1>8, <2>1, <2>2, Zenon
  <2>4. DOMAIN q = Fields /\ q.pc = "begin" /\ q.inbox = s.inbox /\ q.keyed = s.keyed
    BY <1>3, <1>4, <2>2 DEF WellFormed, Fields
  <2>5. q.late <=> sent
    BY <1>3, <1>4, <2>2 DEF WellFormed, Fields
  <2>6. WellFormed(q)
    BY <1>4, <2>4 DEF WellFormed
  <2>7. UNCHANGED ledger
    BY <1>1 DEF Quiet
  <2>8. Sound(q)'
    BY <1>3, <1>4, <2>1, <2>4, <2>5, <2>7 DEF Sound, Reached, Replied, Referring, AfterCompletion
  <2> QED BY <1>2, <2>3, <2>6, <2>8, StepKeeps
<1> QED BY <1>1, <1>6, <1>7, <1>8 DEF Take, Upd
-----------------------------------------------------------------------------
(* Referrals and replies.                                                  *)

\* The look at the ledger, the guards of a referral, the reply and what raises: none of these
\* writes a table that decides, except what MarkSent makes of a pending reply.
LEMMA LookKeeps ==
  ASSUME IInv, NEW w \in Workers,
         \/ LookAtLedger(w) \/ Refer(w) \/ ReferUp(w) \/ Raises(w) \/ Send(w) \/ SendFails(w)
  PROVE  IInv'
<1> DEFINE u == Head(worker[w].inbox)
           i == msg[u].from
<1>1. Quiet /\ worker[w].pc # "idle"
  BY DEF LookAtLedger, Refer, ReferUp, Raises, Send, SendFails, Quiet, At, outside, telegramVars,
     storeVars
<1>2. Grows /\ Tables'
  BY <1>1, QuietGrows
<1>3. PICK s : s = worker[w]
  OBVIOUS
<1>4. WellFormed(s) /\ Sound(s) /\ s.pc # "idle" /\ Shape
  BY <1>1, <1>3 DEF IInv, Shape
<1>5. u \in Updates /\ i \in Users
  BY <1>3, <1>4, InHand
<1>6. CASE Finish(w)
  BY <1>1, <1>6, EndingKeeps
<1>7. CASE LookAtLedger(w) /\ AnswersReplay(u) /\ Goto(w, "pend")
  <2>1. s.pc = "look" /\ ~ s.late
    BY <1>3, <1>4, <1>7 DEF LookAtLedger, At, AnswersReplay, Sound, Replied
  <2> QED BY <1>1, <1>2, <1>3, <1>4, <1>7, <2>1, GotoKeeps
          DEF Sound, Reached, Replied, Referring, AfterCompletion, Quiet
<1>8. CASE Refer(w)
  <2>1. s.pc = "refer" /\ ~ s.late
    BY <1>3, <1>4, <1>8 DEF Refer, At, Sound, Replied
  <2>2. PICK pc : pc \in {"pend", "referUp"} /\ (pc = "referUp" => msg[u].ref # i) /\ Goto(w, pc)
    BY <1>8 DEF Refer, Referrer, User, Upd
  <2> QED BY <1>1, <1>2, <1>3, <1>4, <2>1, <2>2, GotoKeeps
          DEF Sound, Reached, Replied, Referring, AfterCompletion, Quiet
<1>9. CASE ReferUp(w)
  <2>1. s.pc = "referUp" /\ ~ s.late
    BY <1>3, <1>4, <1>9 DEF ReferUp, At, Sound, Replied
  <2>2. PICK up : /\ worker' = [worker EXCEPT ![w].pc = "referL1", ![w].up = up]
                  /\ up # NoOne => <<msg[u].ref, up, 1>> \in referrals
    <3>1. PICK up : /\ up \in IF {r[2] : r \in FirstLevel(msg[u].ref)} = {} THEN {NoOne}
                               ELSE {r[2] : r \in FirstLevel(msg[u].ref)}
                    /\ worker' = [worker EXCEPT ![w].pc = "referL1", ![w].up = up]
      BY <1>9 DEF ReferUp, Referrer, Upd
    <3>2. CASE up # NoOne
      <4>1. PICK r \in referrals : r[1] = msg[u].ref /\ r[3] = 1 /\ r[2] = up
        BY <3>1, <3>2 DEF FirstLevel, ReferrersOf
      <4>2. r = <<msg[u].ref, up, 1>>
        BY <4>1 DEF IInv, Tables
      <4> QED BY <3>1, <4>1, <4>2
    <3> QED BY <3>1, <3>2
  <2>3. PICK q : q = [worker[w] EXCEPT !.pc = "referL1", !.up = up]
    OBVIOUS
  <2>4. worker' = [worker EXCEPT ![w] = q]
    BY <2>2, <2>3
  <2>5. DOMAIN q = Fields /\ q.pc = "referL1" /\ q.inbox = s.inbox /\ q.late = s.late /\ q.up = up
    BY <1>3, <1>4, <2>3 DEF WellFormed, Fields
  <2>6. WellFormed(q)
    BY <1>4, <2>5 DEF WellFormed
  <2>7. Sound(q)'
    BY <1>1, <1>3, <1>4, <2>1, <2>2, <2>5
       DEF Sound, Reached, Replied, Referring, AfterCompletion, Quiet
  <2> QED BY <1>2, <2>4, <2>6, <2>7, StepKeeps
<1>10. CASE Send(w) /\ worker[w].keyed /\ Goto(w, "mark")
  <2>1. s.pc = "send" /\ s.keyed /\ ~ s.late
    BY <1>3, <1>4, <1>10 DEF Send, At, Sound, Replied
  <2> QED BY <1>1, <1>2, <1>3, <1>4, <2>1, <1>10, GotoKeeps
          DEF Sound, Reached, Replied, Referring, AfterCompletion, Quiet
<1> QED BY <1>6, <1>7, <1>8, <1>9, <1>10 DEF LookAtLedger, Raises, Send, SendFails, Upd

\* One more relationship, of a level that is free, keeps the relationships consistent.
LEMMA RelatedIsConsistent ==
  ASSUME Tables, NEW i \in Users, NEW by \in Users \ {i}, NEW level \in {1, 2},
         ~ Taken(i, level), referrals' = Related(i, by, level),
         level = 2 => \E m \in Users : {<<i, m, 1>>, <<m, by, 1>>} \subseteq referrals
  PROVE  referrals' \subseteq Users \X Users \X {1, 2} /\ SecondLevelFollowsFirst'
<1> DEFINE new == <<i, by, level>>
<1>1. referrals' = referrals \cup {new}
  BY DEF Related
<1>2. referrals' \subseteq Users \X Users \X {1, 2}
  BY <1>1 DEF Tables
<1>3. ASSUME NEW r \in referrals'
      PROVE  /\ r[1] # r[2]
             /\ r[3] = 2 => \E m \in Users : {<<r[1], m, 1>>, <<m, r[2], 1>>} \subseteq referrals'
  <2>1. CASE r \in referrals
    BY <1>1, <2>1 DEF Tables, SecondLevelFollowsFirst, Consistent
  <2>2. CASE r = new
    BY <1>1, <2>2
  <2> QED BY <1>1, <2>1, <2>2
<1>4. ASSUME NEW r \in referrals', NEW q \in referrals', q[1] = r[1], q[3] = r[3] PROVE q = r
  <2>1. CASE r \in referrals /\ q \in referrals
    BY <1>4, <2>1 DEF Tables, SecondLevelFollowsFirst, Consistent
  <2>2. \A x \in referrals : ~ (x[1] = i /\ x[3] = level)
    BY DEF Taken
  <2> QED BY <1>1, <1>4, <2>1, <2>2
<1> QED BY <1>2, <1>3, <1>4 DEF SecondLevelFollowsFirst, Consistent

\* The statements that relate.
LEMMA RelateKeeps ==
  ASSUME IInv, NEW w \in Workers, CreateFirstLevel(w) \/ CreateSecondLevel(w) PROVE IInv'
<1> DEFINE u == Head(worker[w].inbox)
           i == msg[u].from
           by == msg[u].ref
<1>1. UNCHANGED <<msg, arrived, idem, identities, snap, audit, ledger>>
  BY DEF CreateFirstLevel, CreateSecondLevel, outside, telegramVars
<1>2. PICK s : s = worker[w]
  OBVIOUS
<1>3. WellFormed(s) /\ Sound(s) /\ s.pc \in {"referL1", "referL2"} /\ Shape /\ Tables
  BY <1>2 DEF IInv, Shape, CreateFirstLevel, CreateSecondLevel, At
<1>4. u \in Updates /\ i \in Users /\ by \in Users /\ idem[u] = "completed" /\ ~ s.late
  BY <1>2, <1>3, InHand DEF Sound, Replied, Referring, AfterCompletion
<1>5. ASSUME referrals \subseteq referrals' PROVE Grows
  BY <1>1, <1>3, <1>5 DEF Shape, Grows
<1>6. ASSUME referrals' \subseteq Users \X Users \X {1, 2}, SecondLevelFollowsFirst' PROVE Tables'
  BY <1>1, <1>3, <1>6 DEF Tables, CompletedIsBootstrapped
<1>7. CASE CreateFirstLevel(w)
  <2>1. referrals' = Related(i, by, 1) /\ ~ Taken(i, 1) /\ s.pc = "referL1" /\ by # i
    BY <1>2, <1>3, <1>7 DEF CreateFirstLevel, At, User, Upd, Referrer, Sound, Referring
  <2>2. referrals' = referrals \cup {<<i, by, 1>>}
    BY <2>1 DEF Related
  <2>3. Grows /\ Tables'
    <3>1. /\ 1 \in {1, 2} /\ by \in Users \ {i}
          /\ 1 = 2 => \E m \in Users : {<<i, m, 1>>, <<m, by, 1>>} \subseteq referrals
      BY <1>4, <2>1
    <3>2. referrals' \subseteq Users \X Users \X {1, 2} /\ SecondLevelFollowsFirst'
      BY <1>3, <1>4, <2>1, <3>1, RelatedIsConsistent
    <3> QED BY <1>5, <1>6, <2>2, <3>2
  <2>4. PICK pc : /\ pc \in {"pend", "referL2"} /\ Goto(w, pc)
                  /\ pc = "referL2" => s.up \notin {NoOne, i}
    <3>1. PICK pc : pc = IF s.up \notin {NoOne, i} THEN "referL2" ELSE "pend"
      OBVIOUS
    <3>2. Goto(w, pc)
      BY <1>2, <1>7, <3>1 DEF CreateFirstLevel, User, Upd
    <3> QED BY <3>1, <3>2
  <2>5. pc = "referL2" => s.up \in Users /\ <<by, s.up, 1>> \in referrals
    BY <1>2, <1>3, <2>1, <2>4 DEF Sound, Referring, Tables
  <2>6. ASSUME NEW q, q.pc = pc, q.inbox = s.inbox, q.up = s.up, q.keyed = s.keyed, q.late = s.late
        PROVE  Sound(q)'
    <3>1. Reached(q)' /\ Replied(q)'
      BY <1>1, <1>2, <1>4, <2>4, <2>6 DEF Reached, Replied, AfterCompletion
    <3>2. Referring(q)'
      BY <1>1, <1>2, <1>4, <2>2, <2>4, <2>5, <2>6 DEF Referring
    <3> QED BY <3>1, <3>2 DEF Sound
  <2> QED BY <1>1, <1>2, <2>1, <2>3, <2>4, <2>6, GotoKeeps
<1>8. CASE CreateSecondLevel(w)
  <2>1. referrals' = Related(i, s.up, 2) /\ ~ Taken(i, 2) /\ s.pc = "referL2" /\ Goto(w, "pend")
    BY <1>2, <1>8 DEF CreateSecondLevel, At, User, Upd
  <2>2. s.up \in Users \ {i} /\ {<<i, by, 1>>, <<by, s.up, 1>>} \subseteq referrals
    BY <1>2, <1>3, <2>1 DEF Sound, Referring
  <2>3. Grows /\ Tables'
    <3>1. referrals \subseteq referrals'
      BY <2>1 DEF Related
    <3> QED BY <1>3, <1>4, <1>5, <1>6, <2>1, <2>2, <3>1, RelatedIsConsistent
  <2> QED BY <1>1, <1>2, <1>3, <1>4, <2>1, <2>3, GotoKeeps
          DEF Sound, Reached, Replied, Referring, AfterCompletion
<1> QED BY <1>7, <1>8

\* The ledger takes note of a reply to a completed record only.
LEMMA LedgerKeeps ==
  ASSUME IInv, NEW w \in Workers, EnsurePending(w) \/ MarkSent(w) PROVE IInv'
<1> DEFINE u == Head(worker[w].inbox)
<1>1. UNCHANGED <<msg, arrived, idem, identities, snap, audit, referrals>>
  BY DEF EnsurePending, MarkSent, outside, telegramVars
<1>2. PICK s : s = worker[w]
  OBVIOUS
<1>3. WellFormed(s) /\ Sound(s) /\ s.pc \in {"pend", "mark"} /\ Shape /\ Tables
  BY <1>2 DEF IInv, Shape, EnsurePending, MarkSent, At
<1>4. u \in Updates /\ idem[u] = "completed" /\ ~ s.late
  BY <1>2, <1>3, InHand DEF Sound, Replied, AfterCompletion
<1>5. /\ DOMAIN ledger' = Updates
      /\ \A v \in Updates : /\ ledger[v] = "sent" => ledger'[v] = "sent"
                            /\ ledger'[v] # "none" => ledger[v] # "none" \/ v = u
  <2>1. ledger' \in {[ledger EXCEPT ![u] = IF ledger[u] = "none" THEN "pending" ELSE ledger[u]],
                     [ledger EXCEPT ![u] = IF ledger[u] = "pending" THEN "sent" ELSE ledger[u]]}
    BY DEF EnsurePending, MarkSent, Upd
  <2> QED BY <1>3, <1>4, <2>1 DEF Shape
<1>6. Grows
  BY <1>1, <1>3, <1>5 DEF Shape, Grows
<1>7. Tables'
  BY <1>1, <1>3, <1>4, <1>5
     DEF Tables, CompletedIsBootstrapped, SecondLevelFollowsFirst, Consistent
<1>8. CASE EnsurePending(w)
  <2>1. Goto(w, "send")
    BY <1>8 DEF EnsurePending
  <2> QED BY <1>1, <1>2, <1>3, <1>4, <1>6, <1>7, <2>1, GotoKeeps
          DEF Sound, Reached, Replied, Referring, AfterCompletion
<1>9. CASE MarkSent(w)
  BY <1>2, <1>3, <1>6, <1>7, <1>9, FinishKeeps DEF MarkSent
<1> QED BY <1>8, <1>9
-----------------------------------------------------------------------------
(* Intake.                                                                 *)

\* In a finite set of numbers there is one with exactly k below it, for every k smaller than
\* the size of the set: numbering by what lies below is one-to-one.
LEMMA RanksAreFilled ==
  ASSUME NEW S \in SUBSET Nat, IsFiniteSet(S), NEW k \in 0 .. Cardinality(S) - 1
  PROVE  \E x \in S : Cardinality({y \in S : y < x}) = k
<1> DEFINE n == Cardinality(S)
           Below(x) == {y \in S : y < x}
           rank == [x \in S |-> Cardinality(Below(x))]
<1>1. n \in Nat
  BY FS_CardinalityType
<1>2. ASSUME NEW x \in S
      PROVE  IsFiniteSet(Below(x)) /\ Cardinality(Below(x)) \in 0 .. n - 1
  <2>1. Below(x) \in SUBSET S /\ x \notin Below(x)
    BY <1>2
  <2>2. IsFiniteSet(Below(x)) /\ Cardinality(Below(x)) <= n /\ Cardinality(Below(x)) # n
    BY <2>1, <1>2, FS_Subset
  <2>3. Cardinality(Below(x)) \in Nat
    BY <2>2, FS_CardinalityType
  <2> QED BY <1>1, <2>2, <2>3
<1>3. ASSUME NEW x \in S, NEW z \in S, x < z
      PROVE  Cardinality(Below(x)) < Cardinality(Below(z))
  <2>1. Below(x) \in SUBSET Below(z) /\ x \in Below(z) /\ x \notin Below(x)
    <3>1. x \in Nat /\ z \in Nat /\ x < z
      BY <1>3
    <3>2. ASSUME NEW y \in S, y < x PROVE y < z
      <4>1. y \in Nat
        OBVIOUS
      <4> QED BY <3>1, <3>2, <4>1
    <3>3. Below(x) \subseteq Below(z)
      BY <3>2
    <3>4. ~ (x < x)
      BY <3>1
    <3> QED BY <1>3, <3>1, <3>3, <3>4
  <2>2. Cardinality(Below(x)) <= Cardinality(Below(z)) /\ Cardinality(Below(x)) # Cardinality(Below(z))
    BY <1>2, <2>1, FS_Subset
  <2> QED BY <1>2, <2>2
<1>4. rank \in Injection(S, 0 .. n - 1)
  <2>1. rank \in [S -> 0 .. n - 1]
    BY <1>2
  <2>2. ASSUME NEW x \in S, NEW z \in S, rank[x] = rank[z] PROVE x = z
    <3>1. ~ (x < z) /\ ~ (z < x)
      BY <1>2, <1>3, <2>2
    <3> QED BY <3>1
  <2> QED BY <2>1, <2>2 DEF Injection, IsInjective
<1>5. IsFiniteSet(0 .. n - 1) /\ Cardinality(0 .. n - 1) = n
  BY <1>1, FS_Interval
<1>6. rank \in Surjection(S, 0 .. n - 1)
  BY <1>4, <1>5, FS_Injection
<1> QED BY <1>6 DEF Surjection

\* A batch is a sequence of updates, and there is one when something waits.
LEMMA BatchIsUpdates ==
  ASSUME Shape PROVE Batch \in Seq(Updates) /\ (Waiting # {} => Batch # <<>>)
<1> DEFINE Below(u) == {v \in Waiting : v < u}
           First == {u \in Waiting : Cardinality(Below(u)) < BatchLimit}
<1>1. Waiting \in SUBSET Nat /\ Waiting \in SUBSET Updates /\ arrived \in Nat
  <2>1. arrived \in 0 .. LastUpdate /\ LastUpdate \in Nat
    BY BotUpdatesAssumption DEF Shape
  <2> QED BY <2>1 DEF Waiting, Updates
<1>2. IsFiniteSet(Waiting)
  <2>1. Waiting \in SUBSET (1 .. arrived)
    BY DEF Waiting
  <2>2. IsFiniteSet(1 .. arrived)
    BY <1>1, FS_Interval
  <2> QED BY <2>1, <2>2, FS_Subset
<1>3. IsFiniteSet(First) /\ Cardinality(First) <= Cardinality(Waiting)
  <2>1. First \in SUBSET Waiting
    OBVIOUS
  <2> QED BY <1>2, <2>1, FS_Subset
<1>4. Cardinality(First) \in Nat /\ Cardinality(Waiting) \in Nat
  BY <1>2, <1>3, FS_CardinalityType
<1>5. ASSUME NEW k \in 1 .. Cardinality(First)
      PROVE  (CHOOSE u \in Waiting : Cardinality({v \in Waiting : v < u}) = k - 1) \in Updates
  <2>1. k - 1 \in 0 .. Cardinality(Waiting) - 1
    BY <1>3, <1>4
  <2>2. \E u \in Waiting : Cardinality({v \in Waiting : v < u}) = k - 1
    BY <1>1, <1>2, <2>1, RanksAreFilled
  <2> QED BY <1>1, <2>2
<1>6. Batch = [k \in 1 .. Cardinality(First) |->
                 CHOOSE u \in Waiting : Cardinality({v \in Waiting : v < u}) = k - 1]
  BY DEF Batch
<1>7. Batch \in [1 .. Cardinality(First) -> Updates]
  BY <1>5, <1>6
<1>8. Batch \in Seq(Updates) /\ Len(Batch) = Cardinality(First)
  <2> HIDE DEF First
  <2> QED BY <1>4, <1>7
<1>9. ASSUME Waiting # {} PROVE Cardinality(First) # 0
  <2>1. Cardinality(Waiting) # 0
    BY <1>2, <1>9, FS_EmptySet
  <2>2. 0 \in 0 .. Cardinality(Waiting) - 1
    BY <1>4, <2>1
  <2>3. PICK u \in Waiting : Cardinality({v \in Waiting : v < u}) = 0
    BY <1>1, <1>2, <2>2, RanksAreFilled
  <2>4. u \in First
    BY <2>3, BotUpdatesAssumption
  <2> QED BY <1>3, <2>4, FS_EmptySet
<1>10. Waiting # {} => Batch # <<>>
  BY <1>8, <1>9
<1> QED BY <1>8, <1>10

\* A poll, and a call of the webhook, give a worker updates to take up.
LEMMA IntakeKeeps ==
  ASSUME IInv, NEW w \in Workers, Poll(w) \/ \E u \in Updates : Receive(w, u) PROVE IInv'
<1>1. Quiet
  BY DEF Poll, Receive, Quiet, telegramVars, storeVars
<1>2. Grows /\ Tables'
  BY <1>1, QuietGrows
<1>3. ASSUME NEW q, worker' = [worker EXCEPT ![w] = q], DOMAIN q = Fields, q.pc = "take",
             q.inbox \in Seq(Updates), q.inbox # <<>>, ~ q.late, ~ q.keyed
      PROVE  IInv'
  <2>1. WellFormed(q)
    BY <1>3 DEF WellFormed
  <2>2. Sound(q)'
    BY <1>3, FreshIsSound
  <2> QED BY <1>2, <1>3, <2>1, <2>2, StepKeeps
<1>4. CASE UNCHANGED worker
  BY <1>1, <1>2, <1>4, SoundStays DEF IInv, Shape, Grows
<1>5. CASE Poll(w) /\ ~ UNCHANGED worker
  <2>1. PICK batch : batch = Batch
    OBVIOUS
  <2>2. batch \in Seq(Updates) /\ batch # <<>>
    BY <1>5, <2>1, BatchIsUpdates DEF Poll, IInv
  <2>3. PICK q : q = [Idle EXCEPT !.pc = "take", !.inbox = batch]
    OBVIOUS
  <2>4. worker' = [worker EXCEPT ![w] = q]
    BY <1>5, <2>1, <2>3 DEF Poll
  <2>5. DOMAIN q = Fields /\ q.pc = "take" /\ q.inbox = batch /\ ~ q.late /\ ~ q.keyed
    BY <2>3 DEF Idle, Fields
  <2> QED BY <1>3, <2>2, <2>4, <2>5
<1>6. ASSUME NEW u \in Updates, Receive(w, u), ~ UNCHANGED worker PROVE IInv'
  <2>1. PICK q : q = [Idle EXCEPT !.pc = "take", !.inbox = <<u>>, !.called = TRUE]
    OBVIOUS
  <2>2. worker' = [worker EXCEPT ![w] = q]
    BY <1>6, <2>1 DEF Receive
  <2>3. DOMAIN q = Fields /\ q.pc = "take" /\ q.inbox = <<u>> /\ ~ q.late /\ ~ q.keyed
    BY <2>1 DEF Idle, Fields
  <2>4. <<u>> \in Seq(Updates) /\ <<u>> # <<>>
    OBVIOUS
  <2> QED BY <1>3, <2>2, <2>3, <2>4
<1> QED BY <1>4, <1>5, <1>6

\* The world: time, arrivals, payments, the operator, and a restart, which empties all hands.
LEMMA WorldKeeps ==
  ASSUME IInv,
         \/ Tick \/ Arrive \/ ConfigureWebhook \/ Crash \/ UNCHANGED vars
         \/ \E i \in Users : Subscribe(i)
  PROVE  IInv'
<1>1. ASSUME Grows, Tables', UNCHANGED worker PROVE IInv'
  <2>1. Shape'
    BY <1>1 DEF IInv, Shape, Grows
  <2> QED BY <1>1, <2>1, SoundStays DEF IInv, Shape
<1>2. CASE Tick \/ ConfigureWebhook \/ UNCHANGED vars
  <2>1. Quiet /\ UNCHANGED worker
    BY <1>2 DEF Tick, ConfigureWebhook, vars, Quiet, telegramVars, storeVars
  <2> QED BY <1>1, <2>1, QuietGrows
<1>3. CASE Arrive
  <2>1. /\ UNCHANGED <<msg, idem, identities, snap, audit, referrals, ledger, worker>>
        /\ arrived' = arrived + 1 /\ arrived < LastUpdate
    BY <1>3 DEF Arrive, storeVars
  <2>2. arrived' \in 0 .. LastUpdate
    BY <2>1, BotUpdatesAssumption DEF IInv, Shape
  <2>3. Grows
    BY <2>1, <2>2 DEF IInv, Shape, Grows
  <2>4. Tables'
    BY <2>1 DEF IInv, Tables, CompletedIsBootstrapped, SecondLevelFollowsFirst, Consistent
  <2> QED BY <1>1, <2>1, <2>3, <2>4
<1>4. ASSUME NEW i \in Users, Subscribe(i) PROVE IInv'
  <2>1. /\ UNCHANGED <<msg, arrived, idem, identities, audit, referrals, ledger, worker>>
        /\ snap' = [snap EXCEPT ![i] = "active"]
    BY <1>4 DEF Subscribe, telegramVars
  <2>2. DOMAIN snap' = Users /\ \A j \in Users : snap[j] # "none" => snap'[j] # "none"
    BY <2>1 DEF IInv, Shape
  <2>3. Grows
    BY <2>1, <2>2 DEF IInv, Shape, Grows
  <2>4. Tables'
    BY <2>1, <2>2
       DEF IInv, Tables, Shape, Message, CompletedIsBootstrapped, SecondLevelFollowsFirst, Consistent
  <2> QED BY <1>1, <2>1, <2>3, <2>4
<1>5. CASE Crash
  <2>1. Quiet /\ worker' = [w \in Workers |-> Idle]
    BY <1>5 DEF Crash, Quiet, telegramVars, storeVars
  <2>2. Grows /\ Tables'
    BY <2>1, QuietGrows
  <2>3. PICK q : q = Idle
    OBVIOUS
  <2>4. WellFormed(q) /\ q.pc = "idle" /\ ~ q.late /\ ~ q.keyed
    BY <2>3 DEF Idle, WellFormed, Fields
  <2>5. Sound(q)'
    BY <2>4, FreshIsSound
  <2>6. Shape'
    BY <2>1, <2>2, <2>3, <2>4 DEF IInv, Shape, Grows
  <2> QED BY <2>1, <2>2, <2>3, <2>5, <2>6 DEF IInv
<1> QED BY <1>2, <1>3, <1>4, <1>5

\* Every step keeps the invariant.
LEMMA InvariantIsKept == IInv /\ [Next]_vars => IInv'
<1> SUFFICES ASSUME IInv, [Next]_vars PROVE IInv'
  OBVIOUS
<1>1. ASSUME NEW w \in Workers, WorkerStep(w) PROVE IInv'
  BY <1>1, TakeKeeps, BootstrapKeeps, LookKeeps, RelateKeeps, LedgerKeeps DEF WorkerStep
<1> QED BY <1>1, IntakeKeeps, WorldKeeps DEF Next

\* Nothing was sent yet, and the relationships are those an earlier run left.
LEMMA InitEstablishes == Init => IInv
<1> SUFFICES ASSUME Init PROVE IInv
  OBVIOUS
<1>1. PICK q : q = Idle
  OBVIOUS
<1>2. WellFormed(q) /\ q.pc = "idle" /\ ~ q.late /\ ~ q.keyed
  BY <1>1 DEF Idle, WellFormed, Fields
<1>3. worker = [w \in Workers |-> q]
  BY <1>1 DEF Init
<1>4. Shape
  <2>1. 0 \in 0 .. LastUpdate
    BY BotUpdatesAssumption
  <2> QED BY <1>2, <1>3, <2>1, BotUpdatesAssumption DEF Init, Shape
<1>5. Sound(q)
  BY <1>2 DEF Sound, Reached, Replied, Referring, AfterCompletion
<1>6. Tables
  BY BotUpdatesAssumption DEF Init, Tables, CompletedIsBootstrapped, SecondLevelFollowsFirst
<1> QED BY <1>3, <1>4, <1>5, <1>6 DEF IInv

\* So it holds in every reachable state.
LEMMA Invariance == Spec => []IInv
BY InitEstablishes, InvariantIsKept, PTL DEF Spec
-----------------------------------------------------------------------------
(***************************************************************************)
(* A completed record stands for a whole bootstrap, whatever failed or was *)
(* cut short before: identity, row and audit event are there, for any      *)
(* number of concurrent and repeated deliveries.                           *)
(***************************************************************************)
THEOREM CompletedMeansBootstrapped == Spec => []CompletedIsBootstrapped
<1>1. IInv => CompletedIsBootstrapped
  BY DEF IInv, Tables
<1> QED BY <1>1, Invariance, PTL

(***************************************************************************)
(* Whatever /start messages race, in whatever order their statements come: *)
(* one referrer per level, nobody their own referrer, and the second level *)
(* is the first level's first level.                                       *)
(***************************************************************************)
THEOREM ReferralsStayConsistent == Spec => []SecondLevelFollowsFirst
<1>1. IInv => SecondLevelFollowsFirst
  BY DEF IInv, Tables
<1> QED BY <1>1, Invariance, PTL

(***************************************************************************)
(* A delivery that begins after the ledger says "sent" never comes to the  *)
(* reply again.                                                            *)
(***************************************************************************)
THEOREM SentIsNotSentAgain == Spec => []AnsweredIsFinal
<1>1. IInv => AnsweredIsFinal
  BY DEF IInv, Sound, Replied, AnsweredIsFinal, At
<1> QED BY <1>1, Invariance, PTL
-----------------------------------------------------------------------------
(* The marks of the guarded commands.                                      *)

\* The marks: the row of a guarded command says when it was let through last.
Marks ==
  /\ now \in Nat
  /\ DOMAIN seen = Updates /\ DOMAIN admitted = Updates
  /\ \A u \in Updates :
       /\ seen[u] \in Nat
       /\ admitted[u] \in Seq(Nat)
       /\ msg[u].kind = "resend" /\ admitted[u] # <<>> =>
            seen[u] = admitted[u][Len(admitted[u])] + Ttl
  /\ AdmittedApart

\* Letting a command through, or one for which there is no guard, keeps the marks.
LEMMA ReceiveKeepsMarks ==
  ASSUME Marks, NEW w \in Workers, NEW u \in Updates, Receive(w, u) PROVE Marks'
<1>1. UNCHANGED <<now, msg>>
  BY DEF Receive, telegramVars
<1>2. CASE UNCHANGED <<seen, admitted>>
  BY <1>1, <1>2 DEF Marks, AdmittedApart
<1>3. CASE /\ msg[u].kind = "resend" => FirstSeen(u)
           /\ seen' = [seen EXCEPT ![u] = IF msg[u].kind = "resend" THEN now + Ttl ELSE seen[u]]
           /\ admitted' = [admitted EXCEPT ![u] = Append(admitted[u], now)]
  <2>1. now \in Nat /\ Ttl \in Nat \ {0} /\ seen[u] \in Nat
    BY BotUpdatesAssumption DEF Marks
  <2>2. PICK old \in Seq(Nat) : old = admitted[u]
    BY DEF Marks
  <2>3. PICK new : new = Append(old, now)
    OBVIOUS
  <2>4. /\ new \in Seq(Nat) /\ new # <<>> /\ Len(new) = Len(old) + 1 /\ new[Len(new)] = now
        /\ \A k \in 1 .. Len(old) : new[k] = old[k]
    BY <2>1, <2>3
  <2>5. /\ DOMAIN seen' = Updates /\ DOMAIN admitted' = Updates /\ admitted'[u] = new
        /\ msg[u].kind = "resend" => seen'[u] = now + Ttl
        /\ seen'[u] \in Nat
        /\ \A v \in Updates \ {u} : seen'[v] = seen[v] /\ admitted'[v] = admitted[v]
    BY <1>3, <2>1, <2>2, <2>3 DEF Marks
  <2>6. ASSUME msg[u].kind = "resend", NEW k \in 1 .. Len(new) - 1 PROVE new[k + 1] >= new[k] + Ttl
    <3>1. Len(old) \in Nat
      OBVIOUS
    <3>2. CASE k = Len(old)
      <4>1. old # <<>> /\ seen[u] = old[Len(old)] + Ttl /\ old[Len(old)] \in Nat
        <5>1. old # <<>>
          BY <3>1, <3>2, <2>6
        <5> QED BY <2>2, <2>6, <5>1 DEF Marks
      <4>2. seen[u] <= now
        BY <1>3, <2>1, <2>6, <4>1 DEF FirstSeen, Null
      <4>3. new[k] = old[Len(old)] /\ new[k + 1] = now
        BY <2>4, <2>6, <3>1, <3>2
      <4> QED BY <4>1, <4>2, <4>3
    <3>3. CASE k # Len(old)
      <4>1. k \in 1 .. Len(old) - 1 /\ k \in 1 .. Len(old) /\ k + 1 \in 1 .. Len(old)
        BY <2>4, <2>6, <3>1, <3>3
      <4>2. old[k + 1] >= old[k] + Ttl
        BY <2>2, <2>6, <4>1 DEF Marks, AdmittedApart
      <4> QED BY <2>4, <4>1, <4>2
    <3> QED BY <3>2, <3>3
  <2>7. ASSUME NEW v \in Updates
        PROVE  /\ seen'[v] \in Nat /\ admitted'[v] \in Seq(Nat)
               /\ msg[v].kind = "resend" /\ admitted'[v] # <<>> =>
                    seen'[v] = admitted'[v][Len(admitted'[v])] + Ttl
               /\ msg[v].kind = "resend" =>
                    \A k \in 1 .. Len(admitted'[v]) - 1 : admitted'[v][k + 1] >= admitted'[v][k] + Ttl
    <3>1. CASE v = u
      BY <2>4, <2>5, <2>6, <3>1
    <3>2. CASE v # u
      <4>1. seen'[v] = seen[v] /\ admitted'[v] = admitted[v]
        BY <2>5, <3>2
      <4> QED BY <4>1 DEF Marks, AdmittedApart
    <3> QED BY <3>1, <3>2
  <2> QED BY <1>1, <2>1, <2>5, <2>7 DEF Marks, AdmittedApart
<1> QED BY <1>2, <1>3 DEF Receive

(***************************************************************************)
(* A guarded command is let through again only when the lifetime of its    *)
(* mark is over, however often and however concurrently the call is        *)
(* repeated, and whether or not the process restarts in between.           *)
(***************************************************************************)
THEOREM GuardedCommandsKeepApart == Spec => []AdmittedApart
<1>1. Init => Marks
  <2> SUFFICES ASSUME Init PROVE Marks
    OBVIOUS
  <2>1. <<>> \in Seq(Nat) /\ Len(<<>>) = 0
    OBVIOUS
  <2> QED BY <2>1 DEF Init, Marks, AdmittedApart, Null
<1>2. Marks /\ [Next]_vars => Marks'
  <2> SUFFICES ASSUME Marks, [Next]_vars PROVE Marks'
    OBVIOUS
  <2>1. ASSUME UNCHANGED <<seen, admitted, msg>>, now' \in Nat PROVE Marks'
    BY <2>1 DEF Marks, AdmittedApart
  <2>2. ASSUME UNCHANGED <<seen, admitted, msg, now>> PROVE Marks'
    BY <2>1, <2>2 DEF Marks
  <2>3. CASE Tick
    <3>1. now' \in Nat /\ UNCHANGED <<seen, admitted, msg>>
      BY <2>3 DEF Tick, Marks, storeVars, historyVars
    <3> QED BY <2>1, <3>1
  <2>4. CASE Arrive \/ ConfigureWebhook \/ Crash \/ UNCHANGED vars
    BY <2>2, <2>4 DEF Arrive, ConfigureWebhook, Crash, vars, telegramVars, storeVars, historyVars
  <2>5. ASSUME NEW i \in Users, Subscribe(i) PROVE Marks'
    BY <2>2, <2>5 DEF Subscribe, telegramVars, historyVars
  <2>6. ASSUME NEW w \in Workers, Poll(w) PROVE Marks'
    BY <2>2, <2>6 DEF Poll, telegramVars, storeVars, historyVars
  <2>7. ASSUME NEW w \in Workers, WorkerStep(w) PROVE Marks'
    <3>1. UNCHANGED <<seen, admitted, msg, now>>
      BY <2>7 DEF WorkerStep, Take, Begin, CreateIfAbsent, PutSnapshot, AppendAudit, Complete, Replay,
         LookAtLedger, BootstrapFails, Refer, ReferUp, CreateFirstLevel, CreateSecondLevel, Raises,
         EnsurePending, Send, SendFails, MarkSent, outside, telegramVars, storeVars, historyVars
    <3> QED BY <2>2, <3>1
  <2> QED BY <2>3, <2>4, <2>5, <2>6, <2>7, ReceiveKeepsMarks DEF Next
<1>3. Marks => AdmittedApart
  BY DEF Marks
<1> QED BY <1>1, <1>2, <1>3, PTL DEF Spec

-----------------------------------------------------------------------------
(***************************************************************************)
(* What Storefront guarantees for any tariffs and any number of checkouts: *)
(* the conversation of one user, next to the webhook of the provider.      *)
(*                                                                         *)
(* A press is only as good as the callback data it carries, so the         *)
(* invariant has two parts.  Every button on the message, and the one that *)
(* waits, is one the bot makes, for a plan it sells and a number of        *)
(* devices it allows (Known, Shown).  And at the lowest rate, what was     *)
(* paid covers the devices of the row, of the row a removal is about to    *)
(* write back, and of every paid checkout, while an open checkout asks for *)
(* what is missing (Paid).  It is inductive because nothing is paid back:  *)
(* what was covered when it was read is covered when it is written.        *)
(***************************************************************************)
\* The buttons the bot makes, by the kind of their callback data.
PlainActs  == {"main_menu", "buy_vpn", "subscription_settings", "add_device", "my_keys", "connect_device",
               "my_subscription", "referral", "balance", "link_email", "help", "start_trial", "custom_days",
               "router_config", "remove_device", "all_keys", "resend_email_code"}
PriceActs  == {"devices", "confirm_pay", "do_pay", "pay_balance"}
CountActs  == {"add_dev", "add_dev:confirm", "add_dev_pay", "add_dev_bal", "remove_dev_confirm"}
GuideActs  == {"connect", "did_work", "yes", "no", "retry"}
Apps       == {"karing", "happ"}

IsPlain(b)  == \E a \in PlainActs : b = <<a>>
IsPlan(b)   == \E p \in Plans : b = <<"plan", p>>
IsServer(b) == \E s \in Servers : b = <<"server", s>>
IsPrice(b)  == \E a \in PriceActs, p \in Plans, n \in Devices : b = <<a, p, n>>
IsCount(b)  == \E a \in CountActs, n \in Devices : b = <<a, n>>
IsGuide(b)  == \E a \in GuideActs, p \in Platforms : b = <<a, p>>
IsStep(b)   == \E p \in Platforms, app \in Apps : \E n \in DOMAIN Guide(p, app) : b = <<"step", p, app, n>>

Known(b) == \/ IsPlain(b) \/ IsPlan(b) \/ IsServer(b) \/ IsPrice(b)
            \/ IsCount(b) \/ IsGuide(b) \/ IsStep(b)
Keyboard(kb) == \A b \in kb : Known(b)

LEMMA PlainKnown == \A a \in PlainActs : Known(<<a>>)
BY DEF Known, IsPlain

\* The keyboards that name no plan, count or step.
LEMMA PlainKeyboards ==
  /\ \A t \in BOOLEAN : Keyboard(MainMenu(t)) /\ Keyboard(Welcome(t))
  /\ Keyboard(NoSubscription)
  /\ Keyboard(LinkEmail) /\ Keyboard(LinkEmailCode) /\ Keyboard(PaidKeyboard)
  /\ Keyboard({})
  /\ Keyboard(Back(Menu)) /\ Keyboard(Back(Buy)) /\ Keyboard(Back(Settings))
  /\ Keyboard(Back(AddDevice)) /\ Keyboard(Back(MyKeys))
<1>1. \A t \in BOOLEAN : Keyboard(MainMenu(t))
  BY PlainKnown DEF Keyboard, PlainActs, MainMenu, Menu, Buy, Settings, MyKeys,
                    ConnectDevice
<1>2. \A t \in BOOLEAN : Keyboard(Welcome(t))
  BY <1>1, PlainKnown DEF Keyboard, PlainActs, Welcome, Menu
<1>3. /\ Keyboard(NoSubscription)
      /\ Keyboard(LinkEmail) /\ Keyboard(LinkEmailCode) /\ Keyboard(PaidKeyboard)
      /\ Keyboard({})
  BY PlainKnown DEF Keyboard, PlainActs, NoSubscription, LinkEmail, LinkEmailCode,
                    PaidKeyboard, Menu, Buy, MyKeys
<1>4. /\ Keyboard(Back(Menu)) /\ Keyboard(Back(Buy)) /\ Keyboard(Back(Settings))
      /\ Keyboard(Back(AddDevice)) /\ Keyboard(Back(MyKeys))
  BY PlainKnown DEF Keyboard, PlainActs, Back, Menu, Buy, Settings, AddDevice, MyKeys
<1> QED BY <1>1, <1>2, <1>3, <1>4

\* The keyboards of plans and counts.
LEMMA CountKeyboards ==
  /\ Keyboard(PlanList) /\ Keyboard(MyKeysMenu)
  /\ \A p \in Plans, n \in Devices : Keyboard(DeviceSelect(p, n))
  /\ \A p \in Plans, n \in Devices : \A m : Keyboard(ConfirmPay(p, n, m))
  /\ \A t \in BOOLEAN, n \in Devices : Keyboard(SettingsKeyboard(t, n))
  /\ \A n \in Devices : Keyboard(AddDeviceSelect(n))
  /\ \A n \in Devices : \A m, cost : Keyboard(AddDeviceConfirm(n, m, cost))
  /\ \A n \in Devices : n > DefaultDevices => Keyboard(RemoveDevice(n))
<1>1. DefaultDevices \in Nat /\ MaxDevices \in Nat /\ DefaultDevices <= MaxDevices
      /\ ListedPlans \subseteq Plans
  BY MenuAssumption
<1>2. ASSUME NEW n \in Devices
      PROVE  /\ Larger(DefaultDevices, n - 1) \in Devices
             /\ Smaller(MaxDevices, n + 1) \in Devices
             /\ n > DefaultDevices => n - 1 \in Devices
  BY <1>1, <1>2 DEF Devices, Larger, Smaller
<1>3. /\ \A p \in Plans : Known(<<"plan", p>>)
      /\ \A s \in Servers : Known(<<"server", s>>)
  BY DEF Known, IsPlan, IsServer
<1>4. \A a \in PriceActs, p \in Plans, n \in Devices : Known(<<a, p, n>>)
  BY DEF Known, IsPrice
<1>5. \A a \in CountActs, n \in Devices : Known(<<a, n>>)
  BY DEF Known, IsCount
<1>6. Keyboard(PlanList) /\ Keyboard(MyKeysMenu)
  BY <1>1, <1>3, PlainKnown DEF Keyboard, PlainActs, PlanList, MyKeysMenu, Menu
<1>7. \A p \in Plans, n \in Devices : Keyboard(DeviceSelect(p, n))
  <2> SUFFICES ASSUME NEW p \in Plans, NEW n \in Devices PROVE Keyboard(DeviceSelect(p, n))
    OBVIOUS
  <2> QED BY <1>2, <1>4, PlainKnown DEF Keyboard, PlainActs, PriceActs, DeviceSelect, Buy
<1>8. \A p \in Plans, n \in Devices : \A m : Keyboard(ConfirmPay(p, n, m))
  BY <1>4 DEF Keyboard, PriceActs, ConfirmPay
<1>9. \A t \in BOOLEAN, n \in Devices : Keyboard(SettingsKeyboard(t, n))
  BY PlainKnown DEF Keyboard, PlainActs, SettingsKeyboard, Menu, AddDevice
<1>10. \A n \in Devices : Keyboard(AddDeviceSelect(n))
  <2> SUFFICES ASSUME NEW n \in Devices PROVE Keyboard(AddDeviceSelect(n))
    OBVIOUS
  <2> QED BY <1>2, <1>5, PlainKnown DEF Keyboard, PlainActs, CountActs, AddDeviceSelect, Settings
<1>11. \A n \in Devices : \A m, cost : Keyboard(AddDeviceConfirm(n, m, cost))
  BY <1>5, PlainKnown DEF Keyboard, PlainActs, CountActs, AddDeviceConfirm, AddDevice
<1>12. \A n \in Devices : n > DefaultDevices => Keyboard(RemoveDevice(n))
  BY <1>2, <1>5, PlainKnown DEF Keyboard, PlainActs, CountActs, RemoveDevice, Settings
<1> QED BY <1>6, <1>7, <1>8, <1>9, <1>10, <1>11, <1>12

\* Every guide is a chain of steps with known ends.
IsChain(chain, p, app, last) ==
  \E entry, done : Known(entry) /\ Known(done) /\ chain = Chain(p, app, last, entry, done)

LEMMA Guides ==
  /\ \A app \in Apps : IsChain(Guide("tv", app), "tv", "karing", 5)
  /\ \A app \in Apps : IsChain(Guide("win", app), "win", "karing", 6)
  /\ \A p \in {"ios", "mac", "android"}, app \in Apps : IsChain(Guide(p, app), p, app, 6)
<1>1. /\ Known(ConnectDevice)
      /\ \A p \in Platforms : Known(Connect(p)) /\ Known(DidWork(p)) /\ Known(Yes(p))
  BY DEF Known, IsPlain, IsGuide, PlainActs, GuideActs, ConnectDevice, Connect, DidWork, Yes
<1>2. \A app \in Apps : Guide("tv", app) = TvSteps /\ Guide("win", app) = WinSteps
  BY DEF Apps, Guide
<1>3. IsChain(TvSteps, "tv", "karing", 5) /\ IsChain(WinSteps, "win", "karing", 6)
  BY <1>1 DEF IsChain, TvSteps, WinSteps, Platforms
<1>4. ASSUME NEW p \in {"ios", "mac", "android"}, NEW app \in Apps
      PROVE  IsChain(Guide(p, app), p, app, 6)
  <2>1. /\ Guide("ios", "karing") = IosSteps /\ Guide("ios", "happ") = IosHapp
        /\ Guide("mac", "karing") = MacSteps /\ Guide("mac", "happ") = MacHapp
        /\ Guide("android", "karing") = AndroidSteps /\ Guide("android", "happ") = AndroidHapp
    BY DEF Guide
  <2>2. /\ IsChain(IosSteps, "ios", "karing", 6) /\ IsChain(IosHapp, "ios", "happ", 6)
        /\ IsChain(MacSteps, "mac", "karing", 6) /\ IsChain(MacHapp, "mac", "happ", 6)
        /\ IsChain(AndroidSteps, "android", "karing", 6) /\ IsChain(AndroidHapp, "android", "happ", 6)
    BY <1>1 DEF IsChain, IosSteps, IosHapp, MacSteps, MacHapp, AndroidSteps,
                AndroidHapp, HappChain, Platforms
  <2> QED BY <2>1, <2>2 DEF Apps
<1> QED BY <1>2, <1>3, <1>4

\* The keyboards of a guide, by step.
LEMMA GuideKeyboards ==
  ASSUME NEW p \in Platforms, NEW app \in Apps
  PROVE  /\ DOMAIN Guide(p, app) = 1 .. (IF p = "tv" THEN 5 ELSE 6)
         /\ \A n \in DOMAIN Guide(p, app) : Keyboard(Guide(p, app)[n])
<1> DEFINE last == IF p = "tv" THEN 5 ELSE 6
           x    == IF p \in {"tv", "win"} THEN "karing" ELSE app
<1>1. IsChain(Guide(p, app), p, x, last) /\ IsChain(Guide(p, x), p, x, last)
  BY Guides DEF Apps, Platforms
<1>2. PICK entry, done : Known(entry) /\ Known(done) /\ Guide(p, app) = Chain(p, x, last, entry, done)
  BY <1>1 DEF IsChain
<1>3. DOMAIN Guide(p, app) = 1 .. last /\ DOMAIN Guide(p, x) = 1 .. last
  BY <1>1 DEF IsChain, Chain
<1>4. x \in Apps /\ last \in Nat
  BY DEF Apps
<1> HIDE DEF last, x
<1>5. \A n \in 1 .. last : Known(Step(p, x, n))
  BY <1>3, <1>4 DEF Known, IsStep, Step
<1>6. ASSUME NEW n \in 1 .. last PROVE Keyboard(Guide(p, app)[n])
  <2>1. Guide(p, app)[n] = {IF n = 1 THEN entry ELSE Step(p, x, n - 1),
                                 IF n = last THEN done ELSE Step(p, x, n + 1)}
    BY <1>2 DEF Chain
  <2>2. n # 1 => n - 1 \in 1 .. last
    BY <1>4, <1>6
  <2>3. n # last => n + 1 \in 1 .. last
    BY <1>4, <1>6
  <2> QED BY <1>2, <1>5, <2>1, <2>2, <2>3 DEF Keyboard
<1> QED BY <1>3, <1>6 DEF last

\* The other keyboards of the guide.
LEMMA ConnectKeyboards ==
  /\ Keyboard(ConnectMenu)
  /\ \A p \in Platforms : /\ Keyboard(DidWorkKeyboard(p)) /\ Keyboard(ProblemKeyboard(p))
                                 /\ Keyboard(FirstStep(p)) /\ Keyboard(AppChooser(p))
<1>1. /\ Known(ConnectDevice) /\ Known(Menu)
      /\ \A p \in Platforms : /\ Known(Connect(p)) /\ Known(DidWork(p)) /\ Known(Yes(p))
                                     /\ Known(No(p)) /\ Known(Retry(p))
  BY DEF Known, IsPlain, IsGuide, PlainActs, GuideActs, ConnectDevice, Menu, Connect, DidWork,
         Yes, No, Retry
<1>2. \A p \in Platforms, app \in Apps :
        /\ 1 \in DOMAIN Guide(p, app) /\ (IF p = "tv" THEN 5 ELSE 6) \in DOMAIN Guide(p, app)
        /\ Keyboard(Guide(p, app)[1])
  BY GuideKeyboards
<1>3. \A p \in Platforms, app \in Apps :
        Known(Step(p, app, 1)) /\ Known(Step(p, app, IF p = "tv" THEN 5 ELSE 6))
  BY <1>2 DEF Known, IsStep, Step
<1>4. Keyboard(ConnectMenu)
  BY <1>1 DEF Keyboard, ConnectMenu, Platforms
<1>5. ASSUME NEW p \in Platforms
      PROVE  Keyboard(FirstStep(p)) /\ Keyboard(AppChooser(p))
  BY <1>1, <1>2, <1>3 DEF Keyboard, FirstStep, AppChooser, Apps
<1>6. \A p \in Platforms : Keyboard(Asked(p, IF p = "tv" THEN 5 ELSE 6)) /\ Keyboard(Problem(p))
  BY <1>1, <1>3 DEF Keyboard, Asked, Problem, Apps
<1>7. ASSUME NEW p \in Platforms
      PROVE  Keyboard(DidWorkKeyboard(p)) /\ Keyboard(ProblemKeyboard(p))
  <2>1. DidWorkKeyboard(p) = Asked(p, IF p = "tv" THEN 5 ELSE 6)
    BY DEF Platforms, DidWorkKeyboard, MacAsked, TvAsked, WinAsked, AndroidAsked,
           IosAsked
  <2>2. ProblemKeyboard(p) = Problem(p)
    BY DEF Platforms, ProblemKeyboard, MacProblem, TvProblem, WinProblem,
           AndroidProblem, IosProblem
  <2> QED BY <1>6, <2>1, <2>2
<1> QED BY <1>4, <1>5, <1>7

\* What the callback data of a known button is, by its first part.
LEMMA ButtonKinds ==
  ASSUME NEW b, Known(b)
  PROVE  /\ b[1] \in PlainActs => IsPlain(b)
         /\ b[1] = "plan" => IsPlan(b)
         /\ b[1] \in PriceActs => IsPrice(b)
         /\ b[1] \in CountActs => IsCount(b)
         /\ b[1] \in GuideActs => IsGuide(b)
         /\ b[1] = "step" => IsStep(b)
         /\ b[1] \in PlainActs \cup PriceActs \cup CountActs \cup GuideActs \cup {"plan", "server", "step"}
<1>1. /\ IsPlain(b) => b[1] \in PlainActs
      /\ IsPlan(b) => b[1] = "plan"
      /\ IsServer(b) => b[1] = "server"
      /\ IsPrice(b) => b[1] \in PriceActs
      /\ IsCount(b) => b[1] \in CountActs
      /\ IsGuide(b) => b[1] \in GuideActs
      /\ IsStep(b) => b[1] = "step"
  BY DEF IsPlain, IsPlan, IsServer, IsPrice, IsCount, IsGuide, IsStep
<1> QED BY <1>1 DEF Known, PlainActs, PriceActs, CountActs, GuideActs

\* A known button of one part is the one its name says.
LEMMA PlainIs ==
  ASSUME NEW b, Known(b), b[1] \in PlainActs
  PROVE  b = <<b[1]>>
<1>1. IsPlain(b)
  BY ButtonKinds
<1> QED BY <1>1 DEF IsPlain

\* A lookup is answered with buttons the bot knows.
LEMMA AnswersAreKnown ==
  ASSUME NEW b, Known(b), b[1] \in Lookups,
         NEW v, v.devices \in Devices, v.trial \in BOOLEAN
  PROVE  Keyboard(Answer(b, v))
<1>1. CASE b[1] = "main_menu"
  <2>1. b = Menu
    BY <1>1, PlainIs DEF PlainActs, Menu
  <2>2. Answer(b, v) = MainMenu(v.trial)
    BY <1>1, <2>1 DEF Answer, ConnectActs, KeysActs, AccountActs, BuyActs, DeviceActs
  <2> QED BY <2>2, PlainKeyboards
<1>n. ASSUME b[1] # "main_menu" PROVE b # Menu
  BY <1>n DEF Menu
<1>2. CASE b[1] \in ConnectActs
  <2>1. Answer(b, v) = ConnectAnswer(b, v)
    BY <1>2, <1>n DEF Answer, ConnectActs, KeysActs, AccountActs, BuyActs, DeviceActs
  <2>2. CASE b[1] = "connect_device"
    BY <2>1, <2>2, PlainKeyboards, ConnectKeyboards DEF ConnectAnswer
  <2>3. CASE b[1] \in GuideActs
    <3>1. PICK a \in GuideActs, p \in Platforms : b = <<a, p>>
      BY <2>3, ButtonKinds DEF IsGuide
    <3>2. b[1] = a /\ b[2] = p
      BY <3>1
    <3> QED BY <2>1, <3>2, PlainKeyboards, ConnectKeyboards DEF ConnectAnswer, GuideActs
  <2>4. CASE b[1] = "step"
    <3>1. PICK p \in Platforms, app \in Apps : \E n \in DOMAIN Guide(p, app) : b = <<"step", p, app, n>>
      BY <2>4, ButtonKinds DEF IsStep
    <3>2. PICK n \in DOMAIN Guide(p, app) : b = <<"step", p, app, n>>
      BY <3>1
    <3>3. b[2] = p /\ b[3] = app /\ b[4] = n
      BY <3>2
    <3>4. ConnectAnswer(b, v) = PlatformStep(b, v)
      BY <2>4 DEF ConnectAnswer
    <3>5. Keyboard(Guide(p, app)[n])
      BY <3>2, GuideKeyboards
    <3> QED BY <2>1, <3>3, <3>4, <3>5, PlainKeyboards DEF PlatformStep
  <2> QED BY <1>2, <2>2, <2>3, <2>4 DEF ConnectActs, GuideActs
<1>3. CASE b[1] \in KeysActs
  <2>1. Answer(b, v) = KeysAnswer(b, v)
    BY <1>3, <1>n DEF Answer, ConnectActs, KeysActs, AccountActs, BuyActs, DeviceActs
  <2> QED BY <2>1, PlainKeyboards, CountKeyboards DEF KeysAnswer
<1>4. CASE b[1] \in AccountActs
  <2>1. Answer(b, v) = AccountAnswer(b, v)
    BY <1>4, <1>n DEF Answer, ConnectActs, KeysActs, AccountActs, BuyActs, DeviceActs
  <2>2. b[1] = "subscription_settings" <=> b = Settings
    BY PlainIs DEF PlainActs, Settings
  <2>3. HasActiveSubscription(v) \in BOOLEAN
    BY DEF HasActiveSubscription
  <2>4. Keyboard(SettingsKeyboard(HasActiveSubscription(v), v.devices))
    BY <2>3, CountKeyboards
  <2> QED BY <1>4, <2>1, <2>2, <2>4, PlainKeyboards DEF AccountAnswer, AccountActs
<1>5. CASE b[1] \in BuyActs
  <2>1. Answer(b, v) = BuyAnswer(b, v)
    BY <1>5, <1>n DEF Answer, ConnectActs, KeysActs, AccountActs, BuyActs, DeviceActs
  <2>2. b[1] = "buy_vpn" <=> b = Buy
    BY PlainIs DEF PlainActs, Buy
  <2>3. CASE b[1] = "buy_vpn"
    BY <2>1, <2>2, <2>3, CountKeyboards DEF BuyAnswer
  <2>4. CASE b[1] = "plan"
    <3>1. b[2] \in Plans
      BY <2>4, ButtonKinds DEF IsPlan
    <3>2. DefaultDevices \in Devices
      BY MenuAssumption DEF Devices
    <3>3. BuyAnswer(b, v) = DeviceSelect(b[2], DefaultDevices)
      BY <2>2, <2>4 DEF BuyAnswer
    <3> QED BY <2>1, <3>1, <3>2, <3>3, CountKeyboards
  <2>5. CASE b[1] \in {"devices", "confirm_pay"}
    <3>1. b[2] \in Plans /\ b[3] \in Devices
      BY <2>5, ButtonKinds DEF IsPrice, PriceActs
    <3>2. \/ BuyAnswer(b, v) = DeviceSelect(b[2], b[3])
          \/ BuyAnswer(b, v) = ConfirmPay(b[2], b[3], v.balance)
      BY <2>2, <2>5 DEF BuyAnswer
    <3> QED BY <2>1, <3>1, <3>2, CountKeyboards
  <2> QED BY <1>5, <2>3, <2>4, <2>5 DEF BuyActs
<1>6. CASE b[1] \in DeviceActs
  <2>1. Answer(b, v) = DeviceAnswer(b, v)
    BY <1>6, <1>n DEF Answer, ConnectActs, KeysActs, AccountActs, BuyActs, DeviceActs
  <2>2. b[1] = "add_device" <=> b = AddDevice
    BY PlainIs DEF PlainActs, AddDevice
  <2>3. CASE b[1] = "add_device"
    BY <2>1, <2>2, <2>3, PlainKeyboards, CountKeyboards DEF DeviceAnswer, AddDeviceIntro
  <2>4. CASE b[1] \in {"add_dev", "add_dev:confirm"}
    <3>1. b[2] \in Devices
      BY <2>4, ButtonKinds DEF IsCount, CountActs
    <3>2. \/ DeviceAnswer(b, v) = AddDeviceSelect(b[2])
          \/ DeviceAnswer(b, v) = AddConfirmAnswer(b[2], v)
      BY <2>2, <2>4 DEF DeviceAnswer
    <3>3. Keyboard(AddConfirmAnswer(b[2], v))
      BY <3>1, CountKeyboards DEF AddConfirmAnswer
    <3> QED BY <2>1, <3>1, <3>2, <3>3, CountKeyboards
  <2>5. CASE b[1] = "remove_device"
    <3>1. DeviceAnswer(b, v) = RemoveAnswer(v)
      BY <2>2, <2>5 DEF DeviceAnswer
    <3>2. DefaultDevices \in Nat /\ MaxDevices \in Nat
      BY MenuAssumption
    <3>3. v.devices \in Nat
      BY <3>2 DEF Devices
    <3>4. v.devices <= DefaultDevices \/ v.devices > DefaultDevices
      BY <3>2, <3>3
    <3>5. v.devices > DefaultDevices => Keyboard(RemoveDevice(v.devices))
      BY CountKeyboards
    <3>6. Keyboard(SettingsKeyboard(TRUE, v.devices))
      BY CountKeyboards
    <3> QED BY <2>1, <3>1, <3>4, <3>5, <3>6, PlainKeyboards DEF RemoveAnswer
  <2> QED BY <1>6, <2>3, <2>4, <2>5 DEF DeviceActs
<1> QED BY <1>1, <1>2, <1>3, <1>4, <1>5, <1>6 DEF Lookups

-----------------------------------------------------------------------------
(* What extra devices cost at the lowest rate.                             *)

Cheapest == CHOOSE p \in Plans : \A q \in Plans : ExtraPrice[p] <= ExtraPrice[q]
Rate == ExtraPrice[Cheapest]

\* Some numbers of an interval have a least.
LEMMA LeastOfSome ==
  ASSUME NEW n \in Nat, NEW S, S \subseteq 1 .. n, S # {}
  PROVE  \E m \in S : \A i \in S : m <= i
<1> DEFINE Before(c) == {d \in S : d < c}
           Heads     == {Before(c) : c \in S}
<1>1. IsFiniteSet(S)
  BY FS_Interval, FS_Subset, 1 \in Int, n \in Int
<1>2. IsWellFoundedOn(StrictSubsetOrdering(S), FiniteSubsetsOf(S))
  BY <1>1, FS_StrictSubsetOrderingWellFounded
<1>3. Heads \subseteq FiniteSubsetsOf(S) /\ Heads # {}
  <2>1. PICK c : c \in S
    OBVIOUS
  <2>2. Before(c) \in Heads
    BY <2>1
  <2>3. Heads \subseteq SUBSET S
    OBVIOUS
  <2> QED BY <1>1, <2>2, <2>3, FS_FiniteSubsetsOfFinite
<1>4. PICK X \in Heads : \A Y \in Heads : ~ (<<Y, X>> \in StrictSubsetOrdering(S))
  BY <1>2, <1>3, WFMin
<1>5. PICK c \in S : X = Before(c)
  OBVIOUS
<1>6. ASSUME NEW d \in S, d < c PROVE FALSE
  <2>1. Before(d) \in Heads
    BY <1>6
  <2>2. c \in Int /\ d \in Int /\ \A x \in S : x \in Int
    OBVIOUS
  <2>3. \A x \in S : x < d => x < c
    BY <1>6, <2>2
  <2>4. Before(d) \subseteq Before(c) /\ d \in Before(c) /\ d \notin Before(d)
    <3>1. ~ (d < d)
      BY <2>2
    <3> QED BY <1>6, <2>3, <3>1
  <2>5. <<Before(d), Before(c)>> \in StrictSubsetOrdering(S)
    <3>1. Before(d) \in SUBSET S /\ Before(c) \in SUBSET S
      OBVIOUS
    <3> QED BY <2>4, <3>1 DEF StrictSubsetOrdering
  <2> QED BY <1>4, <1>5, <2>1, <2>5
<1>7. \A d \in S : c <= d
  BY <1>6
<1> QED BY <1>7

\* A plan with the lowest rate exists.
LEMMA RateIsLeast ==
  Cheapest \in Plans /\ Rate \in Nat \ {0} /\ \A q \in Plans : Rate <= ExtraPrice[q]
<1>1. Plans # {} /\ \A q \in Plans : ExtraPrice[q] \in Nat \ {0}
  BY MenuAssumption
<1>2. PICK p \in Plans : TRUE
  BY <1>1
<1> DEFINE n == ExtraPrice[p]
           S == {k \in 1 .. n : \E q \in Plans : ExtraPrice[q] = k}
<1>3. n \in Nat /\ n \in S /\ S \subseteq 1 .. n
  BY <1>1, <1>2
<1>4. PICK m \in S : \A k \in S : m <= k
  <2> HIDE DEF n, S
  <2> QED BY <1>3, LeastOfSome
<1>5. \E r \in Plans : \A q \in Plans : ExtraPrice[r] <= ExtraPrice[q]
  <2>1. PICK r \in Plans : ExtraPrice[r] = m
    BY <1>4
  <2>2. ASSUME NEW q \in Plans PROVE m <= ExtraPrice[q]
    <3>1. CASE ExtraPrice[q] <= n
      <4>1. ExtraPrice[q] \in S
        BY <1>1, <1>3, <3>1
      <4> QED BY <1>4, <4>1
    <3>2. CASE ~ (ExtraPrice[q] <= n)
      BY <1>1, <1>3, <1>4, <3>2
    <3> QED BY <3>1, <3>2
  <2> QED BY <2>1, <2>2
<1>6. Cheapest \in Plans /\ \A q \in Plans : ExtraPrice[Cheapest] <= ExtraPrice[q]
  BY <1>5 DEF Cheapest
<1> QED BY <1>1, <1>6 DEF Rate

\* A product grows with its second factor.
LEMMA MoreOfEach ==
  ASSUME NEW k \in Nat, NEW x \in Nat, NEW y \in Nat, x <= y
  PROVE  k * x <= k * y /\ k * x \in Nat /\ k * y \in Nat
<1>1. PICK d \in Nat : y = x + d
  <2>1. y - x \in Nat /\ y = x + (y - x)
    OBVIOUS
  <2> QED BY <2>1
<1>2. k * y = k * x + k * d
  BY <1>1
<1>3. k * d \in Nat /\ k * x \in Nat
  BY <1>1
<1> QED BY <1>2, <1>3

\* Devices up to n are paid for.
Covered(n) == spent >= (n - DefaultDevices) * Rate

\* What is paid for n devices on top of k covers them, if the k are covered.
LEMMA PaidOnTop ==
  ASSUME NEW n \in Nat, NEW k \in Nat, k <= n, NEW p \in Plans,
         NEW s \in Nat, s >= (k - DefaultDevices) * Rate
  PROVE  /\ (n - k) * ExtraPrice[p] \in Nat
         /\ s + (n - k) * ExtraPrice[p] >= (n - DefaultDevices) * Rate
<1>1. DefaultDevices \in Nat /\ Rate \in Nat /\ ExtraPrice[p] \in Nat /\ Rate <= ExtraPrice[p]
  BY RateIsLeast, MenuAssumption
<1>2. PICK d \in Nat : n = k + d /\ n - k = d
  <2>1. n - k \in Nat /\ n = k + (n - k)
    OBVIOUS
  <2> QED BY <2>1
<1>3. d * Rate <= d * ExtraPrice[p] /\ d * Rate \in Nat /\ d * ExtraPrice[p] \in Nat
  BY <1>1, MoreOfEach
<1>4. PICK e \in Int : e = k - DefaultDevices
  BY <1>1
<1>5. n - DefaultDevices = e + d
  BY <1>1, <1>2, <1>4
<1>6. (e + d) * Rate = e * Rate + d * Rate /\ e * Rate \in Int
  BY <1>1
<1>7. s >= e * Rate
  BY <1>4
<1> QED BY <1>2, <1>3, <1>5, <1>6, <1>7

RowType == [status : Statuses, plan : Plans \cup {NoPlan}, devices : Devices]
CheckoutType ==
  [state : {"unopened", "open", "paid", "applied", "refused"}, kind : {"plan", "devices"},
   plan : Plans \cup {NoPlan}, devices : Devices, amount : Int, extra : Nat,
   read : Devices \cup {None}, tries : Nat]

\* A row that is, or is about to be written: its devices are paid for.
PaidRow(r) == r \in RowType /\ Covered(r.devices)

\* What a checkout asks for makes up for its devices, and did once it was paid.
PaidCheckout(x) ==
  /\ x \in CheckoutType
  /\ x.state = "open" => spent + x.extra >= (x.devices - DefaultDevices) * Rate
  /\ x.state \in {"paid", "applied"} => Covered(x.devices)
  /\ x.read # None => x.state \in {"paid", "applied"}

Paid ==
  /\ spent \in Nat
  /\ PaidRow(row)
  /\ busy # None => PaidRow(busy)
  /\ DOMAIN checkout = Checkouts /\ \A c \in Checkouts : PaidCheckout(checkout[c])

Shown == Keyboard(screen.kb) /\ (late # None => Known(late.button))

\* The buttons are the bot's own, and the devices of every row and checkout are paid for.
ShopInv == Paid /\ Shown

\* What was covered stays so, for nothing is paid back.
LEMMA SpentGrows ==
  ASSUME spent \in Nat, spent' \in Nat, spent <= spent'
  PROVE  /\ \A n \in Devices : Covered(n) => Covered(n)'
         /\ \A r : PaidRow(r) => r \in RowType /\ spent' >= (r.devices - DefaultDevices) * Rate
<1>1. DefaultDevices \in Nat /\ MaxDevices \in Nat /\ Rate \in Nat
  BY RateIsLeast, MenuAssumption
<1>2. ASSUME NEW n \in Devices, spent >= (n - DefaultDevices) * Rate
      PROVE  spent' >= (n - DefaultDevices) * Rate
  <2>1. n \in Nat
    BY <1>1 DEF Devices
  <2>2. PICK k \in Int : k = (n - DefaultDevices) * Rate
    <3>1. n - DefaultDevices \in Int
      BY <1>1, <2>1
    <3> QED BY <1>1, <3>1
  <2> QED BY <1>2, <2>2
<1> QED BY <1>2 DEF Covered, PaidRow, RowType

\* Steps that write no row, no checkout and no payment.
LEMMA PaidStays ==
  ASSUME Paid, UNCHANGED <<row, busy, checkout, spent>>
  PROVE  Paid'
<1>1. \A r : PaidRow(r)' <=> PaidRow(r)
  BY DEF PaidRow, Covered
<1> QED BY DEF Paid, PaidRow, PaidCheckout, Covered

\* The message shown after a step, by its keyboard.
LEMMA ShowIs ==
  ASSUME NEW kb, Show(kb)
  PROVE  screen'.kb = kb
BY DEF Show, Screen

\* Buttons that only look something up, and those that ask for a text.
LEMMA LookupKeeps ==
  ASSUME ShopInv, NEW b, Known(b), Look(b)
  PROVE  Keyboard(screen'.kb) /\ UNCHANGED <<row, busy, checkout, spent>>
<1>1. CASE Lookup(b)
  <2>1. UNCHANGED <<row, busy, checkout, spent>> /\ b[1] \in Lookups
    BY <1>1 DEF Lookup, money
  <2>2. PICK config \in BOOLEAN :
          screen' = Lost \/ Show(Answer(b, ViewNow(config)))
    BY <1>1 DEF Lookup
  <2>3. CASE screen' = Lost
    BY <2>1, <2>3, PlainKeyboards DEF Lost, Screen
  <2>4. CASE Show(Answer(b, ViewNow(config)))
    <3>1. PICK v : v = ViewNow(config)
      OBVIOUS
    <3>2. v.devices \in Devices /\ v.trial \in BOOLEAN
      BY <3>1 DEF ViewNow, TrialAvailable, ShopInv, Paid, PaidRow, RowType
    <3>3. Keyboard(Answer(b, v))
      BY <2>1, <3>2, AnswersAreKnown
    <3>4. screen'.kb = Answer(b, v)
      BY <2>4, <3>1, ShowIs
    <3> QED BY <2>1, <3>3, <3>4
  <2> QED BY <2>2, <2>3, <2>4
<1>2. CASE AskDays(b)
  BY <1>2, PlainKeyboards DEF AskDays, Screen, money
<1>3. CASE AskEmail(b)
  BY <1>3, PlainKeyboards DEF AskEmail, Screen, money
<1>4. CASE ResendCode(b)
  <2>1. screen'.kb = LinkEmail \/ screen'.kb = LinkEmailCode
    BY <1>4 DEF ResendCode, Screen
  <2> QED BY <1>4, <2>1, PlainKeyboards DEF ResendCode, money
<1> QED BY <1>1, <1>2, <1>3, <1>4 DEF Look

\* A row with the devices that are included, and nothing more to pay.
LEMMA IncludedAreCovered ==
  ASSUME spent \in Nat
  PROVE  DefaultDevices \in Devices /\ Covered(DefaultDevices)
<1>1. DefaultDevices \in Nat /\ MaxDevices \in Nat /\ DefaultDevices <= MaxDevices /\ Rate \in Nat
  BY RateIsLeast, MenuAssumption
<1>2. (DefaultDevices - DefaultDevices) * Rate = 0
  BY <1>1
<1> QED BY <1>1, <1>2 DEF Devices, Covered

\* The trial starts with the devices that are included.
LEMMA TrialKeeps ==
  ASSUME ShopInv, NEW b, StartTrial(b), busy = None
  PROVE  Keyboard(screen'.kb) /\ Paid' /\ busy' = busy
<1>1. spent \in Nat
  BY DEF ShopInv, Paid
<1>2. UNCHANGED <<busy, checkout, spent>>
  BY DEF StartTrial, money
<1>3. row' = row \/ row' = [status |-> "active", plan |-> NoPlan, devices |-> DefaultDevices]
  BY DEF StartTrial
<1>4. PaidRow(row')
  <2>1. CASE row' = row
    BY <2>1 DEF ShopInv, Paid
  <2>2. CASE row' = [status |-> "active", plan |-> NoPlan, devices |-> DefaultDevices]
    BY <1>1, <2>2, IncludedAreCovered DEF PaidRow, RowType, Statuses
  <2> QED BY <1>3, <2>1, <2>2
<1>5. Paid'
  BY <1>2, <1>4 DEF ShopInv, Paid, PaidRow, PaidCheckout, Covered
<1>6. Keyboard(screen'.kb)
  <2>1. screen'.kb = MainMenu(FALSE) \/ screen'.kb = Back(Menu)
    <3>1. Show(MainMenu(FALSE)) \/ Show(Back(Menu))
      BY DEF StartTrial
    <3> QED BY <3>1, ShowIs
  <2> QED BY <2>1, PlainKeyboards
<1> QED BY <1>2, <1>5, <1>6

\* A checkout is opened that asks for enough.
LEMMA OpenKeeps ==
  ASSUME Paid, NEW kind \in {"plan", "devices"}, NEW plan \in Plans \cup {NoPlan},
         NEW n \in Devices, NEW amount \in Int, NEW extra \in Nat,
         spent + extra >= (n - DefaultDevices) * Rate,
         Open(kind, plan, n, amount, extra), UNCHANGED <<row, busy, spent>>
  PROVE  Paid'
<1>1. PICK u : u = Unopened
  OBVIOUS
<1>2. PICK x : x = [u EXCEPT !.state = "open", !.kind = kind, !.plan = plan, !.devices = n,
                             !.amount = amount, !.extra = extra]
  OBVIOUS
<1>3. PICK c \in Checkouts : checkout' = [checkout EXCEPT ![c] = x]
  BY <1>1, <1>2 DEF Open
<1>k. x \in CheckoutType /\ x.state = "open" /\ x.read = None /\ x.extra = extra /\ x.devices = n
  <2>1. MonthPlan \in Plans /\ DefaultDevices \in Devices
    BY MenuAssumption DEF Devices
  <2>2. u \in CheckoutType /\ u.read = None
    BY <1>1, <2>1 DEF Unopened, CheckoutType
  <2> QED BY <1>2, <2>2 DEF CheckoutType
<1>4. PaidCheckout(x)
  BY <1>k DEF PaidCheckout
<1>5. DOMAIN checkout' = Checkouts /\ \A d \in Checkouts : PaidCheckout(checkout'[d])
  BY <1>3, <1>4 DEF Paid
<1> QED BY <1>5 DEF Paid, PaidRow, PaidCheckout, Covered

\* A price for devices at the rate of some plan.
LEMMA PriceOfDevices ==
  ASSUME NEW s \in Nat, NEW n \in Devices, NEW p \in Plans
  PROVE  /\ PlanPrice[p] \in Nat /\ TotalPrice(p, n) \in Nat
         /\ TotalPrice(p, n) - PlanPrice[p] \in Nat
         /\ s + (TotalPrice(p, n) - PlanPrice[p]) >= (n - DefaultDevices) * Rate
<1>1. DefaultDevices \in Nat /\ MaxDevices \in Nat /\ PlanPrice[p] \in Nat /\ Rate \in Nat
  BY RateIsLeast, MenuAssumption
<1>2. n \in Nat /\ DefaultDevices <= n
  BY <1>1 DEF Devices
<1>3. (DefaultDevices - DefaultDevices) * Rate = 0
  BY <1>1
<1>4. PICK k : k = (n - DefaultDevices) * ExtraPrice[p]
  OBVIOUS
<1>5. k \in Nat /\ s + k >= (n - DefaultDevices) * Rate
  BY <1>1, <1>2, <1>3, <1>4, PaidOnTop
<1>6. TotalPrice(p, n) = PlanPrice[p] + k
  BY <1>4 DEF TotalPrice
<1>7. TotalPrice(p, n) - PlanPrice[p] = k
  BY <1>1, <1>5, <1>6
<1> QED BY <1>1, <1>5, <1>6, <1>7

\* What devices on top of a row's cost.
LEMMA PriceOnTop ==
  ASSUME spent \in Nat, NEW r, PaidRow(r), NEW n \in Devices, r.devices < n
  PROVE  /\ ExtraCost(n, r.devices, r.plan) \in Nat
         /\ spent + ExtraCost(n, r.devices, r.plan) >= (n - DefaultDevices) * Rate
<1>1. DefaultDevices \in Nat /\ MaxDevices \in Nat /\ MonthPlan \in Plans
  BY MenuAssumption
<1>2. r.devices \in Nat /\ r.devices <= n /\ n \in Nat
  BY <1>1 DEF PaidRow, RowType, Devices
<1>3. PICK p \in Plans : p = IF r.plan = NoPlan THEN MonthPlan ELSE r.plan
  BY <1>1 DEF PaidRow, RowType
<1>4. spent >= (r.devices - DefaultDevices) * Rate
  BY DEF PaidRow, Covered
<1>5. ExtraCost(n, r.devices, r.plan) = (n - r.devices) * ExtraPrice[p]
  BY <1>3 DEF ExtraCost
<1> QED BY <1>2, <1>4, <1>5, PaidOnTop

\* What holds of a checkout holds when more was paid.
LEMMA PaidCheckoutStays ==
  ASSUME spent \in Nat, spent' \in Nat, spent <= spent', NEW CONSTANT x, PaidCheckout(x)
  PROVE  PaidCheckout(x)'
<1>1. x \in CheckoutType /\ x.extra \in Nat /\ x.devices \in Devices
  BY DEF PaidCheckout, CheckoutType
<1>2. DefaultDevices \in Nat /\ MaxDevices \in Nat /\ Rate \in Nat
  BY RateIsLeast, MenuAssumption
<1>3. PICK k \in Int : k = (x.devices - DefaultDevices) * Rate
  BY <1>1, <1>2 DEF Devices
<1>4. spent + x.extra >= k => spent' + x.extra >= k
  BY <1>1, <1>3
<1>5. x.state = "open" => spent' + x.extra >= (x.devices - DefaultDevices) * Rate
  BY <1>3, <1>4 DEF PaidCheckout
<1>6. x.state \in {"paid", "applied"} => Covered(x.devices)'
  BY <1>1, SpentGrows DEF PaidCheckout
<1> QED BY <1>1, <1>5, <1>6 DEF PaidCheckout, Covered

\* A step in which more is paid, and the row is written.
LEMMA PayingKeeps ==
  ASSUME Paid, spent' \in Nat, spent <= spent', PaidRow(row)', UNCHANGED <<busy, checkout>>
  PROVE  Paid'
<1>1. spent \in Nat
  BY DEF Paid
<1>2. /\ \A n \in Devices : Covered(n) => Covered(n)'
      /\ \A r : PaidRow(r) => r \in RowType /\ spent' >= (r.devices - DefaultDevices) * Rate
  BY <1>1, SpentGrows
<1>3. busy # None => PaidRow(busy)'
  BY <1>2 DEF Paid, PaidRow, Covered
<1>4. ASSUME NEW c \in Checkouts PROVE PaidCheckout(checkout[c])'
  <2>1. PaidCheckout(checkout[c]) /\ checkout' = checkout
    BY DEF Paid
  <2>2. PICK x : x = checkout[c]
    OBVIOUS
  <2>3. PaidCheckout(x)'
    BY <1>1, <2>1, <2>2, PaidCheckoutStays
  <2> QED BY <2>1, <2>2, <2>3 DEF PaidCheckout, Covered
<1>5. DOMAIN checkout' = Checkouts
  BY DEF Paid
<1> QED BY <1>3, <1>4, <1>5 DEF Paid

\* do_pay: a plan by card.
LEMMA PlanByCardKeeps ==
  ASSUME ShopInv, NEW b, Known(b), PayPlanByCard(b)
  PROVE  Keyboard(screen'.kb) /\ Paid' /\ busy' = busy
<1>1. b[2] \in Plans /\ b[3] \in Devices
  BY ButtonKinds DEF PayPlanByCard, IsPrice, PriceActs
<1>2. UNCHANGED <<row, busy, spent>>
  BY DEF PayPlanByCard, money
<1>3. Keyboard(screen'.kb)
  BY PlainKeyboards DEF PayPlanByCard, Show, Screen
<1>4. PICK total, extra : total = TotalPrice(b[2], b[3]) /\ extra = TotalPrice(b[2], b[3]) - PlanPrice[b[2]]
  OBVIOUS
<1>5. total \in Int /\ extra \in Nat /\ spent + extra >= (b[3] - DefaultDevices) * Rate
  <2>1. spent \in Nat
    BY DEF ShopInv, Paid
  <2> QED BY <1>1, <1>4, <2>1, PriceOfDevices
<1>6. CASE checkout' = checkout
  BY <1>2, <1>3, <1>6, PaidStays DEF ShopInv
<1>7. CASE Open("plan", b[2], b[3], total, extra)
  <2>1. Paid
    BY DEF ShopInv
  <2>2. Paid'
    BY <1>1, <1>2, <1>5, <1>7, <2>1, OpenKeeps
  <2> QED BY <1>2, <1>3, <2>2
<1> QED BY <1>4, <1>6, <1>7 DEF PayPlanByCard

\* add_dev_pay: devices by card.
LEMMA DevicesByCardKeeps ==
  ASSUME ShopInv, NEW b, Known(b), PayDevicesByCard(b)
  PROVE  Keyboard(screen'.kb) /\ Paid' /\ busy' = busy
<1>1. b[2] \in Devices
  BY ButtonKinds DEF PayDevicesByCard, IsCount, CountActs
<1>2. UNCHANGED <<row, busy, spent>>
  BY DEF PayDevicesByCard, money
<1>3. spent \in Nat /\ PaidRow(row) /\ row.devices \in Devices /\ row.plan \in Plans \cup {NoPlan}
  BY DEF ShopInv, Paid, PaidRow, RowType
<1>4. Keyboard(screen'.kb)
  <2>1. \/ screen'.kb = Back(Menu) \/ screen'.kb = Back(AddDevice)
        \/ screen'.kb = AddDeviceSelect(row.devices)
    BY DEF PayDevicesByCard, Show, Screen
  <2> QED BY <1>3, <2>1, PlainKeyboards, CountKeyboards
<1>5. PICK cost : cost = ExtraCost(b[2], row.devices, row.plan)
  OBVIOUS
<1>6. CASE checkout' = checkout
  BY <1>2, <1>4, <1>6, PaidStays DEF ShopInv
<1>7. CASE ~ (b[2] <= row.devices) /\ Open("devices", row.plan, b[2], cost, cost)
  <2>1. row.devices < b[2]
    BY <1>1, <1>3, <1>7, MenuAssumption DEF Devices
  <2>2. cost \in Nat /\ spent + cost >= (b[2] - DefaultDevices) * Rate
    BY <1>1, <1>3, <1>5, <2>1, PriceOnTop
  <2>3. Paid /\ cost \in Int
    BY <2>2 DEF ShopInv
  <2>4. Paid'
    BY <1>1, <1>2, <1>3, <1>7, <2>2, <2>3, OpenKeeps
  <2> QED BY <1>2, <1>4, <2>4
<1> QED BY <1>5, <1>6, <1>7 DEF PayDevicesByCard

\* pay_balance: the plan with its devices, paid now.
LEMMA PlanFromBalanceKeeps ==
  ASSUME ShopInv, NEW b, Known(b), PayPlanFromBalance(b)
  PROVE  Keyboard(screen'.kb) /\ Paid' /\ busy' = busy
<1>1. b[2] \in Plans /\ b[3] \in Devices
  BY ButtonKinds DEF PayPlanFromBalance, IsPrice, PriceActs
<1>2. UNCHANGED <<busy, checkout>>
  BY DEF PayPlanFromBalance
<1>3. Keyboard(screen'.kb)
  <2>1. \/ Show(Back(Menu)) \/ Show(Back(Buy))
        \/ Show(MainMenu(FALSE))
    BY DEF PayPlanFromBalance
  <2>2. \/ screen'.kb = Back(Menu) \/ screen'.kb = Back(Buy)
        \/ screen'.kb = MainMenu(FALSE)
    BY <2>1, ShowIs
  <2> QED BY <2>2, PlainKeyboards
<1>4. CASE row' = row /\ spent' = spent
  BY <1>2, <1>3, <1>4, PaidStays DEF ShopInv
<1>5. CASE /\ row' = [status |-> "active", plan |-> b[2], devices |-> b[3]]
           /\ spent' = spent + (TotalPrice(b[2], b[3]) - PlanPrice[b[2]])
  <2>1. spent \in Nat
    BY DEF ShopInv, Paid
  <2>2. PICK extra : extra = TotalPrice(b[2], b[3]) - PlanPrice[b[2]]
    OBVIOUS
  <2>3. extra \in Nat /\ spent + extra >= (b[3] - DefaultDevices) * Rate
    BY <1>1, <2>1, <2>2, PriceOfDevices
  <2>4. spent' = spent + extra
    BY <1>5, <2>2
  <2>5. spent' \in Nat /\ spent <= spent'
    BY <2>1, <2>3, <2>4
  <2>6. row' \in RowType /\ row'.devices = b[3]
    BY <1>1, <1>5 DEF RowType, Statuses
  <2>7. PaidRow(row)'
    BY <2>3, <2>4, <2>6 DEF PaidRow, Covered
  <2>8. Paid'
    BY <1>2, <2>5, <2>7, PayingKeeps DEF ShopInv
  <2> QED BY <1>2, <1>3, <2>8
<1> QED BY <1>4, <1>5 DEF PayPlanFromBalance

\* add_dev_bal: devices, paid now at the rate of the row's plan.
LEMMA DevicesFromBalanceKeeps ==
  ASSUME ShopInv, NEW b, Known(b), PayDevicesFromBalance(b)
  PROVE  Keyboard(screen'.kb) /\ Paid' /\ busy' = busy
<1>1. b[2] \in Devices
  BY ButtonKinds DEF PayDevicesFromBalance, IsCount, CountActs
<1>2. UNCHANGED <<busy, checkout>>
  BY DEF PayDevicesFromBalance
<1>3. spent \in Nat /\ PaidRow(row) /\ row \in RowType /\ row.devices \in Devices
  BY DEF ShopInv, Paid, PaidRow, RowType
<1>4. Keyboard(screen'.kb)
  <2>1. \/ Show(Back(Menu)) \/ Show(Back(Settings))
        \/ Show(AddDeviceSelect(row.devices))
    BY DEF PayDevicesFromBalance, AddDevices
  <2>2. \/ screen'.kb = Back(Menu) \/ screen'.kb = Back(Settings)
        \/ screen'.kb = AddDeviceSelect(row.devices)
    BY <2>1, ShowIs
  <2> QED BY <1>3, <2>2, PlainKeyboards, CountKeyboards
<1>5. PICK cost : cost = ExtraCost(b[2], row.devices, row.plan)
  OBVIOUS
<1>6. CASE row' = row /\ spent' = spent
  BY <1>2, <1>4, <1>6, PaidStays DEF ShopInv
<1>7. CASE /\ ~ (b[2] <= row.devices)
           /\ row' = [row EXCEPT !.devices = b[2]]
           /\ spent' = spent + cost
  <2>1. row.devices < b[2]
    BY <1>1, <1>3, <1>7, MenuAssumption DEF Devices
  <2>2. cost \in Nat /\ spent + cost >= (b[2] - DefaultDevices) * Rate
    BY <1>1, <1>3, <1>5, <2>1, PriceOnTop
  <2>3. spent' \in Nat /\ spent <= spent'
    BY <1>3, <1>7, <2>2
  <2>4. row' \in RowType /\ row'.devices = b[2]
    BY <1>1, <1>3, <1>7 DEF RowType
  <2>5. PaidRow(row)'
    BY <1>7, <2>2, <2>4 DEF PaidRow, Covered
  <2>6. Paid'
    BY <1>2, <2>3, <2>5, PayingKeeps DEF ShopInv
  <2> QED BY <1>2, <1>4, <2>6
<1> QED BY <1>5, <1>6, <1>7 DEF PayDevicesFromBalance, AddDevices

\* remove_dev_confirm reads the row, and will write it with fewer devices.
LEMMA RemoveKeeps ==
  ASSUME ShopInv, NEW b, Known(b), RemoveRead(b)
  PROVE  Keyboard(screen'.kb) /\ Paid'
<1>1. b[2] \in Devices
  BY ButtonKinds DEF RemoveRead, IsCount, CountActs
<1>2. UNCHANGED <<row, checkout, spent>>
  BY DEF RemoveRead, money
<1>3. spent \in Nat /\ PaidRow(row) /\ row \in RowType /\ row.devices \in Devices
  BY DEF ShopInv, Paid, PaidRow, RowType
<1>4. Keyboard(screen'.kb)
  <2>1. \/ Show(Back(Menu)) \/ Show(SettingsKeyboard(TRUE, row.devices)) \/ screen' = screen
    BY DEF RemoveRead
  <2>2. \/ screen'.kb = Back(Menu) \/ screen'.kb = SettingsKeyboard(TRUE, row.devices)
        \/ screen'.kb = screen.kb
    BY <2>1, ShowIs
  <2> QED BY <1>3, <2>2, PlainKeyboards, CountKeyboards DEF ShopInv, Shown
<1>5. CASE busy' = None
  <2>1. PaidRow(row)'
    BY <1>2, <1>3 DEF PaidRow, Covered
  <2>2. \A c \in Checkouts : PaidCheckout(checkout[c])'
    BY <1>2 DEF ShopInv, Paid, PaidCheckout, Covered
  <2>3. Paid'
    BY <1>2, <1>5, <2>1, <2>2 DEF ShopInv, Paid
  <2> QED BY <1>4, <2>3
<1>6. CASE ~ (b[2] >= row.devices) /\ busy' = [row EXCEPT !.devices = b[2]]
  <2>1. busy' \in RowType /\ busy'.devices = b[2]
    BY <1>1, <1>3, <1>6 DEF RowType
  <2>2. b[2] \in Nat /\ row.devices \in Nat /\ DefaultDevices \in Nat /\ Rate \in Nat
    BY <1>1, <1>3, RateIsLeast, MenuAssumption DEF Devices
  <2>3. PICK d \in Nat : row.devices = b[2] + d
    <3>1. row.devices - b[2] \in Nat /\ row.devices = b[2] + (row.devices - b[2])
      BY <1>6, <2>2
    <3> QED BY <3>1
  <2>4. PICK e \in Int : e = b[2] - DefaultDevices
    BY <2>2
  <2>5. row.devices - DefaultDevices = e + d
    BY <2>2, <2>3, <2>4
  <2>6. (e + d) * Rate = e * Rate + d * Rate /\ e * Rate \in Int /\ d * Rate \in Nat
    BY <2>2
  <2>7. spent >= (e + d) * Rate
    BY <1>3, <2>5 DEF PaidRow, Covered
  <2>8. spent >= e * Rate
    BY <1>3, <2>6, <2>7
  <2>9. PaidRow(busy')
    BY <2>1, <2>4, <2>8 DEF PaidRow, Covered
  <2> QED BY <1>2, <1>4, <2>9 DEF ShopInv, Paid, PaidRow, PaidCheckout, Covered
<1> QED BY <1>4, <1>5, <1>6 DEF RemoveRead

\* Whatever a button changes, in time or late.
LEMMA ChangeKeeps ==
  ASSUME ShopInv, NEW b, Known(b), Change(b), busy = None
  PROVE  Keyboard(screen'.kb) /\ Paid'
BY TrialKeeps, PlanByCardKeeps, DevicesByCardKeeps, PlanFromBalanceKeeps, DevicesFromBalanceKeeps, RemoveKeeps
   DEF Change

\* A step that writes one checkout, and the row perhaps, and pays nothing back.
LEMMA CheckoutKeeps ==
  ASSUME Paid, spent' \in Nat, spent <= spent', PaidRow(row)', busy' = busy,
         NEW c \in Checkouts, NEW x, checkout' = [checkout EXCEPT ![c] = x], PaidCheckout(x)'
  PROVE  Paid'
<1>1. PICK old : old = checkout
  OBVIOUS
<1>2. DOMAIN checkout' = Checkouts /\ checkout'[c] = x
      /\ \A d \in Checkouts : d # c => checkout'[d] = checkout[d]
  BY DEF Paid
<1>3. spent \in Nat
  BY DEF Paid
<1>4. /\ \A n \in Devices : Covered(n) => Covered(n)'
      /\ \A r : PaidRow(r) => r \in RowType /\ spent' >= (r.devices - DefaultDevices) * Rate
  BY <1>3, SpentGrows
<1>5. busy # None => PaidRow(busy)'
  BY <1>4 DEF Paid, PaidRow, Covered
<1>6. ASSUME NEW d \in Checkouts PROVE PaidCheckout(checkout[d])'
  <2>1. CASE d = c
    BY <1>2, <2>1 DEF PaidCheckout, Covered
  <2>2. CASE d # c
    <3>1. PICK y : y = checkout[d]
      OBVIOUS
    <3>2. PaidCheckout(y)
      BY <3>1 DEF Paid
    <3>3. PaidCheckout(y)'
      BY <1>3, <3>2, PaidCheckoutStays
    <3> QED BY <1>2, <2>2, <3>1, <3>3 DEF PaidCheckout, Covered
  <2> QED BY <2>1, <2>2
<1> QED BY <1>2, <1>5, <1>6 DEF Paid

\* The payment of a checkout: what it asks for is spent.
LEMMA PayCheckoutKeeps ==
  ASSUME ShopInv, NEW c \in Checkouts, PayCheckout(c)
  PROVE  ShopInv'
<1>1. PICK x : x = checkout[c]
  OBVIOUS
<1>2. PICK y : y = [x EXCEPT !.state = "paid"]
  OBVIOUS
<1>3. PaidCheckout(x) /\ x \in CheckoutType /\ x.state = "open" /\ x.extra \in Nat /\ spent \in Nat
  BY <1>1 DEF ShopInv, Paid, PaidCheckout, CheckoutType, PayCheckout
<1>4. checkout' = [checkout EXCEPT ![c] = y]
  BY <1>1, <1>2 DEF PayCheckout, ShopInv, Paid
<1>5. spent' = spent + x.extra /\ spent' \in Nat /\ spent <= spent'
  BY <1>1, <1>3 DEF PayCheckout
<1>6. y \in CheckoutType /\ y.state = "paid" /\ y.devices = x.devices /\ y.read = x.read
  <2>1. y \in CheckoutType
    <3>1. PICK s \in {"unopened", "open", "paid", "applied", "refused"} : s = "paid"
      OBVIOUS
    <3>2. y = [x EXCEPT !.state = s]
      BY <1>2, <3>1
    <3>3. x \in CheckoutType
      BY <1>3
    <3> QED BY <3>2, <3>3 DEF CheckoutType
  <2>2. y.state = "paid" /\ y.devices = x.devices /\ y.read = x.read
    BY <1>2, <1>3 DEF CheckoutType
  <2> QED BY <2>1, <2>2
<1>7. PaidCheckout(y)'
  BY <1>3, <1>5, <1>6 DEF PaidCheckout, Covered
<1>8. UNCHANGED <<row, busy, screen, late>>
  BY DEF PayCheckout, chat
<1>9. PaidRow(row)'
  <2>1. PaidRow(row)
    BY DEF ShopInv, Paid
  <2> QED BY <1>3, <1>5, <1>8, <2>1, SpentGrows DEF PaidRow, Covered
<1>10. Paid'
  <2>1. Paid
    BY DEF ShopInv
  <2> QED BY <1>4, <1>5, <1>7, <1>8, <1>9, <2>1, CheckoutKeeps
<1> QED BY <1>8, <1>10 DEF ShopInv, Shown

\* The webhook may edit the invoice.
LEMMA InvoiceIsShown ==
  ASSUME ShopInv, EditInvoice \/ screen' = screen, late' = late
  PROVE  Shown'
<1>1. screen'.kb = PaidKeyboard \/ screen' = screen
  BY DEF EditInvoice, Show, Screen
<1> QED BY <1>1, PlainKeyboards DEF ShopInv, Shown

\* A notified checkout once it is settled.
LEMMA SettledIs ==
  ASSUME ShopInv, NEW c \in Checkouts, NEW state \in {"refused", "applied"},
         state = "applied" => checkout[c].state \in {"paid", "applied"}
  PROVE  \E x : /\ Settled(c, state) = [checkout EXCEPT ![c] = x]
               /\ PaidCheckout(x) /\ x.devices = checkout[c].devices
<1>1. PICK x : x = checkout[c]
  OBVIOUS
<1>2. PICK y : y = [x EXCEPT !.state = state, !.tries = x.tries + 1, !.read = None]
  OBVIOUS
<1>3. PaidCheckout(x) /\ x \in CheckoutType
  BY <1>1 DEF ShopInv, Paid, PaidCheckout
<1>4. y \in CheckoutType /\ y.state = state /\ y.read = None /\ y.devices = x.devices
  <2>1. PICK tries \in Nat, read \in Devices \cup {None} : tries = x.tries + 1 /\ read = None
    BY <1>3 DEF CheckoutType
  <2>2. PICK s \in {"unopened", "open", "paid", "applied", "refused"} : s = state
    OBVIOUS
  <2>3. y = [x EXCEPT !.state = s, !.tries = tries, !.read = read]
    BY <1>2, <2>1, <2>2
  <2>4. y \in CheckoutType
    BY <1>3, <2>3 DEF CheckoutType
  <2>5. y.state = s /\ y.read = read /\ y.devices = x.devices
    BY <1>3, <2>3 DEF CheckoutType
  <2> QED BY <2>1, <2>2, <2>4, <2>5
<1>5. PaidCheckout(y)
  BY <1>1, <1>3, <1>4 DEF PaidCheckout
<1>6. Settled(c, state) = [checkout EXCEPT ![c] = y]
  BY <1>1, <1>2 DEF Settled, ShopInv, Paid
<1> QED BY <1>1, <1>4, <1>5, <1>6

\* The webhook for a plan: the row gets what was paid.
LEMMA DeliverPlanKeeps ==
  ASSUME ShopInv, NEW c \in Checkouts, DeliverPlan(c)
  PROVE  ShopInv'
<1>1. UNCHANGED <<busy, late, spent>> /\ checkout[c].state \in {"paid", "applied"}
  BY DEF DeliverPlan, Notified, money
<1>2. spent \in Nat /\ PaidCheckout(checkout[c]) /\ Paid
  BY DEF ShopInv, Paid
<1>3. PICK state \in {"refused", "applied"} :
        /\ checkout' = Settled(c, state)
        /\ \/ row' = row
           \/ row' = [status |-> "active", plan |-> checkout[c].plan, devices |-> checkout[c].devices]
        /\ EditInvoice \/ screen' = screen
  BY DEF DeliverPlan
<1>4. PICK x : Settled(c, state) = [checkout EXCEPT ![c] = x] /\ PaidCheckout(x)
  BY <1>1, SettledIs
<1>5. PaidRow(row')
  <2>1. CASE row' = row
    BY <2>1 DEF ShopInv, Paid
  <2>2. CASE row' = [status |-> "active", plan |-> checkout[c].plan, devices |-> checkout[c].devices]
    BY <1>1, <1>2, <2>2 DEF PaidCheckout, CheckoutType, PaidRow, RowType, Statuses
  <2> QED BY <1>3, <2>1, <2>2
<1>6. PaidRow(row)' /\ PaidCheckout(x)' /\ spent' \in Nat /\ spent <= spent'
  BY <1>1, <1>2, <1>4, <1>5 DEF PaidRow, PaidCheckout, Covered
<1>7. Paid'
  BY <1>1, <1>2, <1>3, <1>4, <1>6, CheckoutKeeps
<1>8. Shown'
  BY <1>1, <1>3, InvoiceIsShown
<1> QED BY <1>7, <1>8 DEF ShopInv

\* The webhook for devices: the SELECT ...
LEMMA TopUpReadKeeps ==
  ASSUME ShopInv, NEW c \in Checkouts, TopUpRead(c)
  PROVE  ShopInv'
<1>1. UNCHANGED <<row, busy, screen, late, spent>> /\ checkout[c].state \in {"paid", "applied"}
  BY DEF TopUpRead, Notified, chat
<1>2. PICK x : x = checkout[c]
  OBVIOUS
<1>3. PICK z : z = [x EXCEPT !.read = row.devices]
  OBVIOUS
<1>4. PaidCheckout(x) /\ x \in CheckoutType /\ row.devices \in Devices /\ spent \in Nat /\ PaidRow(row) /\ Paid
  BY <1>2 DEF ShopInv, Paid, PaidCheckout, PaidRow, RowType
<1>5. z \in CheckoutType /\ z.state = x.state /\ z.devices = x.devices /\ z.extra = x.extra
  BY <1>3, <1>4 DEF CheckoutType
<1>6. PaidCheckout(z)
  BY <1>1, <1>2, <1>4, <1>5 DEF PaidCheckout
<1>7. PICK y : checkout' = [checkout EXCEPT ![c] = y] /\ PaidCheckout(y)
  <2>1. CASE checkout' = Settled(c, "refused")
    BY <1>1, <2>1, SettledIs
  <2>2. CASE checkout' = [checkout EXCEPT ![c].read = row.devices]
    BY <1>2, <1>3, <1>6, <2>2 DEF ShopInv, Paid
  <2> QED BY <2>1, <2>2 DEF TopUpRead
<1>8. PaidRow(row)' /\ PaidCheckout(y)' /\ spent' \in Nat /\ spent <= spent'
  BY <1>1, <1>4, <1>7 DEF PaidRow, PaidCheckout, Covered
<1>9. Paid'
  BY <1>1, <1>4, <1>7, <1>8, CheckoutKeeps
<1> QED BY <1>1, <1>9 DEF ShopInv, Shown

\* ... and the UPDATE, which only ever writes the devices of the checkout.
LEMMA TopUpWriteKeeps ==
  ASSUME ShopInv, NEW c \in Checkouts, TopUpWrite(c)
  PROVE  ShopInv'
<1>1. UNCHANGED <<busy, late, spent>> /\ checkout[c].read # None /\ EditInvoice
      /\ checkout' = Settled(c, "applied")
  BY DEF TopUpWrite, money
<1>2. PaidCheckout(checkout[c]) /\ PaidRow(row) /\ spent \in Nat /\ Paid
  BY DEF ShopInv, Paid
<1>3. /\ checkout[c].state \in {"paid", "applied"} /\ Covered(checkout[c].devices)
      /\ checkout[c].devices \in Devices /\ checkout[c].read \in Devices
  BY <1>1, <1>2 DEF PaidCheckout, CheckoutType
<1>4. row' = row \/ row' = [row EXCEPT !.devices = checkout[c].devices]
  <2>1. checkout[c].devices \in Int /\ checkout[c].read \in Int
    BY <1>3 DEF Devices
  <2>2. Larger(checkout[c].read, checkout[c].devices) > checkout[c].read
          => Larger(checkout[c].read, checkout[c].devices) = checkout[c].devices
    BY <2>1 DEF Larger
  <2> QED BY <2>2 DEF TopUpWrite
<1>5. PaidRow(row')
  <2>1. CASE row' = row
    BY <1>2, <2>1
  <2>2. CASE row' = [row EXCEPT !.devices = checkout[c].devices]
    BY <1>2, <1>3, <2>2 DEF PaidRow, RowType
  <2> QED BY <1>4, <2>1, <2>2
<1>6. PICK x : Settled(c, "applied") = [checkout EXCEPT ![c] = x] /\ PaidCheckout(x)
  BY <1>3, SettledIs
<1>7. PaidRow(row)' /\ PaidCheckout(x)' /\ spent' \in Nat /\ spent <= spent'
  BY <1>1, <1>2, <1>5, <1>6 DEF PaidRow, PaidCheckout, Covered
<1>8. Paid'
  BY <1>1, <1>2, <1>6, <1>7, CheckoutKeeps
<1>9. Shown'
  BY <1>1, InvoiceIsShown
<1> QED BY <1>8, <1>9 DEF ShopInv

-----------------------------------------------------------------------------
(* The steps of the user, the provider and time.                           *)

\* A removal writes back the row it was about to write.
LEMMA RemoveWriteKeeps ==
  ASSUME ShopInv, RemoveWrite
  PROVE  ShopInv'
<1>1. PICK r : r = busy
  OBVIOUS
<1>2. PaidRow(r) /\ spent \in Nat
  BY <1>1 DEF RemoveWrite, ShopInv, Paid
<1>3. row' = r /\ busy' = None /\ UNCHANGED <<late, checkout, spent>>
  BY <1>1 DEF RemoveWrite, money
<1>4. PaidRow(row)'
  BY <1>2, <1>3 DEF PaidRow, Covered
<1>5. Paid'
  BY <1>3, <1>4 DEF ShopInv, Paid, PaidCheckout, Covered
<1>6. screen'.kb = Back(Menu)
  <2>1. Show(Back(Menu))
    BY DEF RemoveWrite
  <2> QED BY <2>1, ShowIs
<1>7. Shown'
  BY <1>3, <1>6, PlainKeyboards DEF ShopInv, Shown
<1> QED BY <1>5, <1>7 DEF ShopInv

\* A button of the message is pressed, and another, or the same again, after it.
LEMMA PressKeeps ==
  ASSUME ShopInv, NEW b \in screen.kb, Press(b)
  PROVE  ShopInv'
<1>1. Known(b) /\ busy = None /\ late = None
  BY DEF ShopInv, Shown, Keyboard, Press, BotFree
<1>2. Keyboard(screen'.kb) /\ Paid'
  <2>1. CASE Look(b)
    <3>1. Keyboard(screen'.kb) /\ UNCHANGED <<row, busy, checkout, spent>>
      BY <1>1, <2>1, LookupKeeps
    <3>2. Paid
      BY DEF ShopInv
    <3>3. Paid'
      BY <3>1, <3>2, PaidStays
    <3> QED BY <3>1, <3>3
  <2>2. CASE Change(b)
    BY <1>1, <2>2, ChangeKeeps
  <2> QED BY <2>1, <2>2 DEF Press
<1>3. late' # None => Known(late'.button)
  <2>1. late' = None \/ \E again \in screen.kb : late'.button = again
    BY DEF Press
  <2> QED BY <2>1 DEF ShopInv, Shown, Keyboard
<1> QED BY <1>2, <1>3 DEF ShopInv, Shown

\* The press that waited is handled.
LEMMA PressLateKeeps ==
  ASSUME ShopInv, PressLate
  PROVE  ShopInv'
<1>1. Known(late.button) /\ busy = None /\ Change(late.button) /\ late' = None
  BY DEF ShopInv, Shown, PressLate
<1>2. Keyboard(screen'.kb) /\ Paid'
  BY <1>1, ChangeKeeps
<1> QED BY <1>1, <1>2 DEF ShopInv, Shown

\* Commands and texts show one of the bot's keyboards.
LEMMA TextKeeps ==
  ASSUME ShopInv, NEW text, Start \/ Type(text)
  PROVE  ShopInv'
<1>1. UNCHANGED <<late, row, busy, checkout, spent>>
  BY DEF Start, Type, money
<1>2. PICK t \in BOOLEAN : t = TrialAvailable
  BY DEF TrialAvailable
<1>3. CustomPlan \in Plans /\ DefaultDevices \in Devices
  BY MenuAssumption, StorefrontAssumption DEF Devices
<1>4. Keyboard(screen'.kb)
  <2>1. CASE Start
    <3>1. screen'.kb = Welcome(t)
      <4>1. Show(Welcome(t))
        BY <1>2, <2>1 DEF Start
      <4> QED BY <4>1, ShowIs
    <3> QED BY <3>1, PlainKeyboards
  <2>2. CASE TypeWhileAwaiting(text)
    <3>1. screen'.kb = DeviceSelect(CustomPlan, DefaultDevices) \/ screen'.kb = Back(Buy)
      BY <2>2 DEF TypeWhileAwaiting, Show, Screen
    <3> QED BY <1>3, <3>1, PlainKeyboards, CountKeyboards
  <2>3. CASE TypeCode(text)
    <3>1. \/ screen'.kb = LinkEmail \/ screen'.kb = LinkEmailCode
          \/ screen'.kb = MainMenu(t)
      BY <1>2, <2>3 DEF TypeCode, Show, Screen
    <3> QED BY <3>1, PlainKeyboards
  <2>4. CASE TypeEmail(text)
    <3>1. \/ screen'.kb = LinkEmail \/ screen'.kb = LinkEmailCode
          \/ screen'.kb = MainMenu(t) \/ screen' = screen
      BY <1>2, <2>4 DEF TypeEmail, Show, Screen
    <3> QED BY <3>1, PlainKeyboards DEF ShopInv, Shown
  <2> QED BY <2>1, <2>2, <2>3, <2>4 DEF Type
<1>5. Paid'
  <2>1. Paid
    BY DEF ShopInv
  <2> QED BY <1>1, <2>1, PaidStays
<1> QED BY <1>1, <1>4, <1>5 DEF ShopInv, Shown

\* The date passes, a code expires, a moment passes, the bot restarts.
LEMMA TimeKeeps ==
  ASSUME ShopInv, Lapse \/ CodeExpires \/ TimePasses \/ Restart
  PROVE  ShopInv'
<1>1. screen' = screen /\ checkout' = checkout /\ spent' = spent
  BY DEF Lapse, CodeExpires, TimePasses, Restart, chat
<1>2. (late' = late \/ late' = None) /\ (busy' = busy \/ busy' = None)
  BY DEF Lapse, CodeExpires, TimePasses, Restart, chat
<1>3. row' = row \/ \E s \in {"lapsed", "ended"} : row' = [row EXCEPT !.status = s]
  BY DEF Lapse, CodeExpires, TimePasses, Restart, chat
<1>4. PaidRow(row')
  <2>1. CASE row' = row
    BY <2>1 DEF ShopInv, Paid
  <2>2. ASSUME NEW s \in {"lapsed", "ended"}, row' = [row EXCEPT !.status = s] PROVE PaidRow(row')
    <3>1. row \in RowType /\ Covered(row.devices)
      BY DEF ShopInv, Paid, PaidRow
    <3>2. row' \in RowType /\ row'.devices = row.devices
      BY <2>2, <3>1 DEF RowType, Statuses
    <3> QED BY <3>1, <3>2 DEF PaidRow
  <2> QED BY <1>3, <2>1, <2>2
<1>5. Paid'
  <2>1. PaidRow(row)'
    BY <1>1, <1>4 DEF PaidRow, Covered
  <2>2. busy' # None => PaidRow(busy)'
    BY <1>1, <1>2 DEF ShopInv, Paid, PaidRow, Covered
  <2>3. \A c \in Checkouts : PaidCheckout(checkout[c])'
    BY <1>1 DEF ShopInv, Paid, PaidCheckout, Covered
  <2> QED BY <1>1, <2>1, <2>2, <2>3 DEF ShopInv, Paid
<1> QED BY <1>1, <1>2, <1>5 DEF ShopInv, Shown

\* The invariant of the storefront is kept, ...
LEMMA ShopIsKept == ShopInv /\ [ShopNext]_(shopVars) => ShopInv'
<1> SUFFICES ASSUME ShopInv, [ShopNext]_(shopVars) PROVE ShopInv'
  OBVIOUS
<1>1. ASSUME NEW b \in screen.kb, Press(b) PROVE ShopInv'
  BY <1>1, PressKeeps
<1>2. ASSUME NEW text \in Texts, Type(text) PROVE ShopInv'
  BY <1>2, TextKeeps
<1>3. CASE Start
  BY <1>3, TextKeeps
<1>4. CASE PressLate \/ RemoveWrite
  BY <1>4, PressLateKeeps, RemoveWriteKeeps
<1>5. ASSUME NEW c \in Checkouts,
             PayCheckout(c) \/ DeliverPlan(c) \/ TopUpRead(c) \/ TopUpWrite(c)
      PROVE  ShopInv'
  BY <1>5, PayCheckoutKeeps, DeliverPlanKeeps, TopUpReadKeeps, TopUpWriteKeeps
<1>6. CASE Lapse \/ CodeExpires \/ TimePasses \/ Restart
  BY <1>6, TimeKeeps
<1>7. CASE UNCHANGED shopVars
  <2>1. UNCHANGED <<screen, late, row, busy, checkout, spent>>
    BY <1>7 DEF shopVars
  <2>2. Paid /\ Shown
    BY DEF ShopInv
  <2>3. Paid'
    BY <2>1, <2>2, PaidStays
  <2> QED BY <2>1, <2>2, <2>3 DEF ShopInv, Shown
<1> QED BY <1>1, <1>2, <1>3, <1>4, <1>5, <1>6, <1>7 DEF ShopNext

\* ... and holds of a user the bot meets for the first time in the model.
LEMMA ShopStarts == ShopInit => ShopInv
<1> SUFFICES ASSUME ShopInit PROVE ShopInv
  OBVIOUS
<1>1. /\ screen = Lost /\ late = None /\ busy = None
      /\ checkout = [c \in Checkouts |-> Unopened]
      /\ spent = (row.devices - DefaultDevices) * ExtraPrice[MonthPlan]
      /\ row \in RowType
  BY UsersAssumption DEF ShopInit, RowType
<1>2. DefaultDevices \in Nat /\ MaxDevices \in Nat /\ MonthPlan \in Plans /\ DefaultDevices <= MaxDevices
  BY MenuAssumption
<1>3. spent \in Nat /\ Covered(row.devices)
  <2>1. Rate \in Nat /\ ExtraPrice[MonthPlan] \in Nat /\ Rate <= ExtraPrice[MonthPlan]
    BY <1>2, RateIsLeast, MenuAssumption
  <2>2. PICK k \in Nat : k = row.devices - DefaultDevices
    BY <1>1, <1>2 DEF RowType, Devices
  <2>3. k * Rate <= k * ExtraPrice[MonthPlan] /\ k * ExtraPrice[MonthPlan] \in Nat /\ k * Rate \in Nat
    BY <2>1, MoreOfEach
  <2> QED BY <1>1, <2>2, <2>3 DEF Covered
<1>4. PICK u : u = Unopened
  OBVIOUS
<1>5. PaidCheckout(u)
  <2>1. u \in CheckoutType /\ u.state = "unopened" /\ u.read = None
    BY <1>2, <1>4 DEF Unopened, CheckoutType, Devices
  <2> QED BY <2>1 DEF PaidCheckout
<1>6. Paid
  BY <1>1, <1>3, <1>4, <1>5 DEF Paid, PaidRow
<1>7. Shown
  BY <1>1, PlainKeyboards DEF Shown, Lost, Screen
<1> QED BY <1>6, <1>7 DEF ShopInv

\* Whatever lookups find and whatever payments, restarts and texts come between,
\* the message of the chat and the press that waits for the bot carry only
\* callback data some handler knows, for a plan that is sold and a number of
\* devices between the least and the most (the keyboards of storefront_ui.py,
\* _render_storefront_response).
THEOREM ButtonsNameWhatIsSold == ShopSpec => []Shown
<1>1. ShopInv => Shown
  BY DEF ShopInv
<1> QED BY <1>1, ShopIsKept, ShopStarts, PTL DEF ShopSpec

\* Whatever is pressed late, removed, paid twice or notified again, by however
\* many checkouts and at whatever prices, the extra devices of the row were
\* paid for at the lowest rate at least (calculate_total_price,
\* extra_device_cost, the webhook's maximum).
THEOREM ExtraDevicesArePaidFor == ShopSpec => []DevicesArePaidFor
<1>1. ShopInv => DevicesArePaidFor
  BY RateIsLeast DEF ShopInv, Paid, PaidRow, Covered, Rate, DevicesArePaidFor
<1> QED BY <1>1, ShopIsKept, ShopStarts, PTL DEF ShopSpec
=============================================================================
