------------------------ MODULE AccessIssuanceProofs ------------------------
(***************************************************************************)
(* That no memory and no answer outruns the table: what is remembered or   *)
(* was answered as revoked is revoked there for good, for any number of    *)
(* keys, processes, requests, restarts and failures.                       *)
(*                                                                         *)
(* An answer "revoked" is given after a write that leaves a missing row    *)
(* alone, so the invariant has to say that there is a row: a revocation    *)
(* goes on only for a key that the table or the memory knew as issued, and *)
(* what the memory knows as issued has a row.                              *)
(*                                                                         *)
(* And that no request delivers, or reports as ready, what was not issued  *)
(* while it ran: the bot goes by what it looked up itself, and a command   *)
(* of the operator, a new process, has no memory to go by.                 *)
(***************************************************************************)
EXTENDS AccessIssuance, TLAPS

RequestFields == {"op", "key", "id", "pc", "out"}

Shape ==
  /\ rows \in [Keys -> States]
  /\ ledger \in [Processes -> [Keys -> States]]
  /\ DOMAIN req = Requests
  /\ \A r \in Requests : DOMAIN req[r] = RequestFields

\* What a process remembers of a key, its row bears out.
MemoryIsBacked ==
  \A p \in Processes, k \in Keys :
    /\ ledger[p][k] = "issued"  => rows[k] # "none"
    /\ ledger[p][k] = "revoked" => rows[k] = "revoked"

\* A request q that works on a key has one, a revocation finds a row, and an answer holds.
Aimed(q) ==
  /\ q.pc \in {"service", "fetch", "create", "persist", "deliver", "withdraw", "mark",
              "bury"} => q.key \in Keys
  /\ q.pc \in {"withdraw", "mark"} => rows[q.key] # "none"
  /\ q.out = "revoked" => q.pc = "done" /\ q.key \in Keys /\ rows[q.key] = "revoked"

IInv ==
  /\ Shape
  /\ MemoryIsBacked
  /\ \A r \in Requests : Aimed(req[r])

\* A row is never taken back, nor is its revocation.
Advances ==
  /\ rows' \in [Keys -> States]
  /\ \A k \in Keys : /\ rows[k] # "none" => rows'[k] # "none"
                     /\ rows[k] = "revoked" => rows'[k] = "revoked"

\* At first there is nothing.
LEMMA InitBacked == Init => IInv
<1> SUFFICES ASSUME Init PROVE IInv
  OBVIOUS
<1>1. Nothing \in [Keys -> States] /\ \A k \in Keys : Nothing[k] = "none"
  BY DEF Nothing, States
<1>2. Shape
  BY <1>1 DEF Init, Shape, NoRequest, RequestFields
<1>3. MemoryIsBacked
  BY <1>1 DEF Init, MemoryIsBacked
<1>4. \A r \in Requests : Aimed(req[r])
  BY DEF Init, Aimed, NoRequest
<1> QED BY <1>2, <1>3, <1>4 DEF IInv

\* The three ways to write the table, and to leave it.
LEMMA TableAdvances ==
  ASSUME IInv, NEW k \in Keys
  PROVE  /\ UNCHANGED rows => Advances
         /\ IssueOrGet(k) => Advances /\ rows'[k] # "none"
         /\ MarkRevoked(k) => Advances /\ (rows[k] # "none" => rows'[k] = "revoked")
<1>1. rows \in [Keys -> States]
  BY DEF IInv, Shape
<1>2. UNCHANGED rows => Advances
  BY <1>1 DEF Advances
<1>3. IssueOrGet(k) => Advances /\ rows'[k] # "none"
  BY <1>1, <1>2 DEF IssueOrGet, Advances, States, table
<1>4. MarkRevoked(k) => Advances /\ (rows[k] # "none" => rows'[k] = "revoked")
  BY <1>1, <1>2 DEF MarkRevoked, Advances, States, table
<1> QED BY <1>2, <1>3, <1>4

\* A request moves on while the table advances and the memory keeps what it knows.
LEMMA RequestKeeps ==
  ASSUME IInv, Advances, NEW r \in Requests, NEW q,
         req' = [req EXCEPT ![r] = q], DOMAIN q = RequestFields, Aimed(q)',
         ledger' \in [Processes -> [Keys -> States]], MemoryIsBacked'
  PROVE  IInv'
<1>1. Shape'
  BY DEF IInv, Shape, Advances
<1>2. ASSUME NEW s \in Requests PROVE Aimed(req[s])'
  BY DEF IInv, Shape, Aimed, Advances
<1> QED BY <1>1, <1>2 DEF IInv

\* The memory keeps being backed while the table advances.
LEMMA MemoryKeeps ==
  ASSUME IInv, Advances, UNCHANGED ledger
  PROVE  ledger' \in [Processes -> [Keys -> States]] /\ MemoryIsBacked'
BY DEF IInv, Shape, MemoryIsBacked, Advances

\* What is newly remembered is backed by the row it was read from or written to.
LEMMA RememberKeeps ==
  ASSUME IInv, Advances, NEW r \in Requests, NEW k \in Keys, NEW state \in {"issued", "revoked"},
         Remember(r, k, state),
         state = "issued" => rows'[k] # "none", state = "revoked" => rows'[k] = "revoked"
  PROVE  ledger' \in [Processes -> [Keys -> States]] /\ MemoryIsBacked'
<1>1. Host(r) \in Processes
  BY DEF Host, Processes, Requests
<1>2. ledger' = [ledger EXCEPT ![Host(r)] = [ledger[Host(r)] EXCEPT ![k] = state]]
  BY DEF Remember
<1>3. ledger' \in [Processes -> [Keys -> States]]
  BY <1>1, <1>2 DEF IInv, Shape, States
<1>4. ASSUME NEW p \in Processes, NEW l \in Keys
      PROVE  /\ ledger'[p][l] = "issued"  => rows'[l] # "none"
             /\ ledger'[p][l] = "revoked" => rows'[l] = "revoked"
  <2>1. CASE p = Host(r) /\ l = k
    BY <1>1, <1>2, <2>1 DEF IInv, Shape
  <2>2. CASE ~ (p = Host(r) /\ l = k)
    <3>1. ledger'[p][l] = ledger[p][l]
      BY <1>1, <1>2, <2>2 DEF IInv, Shape
    <3> QED BY <3>1 DEF IInv, MemoryIsBacked, Advances
  <2> QED BY <2>1, <2>2
<1> QED BY <1>3, <1>4 DEF MemoryIsBacked

\* A request at work goes on to pc.
LEMMA GoToKeeps ==
  ASSUME IInv, Advances, UNCHANGED ledger, NEW r \in Requests, NEW pc, GoTo(r, pc),
         req[r].pc # "done",
         pc \in {"service", "fetch", "create", "persist", "deliver", "withdraw", "mark", "bury"}
           => req[r].key \in Keys,
         pc \in {"withdraw", "mark"} => rows[req[r].key] # "none"
  PROVE  IInv'
<1>q. PICK q : q = [req[r] EXCEPT !.pc = pc]
  OBVIOUS
<1>1. req' = [req EXCEPT ![r] = q] /\ DOMAIN q = RequestFields
  BY <1>q DEF GoTo, IInv, Shape
<1>2. q.pc = pc /\ q.key = req[r].key /\ q.out = req[r].out
  BY <1>q DEF IInv, Shape, RequestFields
<1>3. Aimed(q)'
  BY <1>2 DEF IInv, Aimed, Advances
<1> QED BY <1>1, <1>3, MemoryKeeps, RequestKeeps

\* A request is answered, and "revoked" only for a key that is revoked in the table.
LEMMA AnswerKeeps ==
  ASSUME IInv, Advances, NEW r \in Requests, NEW out, Answer(r, out),
         ledger' \in [Processes -> [Keys -> States]], MemoryIsBacked',
         out = "revoked" => req[r].key \in Keys /\ rows'[req[r].key] = "revoked"
  PROVE  IInv'
<1>q. PICK q : q = [req[r] EXCEPT !.pc = "done", !.out = out]
  OBVIOUS
<1>1. req' = [req EXCEPT ![r] = q] /\ DOMAIN q = RequestFields
  BY <1>q DEF Answer, IInv, Shape
<1>2. q.pc = "done" /\ q.key = req[r].key /\ q.out = out
  BY <1>q DEF IInv, Shape, RequestFields
<1>3. Aimed(q)'
  BY <1>2 DEF Aimed
<1> QED BY <1>1, <1>3, RequestKeeps

\* The service replies; for support it answers or goes on to look again.
LEMMA ReplyKeeps ==
  ASSUME IInv, Advances, NEW r \in Requests, NEW out, Reply(r, out),
         ledger' \in [Processes -> [Keys -> States]], MemoryIsBacked',
         req[r].pc # "done",
         out = "revoked" => req[r].key \in Keys /\ rows'[req[r].key] = "revoked"
  PROVE  IInv'
<1>1. CASE Answer(r, out)
  BY <1>1, AnswerKeeps
<1>2. CASE Answer(r, "failed")
  BY <1>2, AnswerKeeps
<1>3. CASE GoTo(r, "after")
  <2>q. PICK q : q = [req[r] EXCEPT !.pc = "after"]
    OBVIOUS
  <2>1. req' = [req EXCEPT ![r] = q] /\ DOMAIN q = RequestFields
    BY <1>3, <2>q DEF GoTo, IInv, Shape
  <2>2. q.pc = "after" /\ q.key = req[r].key /\ q.out = req[r].out
    BY <2>q DEF IInv, Shape, RequestFields
  <2>3. Aimed(q)'
    BY <2>2 DEF IInv, Aimed
  <2> QED BY <2>1, <2>3, RequestKeeps
<1> QED BY <1>1, <1>2, <1>3 DEF Reply

\* The steps of the bot's handler around the service.
LEMMA HandlerKeeps ==
  ASSUME IInv, NEW r \in Requests,
         ReadSnapshot(r) \/ LookUpLate(r) \/ RevokeLate(r) \/ LookUp(r)
  PROVE  IInv'
<1>1. UNCHANGED ledger /\ req[r].pc # "done"
  BY DEF ReadSnapshot, LookUpLate, RevokeLate, LookUp, At, memory
<1>2. ASSUME UNCHANGED rows PROVE Advances
  BY <1>2 DEF IInv, Shape, Advances
<1>3. CASE ReadSnapshot(r)
  <2>1. GoTo(r, "lookup") \/ GoTo(r, "late") \/ Answer(r, "cooldown") \/ Answer(r, "not_eligible")
    BY <1>3 DEF ReadSnapshot
  <2>2. Advances
    BY <1>2, <1>3 DEF ReadSnapshot, table
  <2> QED BY <1>1, <2>1, <2>2, GoToKeeps, AnswerKeeps, MemoryKeeps
<1>4. ASSUME NEW pc \in {"bury", "service"}, NEW q,
             UNCHANGED rows, Current \in Keys, DOMAIN q = RequestFields,
             q.pc = pc, q.key = Current, q.out = req[r].out,
             req' = [req EXCEPT ![r] = q]
      PROVE  IInv'
  <2>1. Advances
    BY <1>2, <1>4
  <2>2. Aimed(q)'
    BY <1>1, <1>4 DEF IInv, Aimed
  <2> QED BY <1>1, <1>4, <2>1, <2>2, MemoryKeeps, RequestKeeps
<1>5. CurrentIsIssued => Current \in Keys
  BY DEF CurrentIsIssued, Issued
<1>6. CASE LookUpLate(r)
  <2>1. UNCHANGED rows
    BY <1>6 DEF LookUpLate, table
  <2>2. CASE CurrentIsIssued
    <3>q. PICK q : q = [req[r] EXCEPT !.pc = "bury", !.key = Current]
      OBVIOUS
    <3>1. req' = [req EXCEPT ![r] = q]
      BY <1>6, <2>2, <3>q DEF LookUpLate
    <3>2. DOMAIN q = RequestFields /\ q.pc = "bury" /\ q.key = Current /\ q.out = req[r].out
      BY <3>q DEF IInv, Shape, RequestFields
    <3> QED BY <1>4, <1>5, <2>1, <2>2, <3>1, <3>2
  <2>3. CASE ~ CurrentIsIssued
    BY <1>1, <1>2, <1>6, <2>1, <2>3, AnswerKeeps, MemoryKeeps DEF LookUpLate
  <2> QED BY <2>2, <2>3
<1>7. CASE RevokeLate(r)
  <2>1. req[r].key \in Keys /\ MarkRevoked(req[r].key) /\ Answer(r, "not_eligible")
    BY <1>7 DEF RevokeLate, At, IInv, Aimed
  <2> QED BY <1>1, <2>1, TableAdvances, AnswerKeeps, MemoryKeeps
<1>8. CASE LookUp(r)
  <2>1. UNCHANGED rows
    BY <1>8 DEF LookUp, table
  <2>2. CASE CurrentIsIssued
    <3>q. PICK q : q = [req[r] EXCEPT !.pc = "service", !.op = "resend", !.key = Current]
      OBVIOUS
    <3>1. req' = [req EXCEPT ![r] = q]
      BY <1>8, <2>2, <3>q DEF LookUp
    <3>2. DOMAIN q = RequestFields /\ q.pc = "service" /\ q.key = Current /\ q.out = req[r].out
      BY <3>q DEF IInv, Shape, RequestFields
    <3> QED BY <1>4, <1>5, <2>1, <2>2, <3>1, <3>2
  <2>3. CASE ~ CurrentIsIssued
    BY <1>1, <1>2, <1>8, <2>1, <2>3, AnswerKeeps, MemoryKeeps DEF LookUp
  <2> QED BY <2>2, <2>3
<1> QED BY <1>3, <1>6, <1>7, <1>8

\* The parts of the service's operations that read the memory or call the provider.
LEMMA RecallKeeps ==
  ASSUME IInv, NEW r \in Requests, Recall(r) \/ CallProvider(r) PROVE IInv'
<1>1. UNCHANGED <<rows, ledger>>
  BY DEF Recall, CallProvider, table, memory
<1>2. Advances /\ ledger' \in [Processes -> [Keys -> States]] /\ MemoryIsBacked'
  <2>1. Advances
    BY <1>1 DEF IInv, Shape, Advances
  <2> QED BY <1>1, <2>1, MemoryKeeps
<1>3. req[r].pc # "done" /\ req[r].key \in Keys /\ Host(r) \in Processes
  BY DEF Recall, CallProvider, At, IInv, Aimed, Host, Processes, Requests
<1>4. CASE Recall(r)
  <2> DEFINE known == ledger[Host(r)][req[r].key]
  <2>1. \/ Reply(r, "error") \/ Reply(r, "already") \/ Reply(r, "ready")
        \/ GoTo(r, "deliver") \/ GoTo(r, "fetch")
        \/ Reply(r, "revoked") /\ known = "revoked"
        \/ GoTo(r, "withdraw") /\ known = "issued"
    BY <1>4 DEF Recall, Deliverable
  <2>2. /\ known = "revoked" => rows'[req[r].key] = "revoked"
        /\ known = "issued" => rows[req[r].key] # "none"
    BY <1>1, <1>3 DEF IInv, MemoryIsBacked
  <2> QED BY <1>1, <1>2, <1>3, <2>1, <2>2, GoToKeeps, ReplyKeeps
<1>5. CASE CallProvider(r)
  <2>1. GoTo(r, "persist") \/ Reply(r, "ready") \/ (GoTo(r, "mark") /\ req[r].pc = "withdraw")
    BY <1>5 DEF CallProvider, At
  <2>2. req[r].pc = "withdraw" => rows[req[r].key] # "none"
    BY DEF IInv, Aimed
  <2> QED BY <1>1, <1>2, <1>3, <2>1, <2>2, GoToKeeps, ReplyKeeps
<1> QED BY <1>4, <1>5

\* The parts that read the row: what they remember of it is what it says.
LEMMA FetchKeeps ==
  ASSUME IInv, NEW r \in Requests, FetchToIssue(r) \/ FetchToResend(r) \/ FetchToRevoke(r)
  PROVE  IInv'
<1>1. UNCHANGED rows
  BY DEF FetchToIssue, FetchToResend, FetchToRevoke, table
<1>2. Advances
  BY <1>1 DEF IInv, Shape, Advances
<1>3. req[r].pc # "done" /\ req[r].key \in Keys
  BY DEF FetchToIssue, FetchToResend, FetchToRevoke, At, IInv, Aimed
<1>4. \/ UNCHANGED memory /\ \/ Reply(r, "error") \/ Reply(r, "unsafe") \/ Reply(r, "not_entitled")
                             \/ Reply(r, "ready") \/ GoTo(r, "create") \/ GoTo(r, "deliver")
                             \/ GoTo(r, "withdraw") /\ rows[req[r].key] = "issued"
      \/ /\ Remember(r, req[r].key, "issued") /\ Reply(r, "already")
         /\ rows[req[r].key] = "issued"
      \/ /\ Remember(r, req[r].key, "revoked") /\ Reply(r, "revoked")
         /\ rows[req[r].key] = "revoked"
  <2>1. rows[req[r].key] \in States
    BY <1>3 DEF IInv, Shape
  <2> QED BY <2>1 DEF FetchToIssue, FetchToResend, FetchToRevoke, Fetched, Deliverable, States
<1>5. CASE /\ UNCHANGED memory
           /\ \/ Reply(r, "error") \/ Reply(r, "unsafe") \/ Reply(r, "not_entitled")
              \/ Reply(r, "ready") \/ GoTo(r, "create") \/ GoTo(r, "deliver")
              \/ GoTo(r, "withdraw") /\ rows[req[r].key] = "issued"
  <2>1. UNCHANGED ledger
    BY <1>5 DEF memory
  <2> QED BY <1>2, <1>3, <1>5, <2>1, MemoryKeeps, GoToKeeps, ReplyKeeps
<1>6. ASSUME NEW state \in {"issued", "revoked"}, NEW out \in {"already", "revoked"},
             Remember(r, req[r].key, state), Reply(r, out), rows[req[r].key] = state,
             out = "revoked" => state = "revoked"
      PROVE  IInv'
  <2>1. ledger' \in [Processes -> [Keys -> States]] /\ MemoryIsBacked'
    BY <1>1, <1>2, <1>3, <1>6, RememberKeeps
  <2> QED BY <1>1, <1>2, <1>3, <1>6, <2>1, ReplyKeeps
<1> QED BY <1>4, <1>5, <1>6

\* The parts that write the row.
LEMMA PersistKeeps ==
  ASSUME IInv, NEW r \in Requests, PersistIssue(r) \/ PersistRevoke(r) PROVE IInv'
<1>1. req[r].pc # "done" /\ req[r].key \in Keys
  BY DEF PersistIssue, PersistRevoke, At, IInv, Aimed
<1>2. CASE PersistIssue(r)
  <2>1. Advances /\ rows'[req[r].key] # "none"
    BY <1>1, <1>2, TableAdvances DEF PersistIssue
  <2>2. ledger' \in [Processes -> [Keys -> States]] /\ MemoryIsBacked'
    BY <1>1, <1>2, <2>1, RememberKeeps DEF PersistIssue
  <2> QED BY <1>1, <1>2, <2>1, <2>2, ReplyKeeps DEF PersistIssue
<1>3. CASE PersistRevoke(r)
  <2>1. rows[req[r].key] # "none"
    BY <1>3 DEF PersistRevoke, At, IInv, Aimed
  <2>2. Advances /\ rows'[req[r].key] = "revoked"
    BY <1>1, <1>3, <2>1, TableAdvances DEF PersistRevoke
  <2>3. ledger' \in [Processes -> [Keys -> States]] /\ MemoryIsBacked'
    BY <1>1, <1>3, <2>2, RememberKeeps DEF PersistRevoke
  <2> QED BY <1>1, <1>3, <2>2, <2>3, ReplyKeeps DEF PersistRevoke
<1> QED BY <1>2, <1>3

\* A failed call never ends a request with "revoked".
LEMMA FailureKeeps ==
  ASSUME IInv, NEW r \in Requests, CallFails(r) PROVE IInv'
<1>1. UNCHANGED <<rows, ledger>> /\ req[r].pc # "done"
  BY DEF CallFails, table, memory
<1>2. Advances
  BY <1>1 DEF IInv, Shape, Advances
<1>3. PICK out : out = FailedWith(r)
  OBVIOUS
<1>4. out # "revoked"
  BY <1>3 DEF FailedWith
<1> QED BY <1>1, <1>2, <1>3, <1>4, MemoryKeeps, ReplyKeeps DEF CallFails

\* Support looks before and after the service issues under its key.
LEMMA SupportKeeps ==
  ASSUME IInv, NEW r \in Requests, ReadForSupport(r) \/ LookBefore(r) \/ LookAfter(r)
  PROVE  IInv'
<1>1. UNCHANGED <<rows, ledger>> /\ req[r].pc # "done"
  BY DEF ReadForSupport, LookBefore, LookAfter, At, table, memory
<1>2. Advances
  BY <1>1 DEF IInv, Shape, Advances
<1>3. CASE \E out \in {"inactive", "access_ready", "failed"} : Answer(r, out)
  BY <1>1, <1>2, <1>3, MemoryKeeps, AnswerKeeps
<1>4. CASE GoTo(r, "before")
  BY <1>1, <1>2, <1>4, GoToKeeps
<1>5. CASE req' = [req EXCEPT ![r].pc = "service", ![r].op = "issue", ![r].key = EnsureKey,
                              ![r].id = EnsureKey]
  <2>q. PICK q : q = [req[r] EXCEPT !.pc = "service", !.op = "issue", !.key = EnsureKey,
                                    !.id = EnsureKey]
    OBVIOUS
  <2>1. req' = [req EXCEPT ![r] = q] /\ DOMAIN q = RequestFields
    BY <1>5, <2>q DEF IInv, Shape
  <2>2. q.pc = "service" /\ q.key = EnsureKey /\ q.out = req[r].out
    BY <2>q DEF IInv, Shape, RequestFields
  <2>3. Aimed(q)'
    BY <1>1, <2>2, AccessAssumption DEF IInv, Aimed
  <2> QED BY <1>1, <1>2, <2>1, <2>3, MemoryKeeps, RequestKeeps
<1> QED BY <1>3, <1>4, <1>5 DEF ReadForSupport, LookBefore, LookAfter

\* The memory of a process that starts, at a restart or for a command, is empty.
LEMMA EmptyMemoryKeeps ==
  ASSUME IInv, Advances, NEW p \in Processes, ledger' = [ledger EXCEPT ![p] = Nothing]
  PROVE  ledger' \in [Processes -> [Keys -> States]] /\ MemoryIsBacked'
<1>1. Nothing \in [Keys -> States] /\ \A k \in Keys : Nothing[k] = "none"
  BY DEF Nothing, States
<1>2. ledger' \in [Processes -> [Keys -> States]]
  BY <1>1 DEF IInv, Shape
<1>3. ASSUME NEW o \in Processes, NEW k \in Keys
      PROVE  /\ ledger'[o][k] = "issued"  => rows'[k] # "none"
             /\ ledger'[o][k] = "revoked" => rows'[k] = "revoked"
  <2>1. CASE o = p
    BY <1>1, <2>1 DEF IInv, Shape
  <2>2. CASE o # p
    BY <2>2 DEF IInv, Shape, MemoryIsBacked, Advances
  <2> QED BY <2>1, <2>2
<1> QED BY <1>2, <1>3 DEF MemoryIsBacked

\* A request that is asked anew has not been answered "revoked".
LEMMA AskKeeps ==
  ASSUME IInv,
         \/ \E r \in Chats, u \in Updates : AskResend(r, u)
         \/ \E r \in Supports : AskEnsure(r)
         \/ \E r \in Operators, op \in {"issue", "resend", "revoke"}, k \in Keys :
              AskOperator(r, op, k)
  PROVE  IInv'
<1>1. ASSUME UNCHANGED rows PROVE Advances
  BY <1>1 DEF IInv, Shape, Advances
<1>2. ASSUME NEW r \in Requests, NEW q, Ask(r, q), DOMAIN q = RequestFields, q.out # "revoked",
             q.pc \in {"snapshot", "done", "support", "service"},
             q.pc = "service" => q.key \in Keys,
             ledger' \in [Processes -> [Keys -> States]], MemoryIsBacked'
      PROVE  IInv'
  <2>1. UNCHANGED rows /\ req' = [req EXCEPT ![r] = q]
    BY <1>2 DEF Ask, table
  <2>2. Aimed(q)'
    BY <1>2 DEF Aimed
  <2> QED BY <1>1, <1>2, <2>1, <2>2, RequestKeeps
<1>3. ASSUME NEW r \in Chats, NEW u \in Updates, AskResend(r, u) PROVE IInv'
  <2>1. PICK q : /\ Ask(r, q)
                 /\ \/ q = [NoRequest EXCEPT !.id = u, !.pc = "snapshot"]
                    \/ q = [NoRequest EXCEPT !.id = u, !.pc = "done", !.out = "limited"]
    BY <1>3 DEF AskResend, NoRequest
  <2>2. DOMAIN q = RequestFields /\ q.out # "revoked" /\ q.pc # "service"
        /\ q.pc \in {"snapshot", "done", "support", "service"}
    BY <2>1 DEF NoRequest, RequestFields
  <2>3. UNCHANGED rows /\ UNCHANGED ledger
    BY <1>3, <2>1 DEF AskResend, Ask, memory, table
  <2>4. ledger' \in [Processes -> [Keys -> States]] /\ MemoryIsBacked'
    BY <1>1, <2>3, MemoryKeeps
  <2>5. r \in Requests
    BY DEF Requests
  <2> QED BY <1>2, <2>1, <2>2, <2>4, <2>5
<1>4. ASSUME NEW r \in Supports, AskEnsure(r) PROVE IInv'
  <2>1. PICK q : Ask(r, q) /\ q = [NoRequest EXCEPT !.pc = "support"]
    BY <1>4 DEF AskEnsure
  <2>2. DOMAIN q = RequestFields /\ q.out # "revoked" /\ q.pc # "service"
        /\ q.pc \in {"snapshot", "done", "support", "service"}
    BY <2>1 DEF NoRequest, RequestFields
  <2>3. UNCHANGED rows /\ UNCHANGED ledger
    BY <1>4 DEF AskEnsure, Ask, memory, table
  <2>4. ledger' \in [Processes -> [Keys -> States]] /\ MemoryIsBacked'
    BY <1>1, <2>3, MemoryKeeps
  <2>5. r \in Requests
    BY DEF Requests
  <2> QED BY <1>2, <2>1, <2>2, <2>4, <2>5
<1>5. ASSUME NEW r \in Operators, NEW op \in {"issue", "resend", "revoke"}, NEW k \in Keys,
             AskOperator(r, op, k)
      PROVE  IInv'
  <2>1. PICK q : Ask(r, q) /\ q = [op |-> op, key |-> k, id |-> k, pc |-> "service", out |-> "none"]
    BY <1>5 DEF AskOperator
  <2>2. DOMAIN q = RequestFields /\ q.out # "revoked" /\ q.key \in Keys
        /\ q.pc \in {"snapshot", "done", "support", "service"}
    BY <2>1 DEF RequestFields
  <2>3. UNCHANGED rows /\ ledger' = [ledger EXCEPT ![r] = Nothing]
    BY <1>5 DEF AskOperator, Ask, table
  <2>4. r \in Requests /\ r \in Processes
    BY DEF Requests, Processes
  <2>5. ledger' \in [Processes -> [Keys -> States]] /\ MemoryIsBacked'
    BY <1>1, <2>3, <2>4, EmptyMemoryKeeps
  <2> QED BY <1>2, <2>1, <2>2, <2>4, <2>5
<1> QED BY <1>3, <1>4, <1>5

\* A restart forgets requests and memories, never a row.
LEMMA RestartKeeps ==
  ASSUME IInv, NEW p \in {Bot, Admin}, Restart(p) PROVE IInv'
<1>1. Advances
  BY DEF Restart, table, IInv, Shape, Advances
<1>2. ledger' \in [Processes -> [Keys -> States]] /\ MemoryIsBacked'
  BY <1>1, EmptyMemoryKeeps DEF Restart, Processes
<1>3. DOMAIN req' = Requests
      /\ \A r \in Requests : req'[r] = NoRequest \/ req'[r] = req[r]
  BY DEF Restart
<1>4. Shape'
  BY <1>1, <1>2, <1>3 DEF IInv, Shape, Advances, NoRequest, RequestFields
<1>5. Aimed(NoRequest)'
  BY DEF Aimed, NoRequest
<1>6. ASSUME NEW r \in Requests PROVE Aimed(req[r])'
  BY <1>1, <1>3, <1>5 DEF IInv, Aimed, Advances
<1> QED BY <1>2, <1>4, <1>6 DEF IInv

\* An eviction forgets what a process knew; the rows and the requests stay.
LEMMA EvictionKeeps ==
  ASSUME IInv, NEW p \in {Bot, Admin}, Evict(p) PROVE IInv'
<1>1. UNCHANGED rows /\ UNCHANGED req /\ p \in Processes
  BY DEF Evict, table, Processes
<1>2. Advances
  BY <1>1 DEF IInv, Shape, Advances
<1>3. ledger' \in [Processes -> [Keys -> States]] /\ MemoryIsBacked'
  <2>1. CASE UNCHANGED ledger
    BY <1>2, <2>1, MemoryKeeps
  <2>2. CASE \E k \in Remembered(p) : ledger' = [ledger EXCEPT ![p][k] = "none"]
    <3>1. PICK k \in Keys : ledger' = [ledger EXCEPT ![p] = [ledger[p] EXCEPT ![k] = "none"]]
      BY <2>2 DEF Remembered
    <3>2. ledger' \in [Processes -> [Keys -> States]]
      BY <1>1, <3>1 DEF IInv, Shape, States
    <3>3. ASSUME NEW o \in Processes, NEW l \in Keys
          PROVE  ledger'[o][l] = ledger[o][l] \/ ledger'[o][l] = "none"
      BY <1>1, <3>1 DEF IInv, Shape
    <3> QED BY <1>1, <3>2, <3>3 DEF IInv, MemoryIsBacked
  <2> QED BY <2>1, <2>2 DEF Evict
<1>4. Shape'
  BY <1>1, <1>2, <1>3 DEF IInv, Shape, Advances
<1>5. ASSUME NEW r \in Requests PROVE Aimed(req[r])'
  BY <1>1, <1>2 DEF IInv, Aimed, Advances
<1> QED BY <1>3, <1>4, <1>5 DEF IInv

\* The job revokes what is issued; everything else leaves rows, memory and requests alone.
LEMMA SurroundingsKeep ==
  ASSUME IInv, Job \/ Pay \/ SubscriptionChanges \/ WindowEnds \/ UNCHANGED vars
  PROVE  IInv'
<1>1. UNCHANGED <<ledger, req>>
  BY DEF Job, Pay, SubscriptionChanges, WindowEnds, memory, vars
<1>2. \/ UNCHANGED rows
      \/ rows' = [k \in Keys |-> IF k \in Issued THEN "revoked" ELSE rows[k]]
  BY DEF Job, StartJob, Reconcile, EndJob, Pay, SubscriptionChanges, WindowEnds, table, vars
<1>3. Advances
  BY <1>2 DEF IInv, Shape, Advances, Issued, States
<1>4. Shape'
  BY <1>1, <1>3, MemoryKeeps DEF IInv, Shape, Advances
<1>5. ASSUME NEW r \in Requests PROVE Aimed(req[r])'
  BY <1>1, <1>3 DEF IInv, Aimed, Advances
<1> QED BY <1>1, <1>3, <1>4, <1>5, MemoryKeeps DEF IInv

\* Every step keeps the memories backed by the table.
LEMMA BackingIsKept == IInv /\ [Next]_vars => IInv'
<1> SUFFICES ASSUME IInv, [Next]_vars PROVE IInv'
  OBVIOUS
<1>1. ASSUME NEW r \in Requests, Step(r) PROVE IInv'
  BY <1>1, HandlerKeeps, RecallKeeps, FetchKeeps, PersistKeeps, FailureKeeps, SupportKeeps
     DEF Step
<1>2. ASSUME NEW p \in {Bot, Admin}, Restart(p) PROVE IInv'
  BY <1>2, RestartKeeps
<1>3. ASSUME NEW p \in {Bot, Admin}, Evict(p) PROVE IInv'
  BY <1>3, EvictionKeeps
<1> QED BY <1>1, <1>2, <1>3, AskKeeps, SurroundingsKeep DEF Next, Act

\* Nothing a process remembers as revoked and nothing it answered "revoked" for is
\* anything else in the table, ever: a restart, another process's issue and the
\* reconciliation included (service.py, _sync_revoked_memory and issue_or_get).
THEOREM RevokedStaysRevoked == Spec => []RevokedIsDurable
<1>1. IInv => RevokedIsDurable
  BY DEF IInv, MemoryIsBacked, Aimed, RevokedIsDurable
<1> QED BY <1>1, InitBacked, BackingIsKept, PTL DEF Spec

-----------------------------------------------------------------------------
(* What is delivered, and what support is told is ready, was issued        *)

\* The stages of a request q of r: the bot's handler and then its resend, support's lookups
\* around its issue, an operator's command.
Staged(r, q) ==
  \/ q.pc = "done"
  \/ r \in Chats /\ q.op = "none" /\ q.pc \in {"snapshot", "late", "bury", "lookup"}
  \/ r \in Chats /\ q.op = "resend" /\ q.pc \in {"service", "fetch", "deliver"}
  \/ r \in Supports /\ q.op = "none" /\ q.pc \in {"support", "before"}
  \/ r \in Supports /\ q.op = "issue" /\ q.pc \in {"service", "fetch", "create", "persist", "after"}
  \/ /\ r \in Operators /\ q.op \in {"issue", "resend", "revoke"}
     /\ q.pc \in {"service", "fetch", "create", "persist", "deliver", "withdraw", "mark"}

\* What a request q of r claims, or is about to deliver, is among the keys seen.
Borne(r, q, seen) ==
  /\ q.op = "resend" /\ q.pc \in {"service", "fetch"} /\ r \in Chats => q.key \in seen
  /\ q.op = "resend" /\ q.pc = "deliver" => q.key \in seen
  /\ q.out = "ready" => q.pc = "done" /\ q.key \in seen
  /\ q.out = "access_ready" => q.pc = "done" /\ seen # {}

\* An operator's command starts without a memory.
Fresh(r) == r \in Operators /\ req[r].pc = "service" => ledger[r] = Nothing

Witnessed == \A r \in Requests : Staged(r, req[r]) /\ Borne(r, req[r], during[r]) /\ Fresh(r)

\* What is known of a step of the requests: those that stay as they are see more.
LEMMA StayKeeps ==
  ASSUME Witness, NEW r \in Requests, Staged(r, req[r]), Borne(r, req[r], during[r]), Fresh(r),
         req'[r] = req[r], r \in Operators => ledger'[r] = ledger[r]
  PROVE  Staged(r, req'[r]) /\ Borne(r, req'[r], during'[r]) /\ Fresh(r)'
<1>1. req[r].pc = "done" /\ req[r].out \in {"ready", "access_ready"} => during'[r] = during[r]
  BY DEF Witness
<1>2. req[r].pc # "done" => during'[r] = during[r] \cup Issued'
  BY DEF Witness
<1>3. Borne(r, req'[r], during'[r])
  BY <1>1, <1>2 DEF Borne
<1> QED BY <1>3 DEF Fresh

\* A request that was at work goes on to q, with what was issued until now to bear it out.
LEMMA MoveKeeps ==
  ASSUME IInv, Witnessed, Witness, NEW r \in Requests, NEW q, req' = [req EXCEPT ![r] = q],
         req[r].pc # "done", r \in Operators => q.pc # "service",
         \A p \in Processes \ {Host(r)} : ledger'[p] = ledger[p],
         Staged(r, q), Borne(r, q, during[r] \cup Issued')
  PROVE  Witnessed'
<1>1. req'[r] = q /\ \A s \in Requests : s # r => req'[s] = req[s]
  BY DEF IInv, Shape
<1>2. Staged(r, req'[r]) /\ Borne(r, req'[r], during'[r]) /\ Fresh(r)'
  <2>1. \/ q.pc = "done" /\ q.out \notin {"ready", "access_ready"}
        \/ during'[r] = during[r] \cup Issued'
    BY <1>1 DEF Witness
  <2> QED BY <1>1, <2>1 DEF Borne, Fresh
<1>3. ASSUME NEW s \in Requests, s # r
      PROVE  Staged(s, req'[s]) /\ Borne(s, req'[s], during'[s]) /\ Fresh(s)'
  <2>1. s \in Operators => s \in Processes \ {Host(r)}
    BY <1>3, AccessAssumption DEF Processes, Host, Requests
  <2> QED BY <1>1, <1>3, <2>1, StayKeeps DEF Witnessed
<1> QED BY <1>2, <1>3 DEF Witnessed

\* To another stage of its work.
LEMMA GoToIsBorne ==
  ASSUME IInv, Witnessed, Witness, NEW r \in Requests, NEW pc, GoTo(r, pc),
         req[r].pc # "done", pc \notin {"done", "service"},
         \A p \in Processes \ {Host(r)} : ledger'[p] = ledger[p],
         Staged(r, [req[r] EXCEPT !.pc = pc]),
         pc = "deliver" => req[r].key \in during[r] \cup Issued',
         pc = "fetch" => req[r].pc = "service"
  PROVE  Witnessed'
<1>q. PICK q : q = [req[r] EXCEPT !.pc = pc]
  OBVIOUS
<1>1. req' = [req EXCEPT ![r] = q]
  BY <1>q DEF GoTo
<1>2. q.pc = pc /\ q.op = req[r].op /\ q.key = req[r].key /\ q.out = req[r].out
  BY <1>q DEF IInv, Shape, RequestFields
<1>3. Borne(r, req[r], during[r])
  BY DEF Witnessed
<1>4. Borne(r, q, during[r] \cup Issued')
  BY <1>2, <1>3 DEF Borne
<1> QED BY <1>q, <1>1, <1>2, <1>4, MoveKeeps

\* To an answer that claims what was seen.
LEMMA AnswerIsBorne ==
  ASSUME IInv, Witnessed, Witness, NEW r \in Requests, NEW out, Answer(r, out),
         req[r].pc # "done",
         \A p \in Processes \ {Host(r)} : ledger'[p] = ledger[p],
         out = "ready" => req[r].key \in during[r] \cup Issued',
         out = "access_ready" => Issued' # {}
  PROVE  Witnessed'
<1>q. PICK q : q = [req[r] EXCEPT !.pc = "done", !.out = out]
  OBVIOUS
<1>1. req' = [req EXCEPT ![r] = q]
  BY <1>q DEF Answer
<1>2. q.pc = "done" /\ q.key = req[r].key /\ q.out = out
  BY <1>q DEF IInv, Shape, RequestFields
<1>3. Borne(r, q, during[r] \cup Issued') /\ Staged(r, q)
  BY <1>2 DEF Borne, Staged
<1> QED BY <1>1, <1>2, <1>3, MoveKeeps

\* To the service's reply.
LEMMA ReplyIsBorne ==
  ASSUME IInv, Witnessed, Witness, NEW r \in Requests, NEW out, Reply(r, out),
         req[r].pc # "done",
         \A p \in Processes \ {Host(r)} : ledger'[p] = ledger[p],
         out = "ready" => req[r].key \in during[r] \cup Issued',
         out # "access_ready",
         out \in {"issued", "already"} => req[r].op = "issue"
  PROVE  Witnessed'
<1>1. CASE Answer(r, out)
  BY <1>1, AnswerIsBorne
<1>2. CASE Answer(r, "failed")
  BY <1>2, AnswerIsBorne
<1>3. CASE GoTo(r, "after") /\ r \in Supports /\ req[r].op = "issue"
  <2>1. Staged(r, [req[r] EXCEPT !.pc = "after"])
    BY <1>3 DEF IInv, Shape, RequestFields, Staged
  <2> QED BY <1>3, <2>1, GoToIsBorne
<1> QED BY <1>1, <1>2, <1>3 DEF Reply

\* A step remembers on its own process only.
LEMMA OthersRemember ==
  ASSUME IInv, NEW r \in Requests,
         UNCHANGED ledger \/ (\E k \in Keys, state \in States : Remember(r, k, state))
  PROVE  \A p \in Processes \ {Host(r)} : ledger'[p] = ledger[p]
BY DEF IInv, Shape, Remember

\* The bot's handler: what it hands to the service is issued when it looks.
LEMMA HandlerIsBorne ==
  ASSUME IInv, Witnessed, Witness, NEW r \in Requests,
         ReadSnapshot(r) \/ LookUpLate(r) \/ RevokeLate(r) \/ LookUp(r)
  PROVE  Witnessed'
<1>1. /\ UNCHANGED ledger /\ req[r].op = "none"
      /\ req[r].pc \in {"snapshot", "late", "bury", "lookup"}
  BY DEF ReadSnapshot, LookUpLate, RevokeLate, LookUp, At, memory
<1>2. \A p \in Processes \ {Host(r)} : ledger'[p] = ledger[p]
  BY <1>1
<1>3. r \in Chats /\ r \notin Operators
  BY <1>1, AccessAssumption DEF Witnessed, Staged
<1>4. CASE \E out \in {"cooldown", "not_eligible", "not_ready"} : Answer(r, out)
  BY <1>1, <1>2, <1>4, AnswerIsBorne
<1>5. CASE \E pc \in {"lookup", "late"} : GoTo(r, pc)
  <2>1. PICK pc \in {"lookup", "late"} : GoTo(r, pc)
    BY <1>5
  <2>2. Staged(r, [req[r] EXCEPT !.pc = pc])
    BY <1>1, <1>3, <2>1 DEF IInv, Shape, RequestFields, Staged
  <2> QED BY <1>1, <1>2, <2>1, <2>2, GoToIsBorne
<1>6. CASE LookUpLate(r) /\ CurrentIsIssued
  <2>q. PICK q : q = [req[r] EXCEPT !.pc = "bury", !.key = Current]
    OBVIOUS
  <2>1. req' = [req EXCEPT ![r] = q]
    BY <1>6, <2>q DEF LookUpLate
  <2>2. q.pc = "bury" /\ q.op = "none" /\ q.out = req[r].out
    BY <1>1, <2>q DEF IInv, Shape, RequestFields
  <2>3. Staged(r, q)
    BY <1>3, <2>2 DEF Staged
  <2>4. Borne(r, q, during[r] \cup Issued')
    BY <1>1, <2>2 DEF Witnessed, Borne
  <2> QED BY <1>1, <1>2, <2>1, <2>2, <2>3, <2>4, MoveKeeps
<1>7. CASE LookUp(r) /\ CurrentIsIssued
  <2>q. PICK q : q = [req[r] EXCEPT !.pc = "service", !.op = "resend", !.key = Current]
    OBVIOUS
  <2>1. req' = [req EXCEPT ![r] = q] /\ UNCHANGED rows
    BY <1>7, <2>q DEF LookUp, table
  <2>2. q.pc = "service" /\ q.op = "resend" /\ q.key = Current /\ q.out = req[r].out
    BY <2>q DEF IInv, Shape, RequestFields
  <2>3. Staged(r, q)
    BY <1>3, <2>2 DEF Staged
  <2>4. q.key \in Issued'
    BY <1>7, <2>1, <2>2 DEF CurrentIsIssued, Issued
  <2>5. Borne(r, q, during[r] \cup Issued')
    BY <1>1, <2>2, <2>4 DEF Witnessed, Borne
  <2> QED BY <1>1, <1>2, <1>3, <2>1, <2>2, <2>3, <2>5, MoveKeeps
<1> QED
  BY <1>4, <1>5, <1>6, <1>7 DEF ReadSnapshot, LookUpLate, RevokeLate, LookUp

\* The service: it delivers what the bot has looked up, or what it finds in the table itself.
\* An operator's command has no memory to deliver from.
LEMMA ServiceIsBorne ==
  ASSUME IInv, Witnessed, Witness, NEW r \in Requests,
         Recall(r) \/ FetchToResend(r) \/ CallProvider(r)
  PROVE  Witnessed'
<1>1. UNCHANGED rows /\ req[r].pc # "done" /\ req[r].key \in Keys /\ r \in Requests
  BY DEF Recall, FetchToResend, CallProvider, At, table, IInv, Aimed
<1>2. \A p \in Processes \ {Host(r)} : ledger'[p] = ledger[p]
  <2>1. rows[req[r].key] \in States
    BY <1>1 DEF IInv, Shape
  <2>2. UNCHANGED ledger \/ Remember(r, req[r].key, "revoked")
    BY <2>1 DEF Recall, FetchToResend, Fetched, CallProvider, memory, States
  <2> QED BY <1>1, <2>2, OthersRemember DEF States
<1>3. Staged(r, req[r]) /\ Borne(r, req[r], during[r]) /\ Fresh(r)
  BY DEF Witnessed
<1>4. ASSUME NEW out, Reply(r, out), out \notin {"ready", "access_ready"},
             out \in {"issued", "already"} => req[r].op = "issue"
      PROVE  Witnessed'
  BY <1>1, <1>2, <1>4, ReplyIsBorne
<1>5. ASSUME Deliverable(r), req[r].key \in during[r] \cup Issued', req[r].op = "resend",
             req[r].pc \in {"service", "fetch"}
      PROVE  Witnessed'
  <2>1. CASE Reply(r, "ready")
    BY <1>1, <1>2, <1>5, <2>1, ReplyIsBorne
  <2>2. CASE GoTo(r, "deliver")
    <3>1. Staged(r, [req[r] EXCEPT !.pc = "deliver"])
      BY <1>3, <1>5 DEF IInv, Shape, RequestFields, Staged
    <3> QED BY <1>1, <1>2, <1>5, <2>2, <3>1, GoToIsBorne
  <2> QED BY <1>5, <2>1, <2>2 DEF Deliverable
<1>6. CASE Recall(r)
  <2> DEFINE known == ledger[Host(r)][req[r].key]
  <2>1. \/ Reply(r, "error")
        \/ Reply(r, "already") /\ req[r].op = "issue"
        \/ Reply(r, "revoked")
        \/ Deliverable(r) /\ req[r].op = "resend" /\ known = "issued"
        \/ GoTo(r, "withdraw") /\ req[r].op = "revoke"
        \/ GoTo(r, "fetch")
    BY <1>6 DEF Recall
  <2>2. CASE Deliverable(r) /\ req[r].op = "resend" /\ known = "issued"
    <3>1. r \notin Operators
      <4>1. r \in Operators => Host(r) = r /\ ledger[r] = Nothing
        BY <1>3, <1>6, AccessAssumption DEF Host, Fresh, Recall
      <4> QED BY <1>1, <2>2, <4>1 DEF Nothing
    <3>2. r \in Chats
      BY <1>3, <1>6, <2>2, <3>1 DEF Staged, Recall
    <3>3. req[r].key \in during[r] /\ req[r].pc \in {"service", "fetch"}
      BY <1>3, <1>6, <2>2, <3>2 DEF Borne, Recall
    <3> QED BY <1>5, <2>2, <3>3
  <2>3. CASE GoTo(r, "withdraw") /\ req[r].op = "revoke"
    <3>1. Staged(r, [req[r] EXCEPT !.pc = "withdraw"])
      BY <1>1, <1>3, <2>3 DEF IInv, Shape, RequestFields, Staged
    <3> QED BY <1>1, <1>2, <2>3, <3>1, GoToIsBorne
  <2>4. CASE GoTo(r, "fetch")
    <3>1. req[r].pc = "service"
      BY <1>6 DEF Recall
    <3>2. Staged(r, [req[r] EXCEPT !.pc = "fetch"])
      BY <1>3, <3>1 DEF IInv, Shape, RequestFields, Staged
    <3> QED BY <1>1, <1>2, <2>4, <3>1, <3>2, GoToIsBorne
  <2> QED BY <1>4, <2>1, <2>2, <2>3, <2>4
<1>7. CASE FetchToResend(r)
  <2>1. \/ Deliverable(r) /\ rows[req[r].key] = "issued"
        \/ Reply(r, "revoked") \/ Reply(r, "unsafe")
    <3>1. rows[req[r].key] \in States
      BY <1>1 DEF IInv, Shape
    <3> QED BY <1>7, <3>1 DEF FetchToResend, Fetched, States
  <2>2. CASE Deliverable(r) /\ rows[req[r].key] = "issued"
    <3>1. req[r].key \in Issued'
      BY <1>1, <2>2 DEF Issued
    <3>2. req[r].op = "resend" /\ req[r].pc \in {"service", "fetch"}
      BY <1>7 DEF FetchToResend, At
    <3> QED BY <1>5, <2>2, <3>1, <3>2
  <2> QED BY <1>4, <2>1, <2>2
<1>8. CASE CallProvider(r)
  <2>1. CASE At(r, "issue", "create") /\ GoTo(r, "persist")
    <3>1. Staged(r, [req[r] EXCEPT !.pc = "persist"])
      BY <1>3, <2>1 DEF IInv, Shape, RequestFields, Staged, At
    <3> QED BY <1>1, <1>2, <2>1, <3>1, GoToIsBorne
  <2>2. CASE At(r, "revoke", "withdraw") /\ GoTo(r, "mark")
    <3>1. Staged(r, [req[r] EXCEPT !.pc = "mark"])
      BY <1>3, <2>2 DEF IInv, Shape, RequestFields, Staged, At
    <3> QED BY <1>1, <1>2, <2>2, <3>1, GoToIsBorne
  <2>3. CASE At(r, "resend", "deliver") /\ Reply(r, "ready")
    <3>1. req[r].key \in during[r]
      BY <1>3, <2>3 DEF Borne, At
    <3> QED BY <1>1, <1>2, <2>3, <3>1, ReplyIsBorne
  <2> QED BY <1>8, <2>1, <2>2, <2>3 DEF CallProvider
<1> QED BY <1>6, <1>7, <1>8

\* The parts of issue and revoke that read or write the row, and calls that fail.
LEMMA TableStepIsBorne ==
  ASSUME IInv, Witnessed, Witness, NEW r \in Requests,
         \/ FetchToIssue(r) \/ FetchToRevoke(r)
         \/ PersistIssue(r) \/ PersistRevoke(r) \/ CallFails(r)
  PROVE  Witnessed'
<1>1. req[r].pc # "done" /\ Staged(r, req[r])
  BY DEF FetchToIssue, FetchToRevoke, PersistIssue, PersistRevoke, CallFails, At, Witnessed
<1>2. ~ CallFails(r) => req[r].key \in Keys
  BY DEF FetchToIssue, FetchToRevoke, PersistIssue, PersistRevoke, At, IInv, Aimed
<1>3. \A p \in Processes \ {Host(r)} : ledger'[p] = ledger[p]
  <2>1. CASE CallFails(r)
    BY <2>1 DEF CallFails, memory
  <2>2. CASE ~ CallFails(r)
    <3>1. req[r].key \in Keys /\ rows[req[r].key] \in States
      BY <1>2, <2>2 DEF IInv, Shape
    <3>2. UNCHANGED ledger \/ \E state \in {"issued", "revoked"} : Remember(r, req[r].key, state)
      BY <2>2, <3>1
         DEF FetchToIssue, FetchToRevoke, Fetched, PersistIssue, PersistRevoke, memory, States
    <3> QED BY <3>1, <3>2, OthersRemember DEF States
  <2> QED BY <2>1, <2>2
<1>4. ASSUME NEW out, Reply(r, out), out \notin {"ready", "access_ready"},
             out \in {"issued", "already"} => req[r].op = "issue"
      PROVE  Witnessed'
  BY <1>1, <1>3, <1>4, ReplyIsBorne
<1>5. CASE FetchToIssue(r)
  <2>1. Reply(r, "already") \/ Reply(r, "error") \/ GoTo(r, "create")
    <3>1. req[r].key \in Keys
      BY <1>5 DEF FetchToIssue, At, IInv, Aimed
    <3>2. rows[req[r].key] \in States
      BY <3>1 DEF IInv, Shape
    <3> QED BY <1>5, <3>2 DEF FetchToIssue, Fetched, States
  <2>2. req[r].op = "issue" /\ req[r].pc = "fetch"
    BY <1>5 DEF FetchToIssue, At
  <2>3. CASE GoTo(r, "create")
    <3>1. Staged(r, [req[r] EXCEPT !.pc = "create"])
      BY <1>1, <2>2 DEF IInv, Shape, RequestFields, Staged
    <3> QED BY <1>1, <1>3, <2>3, <3>1, GoToIsBorne
  <2> QED BY <1>4, <2>1, <2>2, <2>3
<1>6. CASE FetchToRevoke(r)
  <2>1. Reply(r, "revoked") \/ Reply(r, "not_entitled") \/ GoTo(r, "withdraw")
    <3>1. req[r].key \in Keys
      BY <1>6 DEF FetchToRevoke, At, IInv, Aimed
    <3>2. rows[req[r].key] \in States
      BY <3>1 DEF IInv, Shape
    <3> QED BY <1>6, <3>2 DEF FetchToRevoke, Fetched, States
  <2>2. req[r].op = "revoke" /\ req[r].pc = "fetch"
    BY <1>6 DEF FetchToRevoke, At
  <2>3. CASE GoTo(r, "withdraw")
    <3>1. Staged(r, [req[r] EXCEPT !.pc = "withdraw"])
      BY <1>1, <2>2 DEF IInv, Shape, RequestFields, Staged
    <3> QED BY <1>1, <1>3, <2>3, <3>1, GoToIsBorne
  <2> QED BY <1>4, <2>1, <2>3
<1>7. CASE PersistIssue(r) \/ PersistRevoke(r)
  BY <1>4, <1>7 DEF PersistIssue, PersistRevoke, At
<1>8. CASE CallFails(r)
  <2>1. PICK out : out = FailedWith(r)
    OBVIOUS
  <2>2. out \notin {"ready", "access_ready", "issued", "already"}
    BY <2>1 DEF FailedWith
  <2> QED BY <1>4, <1>8, <2>1, <2>2 DEF CallFails
<1> QED BY <1>5, <1>6, <1>7, <1>8

\* Support is told of access only after a look at the table that found a key issued.
LEMMA SupportIsBorne ==
  ASSUME IInv, Witnessed, Witness, NEW r \in Requests,
         ReadForSupport(r) \/ LookBefore(r) \/ LookAfter(r)
  PROVE  Witnessed'
<1>1. /\ UNCHANGED <<rows, ledger>> /\ req[r].pc # "done" /\ Staged(r, req[r])
      /\ Borne(r, req[r], during[r])
  BY DEF ReadForSupport, LookBefore, LookAfter, At, table, memory, Witnessed
<1>2. \A p \in Processes \ {Host(r)} : ledger'[p] = ledger[p]
  BY <1>1
<1>3. CurrentIsIssued => Issued' # {}
  BY <1>1 DEF CurrentIsIssued, Issued
<1>4. CASE ReadForSupport(r)
  <2>1. CASE GoTo(r, "before")
    <3>1. Staged(r, [req[r] EXCEPT !.pc = "before"])
      BY <1>1, <1>4 DEF IInv, Shape, RequestFields, Staged, ReadForSupport, At
    <3> QED BY <1>1, <1>2, <2>1, <3>1, GoToIsBorne
  <2>2. CASE Answer(r, "inactive")
    BY <1>1, <1>2, <2>2, AnswerIsBorne
  <2> QED BY <1>4, <2>1, <2>2 DEF ReadForSupport
<1>5. CASE LookBefore(r)
  <2>1. CASE CurrentIsIssued /\ Answer(r, "access_ready")
    BY <1>1, <1>2, <1>3, <2>1, AnswerIsBorne
  <2>2. CASE req' = [req EXCEPT ![r].pc = "service", ![r].op = "issue", ![r].key = EnsureKey,
                                ![r].id = EnsureKey]
    <3>q. PICK q : q = [req[r] EXCEPT !.pc = "service", !.op = "issue", !.key = EnsureKey,
                                      !.id = EnsureKey]
      OBVIOUS
    <3>1. req' = [req EXCEPT ![r] = q]
      BY <2>2, <3>q
    <3>2. q.pc = "service" /\ q.op = "issue" /\ q.out = req[r].out
      BY <3>q DEF IInv, Shape, RequestFields
    <3>3. r \in Supports /\ r \notin Operators
      BY <1>1, <1>5, AccessAssumption DEF Staged, LookBefore, At
    <3>4. Staged(r, q)
      BY <3>2, <3>3 DEF Staged
    <3>5. Borne(r, q, during[r] \cup Issued')
      BY <1>1, <3>2 DEF Borne
    <3> QED BY <1>1, <1>2, <3>1, <3>2, <3>3, <3>4, <3>5, MoveKeeps
  <2> QED BY <1>5, <2>1, <2>2 DEF LookBefore
<1>6. CASE LookAfter(r)
  BY <1>1, <1>2, <1>3, <1>6, AnswerIsBorne DEF LookAfter
<1> QED BY <1>4, <1>5, <1>6

\* Requests come and go: a new one claims nothing, and one that is cut off is forgotten.
LEMMA AskIsBorne ==
  ASSUME IInv, Witnessed, Witness,
         \/ \E r \in Chats, u \in Updates : AskResend(r, u)
         \/ \E r \in Supports : AskEnsure(r)
         \/ \E r \in Operators, op \in {"issue", "resend", "revoke"}, k \in Keys :
              AskOperator(r, op, k)
  PROVE  Witnessed'
<1>1. ASSUME NEW r \in Requests, NEW q, Ask(r, q), q.out \notin {"ready", "access_ready"},
             Staged(r, q), q.op = "resend" => r \in Operators, q.pc # "deliver",
             r \in Operators => ledger' = [ledger EXCEPT ![r] = Nothing],
             r \notin Operators => UNCHANGED ledger
      PROVE  Witnessed'
  <2>1. req'[r] = q /\ \A s \in Requests : s # r => req'[s] = req[s]
    BY <1>1 DEF Ask, IInv, Shape
  <2>2. r \notin Chats \/ r \notin Operators
    BY AccessAssumption
  <2>3. Borne(r, q, during'[r])
    BY <1>1, <2>2 DEF Borne
  <2>4. Fresh(r)'
    BY <1>1 DEF Fresh, IInv, Shape, Processes
  <2>5. ASSUME NEW s \in Requests, s # r
        PROVE  Staged(s, req'[s]) /\ Borne(s, req'[s], during'[s]) /\ Fresh(s)'
    <3>1. s \in Operators => ledger'[s] = ledger[s]
      BY <1>1, <2>5 DEF IInv, Shape, Processes
    <3> QED BY <2>1, <2>5, <3>1, StayKeeps DEF Witnessed
  <2> QED BY <1>1, <2>1, <2>3, <2>4, <2>5 DEF Witnessed
<1>2. ASSUME NEW r \in Chats, NEW u \in Updates, AskResend(r, u) PROVE Witnessed'
  <2>1. PICK q : /\ Ask(r, q)
                 /\ \/ q = [NoRequest EXCEPT !.id = u, !.pc = "snapshot"]
                    \/ q = [NoRequest EXCEPT !.id = u, !.pc = "done", !.out = "limited"]
    BY <1>2 DEF AskResend, NoRequest
  <2>2. q.op = "none" /\ q.pc \in {"snapshot", "done"} /\ q.out \notin {"ready", "access_ready"}
    BY <2>1 DEF NoRequest
  <2>3. Staged(r, q)
    BY <2>2 DEF Staged
  <2>4. r \in Requests /\ r \notin Operators /\ UNCHANGED ledger
    BY <1>2, AccessAssumption DEF Requests, AskResend, memory
  <2> QED BY <1>1, <2>1, <2>2, <2>3, <2>4
<1>3. ASSUME NEW r \in Supports, AskEnsure(r) PROVE Witnessed'
  <2>1. PICK q : Ask(r, q) /\ q = [NoRequest EXCEPT !.pc = "support"]
    BY <1>3 DEF AskEnsure
  <2>2. q.op = "none" /\ q.pc = "support" /\ q.out \notin {"ready", "access_ready"}
    BY <2>1 DEF NoRequest
  <2>3. Staged(r, q)
    BY <2>2 DEF Staged
  <2>4. r \in Requests /\ r \notin Operators /\ UNCHANGED ledger
    BY <1>3, AccessAssumption DEF Requests, AskEnsure, memory
  <2> QED BY <1>1, <2>1, <2>2, <2>3, <2>4
<1>4. ASSUME NEW r \in Operators, NEW op \in {"issue", "resend", "revoke"}, NEW k \in Keys,
             AskOperator(r, op, k)
      PROVE  Witnessed'
  <2>1. PICK q : Ask(r, q) /\ q = [op |-> op, key |-> k, id |-> k, pc |-> "service", out |-> "none"]
    BY <1>4 DEF AskOperator
  <2>2. q.op = op /\ q.pc = "service" /\ q.out \notin {"ready", "access_ready"}
    BY <2>1
  <2>3. Staged(r, q)
    BY <2>2 DEF Staged
  <2>4. r \in Requests /\ ledger' = [ledger EXCEPT ![r] = Nothing]
    BY <1>4 DEF Requests, AskOperator
  <2> QED BY <1>1, <2>1, <2>2, <2>3, <2>4
<1> QED BY <1>2, <1>3, <1>4

\* A restart drops requests in progress and answers none; an operator's process is not hit.
LEMMA RestartIsBorne ==
  ASSUME IInv, Witnessed, Witness, NEW p \in {Bot, Admin}, Restart(p) \/ Evict(p)
  PROVE  Witnessed'
<1>1. ASSUME NEW r \in Requests
      PROVE  /\ req'[r] = NoRequest \/ req'[r] = req[r]
             /\ r \in Operators => ledger'[r] = ledger[r]
  <2>1. r \in Operators => r # p /\ r \in Processes
    BY AccessAssumption DEF Processes
  <2>2. CASE Restart(p)
    BY <2>1, <2>2 DEF Restart, IInv, Shape
  <2>3. CASE Evict(p)
    <3>1. UNCHANGED req
      BY <2>3 DEF Evict
    <3>2. UNCHANGED ledger \/ \E k \in Remembered(p) : ledger' = [ledger EXCEPT ![p][k] = "none"]
      BY <2>3 DEF Evict
    <3> QED BY <2>1, <3>1, <3>2 DEF IInv, Shape
  <2> QED BY <2>2, <2>3
<1>2. ASSUME NEW r \in Requests
      PROVE  Staged(r, req'[r]) /\ Borne(r, req'[r], during'[r]) /\ Fresh(r)'
  <2>1. CASE req'[r] = NoRequest
    BY <2>1 DEF Staged, Borne, Fresh, NoRequest
  <2>2. CASE req'[r] = req[r]
    BY <1>1, <2>2, StayKeeps DEF Witnessed
  <2> QED BY <1>1, <2>1, <2>2
<1> QED BY <1>2 DEF Witnessed

\* What a request claims stands, whatever any step does.
LEMMA WitnessIsInvariant == Spec => [](IInv /\ Witnessed)
<1>1. Init => IInv /\ Witnessed
  <2> SUFFICES ASSUME Init PROVE Witnessed
    BY InitBacked
  <2> QED BY DEF Init, Witnessed, Staged, Borne, Fresh, NoRequest
<1>2. IInv /\ Witnessed /\ [Next]_vars => IInv' /\ Witnessed'
  <2> SUFFICES ASSUME IInv, Witnessed, [Next]_vars PROVE IInv' /\ Witnessed'
    OBVIOUS
  <2>1. IInv'
    BY BackingIsKept
  <2>2. ASSUME UNCHANGED vars PROVE Witnessed'
    <3>1. UNCHANGED <<req, during, ledger>>
      BY <2>2 DEF vars, memory
    <3> QED BY <3>1 DEF Witnessed, Fresh
  <2>3. ASSUME Act, Witness PROVE Witnessed'
    <3>1. ASSUME NEW r \in Requests, Step(r) PROVE Witnessed'
      BY <2>3, <3>1, HandlerIsBorne, ServiceIsBorne, TableStepIsBorne, SupportIsBorne DEF Step
    <3>2. ASSUME NEW p \in {Bot, Admin}, Restart(p) \/ Evict(p) PROVE Witnessed'
      BY <2>3, <3>2, RestartIsBorne
    <3>3. ASSUME Job \/ Pay \/ SubscriptionChanges \/ WindowEnds PROVE Witnessed'
      <4>1. UNCHANGED <<req, ledger>>
        BY <3>3 DEF Job, Pay, SubscriptionChanges, WindowEnds, memory
      <4> QED BY <2>3, <4>1, StayKeeps DEF Witnessed
    <3> QED BY <2>3, <3>1, <3>2, <3>3, AskIsBorne DEF Act
  <2> QED BY <2>1, <2>2, <2>3 DEF Next
<1> QED BY <1>1, <1>2, PTL DEF Spec

\* A key is handed out only if the table had it issued at some time of the request, in
\* the bot and for the operator alike (service.py, _execute_resend).
THEOREM DeliveredHadBeenIssued == Spec => []DeliveredWasIssued
<1>1. Witnessed => DeliveredWasIssued
  BY DEF Witnessed, Borne, DeliveredWasIssued
<1> QED BY <1>1, WitnessIsInvariant, PTL

\* Support is told "access ready" only about a user who had an issued key at some time of
\* the request, stale as the service's memory may be (adm02_ensure_access.py).
THEOREM ReadyMeansIssued == Spec => []ReadyIsReal
<1>1. Witnessed => ReadyIsReal
  BY DEF Witnessed, Borne, ReadyIsReal, Requests
<1> QED BY <1>1, WitnessIsInvariant, PTL
=============================================================================
