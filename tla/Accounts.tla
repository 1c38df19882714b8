------------------------------ MODULE Accounts ------------------------------
(***************************************************************************)
(* Who is who: an email that logs in on the website gets a web-only        *)
(* account under a negative id; a Telegram user who proves to own the      *)
(* email takes that account over.  The bot links emails in its chat, the   *)
(* internal API does the same in another order, and the website logs in,   *)
(* all of them next to payments, commissions and each other.               *)
(*                                                                         *)
(* Every statement commits on its own, except those of the merge, which is *)
(* one READ COMMITTED transaction: what it read first may be outdated when *)
(* it writes, and what it wrote holds the rows until it commits.           *)
(***************************************************************************)
EXTENDS Naturals, Sequences, FiniteSets

CONSTANTS
  TelegramUsers,   \* positive telegram_user_ids
  Emails,
  Nobody,
  Linkers,         \* chat messages and API calls handled at the same time
  Logins,          \* calls of handle_verify_code handled at the same time
  Payments,
  Casts,           \* who takes part together: a set of Cast
  MaxSends,        \* _MAX_SEND_PER_EMAIL_PER_HOUR; no hour passes in the model
  MaxAttempts,     \* email_verification_codes.max_attempts
  MaxWeb,          \* bound: values drawn from web_user_id_seq
  MaxCodes,        \* bound: codes mailed
  MaxCredits,      \* bound: commissions credited
  MaxFaults        \* bound: restarts of a process, and expiries

\* The n-th value of the sequence is -n; internal ids are u<id> and web_<hash
\* of the email>, here the Telegram user and the email themselves.
WebIds   == 1 .. MaxWeb
Ids      == TelegramUsers \cup WebIds
Accounts == TelegramUsers \cup Emails
\* Users (who have sent /start, but for the newcomers), emails, ways to link
\* them, payments, referral codes in circulation, and processes.
Cast == [users : SUBSET TelegramUsers, newcomers : SUBSET TelegramUsers, emails : SUBSET Emails,
         vias : SUBSET {"bot", "api"}, payments : SUBSET Payments, inviters : SUBSET Accounts,
         linkers : SUBSET Linkers, logins : SUBSET Logins]

ASSUME AccountsAssumption ==
  /\ Casts \subseteq Cast
  /\ Nobody \notin Ids \cup Accounts
  /\ TelegramUsers \cap WebIds = {} /\ TelegramUsers \cap Emails = {}
  /\ MaxSends \in Nat /\ MaxAttempts \in Nat \ {0} /\ MaxWeb \in Nat
  /\ MaxCodes \in Nat /\ MaxCredits \in Nat /\ MaxFaults \in Nat

VARIABLES
  cast,
  identities,   \* user_identities: internal_user_id per telegram_user_id
  owner,        \* user_emails: telegram_user_id of the verified row per email
  nextId,       \* web_user_id_seq
  codes,        \* email_verification_codes, in the order of created_at: the email, the
                \* user to link (Nobody: purpose 'auth'), a state and the wrong attempts
  sessions,     \* JWTs: telegram_user_id and email
  sub,          \* subscription_snapshots: state_label
  keys,         \* accounts with enabled clients on the panels
  balance,      \* referral_balances
  inviter,      \* referral_relationships, level 1: referrer per referred
  payer,        \* metadata.internal_user_id of a payment that was created
  billed,       \* billing_events_ledger and apply records: account per payment
  linker,
  login,
  credits, faults,
  \* History, for the properties only.
  proven,       \* <<user, email>>: a code mailed to the email for the user was typed
  discarded     \* web accounts whose subscription a merge gave up

dataVars    == <<sub, keys, balance, inviter, payer, billed>>
countVars   == <<credits, faults>>
historyVars == <<proven, discarded>>
vars == <<cast, identities, owner, nextId, codes, sessions, dataVars, linker, login, countVars, historyVars>>

States == {"none", "ended", "active"}

\* What a linker remembers: the code typed (text, 0 for a wrong one) and the
\* one it was compared with (row), whether the bot merged before it inserts
\* (merged), the plan of the merge and the web row it wrote (moved), and the
\* web balance it read (copied).
NoLinker == [pc |-> "idle", via |-> "bot", user |-> Nobody, email |-> Nobody, text |-> 0, row |-> 0,
             merged |-> FALSE, plan |-> "leave", moved |-> "none", copied |-> 0]
NoLogin  == [pc |-> "idle", email |-> Nobody, row |-> 0, id |-> 0]

Init ==
  /\ cast \in Casts
  /\ identities = [i \in Ids |-> IF i \in cast.users \ cast.newcomers THEN i ELSE Nobody]
  /\ owner = [e \in Emails |-> Nobody]
  /\ nextId = 1
  /\ codes = <<>>
  /\ sessions = {}
  /\ sub = [a \in Accounts |-> "none"]
  /\ keys = {}
  /\ balance = [a \in Accounts |-> 0]
  /\ inviter = [a \in Accounts |-> Nobody]
  /\ payer = [p \in Payments |-> Nobody]
  /\ billed = [p \in Payments |-> Nobody]
  /\ linker = [l \in Linkers |-> NoLinker]
  /\ login = [k \in Logins |-> NoLogin]
  /\ credits = 0 /\ faults = 0
  /\ proven = {} /\ discarded = {}
-----------------------------------------------------------------------------
(* Codes and rows.                                                         *)

Pending(c) == codes[c].state \in {"live", "expired"}

\* ORDER BY created_at DESC LIMIT 1; 0 for no row.
Latest(S) == IF S = {} THEN 0 ELSE CHOOSE c \in S : \A d \in S : d <= c

LinkCodes(u) == {c \in DOMAIN codes : codes[c].for = u /\ Pending(c)}
LinkCodesOfAnyone(u, e) == {c \in DOMAIN codes : codes[c].email = e /\ codes[c].for # Nobody /\ Pending(c)}
LinkCodesOf(u, e) == {c \in LinkCodes(u) : codes[c].email = e}
ApiCodes(e) == {c \in DOMAIN codes : codes[c].email = e /\ codes[c].for # Nobody /\ Pending(c)}
AuthCodes(e) == {c \in DOMAIN codes : codes[c].email = e /\ codes[c].for = Nobody /\ Pending(c)}

MaySend(e) == Cardinality({c \in DOMAIN codes : codes[c].email = e /\ codes[c].state # "gone"}) < MaxSends

NewCode(e, for) == [email |-> e, for |-> for, state |-> "live", tries |-> 0]

Mail(list, e, for) ==
  /\ Len(codes) < MaxCodes
  /\ codes' = Append(list, NewCode(e, for))

Retired(S, state) == [c \in DOMAIN codes |-> IF c \in S THEN [codes[c] EXCEPT !.state = state] ELSE codes[c]]

Tried(c) == [codes EXCEPT ![c].tries = IF @ < MaxAttempts THEN @ + 1 ELSE @]

IsWeb(id) == id \in WebIds

\* Rows a merge has written and not committed: its snapshots, and the
\* balance it adds to.
Holds(l, a) ==
  /\ linker[l].pc = "commit"
  /\ \/ a = linker[l].email /\ linker[l].moved # "none"
     \/ a = linker[l].user /\ linker[l].plan \in {"adopt", "replace"}

Held(a) == \E l \in Linkers : Holds(l, a)

HeldBalance(a) == \E l \in Linkers : linker[l].pc = "commit" /\ linker[l].user = a /\ linker[l].copied > 0

At(l, pc) == linker[l].pc = pc
Goto(l, pc) == linker' = [linker EXCEPT ![l].pc = pc]
End(l) == linker' = [linker EXCEPT ![l] = NoLinker]
-----------------------------------------------------------------------------
(* The world: users, payments, commissions, time.                          *)

\* Referral codes that can be used, and using none.
Invitations == (cast.inviters \cap {identities[i] : i \in Ids}) \cup {Nobody}

\* /start, with the code of somebody else or without one.
Bootstrap(u) ==
  /\ identities[u] = Nobody
  /\ identities' = [identities EXCEPT ![u] = u]
  /\ \E r \in Invitations : inviter' = [inviter EXCEPT ![u] = r]
  /\ UNCHANGED <<cast, owner, nextId, codes, sessions, sub, keys, balance, payer, billed, linker, login, countVars, historyVars>>

\* A payment is created from the bot or from a session; it carries the account.
Invoice(p, id) ==
  /\ payer[p] = Nobody
  /\ id \in TelegramUsers \/ \E e \in Emails : <<id, e>> \in sessions
  /\ identities[id] # Nobody
  /\ payer' = [payer EXCEPT ![p] = identities[id]]
  /\ UNCHANGED <<cast, identities, owner, nextId, codes, sessions, sub, keys, balance, inviter, billed,
                 linker, login, countVars, historyVars>>

\* The card path: facts and snapshot in one transaction, keys afterwards.
Paid(p) ==
  LET a == payer[p] IN
  /\ a # Nobody /\ billed[p] = Nobody /\ ~Held(a)
  /\ billed' = [billed EXCEPT ![p] = a]
  /\ sub' = [sub EXCEPT ![a] = "active"]
  /\ keys' \in {keys, keys \cup {a}}
  /\ UNCHANGED <<cast, identities, owner, nextId, codes, sessions, balance, inviter, payer,
                 linker, login, countVars, historyVars>>

\* The scheduler marks what ended and revokes its keys.
Lapse(a) ==
  /\ sub[a] = "active" /\ ~Held(a) /\ faults < MaxFaults
  /\ sub' = [sub EXCEPT ![a] = "ended"]
  /\ keys' = keys \ {a}
  /\ faults' = faults + 1
  /\ UNCHANGED <<cast, identities, owner, nextId, codes, sessions, balance, inviter, payer, billed,
                 linker, login, credits, historyVars>>

\* A commission for a referrer.
Credit(a) ==
  /\ credits < MaxCredits /\ ~HeldBalance(a)
  /\ \E r \in Accounts : inviter[r] = a
  /\ balance' = [balance EXCEPT ![a] = @ + 1]
  /\ credits' = credits + 1
  /\ UNCHANGED <<cast, identities, owner, nextId, codes, sessions, sub, keys, inviter, payer, billed,
                 linker, login, faults, historyVars>>

\* The session is revoked with its cookie, or its hours are over; one that another
\* session doubles ends without a trace.
Logout(session) ==
  /\ sessions' = sessions \ {session}
  /\ UNCHANGED <<cast, identities, owner, nextId, codes, dataVars, linker, login, countVars, historyVars>>

Expire(c) ==
  /\ faults < MaxFaults
  /\ codes[c].state = "live"
  /\ codes' = Retired({c}, "expired")
  /\ faults' = faults + 1
  /\ UNCHANGED <<cast, identities, owner, nextId, sessions, dataVars, linker, login, credits, historyVars>>
-----------------------------------------------------------------------------
(* Linking an email, from the chat ("bot") or over the internal API.       *)

identityVars == <<identities, owner, nextId, sessions>>

\* An email is typed, and no code is pending: it is claimed unless another
\* Telegram user has it.
AskLink(u, e) ==
  /\ LinkCodes(u) = {}
  /\ owner[e] = Nobody \/ IsWeb(owner[e])
  /\ MaySend(e)
  /\ Mail(codes, e, u)
  /\ UNCHANGED <<cast, identityVars, dataVars, linker, login, countVars, historyVars>>

\* The API refuses web accounts as well, and minds no pending code.
AskLinkByApi(u, e) ==
  /\ owner[e] = Nobody
  /\ MaySend(e)
  /\ Mail(codes, e, u)
  /\ UNCHANGED <<cast, identityVars, dataVars, linker, login, countVars, historyVars>>

\* The button "link email" gives up all codes of the user.
StartLinking(u) ==
  /\ LinkCodes(u) # {}
  /\ codes' = Retired(LinkCodes(u), "used")
  /\ UNCHANGED <<cast, identityVars, dataVars, linker, login, countVars, historyVars>>

\* The codes of the latest email are given up before the limit is looked at.
ResendCode(u) ==
  /\ LinkCodes(u) # {}
  /\ LET e    == codes[Latest(LinkCodes(u))].email
         list == Retired(LinkCodesOf(u, e), "used")
     IN  IF MaySend(e) THEN Mail(list, e, u) ELSE codes' = list
  /\ UNCHANGED <<cast, identityVars, dataVars, linker, login, countVars, historyVars>>

\* The chat takes any text for the code of the email asked for last; the API
\* is told the email and looks at its latest code, whoever asked for it.
TypeCode(l, u, e, text, via) ==
  /\ At(l, "idle")
  /\ LET c == IF via = "bot" THEN Latest(LinkCodes(u)) ELSE Latest(ApiCodes(e)) IN
     /\ c # 0 /\ codes[c].state = "live" /\ codes[c].email = e
     /\ via = "api" => codes[c].for = u /\ codes[c].tries < MaxAttempts
     /\ linker' = [linker EXCEPT ![l] = [NoLinker EXCEPT !.pc = "check", !.via = via, !.user = u, !.email = e,
                                                         !.text = text, !.row = IF via = "bot" THEN 0 ELSE c]]
  /\ UNCHANGED <<cast, identityVars, codes, dataVars, login, countVars, historyVars>>

\* The row the text is compared with.
Compared(l) ==
  IF linker[l].via = "api" THEN linker[l].row ELSE Latest(LinkCodesOf(linker[l].user, linker[l].email))

Matches(l, c) == linker[l].text = c /\ (linker[l].via = "api" \/ codes[c].tries < MaxAttempts)

Check(l) ==
  LET c == Compared(l) IN
  /\ At(l, "check")
  /\ IF c = 0 THEN codes' = codes /\ End(l)
     ELSE /\ codes' = Tried(c)
          /\ IF Matches(l, c) THEN linker' = [linker EXCEPT ![l].pc = "use", ![l].row = c] ELSE End(l)
  /\ UNCHANGED <<cast, identityVars, dataVars, login, countVars, historyVars>>

Spent(c) == Retired({c}, "used")

Use(l) ==
  /\ At(l, "use") /\ Goto(l, "drop")
  /\ codes' = Spent(linker[l].row)
  /\ proven' = proven \cup {LET c == codes[linker[l].text] IN <<c.for, c.email>>}
  /\ UNCHANGED <<cast, identityVars, dataVars, login, countVars, discarded>>

\* The rows of the user's other emails go.  The API makes sure of the identity.
Drop(l) ==
  LET u == linker[l].user IN
  /\ At(l, "drop")
  /\ IF linker[l].via = "bot" THEN Goto(l, "merge") /\ identities' = identities
     ELSE /\ Goto(l, "insert")
          /\ identities' = [identities EXCEPT ![u] = IF @ = Nobody THEN u ELSE @]
  /\ owner' = [e \in Emails |-> IF owner[e] = u THEN Nobody ELSE owner[e]]
  /\ UNCHANGED <<cast, nextId, sessions, codes, dataVars, login, countVars, historyVars>>

\* ON CONFLICT DO UPDATE: the row of the user and the email, verified.
Owned(u, e) == [owner EXCEPT ![e] = u]

\* The new row; its foreign key and the index of one verified row per email
\* may refuse it.
Insert(l) ==
  LET u == linker[l].user
      e == linker[l].email
      next == IF linker[l].via = "api" THEN "merge" ELSE "revoke"
  IN
  /\ At(l, "insert")
  /\ IF identities[u] # Nobody /\ owner[e] \in {Nobody, u}
     THEN /\ owner' = Owned(u, e)
          /\ IF next = "revoke" /\ ~linker[l].merged THEN End(l) ELSE Goto(l, next)
     ELSE owner' = owner /\ End(l)
  /\ UNCHANGED <<cast, identities, nextId, sessions, codes, dataVars, login, countVars, historyVars>>
-----------------------------------------------------------------------------
(* merge_web_account_if_needed.                                            *)

\* What becomes of the two subscriptions.
Plan(web, tg) ==
  CASE web = "active" /\ tg # "active" /\ tg # "none" -> "replace"
    [] web # "none" /\ tg = "none"                    -> "adopt"
    [] web # "none" /\ tg # "none" /\ ~(web = "active" /\ tg # "active") -> "discard"
    [] OTHER                                          -> "leave"

Adopts(plan) == plan \in {"adopt", "replace"}

MergeRead(l) ==
  LET u == linker[l].user
      e == linker[l].email
  IN
  /\ At(l, "merge")
  /\ IF IsWeb(owner[e])
     THEN linker' = [linker EXCEPT ![l].pc = "copy", ![l].plan = Plan(sub[e], sub[u])]
     ELSE IF linker[l].via = "bot" THEN Goto(l, "insert") ELSE End(l)
  /\ UNCHANGED <<cast, identityVars, codes, dataVars, login, countVars, historyVars>>

\* The writes up to the balance, not yet visible to anybody.  A row of the
\* user's that was not there a moment ago makes the update fail.
MergeCopy(l) ==
  LET u == linker[l].user
      e == linker[l].email
  IN
  /\ At(l, "copy")
  /\ linker[l].plan # "leave" => ~Held(e) /\ ~Held(u)
  /\ ~HeldBalance(u)
  /\ IF linker[l].plan = "adopt" /\ sub[e] # "none" /\ sub[u] # "none"
     THEN End(l)
     ELSE linker' = [linker EXCEPT ![l].pc = "commit", ![l].copied = balance[e],
                                   ![l].moved = IF linker[l].plan = "leave" THEN "none" ELSE sub[e]]
  /\ UNCHANGED <<cast, identityVars, codes, dataVars, login, countVars, historyVars>>

MergedRows(plan, moved, u, e) ==
  [a \in Accounts |->
     CASE a = u /\ Adopts(plan) -> IF moved # "none" THEN moved
                                   ELSE IF plan = "replace" THEN "none" ELSE sub[u]
       [] a = e /\ moved # "none" -> "none"
       [] OTHER -> sub[a]]

MergedBalance(copied, u, e) == [balance EXCEPT ![u] = @ + copied, ![e] = 0]

\* Billing goes where the subscription goes.
MergedBillingOnReplace(plan, u, e) ==
  [p \in Payments |-> IF billed[p] = e /\ plan = "replace" THEN u ELSE billed[p]]
MergedBilling(plan, u, e) ==
  [p \in Payments |-> IF billed[p] = e /\ Adopts(plan) THEN u ELSE billed[p]]

\* The user's own referrer stays; the web account's referrals become the
\* user's; nobody is left as a referrer of themselves.
MergedWithLoops(u, e) ==
  LET kept == [inviter EXCEPT ![u] = IF @ = Nobody THEN inviter[e] ELSE @, ![e] = Nobody]
  IN  [a \in Accounts |-> IF kept[a] = e THEN u ELSE kept[a]]
MergedInviters(u, e) ==
  LET kept == [inviter EXCEPT ![u] = IF @ = Nobody THEN inviter[e] ELSE @, ![e] = Nobody]
  IN  [a \in Accounts |-> LET r == IF kept[a] = e THEN u ELSE kept[a] IN IF r = a THEN Nobody ELSE r]

TakenOver(u, e) == [owner EXCEPT ![e] = IF IsWeb(@) THEN u ELSE @]

MergeCommit(l) ==
  LET u == linker[l].user
      e == linker[l].email
      plan == linker[l].plan
  IN
  /\ At(l, "commit")
  /\ IF IsWeb(owner[e]) /\ identities[u] = Nobody
     THEN End(l) /\ UNCHANGED <<owner, sub, balance, billed, inviter, discarded>>
     ELSE /\ sub' = MergedRows(plan, linker[l].moved, u, e)
          /\ balance' = MergedBalance(linker[l].copied, u, e)
          /\ billed' = MergedBilling(plan, u, e)
          /\ inviter' = MergedInviters(u, e)
          /\ owner' = TakenOver(u, e)
          /\ discarded' = IF plan = "discard" THEN discarded \cup {e} ELSE discarded
          /\ IF linker[l].via = "api" THEN End(l)
             ELSE linker' = [linker EXCEPT ![l].pc = "insert", ![l].merged = TRUE, ![l].plan = "leave",
                                           ![l].moved = "none", ![l].copied = 0]
  /\ UNCHANGED <<cast, identities, nextId, sessions, codes, keys, payer, login, countVars, proven>>

\* After a merge: the web account's clients go, the user's are made if the
\* subscription runs.  The provider may fail.
RevokeWebKeys(l) ==
  /\ At(l, "revoke") /\ Goto(l, "look")
  /\ keys' \in {keys, keys \ {linker[l].email}}
  /\ UNCHANGED <<cast, identityVars, codes, sub, balance, inviter, payer, billed, login, countVars, historyVars>>

LookAtRow(l) ==
  /\ At(l, "look")
  /\ IF identities[linker[l].user] # Nobody /\ sub[linker[l].user] = "active" THEN Goto(l, "create") ELSE End(l)
  /\ UNCHANGED <<cast, identityVars, codes, dataVars, login, countVars, historyVars>>

CreateKeys(l) ==
  /\ At(l, "create") /\ End(l)
  /\ keys' \in {keys, keys \cup {linker[l].user}}
  /\ UNCHANGED <<cast, identityVars, codes, sub, balance, inviter, payer, billed, login, countVars, historyVars>>

\* A restart, or an exception that escapes: what was committed stays.
LinkerCrash(l) ==
  /\ ~At(l, "idle") /\ faults < MaxFaults
  /\ End(l)
  /\ faults' = faults + 1
  /\ UNCHANGED <<cast, identityVars, codes, dataVars, login, credits, historyVars>>
-----------------------------------------------------------------------------
(* Logging in on the website.                                              *)

\* handle_send_code: the limit is looked at, then the older codes are deleted.
SendLoginCode(e) ==
  /\ MaySend(e)
  /\ Mail(Retired({c \in DOMAIN codes : codes[c].email = e /\ codes[c].for = Nobody}, "gone"), e, Nobody)
  /\ UNCHANGED <<cast, identityVars, dataVars, linker, login, countVars, historyVars>>

TypeLoginCode(k, e, text) ==
  LET c == Latest(AuthCodes(e)) IN
  /\ login[k].pc = "idle"
  /\ c # 0 /\ codes[c].state = "live" /\ codes[c].tries < MaxAttempts
  /\ codes' = Tried(c)
  /\ login' = [login EXCEPT ![k] = IF text # c THEN NoLogin
                                   ELSE [NoLogin EXCEPT !.pc = "spend", !.email = e, !.row = c]]
  /\ UNCHANGED <<cast, identityVars, dataVars, linker, countVars, historyVars>>

SpendCode(k) ==
  /\ login[k].pc = "spend"
  /\ codes' = Retired({login[k].row}, "gone")
  /\ login' = [login EXCEPT ![k].pc = "find"]
  /\ UNCHANGED <<cast, identityVars, dataVars, linker, countVars, historyVars>>

\* The email has an owner: the session is theirs.
FindOwner(k) ==
  LET e == login[k].email IN
  /\ login[k].pc = "find"
  /\ IF owner[e] # Nobody
     THEN sessions' = sessions \cup {<<owner[e], e>>} /\ login' = [login EXCEPT ![k] = NoLogin]
     ELSE sessions' = sessions /\ login' = [login EXCEPT ![k].pc = "draw"]
  /\ UNCHANGED <<cast, identities, owner, nextId, codes, dataVars, linker, countVars, historyVars>>

\* internal_user_id is unique: ON CONFLICT DO NOTHING.
NewIdentity(id, a) ==
  IF \E i \in Ids : identities[i] = a THEN identities ELSE [identities EXCEPT ![id] = a]

\* nextval, and the identity under the new id.
DrawId(k) ==
  /\ login[k].pc = "draw" /\ nextId <= MaxWeb
  /\ nextId' = nextId + 1
  /\ identities' = NewIdentity(nextId, login[k].email)
  /\ login' = [login EXCEPT ![k].pc = "email", ![k].id = nextId]
  /\ UNCHANGED <<cast, owner, sessions, codes, dataVars, linker, countVars, historyVars>>

\* Mutant: the row of whoever came first is overwritten.
MayOwnAnyEmail(id, e) == identities[id] # Nobody

\* The foreign key and the index that may refuse the new row.
MayOwn(id, e) == identities[id] # Nobody /\ owner[e] = Nobody

\* The verified row.
OwnEmail(k) ==
  LET e  == login[k].email
      id == login[k].id
  IN
  /\ login[k].pc = "email"
  /\ IF MayOwn(id, e)
     THEN owner' = [owner EXCEPT ![e] = id] /\ login' = [login EXCEPT ![k].pc = "invite"]
     ELSE UNCHANGED owner /\ login' = [login EXCEPT ![k] = NoLogin]
  /\ UNCHANGED <<cast, identities, nextId, sessions, codes, dataVars, linker, countVars, historyVars>>

\* The referral, which may fail, and the session.
ApplyReferral(k) ==
  LET e  == login[k].email
      id == login[k].id
  IN
  /\ login[k].pc = "invite" /\ login' = [login EXCEPT ![k] = NoLogin]
  /\ sessions' = sessions \cup {<<id, e>>}
  /\ \E r \in Invitations \ {e} :
       inviter' = [inviter EXCEPT ![e] = IF @ = Nobody THEN r ELSE @]
  /\ UNCHANGED <<cast, identities, owner, nextId, codes, sub, keys, balance, payer, billed, linker,
                 countVars, historyVars>>

LoginCrash(k) ==
  /\ login[k].pc # "idle" /\ faults < MaxFaults
  /\ login' = [login EXCEPT ![k] = NoLogin]
  /\ faults' = faults + 1
  /\ UNCHANGED <<cast, identityVars, codes, dataVars, linker, credits, historyVars>>
-----------------------------------------------------------------------------
LinkerStep(l) ==
  \/ Check(l) \/ Use(l) \/ Drop(l) \/ MergeRead(l) \/ MergeCopy(l) \/ MergeCommit(l)
  \/ Insert(l) \/ RevokeWebKeys(l) \/ LookAtRow(l) \/ CreateKeys(l)

LoginStep(k) == SpendCode(k) \/ FindOwner(k) \/ DrawId(k) \/ OwnEmail(k) \/ ApplyReferral(k)

\* Only whether a text is the code it is compared with matters.
LinkTexts  == {0} \cup {c \in DOMAIN codes : codes[c].for # Nobody}
LoginTexts(e) == {0, Latest(AuthCodes(e))}

Next ==
  \/ \E u \in cast.users : Bootstrap(u) \/ StartLinking(u) \/ ResendCode(u)
  \/ \E p \in cast.payments : Paid(p) \/ \E id \in cast.users \cup WebIds : Invoice(p, id)
  \/ \E a \in Accounts : Lapse(a) \/ Credit(a)
  \/ \E c \in DOMAIN codes : Expire(c)
  \/ \E session \in sessions : Logout(session)
  \/ \E e \in cast.emails : SendLoginCode(e)
  \/ \E u \in cast.users, e \in cast.emails :
       ("bot" \in cast.vias /\ AskLink(u, e)) \/ ("api" \in cast.vias /\ AskLinkByApi(u, e))
  \/ \E l \in cast.linkers, u \in cast.users, e \in cast.emails, text \in LinkTexts, via \in cast.vias :
       TypeCode(l, u, e, text, via)
  \/ \E l \in cast.linkers : LinkerStep(l) \/ LinkerCrash(l)
  \/ \E k \in cast.logins, e \in cast.emails : \E text \in LoginTexts(e) : TypeLoginCode(k, e, text)
  \/ \E k \in cast.logins : LoginStep(k) \/ LoginCrash(k)

Spec == Init /\ [][Next]_vars
-----------------------------------------------------------------------------
(* An email belongs to a Telegram user only after a code was typed that    *)
(* was mailed to it for that user, whatever codes are pending, given up or *)
(* asked again, by whomever (runtime_facade 981-1010, email_link 92-120).  *)
LinkedIsProven ==
  \A u \in TelegramUsers, e \in Emails : owner[e] = u => <<u, e>> \in proven

(* A Telegram user loses an email only by linking: no login and no merge   *)
(* of another user takes it away (account_merge 243-247, the index of one  *)
(* verified row).                                                          *)
RealOwnersStand ==
  [][\A u \in TelegramUsers, e \in Emails :
       owner[e] = u /\ owner'[e] # u =>
         owner'[e] = Nobody /\ \E l \in Linkers : At(l, "drop") /\ linker[l].user = u]_vars

(* A merge that takes a subscription takes what was paid for it along: no  *)
(* payment is left with an account that has no row, unless its row was     *)
(* given up for the Telegram user's (account_merge 126-160).               *)
FactsHaveRows ==
  \A p \in Payments : billed[p] \in Emails => sub[billed[p]] # "none" \/ billed[p] \in discarded

(* Nobody earns commissions on their own payments, also when user and web  *)
(* account that become one had invited each other (account_merge 230-236). *)
NobodyInvitesThemselves == \A a \in Accounts : inviter[a] # a

=============================================================================
