--------------------------- MODULE AccountsProofs ---------------------------
(***************************************************************************)
(* What Accounts guarantees for any number of users, emails, codes, linkers*)
(* and logins.                                                             *)
(*                                                                         *)
(* A linker goes through its statements next to everybody else's, so what  *)
(* it has seen may be outdated.  What it relies on is not: whom a code was *)
(* mailed for never changes, a code that was typed stays typed, and what a *)
(* merge plans it decided itself.  The invariant says of each point of a   *)
(* linker's sequence which of these it has behind it.                      *)
(***************************************************************************)
EXTENDS Accounts, TLAPS, SequenceTheorems, FiniteSetTheorems, WellFoundedInduction

Code == [email : Emails, for : TelegramUsers \cup {Nobody},
         state : {"live", "expired", "used", "gone"}, tries : Nat]

LinkerFields == {"pc", "via", "user", "email", "text", "row", "merged", "plan", "moved", "copied"}
LoginFields  == {"pc", "email", "row", "id"}

Plans == {"adopt", "replace", "discard", "leave"}

\* A linker that is not idle links an email for a user.
WellFormed(s) ==
  /\ DOMAIN s = LinkerFields
  /\ s.via \in {"bot", "api"}
  /\ s.text \in Nat /\ s.row \in Nat /\ s.copied \in Nat
  /\ s.moved \in States /\ s.plan \in Plans
  /\ s.pc # "idle" => s.user \in TelegramUsers /\ s.email \in Emails

LoginWellFormed(s) ==
  /\ DOMAIN s = LoginFields
  /\ s.pc # "idle" => s.email \in Emails
  /\ s.pc \in {"email", "invite"} => s.id \in WebIds

\* A Telegram user's account is the user, a web id's is an email.
Identities ==
  /\ DOMAIN identities = Ids
  /\ \A u \in TelegramUsers : identities[u] \in {u, Nobody}
  /\ \A i \in WebIds : identities[i] \in Emails \cup {Nobody}

IdShape ==
  /\ cast \in Casts
  /\ Identities
  /\ owner \in [Emails -> Ids \cup {Nobody}]
  /\ nextId \in Nat \ {0}
  /\ sessions \subseteq Ids \X Emails

DataShape ==
  /\ sub \in [Accounts -> States]
  /\ keys \subseteq Accounts
  /\ balance \in [Accounts -> Nat]
  /\ inviter \in [Accounts -> Accounts \cup {Nobody}]
  /\ payer \in [Payments -> Accounts \cup {Nobody}]
  /\ billed \in [Payments -> Accounts \cup {Nobody}]
  /\ credits \in Nat /\ faults \in Nat

LinkerShape == DOMAIN linker = Linkers /\ \A l \in Linkers : WellFormed(linker[l])
LoginShape  == DOMAIN login = Logins /\ \A k \in Logins : LoginWellFormed(login[k])

Shape == IdShape /\ codes \in Seq(Code) /\ DataShape /\ LinkerShape /\ LoginShape

\* The code c was mailed to the linker's email for the linker's user.
Addressed(s, c) == c \in DOMAIN codes /\ codes[c].for = s.user /\ codes[c].email = s.email

\* What a linker has behind it.
Sound(s) ==
  /\ s.pc = "check" /\ s.via = "api" => Addressed(s, s.row)
  /\ s.pc = "use" => Addressed(s, s.row) /\ s.text = s.row
  /\ s.pc \in {"drop", "merge", "copy", "commit", "insert"} => <<s.user, s.email>> \in proven
  /\ s.pc = "commit" /\ s.moved # "none" => s.plan # "leave"

\* What the tables say of each other.
Tables == LinkedIsProven /\ FactsHaveRows /\ NobodyInvitesThemselves

IInv ==
  /\ Shape
  /\ Tables
  /\ \A l \in Linkers : Sound(linker[l])
-----------------------------------------------------------------------------
(* Codes: there is a latest one, and nothing a code says of its addressee  *)
(* ever changes.                                                           *)

\* A set of numbers of codes has a greatest member, and Latest finds it.
LEMMA LatestIsOneOfThem ==
  ASSUME NEW n \in Nat, NEW S, S \subseteq 1 .. n, S # {} PROVE Latest(S) \in S
<1> DEFINE After(c) == {d \in S : d > c}
           Tails    == {After(c) : c \in S}
<1>1. IsFiniteSet(S)
  BY FS_Interval, FS_Subset, 0 \in Int, 1 \in Int, n \in Int
<1>2. IsWellFoundedOn(StrictSubsetOrdering(S), FiniteSubsetsOf(S))
  BY <1>1, FS_StrictSubsetOrderingWellFounded
<1>3. Tails \subseteq FiniteSubsetsOf(S) /\ Tails # {}
  <2>1. PICK c : c \in S
    OBVIOUS
  <2>2. After(c) \in Tails
    BY <2>1
  <2>3. Tails \subseteq SUBSET S
    OBVIOUS
  <2> QED BY <1>1, <2>2, <2>3, FS_FiniteSubsetsOfFinite
<1>4. PICK X \in Tails : \A Y \in Tails : ~ (<<Y, X>> \in StrictSubsetOrdering(S))
  BY <1>2, <1>3, WFMin
<1>5. PICK c \in S : X = After(c)
  OBVIOUS
<1>6. \A d \in S : d <= c
  <2>1. SUFFICES ASSUME NEW d \in S, d > c PROVE FALSE
    OBVIOUS
  <2>2. After(d) \in Tails
    BY <2>1
  <2>3. After(d) \subseteq After(c) /\ d \in After(c) /\ d \notin After(d)
    <3>1. c \in Int /\ d \in Int /\ \A x \in S : x \in Int
      OBVIOUS
    <3>2. \A x \in S : x > d => x > c
      BY <2>1, <3>1
    <3>3. After(d) \subseteq After(c)
      BY <3>2
    <3>4. d \in After(c)
      BY <2>1
    <3>5. ~ (d > d)
      BY <3>1
    <3> QED BY <3>3, <3>4, <3>5
  <2>4. After(d) \in SUBSET S /\ After(c) \in SUBSET S
    OBVIOUS
  <2>5. <<After(d), After(c)>> \in StrictSubsetOrdering(S)
    BY <2>3, <2>4 DEF StrictSubsetOrdering
  <2> QED BY <1>4, <1>5, <2>2, <2>5
<1> QED BY <1>6 DEF Latest

CodesGrow ==
  /\ codes' \in Seq(Code)
  /\ \A c \in DOMAIN codes :
       /\ c \in DOMAIN codes'
       /\ codes'[c].for = codes[c].for /\ codes'[c].email = codes[c].email

\* A list of codes with other states and tries.
Renders(list) ==
  /\ list \in Seq(Code) /\ DOMAIN list = DOMAIN codes
  /\ \A c \in DOMAIN codes : list[c].for = codes[c].for /\ list[c].email = codes[c].email

\* Codes given up or used keep their addressee.
LEMMA RetiredRenders ==
  ASSUME codes \in Seq(Code), NEW S, NEW state \in {"live", "expired", "used", "gone"}
  PROVE  Renders(Retired(S, state))
<1> DEFINE list == Retired(S, state)
<1>1. PICK n \in Nat : DOMAIN codes = 1 .. n
  OBVIOUS
<1>2. DOMAIN list = 1 .. n
  BY <1>1 DEF Retired
<1>3. ASSUME NEW c \in 1 .. n
      PROVE  list[c] \in Code /\ list[c].for = codes[c].for /\ list[c].email = codes[c].email
  <2>1. codes[c] \in Code
    BY <1>1, <1>3
  <2>2. CASE c \in S
    BY <1>1, <1>3, <2>1, <2>2 DEF Retired, Code
  <2>3. CASE c \notin S
    BY <1>1, <1>3, <2>1, <2>3 DEF Retired, Code
  <2> QED BY <2>2, <2>3
<1>4. list = [c \in 1 .. n |-> list[c]]
  BY <1>1 DEF Retired
<1>5. list \in Seq(Code)
  BY <1>3, <1>4
<1> QED BY <1>1, <1>2, <1>3, <1>5 DEF Renders

\* So do codes a text was compared with.
LEMMA TriedRenders ==
  ASSUME codes \in Seq(Code), NEW c \in DOMAIN codes PROVE Renders(Tried(c))
<1>1. PICK n \in Nat : codes \in [1 .. n -> Code]
  BY SeqDef
<1>2. PICK t : t = [codes[c] EXCEPT !.tries = IF @ < MaxAttempts THEN @ + 1 ELSE @]
  OBVIOUS
<1>3. c \in 1 .. n /\ codes[c] \in Code
  BY <1>1
<1>4. t \in Code /\ t.for = codes[c].for /\ t.email = codes[c].email
  <2>1. PICK code : code = codes[c]
    OBVIOUS
  <2>2. PICK tries : tries = IF code.tries < MaxAttempts THEN code.tries + 1 ELSE code.tries
    OBVIOUS
  <2>3. code \in Code
    BY <1>3, <2>1
  <2>4. code.tries \in Nat
    BY <2>3 DEF Code
  <2>5. tries \in Nat
    BY <2>2, <2>4
  <2>6. t = [code EXCEPT !.tries = tries]
    BY <1>2, <2>1, <2>2
  <2>7. t \in Code
    BY <2>3, <2>5, <2>6 DEF Code
  <2>8. t.for = code.for /\ t.email = code.email
    BY <2>3, <2>6 DEF Code
  <2> QED BY <2>1, <2>7, <2>8
<1>5. Tried(c) = [codes EXCEPT ![c] = t]
  BY <1>1, <1>2 DEF Tried
<1>6. Tried(c) \in [1 .. n -> Code]
  BY <1>1, <1>3, <1>4, <1>5
<1>7. Tried(c) \in Seq(Code)
  BY <1>6
<1> QED BY <1>1, <1>3, <1>4, <1>5, <1>7 DEF Renders

\* A list that renders the codes grows them, with a new code at its end or without.
LEMMA RenderedGrows ==
  ASSUME NEW list, Renders(list), codes' = list PROVE CodesGrow
BY DEF CodesGrow, Renders

\* Mailing a code grows the list that renders the others.
LEMMA MailGrows ==
  ASSUME codes \in Seq(Code), NEW list, Renders(list), NEW e \in Emails,
         NEW u \in TelegramUsers \cup {Nobody}, Mail(list, e, u)
  PROVE  CodesGrow
<1>1. NewCode(e, u) \in Code
  BY DEF NewCode, Code
<1>2. codes' = Append(list, NewCode(e, u)) /\ list \in Seq(Code) /\ DOMAIN list = DOMAIN codes
  BY DEF Mail, Renders
<1>3. codes' \in Seq(Code)
  BY <1>1, <1>2
<1>4. \A c \in DOMAIN list : c \in DOMAIN codes' /\ codes'[c] = list[c]
  BY <1>1, <1>2
<1> QED BY <1>2, <1>3, <1>4 DEF CodesGrow, Renders

\* The codes as they are render themselves.
LEMMA CodesRender ==
  ASSUME codes \in Seq(Code) PROVE Renders(codes)
BY DEF Renders
-----------------------------------------------------------------------------
(* Steps.                                                                  *)

\* What a linker has behind it stays behind it.
LEMMA SoundStays ==
  ASSUME CodesGrow, proven \subseteq proven', NEW s, Sound(s) PROVE Sound(s)'
BY DEF CodesGrow, Sound, Addressed

\* The linkers stand while the rest moves.
LEMMA OthersKeep ==
  ASSUME IInv, IdShape', CodesGrow, DataShape', LoginShape', Tables', proven \subseteq proven',
         linker' = linker
  PROVE  IInv'
<1>1. LinkerShape' /\ codes' \in Seq(Code)
  BY DEF IInv, Shape, LinkerShape, CodesGrow
<1>2. ASSUME NEW l \in Linkers PROVE Sound(linker[l])'
  <2>1. PICK s : s = linker[l]
    OBVIOUS
  <2>2. Sound(s)'
    BY <2>1, SoundStays DEF IInv
  <2> QED BY <2>1, <2>2
<1> QED BY <1>1, <1>2 DEF IInv, Shape

\* One linker takes a step into q.
LEMMA LinkerKeeps ==
  ASSUME IInv, IdShape', CodesGrow, DataShape', LoginShape', Tables', proven \subseteq proven',
         NEW l \in Linkers, NEW q, linker' = [linker EXCEPT ![l] = q], WellFormed(q), Sound(q)'
  PROVE  IInv'
<1>1. /\ DOMAIN linker' = Linkers /\ linker'[l] = q
      /\ \A m \in Linkers \ {l} : linker'[m] = linker[m]
  BY DEF IInv, Shape, LinkerShape
<1>2. LinkerShape' /\ codes' \in Seq(Code)
  BY <1>1 DEF IInv, Shape, LinkerShape, CodesGrow
<1>3. ASSUME NEW m \in Linkers PROVE Sound(linker[m])'
  <2>1. CASE m = l
    BY <1>1, <2>1
  <2>2. CASE m # l
    <3>1. PICK s : s = linker[m]
      OBVIOUS
    <3>2. Sound(s) /\ linker'[m] = s
      BY <1>1, <2>2, <3>1 DEF IInv
    <3>3. Sound(s)'
      BY <3>2, SoundStays
    <3> QED BY <3>2, <3>3
  <2> QED BY <2>1, <2>2
<1> QED BY <1>2, <1>3 DEF IInv, Shape
-----------------------------------------------------------------------------
(* The world.                                                              *)

\* Tables that nobody touches say the same.
LEMMA TablesStay ==
  ASSUME Tables, UNCHANGED <<owner, inviter, billed, sub>>, discarded' = discarded,
         proven \subseteq proven'
  PROVE  Tables'
BY DEF Tables, LinkedIsProven, FactsHaveRows, NobodyInvitesThemselves

\* Only codes move.
LEMMA CodesMove ==
  ASSUME IInv, CodesGrow, UNCHANGED <<cast, identityVars, dataVars, linker, login, historyVars, credits>>,
         faults' \in Nat
  PROVE  IInv'
<1>1. IdShape' /\ DataShape' /\ LoginShape'
  BY DEF IInv, Shape, IdShape, Identities, DataShape, LoginShape, identityVars, dataVars
<1>2. Tables'
  BY TablesStay DEF IInv, identityVars, dataVars, historyVars
<1> QED BY <1>1, <1>2, OthersKeep DEF historyVars

\* Who takes part.
LEMMA TakingPart ==
  ASSUME IInv
  PROVE  /\ cast.users \subseteq TelegramUsers /\ cast.emails \subseteq Emails
         /\ cast.inviters \subseteq Accounts /\ cast.payments \subseteq Payments
         /\ cast.linkers \subseteq Linkers /\ cast.logins \subseteq Logins
         /\ cast.vias \subseteq {"bot", "api"}
<1>1. cast \in Cast
  BY AccountsAssumption DEF IInv, Shape, IdShape
<1> QED BY <1>1 DEF Cast

\* Whose codes are in circulation.
LEMMA InvitationsAreOfAccounts ==
  ASSUME IInv
  PROVE  /\ Invitations \subseteq Accounts \cup {Nobody}
         /\ \A u \in TelegramUsers : identities[u] = Nobody => u \notin Invitations
<1>1. Invitations \subseteq Accounts \cup {Nobody}
  BY TakingPart DEF Invitations
<1>2. ASSUME NEW u \in TelegramUsers, identities[u] = Nobody, u \in Invitations PROVE FALSE
  <2>1. u # Nobody /\ u \notin Emails
    BY AccountsAssumption DEF Ids
  <2>2. PICK i \in Ids : identities[i] = u
    BY <1>2, <2>1 DEF Invitations
  <2>3. i \notin WebIds
    BY <2>1, <2>2 DEF IInv, Shape, IdShape, Identities
  <2>4. i = u
    BY <2>1, <2>2, <2>3 DEF Ids, IInv, Shape, IdShape, Identities
  <2> QED BY <1>2, <2>1, <2>2, <2>4
<1> QED BY <1>1, <1>2

\* Newcomers, payments, commissions, lapses and logouts.
LEMMA WorldKeeps ==
  ASSUME IInv,
         \/ \E u \in cast.users : Bootstrap(u)
         \/ \E p \in cast.payments : Paid(p) \/ \E id \in cast.users \cup WebIds : Invoice(p, id)
         \/ \E a \in Accounts : Lapse(a) \/ Credit(a)
         \/ \E session \in sessions : Logout(session)
  PROVE  IInv'
<1> USE DEF IInv, Shape
<1>1. ASSUME NEW u \in cast.users, Bootstrap(u) PROVE IInv'
  <2>1. u \in TelegramUsers /\ u \in Ids /\ u \in Accounts /\ u # Nobody
    BY TakingPart, AccountsAssumption DEF Ids, Accounts
  <2>2. PICK r \in Invitations : inviter' = [inviter EXCEPT ![u] = r]
    BY <1>1 DEF Bootstrap
  <2>3. r \in Accounts \cup {Nobody} /\ r # u
    BY <1>1, <2>1, InvitationsAreOfAccounts DEF Bootstrap
  <2>4. Identities'
    BY <1>1, <2>1, AccountsAssumption DEF Bootstrap, IdShape, Identities
  <2>5. IdShape'
    BY <1>1, <2>4 DEF Bootstrap, IdShape
  <2>6. DataShape' /\ LoginShape' /\ CodesGrow
    BY <1>1, <2>2, <2>3, CodesRender, RenderedGrows DEF Bootstrap, DataShape, LoginShape, countVars
  <2>7. Tables'
    BY <1>1, <2>2, <2>3
       DEF Bootstrap, DataShape, Tables, LinkedIsProven, FactsHaveRows, NobodyInvitesThemselves, historyVars
  <2> QED BY <1>1, <2>5, <2>6, <2>7, OthersKeep DEF Bootstrap, historyVars
<1>2. ASSUME NEW p \in cast.payments, Paid(p) PROVE IInv'
  <2>1. p \in Payments /\ payer[p] \in Accounts
    BY <1>2, TakingPart DEF Paid, DataShape
  <2>2. IdShape' /\ DataShape' /\ LoginShape' /\ CodesGrow
    BY <1>2, <2>1, CodesRender, RenderedGrows
       DEF Paid, IdShape, Identities, DataShape, LoginShape, countVars, States
  <2>3. Tables'
    BY <1>2, <2>1
       DEF Paid, DataShape, Tables, LinkedIsProven, FactsHaveRows, NobodyInvitesThemselves, historyVars
  <2> QED BY <1>2, <2>2, <2>3, OthersKeep DEF Paid, historyVars
<1>3. ASSUME NEW p \in cast.payments, NEW id \in cast.users \cup WebIds, Invoice(p, id) PROVE IInv'
  <2>1. p \in Payments /\ id \in Ids /\ identities[id] \in Accounts
    BY <1>3, TakingPart DEF Invoice, Ids, Accounts, IdShape, Identities
  <2>2. IdShape' /\ DataShape' /\ LoginShape' /\ CodesGrow
    BY <1>3, <2>1, CodesRender, RenderedGrows
       DEF Invoice, IdShape, Identities, DataShape, LoginShape, countVars
  <2>3. Tables'
    BY <1>3, TablesStay DEF Invoice, historyVars
  <2> QED BY <1>3, <2>2, <2>3, OthersKeep DEF Invoice, historyVars
<1>4. ASSUME NEW a \in Accounts, Lapse(a) PROVE IInv'
  <2>1. IdShape' /\ DataShape' /\ LoginShape' /\ CodesGrow
    BY <1>4, CodesRender, RenderedGrows
       DEF Lapse, IdShape, Identities, DataShape, LoginShape, States
  <2>2. Tables'
    BY <1>4 DEF Lapse, DataShape, Tables, LinkedIsProven, FactsHaveRows, NobodyInvitesThemselves, historyVars
  <2> QED BY <1>4, <2>1, <2>2, OthersKeep DEF Lapse, historyVars
<1>5. ASSUME NEW a \in Accounts, Credit(a) PROVE IInv'
  <2>1. IdShape' /\ DataShape' /\ LoginShape' /\ CodesGrow
    BY <1>5, CodesRender, RenderedGrows
       DEF Credit, IdShape, Identities, DataShape, LoginShape
  <2>2. Tables'
    BY <1>5, TablesStay DEF Credit, historyVars
  <2> QED BY <1>5, <2>1, <2>2, OthersKeep DEF Credit, historyVars
<1>6. ASSUME NEW session \in sessions, Logout(session) PROVE IInv'
  <2>1. IdShape' /\ DataShape' /\ LoginShape' /\ CodesGrow
    BY <1>6, CodesRender, RenderedGrows
       DEF Logout, IdShape, Identities, DataShape, LoginShape, dataVars, countVars
  <2>2. Tables'
    BY <1>6, TablesStay DEF Logout, historyVars, dataVars
  <2> QED BY <1>6, <2>1, <2>2, OthersKeep DEF Logout, historyVars
<1> QED BY <1>1, <1>2, <1>3, <1>4, <1>5, <1>6

\* Codes mailed, given up and run out.
LEMMA CodesKeep ==
  ASSUME IInv,
         \/ \E u \in cast.users : StartLinking(u) \/ ResendCode(u)
         \/ \E c \in DOMAIN codes : Expire(c)
         \/ \E e \in cast.emails : SendLoginCode(e)
         \/ \E u \in cast.users, e \in cast.emails : AskLink(u, e) \/ AskLinkByApi(u, e)
  PROVE  IInv'
<1>1. codes \in Seq(Code) /\ faults \in Nat
  BY DEF IInv, Shape, DataShape
<1>2. ASSUME NEW u \in cast.users, StartLinking(u) PROVE IInv'
  <2>1. CodesGrow
    BY <1>1, <1>2, RetiredRenders, RenderedGrows DEF StartLinking
  <2> QED BY <1>1, <1>2, <2>1, CodesMove DEF StartLinking, countVars
<1>3. ASSUME NEW u \in cast.users, ResendCode(u) PROVE IInv'
  <2> DEFINE c == Latest(LinkCodes(u))
             e == codes[c].email
             list == Retired(LinkCodesOf(u, e), "used")
  <2>1. PICK n \in Nat : DOMAIN codes = 1 .. n
    BY <1>1
  <2>2. c \in LinkCodes(u)
    BY <1>3, <2>1, LatestIsOneOfThem DEF ResendCode, LinkCodes
  <2>3. e \in Emails
    <3>1. c \in DOMAIN codes
      BY <2>2 DEF LinkCodes
    <3>2. codes[c] \in Code
      BY <1>1, <3>1
    <3> QED BY <3>2 DEF Code
  <2>4. Renders(list)
    BY <1>1, RetiredRenders
  <2>5. u \in TelegramUsers
    BY TakingPart
  <2>6. Mail(list, e, u) \/ codes' = list
    BY <1>3 DEF ResendCode
  <2>7. CodesGrow
    <3> HIDE DEF list, e
    <3> QED BY <1>1, <2>3, <2>4, <2>5, <2>6, MailGrows, RenderedGrows
  <2> QED BY <1>1, <1>3, <2>7, CodesMove DEF ResendCode, countVars
<1>4. ASSUME NEW c \in DOMAIN codes, Expire(c) PROVE IInv'
  <2>1. CodesGrow
    BY <1>1, <1>4, RetiredRenders, RenderedGrows DEF Expire
  <2> QED BY <1>1, <1>4, <2>1, CodesMove DEF Expire, identityVars
<1>5. ASSUME NEW e \in cast.emails, SendLoginCode(e) PROVE IInv'
  <2> DEFINE list == Retired({c \in DOMAIN codes : codes[c].email = e /\ codes[c].for = Nobody}, "gone")
  <2>1. Renders(list)
    BY <1>1, RetiredRenders
  <2>2. Mail(list, e, Nobody) /\ e \in Emails
    BY <1>5, TakingPart DEF SendLoginCode
  <2>3. CodesGrow
    <3> HIDE DEF list
    <3> QED BY <1>1, <2>1, <2>2, MailGrows
  <2> QED BY <1>1, <1>5, <2>3, CodesMove DEF SendLoginCode, countVars
<1>6. ASSUME NEW u \in cast.users, NEW e \in cast.emails, AskLink(u, e) \/ AskLinkByApi(u, e) PROVE IInv'
  <2>1. Mail(codes, e, u) /\ e \in Emails /\ u \in TelegramUsers
    BY <1>6, TakingPart DEF AskLink, AskLinkByApi
  <2>2. CodesGrow
    BY <1>1, <2>1, CodesRender, MailGrows
  <2> QED BY <1>1, <1>6, <2>2, CodesMove DEF AskLink, AskLinkByApi, countVars
<1> QED BY <1>2, <1>3, <1>4, <1>5, <1>6
-----------------------------------------------------------------------------
(* Logins.                                                                 *)

\* A login takes a step into q that touches no account.
LEMMA LoginMoves ==
  ASSUME IInv, CodesGrow, NEW k \in Logins, NEW q, login' = [login EXCEPT ![k] = q], LoginWellFormed(q),
         UNCHANGED <<cast, identities, owner, nextId, dataVars, linker, credits, historyVars>>,
         sessions' \subseteq Ids \X Emails, faults' \in Nat
  PROVE  IInv'
<1>1. IdShape' /\ DataShape' /\ LoginShape'
  BY DEF IInv, Shape, IdShape, Identities, DataShape, LoginShape, dataVars
<1>2. Tables'
  BY TablesStay DEF IInv, dataVars, historyVars
<1> QED BY <1>1, <1>2, OthersKeep DEF historyVars

\* Every statement of a login, and its end at any point.
LEMMA LoginsKeep ==
  ASSUME IInv,
         \/ \E k \in cast.logins, e \in cast.emails : \E text \in LoginTexts(e) : TypeLoginCode(k, e, text)
         \/ \E k \in cast.logins : LoginStep(k) \/ LoginCrash(k)
  PROVE  IInv'
<1> USE DEF IInv, Shape
<1>1. codes \in Seq(Code) /\ sessions \subseteq Ids \X Emails /\ credits \in Nat /\ faults \in Nat
  BY DEF IdShape, DataShape
<1>2. LoginWellFormed(NoLogin)
  BY DEF LoginWellFormed, NoLogin, LoginFields
<1>3. ASSUME NEW k \in cast.logins, NEW e \in cast.emails, NEW text \in LoginTexts(e), TypeLoginCode(k, e, text)
      PROVE  IInv'
  <2> DEFINE c == Latest(AuthCodes(e))
  <2>1. k \in Logins /\ e \in Emails
    BY TakingPart
  <2>2. PICK n \in Nat : DOMAIN codes = 1 .. n
    BY <1>1
  <2>3. c \in DOMAIN codes
    <3>1. AuthCodes(e) # {}
      BY <1>3 DEF TypeLoginCode, Latest
    <3>2. AuthCodes(e) \subseteq 1 .. n
      BY <2>2 DEF AuthCodes
    <3> QED BY <2>2, <3>1, <3>2, LatestIsOneOfThem
  <2>4. CodesGrow
    BY <1>1, <1>3, <2>3, TriedRenders, RenderedGrows DEF TypeLoginCode
  <2>5. PICK q : q = IF text # c THEN NoLogin ELSE [NoLogin EXCEPT !.pc = "spend", !.email = e, !.row = c]
    OBVIOUS
  <2>6. LoginWellFormed(q)
    BY <1>2, <2>1, <2>5 DEF LoginWellFormed, NoLogin, LoginFields
  <2>7. login' = [login EXCEPT ![k] = q]
    BY <1>3, <2>5 DEF TypeLoginCode
  <2> QED BY <1>1, <1>3, <2>1, <2>4, <2>6, <2>7, LoginMoves DEF TypeLoginCode, identityVars, countVars
<1>4. ASSUME NEW k \in cast.logins, SpendCode(k) PROVE IInv'
  <2>1. PICK s : s = login[k]
    OBVIOUS
  <2>2. PICK q : q = [s EXCEPT !.pc = "find"]
    OBVIOUS
  <2>3. k \in Logins /\ LoginWellFormed(s) /\ s.pc = "spend"
    BY <1>4, <2>1, TakingPart DEF LoginShape, SpendCode
  <2>4. LoginWellFormed(q)
    BY <2>2, <2>3 DEF LoginWellFormed, LoginFields
  <2>5. login' = [login EXCEPT ![k] = q]
    BY <1>4, <2>1, <2>2 DEF SpendCode
  <2>6. CodesGrow
    BY <1>1, <1>4, RetiredRenders, RenderedGrows DEF SpendCode
  <2> QED BY <1>1, <1>4, <2>3, <2>4, <2>5, <2>6, LoginMoves DEF SpendCode, identityVars, countVars
<1>5. ASSUME NEW k \in cast.logins, FindOwner(k) PROVE IInv'
  <2>1. PICK s : s = login[k]
    OBVIOUS
  <2>2. k \in Logins /\ LoginWellFormed(s) /\ s.pc = "find" /\ s.email \in Emails
    BY <1>5, <2>1, TakingPart DEF LoginShape, FindOwner, LoginWellFormed
  <2>3. PICK q : q = [s EXCEPT !.pc = "draw"]
    OBVIOUS
  <2>4. LoginWellFormed(q)
    BY <2>2, <2>3 DEF LoginWellFormed, LoginFields
  <2>5. CodesGrow
    BY <1>1, <1>5, CodesRender, RenderedGrows DEF FindOwner
  <2>6. owner[s.email] \in Ids \cup {Nobody}
    BY <2>2 DEF IdShape
  <2>7. CASE owner[s.email] # Nobody
    <3>1. sessions' \subseteq Ids \X Emails /\ login' = [login EXCEPT ![k] = NoLogin]
      BY <1>1, <1>5, <2>1, <2>2, <2>6, <2>7 DEF FindOwner
    <3> QED BY <1>1, <1>2, <1>5, <2>2, <2>5, <3>1, LoginMoves DEF FindOwner, countVars
  <2>8. CASE owner[s.email] = Nobody
    <3>1. sessions' = sessions /\ login' = [login EXCEPT ![k] = q]
      BY <1>5, <2>1, <2>3, <2>8 DEF FindOwner
    <3> QED BY <1>1, <1>5, <2>2, <2>4, <2>5, <3>1, LoginMoves DEF FindOwner, countVars
  <2> QED BY <2>7, <2>8
<1>6. ASSUME NEW k \in cast.logins, DrawId(k) PROVE IInv'
  <2>1. PICK s : s = login[k]
    OBVIOUS
  <2>2. k \in Logins /\ LoginWellFormed(s) /\ s.email \in Emails
    BY <1>6, <2>1, TakingPart DEF LoginShape, DrawId, LoginWellFormed
  <2>3. PICK q : q = [s EXCEPT !.pc = "email", !.id = nextId]
    OBVIOUS
  <2>4. nextId \in WebIds /\ nextId + 1 \in Nat \ {0}
    BY <1>6, AccountsAssumption DEF DrawId, IdShape, WebIds
  <2>5. LoginWellFormed(q) /\ login' = [login EXCEPT ![k] = q]
    BY <1>6, <2>1, <2>2, <2>3, <2>4 DEF LoginWellFormed, LoginFields, DrawId
  <2>6. Identities'
    <3>1. identities' = identities \/ identities' = [identities EXCEPT ![nextId] = s.email]
      BY <1>6, <2>1 DEF DrawId, NewIdentity
    <3>2. nextId \notin TelegramUsers
      BY <2>4, AccountsAssumption
    <3> QED BY <2>2, <2>4, <3>1, <3>2 DEF IdShape, Identities, Ids
  <2>7. IdShape'
    BY <1>6, <2>4, <2>6 DEF IdShape, DrawId
  <2>8. DataShape' /\ LoginShape' /\ CodesGrow
    BY <1>6, <2>2, <2>5, CodesRender, RenderedGrows DEF DataShape, LoginShape, DrawId, dataVars, countVars
  <2>9. Tables'
    BY <1>6, TablesStay DEF DrawId, dataVars, historyVars
  <2> QED BY <1>6, <2>7, <2>8, <2>9, OthersKeep DEF DrawId, historyVars
<1>7. ASSUME NEW k \in cast.logins, OwnEmail(k) PROVE IInv'
  <2>1. PICK s : s = login[k]
    OBVIOUS
  <2>2. k \in Logins /\ LoginWellFormed(s) /\ s.email \in Emails /\ s.id \in WebIds
    BY <1>7, <2>1, TakingPart DEF LoginShape, OwnEmail, LoginWellFormed
  <2>3. s.id \in Ids /\ s.id \notin TelegramUsers
    BY <2>2, AccountsAssumption DEF Ids
  <2>4. PICK q : q = [s EXCEPT !.pc = "invite"]
    OBVIOUS
  <2>5. LoginWellFormed(q)
    BY <2>2, <2>4 DEF LoginWellFormed, LoginFields
  <2>6. /\ owner' \in {owner, [owner EXCEPT ![s.email] = s.id]}
        /\ login' \in {[login EXCEPT ![k] = NoLogin], [login EXCEPT ![k] = q]}
        /\ UNCHANGED <<cast, identities, nextId, sessions, codes, dataVars, linker, countVars, historyVars>>
    BY <1>7, <2>1, <2>4 DEF OwnEmail
  <2>7. IdShape' /\ DataShape'
    BY <2>2, <2>3, <2>6 DEF IdShape, Identities, DataShape, dataVars, countVars
  <2>8. LoginShape' /\ CodesGrow
    BY <1>2, <2>2, <2>5, <2>6, CodesRender, RenderedGrows DEF LoginShape
  <2>9. Tables'
    <3>1. LinkedIsProven'
      BY <2>2, <2>3, <2>6 DEF Tables, LinkedIsProven, IdShape, historyVars
    <3>2. FactsHaveRows' /\ NobodyInvitesThemselves'
      BY <2>6 DEF Tables, FactsHaveRows, NobodyInvitesThemselves, dataVars, historyVars
    <3> QED BY <3>1, <3>2 DEF Tables
  <2> QED BY <2>6, <2>7, <2>8, <2>9, OthersKeep DEF historyVars
<1>8. ASSUME NEW k \in cast.logins, ApplyReferral(k) PROVE IInv'
  <2>1. PICK s : s = login[k]
    OBVIOUS
  <2>2. k \in Logins /\ s.email \in Emails /\ s.id \in WebIds
    BY <1>8, <2>1, TakingPart DEF LoginShape, ApplyReferral, LoginWellFormed
  <2>3. s.id \in Ids /\ s.email \in Accounts
    BY <2>2, AccountsAssumption DEF Ids, Accounts
  <2>4. PICK r \in (Invitations \ {s.email}) \cup {Nobody} :
          /\ sessions' = sessions \cup {<<s.id, s.email>>}
          /\ inviter' = [inviter EXCEPT ![s.email] = IF @ = Nobody THEN r ELSE @]
    BY <1>8, <2>1 DEF ApplyReferral
  <2>5. r \in Accounts \cup {Nobody} /\ r # s.email
    BY <2>3, <2>4, InvitationsAreOfAccounts, AccountsAssumption
  <2>6. IdShape'
    BY <1>8, <2>2, <2>3, <2>4 DEF ApplyReferral, IdShape, Identities
  <2>7. DataShape'
    BY <1>8, <2>3, <2>4, <2>5 DEF ApplyReferral, DataShape, countVars
  <2>8. LoginShape' /\ CodesGrow
    BY <1>2, <1>8, <2>2, CodesRender, RenderedGrows DEF ApplyReferral, LoginShape
  <2>9. Tables'
    <3>1. LinkedIsProven' /\ FactsHaveRows'
      BY <1>8 DEF ApplyReferral, Tables, LinkedIsProven, FactsHaveRows, historyVars
    <3>2. NobodyInvitesThemselves'
      BY <2>3, <2>4, <2>5 DEF Tables, NobodyInvitesThemselves, DataShape
    <3> QED BY <3>1, <3>2 DEF Tables
  <2> QED BY <1>8, <2>6, <2>7, <2>8, <2>9, OthersKeep DEF ApplyReferral, historyVars
<1>9. ASSUME NEW k \in cast.logins, LoginCrash(k) PROVE IInv'
  <2>1. k \in Logins
    BY TakingPart
  <2>2. CodesGrow
    BY <1>1, <1>9, CodesRender, RenderedGrows DEF LoginCrash
  <2>3. /\ login' = [login EXCEPT ![k] = NoLogin]
        /\ UNCHANGED <<cast, identities, owner, nextId, dataVars, linker, credits, historyVars>>
        /\ sessions' \subseteq Ids \X Emails /\ faults' \in Nat
    BY <1>1, <1>9 DEF LoginCrash, identityVars
  <2> QED BY <1>2, <2>1, <2>2, <2>3, LoginMoves
<1> QED BY <1>3, <1>4, <1>5, <1>6, <1>7, <1>8, <1>9 DEF LoginStep
-----------------------------------------------------------------------------
(* Linking.                                                                *)

\* A linker takes a step into q that touches no account.
LEMMA LinkerMoves ==
  ASSUME IInv, CodesGrow, proven \subseteq proven', NEW l \in Linkers, NEW q,
         linker' = [linker EXCEPT ![l] = q], WellFormed(q), Sound(q)',
         UNCHANGED <<cast, identityVars, dataVars, login, credits, discarded>>, faults' \in Nat
  PROVE  IInv'
<1>1. IdShape' /\ DataShape' /\ LoginShape'
  BY DEF IInv, Shape, IdShape, Identities, DataShape, LoginShape, identityVars, dataVars
<1>2. Tables'
  BY TablesStay DEF IInv, identityVars, dataVars
<1> QED BY <1>1, <1>2, LinkerKeeps

\* A linker that is done has nothing to keep.
LEMMA DoneIsSound == WellFormed(NoLinker) /\ Sound(NoLinker)'
BY DEF WellFormed, Sound, NoLinker, LinkerFields, States, Plans

\* Typing a code, and comparing it.
LEMMA TypingKeeps ==
  ASSUME IInv, NEW l \in cast.linkers,
         \/ \E u \in cast.users, e \in cast.emails, text \in LinkTexts, via \in cast.vias :
              TypeCode(l, u, e, text, via)
         \/ Check(l)
         \/ Use(l)
  PROVE  IInv'
<1> USE DEF IInv, Shape
<1>1. codes \in Seq(Code) /\ credits \in Nat /\ faults \in Nat /\ l \in Linkers
  BY TakingPart DEF DataShape
<1>2. PICK n \in Nat : DOMAIN codes = 1 .. n
  BY <1>1
<1>3. PICK s : s = linker[l]
  OBVIOUS
<1>4. WellFormed(s) /\ Sound(s)
  BY <1>1, <1>3 DEF LinkerShape
<1>5. ASSUME NEW u \in cast.users, NEW e \in cast.emails, NEW text \in LinkTexts, NEW via \in cast.vias,
             TypeCode(l, u, e, text, via)
      PROVE  IInv'
  <2> DEFINE c == IF via = "bot" THEN Latest(LinkCodes(u)) ELSE Latest(ApiCodes(e))
  <2>1. u \in TelegramUsers /\ e \in Emails /\ via \in {"bot", "api"}
    BY TakingPart
  <2>2. text \in Nat
    BY <1>2 DEF LinkTexts
  <2>3. c # 0 /\ codes[c].email = e
    BY <1>5 DEF TypeCode
  <2>4. c \in 1 .. n
    <3>1. LinkCodes(u) \subseteq 1 .. n /\ ApiCodes(e) \subseteq 1 .. n
      BY <1>2 DEF LinkCodes, ApiCodes
    <3>2. CASE via = "bot"
      <4>1. LinkCodes(u) # {}
        BY <2>3, <3>2 DEF Latest
      <4> QED BY <3>1, <3>2, <4>1, LatestIsOneOfThem
    <3>3. CASE via # "bot"
      <4>1. ApiCodes(e) # {}
        BY <2>3, <3>3 DEF Latest
      <4> QED BY <3>1, <3>3, <4>1, LatestIsOneOfThem
    <3> QED BY <3>2, <3>3
  <2>5. PICK d : d = c
    OBVIOUS
  <2>6. PICK q : q = [NoLinker EXCEPT !.pc = "check", !.via = via, !.user = u, !.email = e,
                                      !.text = text, !.row = IF via = "bot" THEN 0 ELSE d]
    OBVIOUS
  <2>7. WellFormed(q) /\ q.pc = "check" /\ q.via = via /\ q.user = u /\ q.email = e
        /\ (via # "bot" => q.row = d)
    BY <2>1, <2>2, <2>4, <2>5, <2>6 DEF WellFormed, NoLinker, LinkerFields, States, Plans
  <2>8. via # "bot" => codes[d].for = u
    BY <1>5, <2>1, <2>5 DEF TypeCode
  <2>9. codes' = codes /\ linker' = [linker EXCEPT ![l] = q]
    BY <1>5, <2>5, <2>6 DEF TypeCode
  <2>10. Sound(q)'
    BY <1>2, <2>3, <2>4, <2>5, <2>7, <2>8, <2>9 DEF Sound, Addressed
  <2>11. CodesGrow
    BY <1>1, <2>9, CodesRender, RenderedGrows
  <2> QED BY <1>1, <1>5, <2>7, <2>9, <2>10, <2>11, LinkerMoves DEF TypeCode, countVars, historyVars
<1>6. ASSUME Check(l) PROVE IInv'
  <2>1. PICK c : c = Compared(l)
    OBVIOUS
  <2>2. s.pc = "check" /\ s.user \in TelegramUsers /\ s.email \in Emails
    BY <1>3, <1>4, <1>6 DEF Check, At, WellFormed
  <2>3. UNCHANGED <<cast, identityVars, dataVars, login, credits, historyVars>> /\ faults' \in Nat
    BY <1>1, <1>6 DEF Check, countVars
  <2>4. CASE c = 0
    <3>1. codes' = codes /\ linker' = [linker EXCEPT ![l] = NoLinker]
      BY <1>6, <2>1, <2>4 DEF Check, End
    <3>2. CodesGrow
      BY <1>1, <3>1, CodesRender, RenderedGrows
    <3> QED BY <1>1, <2>3, <3>1, <3>2, DoneIsSound, LinkerMoves DEF historyVars
  <2>5. CASE c # 0
    <3>1. Addressed(s, c)
      <4>1. CASE s.via = "api"
        BY <1>3, <1>4, <2>1, <2>2, <4>1 DEF Compared, Sound
      <4>2. CASE s.via # "api"
        <5>1. LinkCodesOf(s.user, s.email) # {} /\ LinkCodesOf(s.user, s.email) \subseteq 1 .. n
          BY <1>2, <1>3, <2>1, <2>5, <4>2 DEF Compared, Latest, LinkCodesOf, LinkCodes
        <5>2. c \in LinkCodesOf(s.user, s.email)
          BY <1>3, <2>1, <4>2, <5>1, LatestIsOneOfThem DEF Compared
        <5> QED BY <5>2 DEF LinkCodesOf, LinkCodes, Addressed
      <4> QED BY <4>1, <4>2
    <3>2. codes' = Tried(c)
      BY <1>6, <2>1, <2>5 DEF Check
    <3>3. CodesGrow
      BY <1>1, <3>1, <3>2, TriedRenders, RenderedGrows DEF Addressed
    <3>4. CASE ~ Matches(l, c)
      <4>1. linker' = [linker EXCEPT ![l] = NoLinker]
        BY <1>6, <2>1, <2>5, <3>4 DEF Check, End
      <4> QED BY <1>1, <2>3, <3>3, <4>1, DoneIsSound, LinkerMoves DEF historyVars
    <3>5. CASE Matches(l, c)
      <4>1. PICK q : q = [s EXCEPT !.pc = "use", !.row = c]
        OBVIOUS
      <4>2. c \in Nat
        BY <1>2, <3>1 DEF Addressed
      <4>3. /\ WellFormed(q) /\ q.pc = "use" /\ q.row = c
            /\ q.user = s.user /\ q.email = s.email /\ q.text = s.text
        BY <1>4, <2>2, <4>1, <4>2 DEF WellFormed, LinkerFields
      <4>4. linker' = [linker EXCEPT ![l] = q]
        BY <1>1, <1>3, <1>6, <2>1, <2>5, <3>5, <4>1 DEF Check, LinkerShape
      <4>5. s.text = c
        BY <1>3, <3>5 DEF Matches
      <4>6. Addressed(q, c) /\ Addressed(q, c)'
        BY <3>1, <3>3, <4>3 DEF Addressed, CodesGrow
      <4>7. Sound(q)'
        BY <4>3, <4>5, <4>6 DEF Sound
      <4> QED BY <1>1, <2>3, <3>3, <4>3, <4>4, <4>7, LinkerMoves DEF historyVars
    <3> QED BY <3>4, <3>5
  <2> QED BY <2>4, <2>5
<1>7. ASSUME Use(l) PROVE IInv'
  <2>1. s.pc = "use"
    BY <1>3, <1>7 DEF Use, At
  <2>2. Addressed(s, s.text)
    BY <1>4, <2>1 DEF Sound
  <2>3. proven' = proven \cup {<<s.user, s.email>>}
    BY <1>3, <1>7, <2>2 DEF Use, Addressed
  <2>4. PICK q : q = [s EXCEPT !.pc = "drop"]
    OBVIOUS
  <2>5. WellFormed(q) /\ q.pc = "drop" /\ q.user = s.user /\ q.email = s.email
    BY <1>4, <2>1, <2>4 DEF WellFormed, LinkerFields
  <2>6. Sound(q)'
    BY <2>3, <2>5 DEF Sound
  <2>7. linker' = [linker EXCEPT ![l] = q]
    BY <1>1, <1>3, <1>7, <2>4 DEF Use, Goto, LinkerShape
  <2>8. CodesGrow
    BY <1>1, <1>7, RetiredRenders, RenderedGrows DEF Use, Spent
  <2> QED BY <1>1, <1>7, <2>3, <2>5, <2>6, <2>7, <2>8, LinkerMoves DEF Use, countVars
<1> QED BY <1>5, <1>6, <1>7
\* The statements on email rows, and the end at any point.
LEMMA RowsKeep ==
  ASSUME IInv, NEW l \in cast.linkers,
         Drop(l) \/ Insert(l) \/ RevokeWebKeys(l) \/ LookAtRow(l) \/ CreateKeys(l) \/ LinkerCrash(l)
  PROVE  IInv'
<1> USE DEF IInv, Shape
<1>1. codes \in Seq(Code) /\ credits \in Nat /\ faults \in Nat /\ l \in Linkers
  BY TakingPart DEF DataShape
<1>2. PICK s : s = linker[l]
  OBVIOUS
<1>3. WellFormed(s) /\ Sound(s)
  BY <1>1, <1>2 DEF LinkerShape
<1>4. ASSUME NEW pc, Goto(l, pc), s.pc # "idle"
      PROVE  \E q : /\ linker' = [linker EXCEPT ![l] = q]
                    /\ WellFormed(q) /\ q.pc = pc /\ q.user = s.user /\ q.email = s.email
  <2>1. PICK q : q = [s EXCEPT !.pc = pc]
    OBVIOUS
  <2>2. linker' = [linker EXCEPT ![l] = q]
    BY <1>1, <1>2, <1>4, <2>1 DEF Goto, LinkerShape
  <2>3. WellFormed(q) /\ q.pc = pc /\ q.user = s.user /\ q.email = s.email
    BY <1>3, <1>4, <2>1 DEF WellFormed, LinkerFields
  <2> QED BY <2>2, <2>3
<1>5. ASSUME CodesGrow, IdShape', DataShape', LoginShape', Tables', proven' = proven, End(l) PROVE IInv'
  BY <1>1, <1>5, DoneIsSound, LinkerKeeps DEF End
<1>6. ASSUME NEW q, linker' = [linker EXCEPT ![l] = q], WellFormed(q), CodesGrow, IdShape', DataShape',
             LoginShape', Tables', proven' = proven,
             q.pc \in {"merge", "insert"} => <<q.user, q.email>> \in proven,
             q.pc \notin {"check", "use", "drop", "copy", "commit"}
      PROVE  IInv'
  <2>1. Sound(q)'
    BY <1>6 DEF Sound
  <2> QED BY <1>1, <1>6, <2>1, LinkerKeeps
<1>7. ASSUME Drop(l) PROVE IInv'
  <2>1. s.pc = "drop" /\ s.user \in TelegramUsers /\ <<s.user, s.email>> \in proven
    BY <1>2, <1>3, <1>7 DEF Drop, At, WellFormed, Sound
  <2>2. s.user \in Ids /\ s.user \notin WebIds
    BY <2>1, AccountsAssumption DEF Ids
  <2>3. Identities'
    <3>1. \/ identities' = identities
          \/ identities' = [identities EXCEPT ![s.user] = IF @ = Nobody THEN s.user ELSE @]
      BY <1>2, <1>7 DEF Drop
    <3>2. DOMAIN identities = Ids /\ identities[s.user] \in {s.user, Nobody}
      BY <2>1 DEF IdShape, Identities
    <3>3. DOMAIN identities' = Ids /\ identities'[s.user] \in {s.user, Nobody}
      BY <2>2, <3>1, <3>2
    <3>4. \A i \in Ids : i # s.user => identities'[i] = identities[i]
      BY <2>2, <3>1, <3>2
    <3> QED BY <2>2, <3>3, <3>4 DEF IdShape, Identities, Ids
  <2>4. IdShape'
    BY <1>2, <1>7, <2>3 DEF Drop, IdShape
  <2>5. DataShape' /\ LoginShape' /\ CodesGrow /\ proven' = proven
    BY <1>1, <1>7, CodesRender, RenderedGrows DEF Drop, DataShape, LoginShape, dataVars, countVars, historyVars
  <2>6. Tables'
    BY <1>2, <1>7, AccountsAssumption
       DEF Drop, Tables, LinkedIsProven, FactsHaveRows, NobodyInvitesThemselves, dataVars, historyVars, Ids
  <2>7. PICK pc \in {"merge", "insert"} : Goto(l, pc)
    BY <1>7 DEF Drop
  <2>8. PICK q : /\ linker' = [linker EXCEPT ![l] = q]
                 /\ WellFormed(q) /\ q.pc = pc /\ q.user = s.user /\ q.email = s.email
    BY <1>4, <2>1, <2>7, "drop" # "idle"
  <2> QED BY <1>6, <2>1, <2>4, <2>5, <2>6, <2>7, <2>8
<1>8. ASSUME Insert(l) PROVE IInv'
  <2>1. s.pc = "insert" /\ s.user \in TelegramUsers /\ s.email \in Emails /\ <<s.user, s.email>> \in proven
    BY <1>2, <1>3, <1>8 DEF Insert, At, WellFormed, Sound
  <2>2. owner' \in {owner, [owner EXCEPT ![s.email] = s.user]}
    BY <1>2, <1>8 DEF Insert, Owned
  <2>3. IdShape'
    BY <1>8, <2>1, <2>2 DEF Insert, IdShape, Identities, Ids
  <2>4. DataShape' /\ LoginShape' /\ CodesGrow /\ proven' = proven
    BY <1>1, <1>8, CodesRender, RenderedGrows DEF Insert, DataShape, LoginShape, dataVars, countVars, historyVars
  <2>5. Tables'
    <3>1. LinkedIsProven'
      BY <2>1, <2>2, <2>4 DEF Tables, LinkedIsProven, IdShape
    <3> QED BY <1>8, <3>1 DEF Insert, Tables, FactsHaveRows, NobodyInvitesThemselves, dataVars, historyVars
  <2>6. CASE End(l)
    BY <1>5, <2>3, <2>4, <2>5, <2>6
  <2>7. CASE ~ End(l)
    <3>1. PICK pc \in {"merge", "revoke"} : Goto(l, pc)
      BY <1>8, <2>7 DEF Insert
    <3>2. PICK q : /\ linker' = [linker EXCEPT ![l] = q]
                   /\ WellFormed(q) /\ q.pc = pc /\ q.user = s.user /\ q.email = s.email
      BY <1>4, <2>1, <3>1, "insert" # "idle"
    <3> QED BY <1>6, <2>1, <2>3, <2>4, <2>5, <3>1, <3>2
  <2> QED BY <2>6, <2>7
<1>9. ASSUME RevokeWebKeys(l) \/ LookAtRow(l) \/ CreateKeys(l) PROVE IInv'
  <2>1. s.pc \in {"revoke", "look", "create"} /\ s.user \in TelegramUsers /\ s.email \in Emails
    BY <1>2, <1>3, <1>9 DEF RevokeWebKeys, LookAtRow, CreateKeys, At, WellFormed
  <2>2. keys' \subseteq Accounts
    BY <1>2, <1>9, <2>1 DEF RevokeWebKeys, LookAtRow, CreateKeys, DataShape, Accounts, dataVars
  <2>3. IdShape' /\ DataShape' /\ LoginShape' /\ CodesGrow /\ proven' = proven
    BY <1>1, <1>9, <2>2, CodesRender, RenderedGrows
       DEF RevokeWebKeys, LookAtRow, CreateKeys, IdShape, Identities, DataShape, LoginShape,
           identityVars, dataVars, countVars, historyVars
  <2>4. Tables'
    BY <1>9, TablesStay DEF RevokeWebKeys, LookAtRow, CreateKeys, identityVars, dataVars, historyVars
  <2>5. CASE End(l)
    BY <1>5, <2>3, <2>4, <2>5
  <2>6. CASE ~ End(l)
    <3>1. PICK pc \in {"look", "create"} : Goto(l, pc)
      BY <1>9, <2>6 DEF RevokeWebKeys, LookAtRow, CreateKeys
    <3>2. PICK q : /\ linker' = [linker EXCEPT ![l] = q]
                   /\ WellFormed(q) /\ q.pc = pc /\ q.user = s.user /\ q.email = s.email
      BY <1>4, <2>1, <3>1
    <3> QED BY <1>6, <2>3, <2>4, <3>1, <3>2
  <2> QED BY <2>5, <2>6
<1>10. ASSUME LinkerCrash(l) PROVE IInv'
  <2>1. IdShape' /\ DataShape' /\ LoginShape' /\ CodesGrow /\ proven' = proven
    BY <1>1, <1>10, CodesRender, RenderedGrows
       DEF LinkerCrash, IdShape, Identities, DataShape, LoginShape, identityVars, dataVars, historyVars
  <2>2. Tables'
    BY <1>10, TablesStay DEF LinkerCrash, identityVars, dataVars, historyVars
  <2> QED BY <1>5, <1>10, <2>1, <2>2 DEF LinkerCrash
<1> QED BY <1>7, <1>8, <1>9, <1>10
-----------------------------------------------------------------------------
(* The merge.                                                              *)

\* Reading, and the writes that are not visible yet.
LEMMA MergingKeeps ==
  ASSUME IInv, NEW l \in cast.linkers, MergeRead(l) \/ MergeCopy(l) PROVE IInv'
<1> USE DEF IInv, Shape
<1>1. codes \in Seq(Code) /\ credits \in Nat /\ faults \in Nat /\ l \in Linkers
  BY TakingPart DEF DataShape
<1>2. PICK s : s = linker[l]
  OBVIOUS
<1>3. WellFormed(s) /\ Sound(s)
  BY <1>1, <1>2 DEF LinkerShape
<1>4. s.pc \in {"merge", "copy"} /\ s.user \in TelegramUsers /\ s.email \in Emails
  BY <1>2, <1>3 DEF MergeRead, MergeCopy, At, WellFormed
<1>5. <<s.user, s.email>> \in proven /\ s.user \in Accounts /\ s.email \in Accounts
  BY <1>3, <1>4 DEF Sound, Accounts
<1>6. sub[s.email] \in States /\ sub[s.user] \in States /\ balance[s.email] \in Nat
  BY <1>5 DEF DataShape
<1>7. /\ CodesGrow /\ proven' = proven /\ faults' \in Nat
      /\ UNCHANGED <<cast, identityVars, dataVars, login, credits, discarded>>
  BY <1>1, CodesRender, RenderedGrows DEF MergeRead, MergeCopy, countVars, historyVars
<1>8. CASE End(l)
  BY <1>1, <1>7, <1>8, DoneIsSound, LinkerMoves DEF End
<1>9. ASSUME NEW pc, s.pc # "idle", Goto(l, pc), pc = "insert" PROVE IInv'
  <2>1. PICK q : q = [s EXCEPT !.pc = pc]
    OBVIOUS
  <2>2. linker' = [linker EXCEPT ![l] = q]
    BY <1>1, <1>2, <1>9, <2>1 DEF Goto, LinkerShape
  <2>3. WellFormed(q) /\ q.pc = pc /\ q.user = s.user /\ q.email = s.email
    BY <1>3, <1>9, <2>1 DEF WellFormed, LinkerFields
  <2>4. Sound(q)'
    BY <1>5, <1>7, <1>9, <2>3 DEF Sound
  <2> QED BY <1>1, <1>7, <2>2, <2>3, <2>4, LinkerMoves
<1>10. CASE MergeRead(l) /\ IsWeb(owner[s.email])
  <2>1. PICK plan : plan = Plan(sub[s.email], sub[s.user])
    OBVIOUS
  <2>2. plan \in Plans
    BY <1>6, <2>1 DEF Plan, Plans, States
  <2>3. PICK q : q = [s EXCEPT !.pc = "copy", !.plan = plan]
    OBVIOUS
  <2>4. WellFormed(q) /\ q.pc = "copy" /\ q.user = s.user /\ q.email = s.email
    BY <1>3, <1>4, <2>2, <2>3 DEF WellFormed, LinkerFields
  <2>5. linker' = [linker EXCEPT ![l] = q]
    BY <1>1, <1>2, <1>10, <2>1, <2>3 DEF MergeRead, LinkerShape
  <2>6. Sound(q)'
    BY <1>5, <1>7, <2>4 DEF Sound
  <2> QED BY <1>1, <1>7, <2>4, <2>5, <2>6, LinkerMoves
<1>11. CASE MergeRead(l) /\ ~ IsWeb(owner[s.email])
  <2>1. End(l) \/ Goto(l, "insert")
    BY <1>2, <1>11 DEF MergeRead
  <2> QED BY <1>4, <1>8, <1>9, <2>1
<1>12. CASE MergeCopy(l) /\ ~ End(l)
  <2>1. PICK moved : moved = IF s.plan = "leave" THEN "none" ELSE sub[s.email]
    OBVIOUS
  <2>2. PICK q : q = [s EXCEPT !.pc = "commit", !.copied = balance[s.email], !.moved = moved]
    OBVIOUS
  <2>3. moved \in States
    BY <1>6, <2>1 DEF States
  <2>4. /\ WellFormed(q) /\ q.pc = "commit" /\ q.user = s.user /\ q.email = s.email
        /\ q.moved = moved /\ q.plan = s.plan
    BY <1>3, <1>4, <1>6, <2>2, <2>3 DEF WellFormed, LinkerFields
  <2>5. linker' = [linker EXCEPT ![l] = q]
    BY <1>1, <1>2, <1>12, <2>1, <2>2 DEF MergeCopy, LinkerShape
  <2>6. Sound(q)'
    BY <1>5, <1>7, <2>1, <2>4 DEF Sound
  <2> QED BY <1>1, <1>7, <2>4, <2>5, <2>6, LinkerMoves
<1> QED BY <1>8, <1>10, <1>11, <1>12

\* Committing.
LEMMA MergeCommitKeeps ==
  ASSUME IInv, NEW l \in cast.linkers, MergeCommit(l) PROVE IInv'
<1> USE DEF IInv, Shape
<1>1. codes \in Seq(Code) /\ credits \in Nat /\ faults \in Nat /\ l \in Linkers
  BY TakingPart DEF DataShape
<1>2. PICK s : s = linker[l]
  OBVIOUS
<1>3. WellFormed(s) /\ Sound(s)
  BY <1>1, <1>2 DEF LinkerShape
<1>4. s.pc = "commit" /\ s.user \in TelegramUsers /\ s.email \in Emails
  BY <1>2, <1>3 DEF MergeCommit, At, WellFormed
<1>5. /\ <<s.user, s.email>> \in proven /\ s.user \in Accounts /\ s.email \in Accounts
      /\ s.moved \in States /\ s.plan \in Plans /\ s.copied \in Nat
      /\ s.moved # "none" => s.plan # "leave"
  BY <1>3, <1>4 DEF Sound, Accounts, WellFormed
<1>6. s.user \notin Emails /\ s.user \notin WebIds /\ s.user \in Ids
  BY <1>4, AccountsAssumption DEF Ids
<1>7. /\ CodesGrow /\ proven' = proven /\ LoginShape' /\ faults' = faults /\ credits' = credits
      /\ UNCHANGED <<cast, identities, nextId, sessions, keys, payer>>
  BY <1>1, CodesRender, RenderedGrows DEF MergeCommit, countVars, LoginShape
<1>8. CASE IsWeb(owner[s.email]) /\ identities[s.user] = Nobody
  <2>1. End(l) /\ UNCHANGED <<owner, sub, balance, billed, inviter, discarded>>
    BY <1>2, <1>8 DEF MergeCommit
  <2>2. IdShape' /\ DataShape'
    BY <1>7, <2>1 DEF IdShape, Identities, DataShape
  <2>3. Tables'
    BY <1>7, <2>1, TablesStay
  <2> QED BY <1>1, <1>7, <2>1, <2>2, <2>3, DoneIsSound, LinkerKeeps DEF End
<1>9. CASE ~ (IsWeb(owner[s.email]) /\ identities[s.user] = Nobody)
  <2>1. /\ sub' = MergedRows(s.plan, s.moved, s.user, s.email)
        /\ balance' = MergedBalance(s.copied, s.user, s.email)
        /\ billed' = MergedBilling(s.plan, s.user, s.email)
        /\ inviter' = MergedInviters(s.user, s.email)
        /\ owner' = TakenOver(s.user, s.email)
        /\ discarded' = IF s.plan = "discard" THEN discarded \cup {s.email} ELSE discarded
        /\ \/ End(l)
           \/ linker' = [linker EXCEPT ![l].pc = "insert", ![l].merged = TRUE, ![l].plan = "leave",
                                       ![l].moved = "none", ![l].copied = 0]
    BY <1>2, <1>9 DEF MergeCommit
  <2>2. owner' \in {owner, [owner EXCEPT ![s.email] = s.user]}
    BY <1>4, <2>1 DEF TakenOver, IdShape
  <2>3. IdShape'
    BY <1>4, <1>6, <1>7, <2>2 DEF IdShape, Identities
  <2>4. inviter' \in [Accounts -> Accounts \cup {Nobody}] /\ NobodyInvitesThemselves'
    <3>1. PICK kept : kept = [inviter EXCEPT ![s.user] = IF @ = Nobody THEN inviter[s.email] ELSE @,
                                             ![s.email] = Nobody]
      OBVIOUS
    <3>2. kept \in [Accounts -> Accounts \cup {Nobody}]
      BY <1>5, <3>1 DEF DataShape
    <3>3. inviter' = [a \in Accounts |-> LET r == IF kept[a] = s.email THEN s.user ELSE kept[a]
                                         IN  IF r = a THEN Nobody ELSE r]
      BY <2>1, <3>1 DEF MergedInviters
    <3>4. Nobody \notin Accounts
      BY AccountsAssumption
    <3> QED BY <1>5, <3>2, <3>3, <3>4 DEF NobodyInvitesThemselves
  <2>5. sub' \in [Accounts -> States]
    <3>1. ASSUME NEW a \in Accounts PROVE sub'[a] \in States
      <4>1. sub[a] \in States /\ sub[s.user] \in States /\ "none" \in States
        BY <1>5 DEF DataShape, States
      <4> QED BY <1>5, <2>1, <4>1 DEF MergedRows
    <3> QED BY <2>1, <3>1 DEF MergedRows
  <2>6. balance' \in [Accounts -> Nat] /\ billed' \in [Payments -> Accounts \cup {Nobody}]
    <3>1. balance \in [Accounts -> Nat] /\ balance[s.user] + s.copied \in Nat
      BY <1>5 DEF DataShape
    <3>2. balance' = [balance EXCEPT ![s.user] = @ + s.copied, ![s.email] = 0]
      BY <2>1 DEF MergedBalance
    <3>3. balance' \in [Accounts -> Nat]
      BY <3>1, <3>2
    <3> QED BY <1>5, <2>1, <3>3 DEF MergedBilling, DataShape
  <2>7. DataShape'
    BY <1>7, <2>4, <2>5, <2>6 DEF DataShape
  <2>8. LinkedIsProven'
    BY <1>4, <1>5, <1>7, <2>2 DEF Tables, LinkedIsProven, IdShape
  <2>9. FactsHaveRows'
    <3>1. SUFFICES ASSUME NEW p \in Payments, billed'[p] \in Emails
                   PROVE  sub'[billed'[p]] # "none" \/ billed'[p] \in discarded'
      BY DEF FactsHaveRows
    <3>2. PICK a : a = billed[p]
      OBVIOUS
    <3>3. billed'[p] = a /\ a \in Emails /\ (a = s.email => ~ Adopts(s.plan))
      BY <1>6, <2>1, <3>1, <3>2 DEF MergedBilling
    <3>4. sub[a] # "none" \/ a \in discarded
      BY <3>2, <3>3 DEF Tables, FactsHaveRows
    <3>5. a \in Accounts /\ a # s.user /\ discarded \subseteq discarded'
      BY <1>6, <2>1, <3>3 DEF Accounts
    <3>6. CASE a = s.email /\ s.moved # "none"
      <4>1. s.plan = "discard"
        BY <1>5, <3>3, <3>6 DEF Adopts, Plans
      <4> QED BY <2>1, <3>3, <3>6, <4>1
    <3>7. CASE a # s.email \/ s.moved = "none"
      <4>1. sub'[a] = sub[a]
        BY <2>1, <3>5, <3>7 DEF MergedRows
      <4> QED BY <3>3, <3>4, <3>5, <4>1
    <3> QED BY <3>6, <3>7
  <2>10. Tables'
    BY <2>4, <2>8, <2>9 DEF Tables
  <2>11. CASE End(l)
    BY <1>1, <1>7, <2>3, <2>7, <2>10, <2>11, DoneIsSound, LinkerKeeps DEF End
  <2>12. CASE ~ End(l)
    <3>1. PICK q : q = [s EXCEPT !.pc = "insert", !.merged = TRUE, !.plan = "leave", !.moved = "none",
                                 !.copied = 0]
      OBVIOUS
    <3>2. linker' = [linker EXCEPT ![l] = q]
      BY <1>1, <1>2, <2>1, <2>12, <3>1 DEF LinkerShape
    <3>3. WellFormed(q) /\ q.pc = "insert" /\ q.user = s.user /\ q.email = s.email
      BY <1>3, <1>4, <3>1 DEF WellFormed, LinkerFields, Plans, States
    <3>4. Sound(q)'
      BY <1>5, <1>7, <3>3 DEF Sound
    <3> QED BY <1>1, <1>7, <2>3, <2>7, <2>10, <3>2, <3>3, <3>4, LinkerKeeps
  <2> QED BY <2>11, <2>12
<1> QED BY <1>8, <1>9
-----------------------------------------------------------------------------
(* The theorems.                                                           *)

\* Every step keeps the invariant.
LEMMA InvariantIsKept ==
  ASSUME IInv, [Next]_vars PROVE IInv'
<1>1. CASE UNCHANGED vars
  <2>1. IdShape' /\ DataShape' /\ LoginShape'
    BY <1>1 DEF vars, IInv, Shape, IdShape, Identities, DataShape, LoginShape, dataVars, countVars
  <2>2. CodesGrow
    BY <1>1, CodesRender, RenderedGrows DEF vars, IInv, Shape
  <2>3. Tables'
    BY <1>1, TablesStay DEF vars, IInv, dataVars, historyVars
  <2> QED BY <1>1, <2>1, <2>2, <2>3, OthersKeep DEF vars, historyVars
<1>2. ASSUME NEW l \in cast.linkers, LinkerStep(l) \/ LinkerCrash(l) PROVE IInv'
  BY <1>2, TypingKeeps, RowsKeep, MergingKeeps, MergeCommitKeeps DEF LinkerStep
<1>3. ASSUME NEW l \in cast.linkers,
             \E u \in cast.users, e \in cast.emails, text \in LinkTexts, via \in cast.vias :
               TypeCode(l, u, e, text, via)
      PROVE  IInv'
  BY <1>3, TypingKeeps
<1>4. CASE /\ Next
           /\ ~ \E l \in cast.linkers : LinkerStep(l) \/ LinkerCrash(l)
           /\ ~ \E l \in cast.linkers, u \in cast.users, e \in cast.emails, text \in LinkTexts,
                   via \in cast.vias : TypeCode(l, u, e, text, via)
  BY <1>4, WorldKeeps, CodesKeep, LoginsKeep DEF Next
<1> QED BY <1>1, <1>2, <1>3, <1>4

\* It holds at the start, where nothing is owned, billed, invited or under way.
LEMMA InitEstablishes ==
  ASSUME Init PROVE IInv
<1> USE AccountsAssumption
<1>1. IdShape
  <2>1. cast \in Cast /\ cast.users \subseteq TelegramUsers
    BY DEF Init, Cast
  <2>2. identities = [i \in Ids |-> IF i \in cast.users \ cast.newcomers THEN i ELSE Nobody]
    BY DEF Init
  <2>3. Identities
    BY <2>1, <2>2 DEF Identities, Ids
  <2> QED BY <2>3 DEF Init, IdShape
<1>2. codes \in Seq(Code) /\ DataShape
  BY DEF Init, DataShape, States, Accounts
<1>3. WellFormed(NoLinker) /\ Sound(NoLinker) /\ LoginWellFormed(NoLogin)
  BY DEF WellFormed, Sound, NoLinker, LinkerFields, States, Plans, LoginWellFormed, NoLogin, LoginFields
<1>4. \A l \in Linkers : linker[l] = NoLinker
  BY DEF Init
<1>5. LinkerShape /\ LoginShape /\ \A l \in Linkers : Sound(linker[l])
  BY <1>3, <1>4 DEF Init, LinkerShape, LoginShape
<1>6. Tables
  BY DEF Init, Tables, LinkedIsProven, FactsHaveRows, NobodyInvitesThemselves, Ids, Accounts
<1> QED BY <1>1, <1>2, <1>5, <1>6 DEF IInv, Shape

(* Every reachable state satisfies the strengthened invariant: well-shaped *)
(* tables, what each linker has behind it, and the three properties below. *)
THEOREM Invariance == Spec => []IInv
<1>1. Init => IInv
  BY InitEstablishes
<1>2. IInv /\ [Next]_vars => IInv'
  BY InvariantIsKept
<1> QED BY <1>1, <1>2, PTL DEF Spec

(* An email belongs to a Telegram user only after a code mailed to it for  *)
(* that user was typed, for any number of users, emails, codes, chats, API *)
(* calls and logins at once (LinkedIsProven).                              *)
THEOREM LinkedEmailsAreProven == Spec => []LinkedIsProven
<1>1. IInv => LinkedIsProven
  BY DEF IInv, Tables
<1> QED BY <1>1, Invariance, PTL

(* No payment is left with a web account that lost its row to a merge,     *)
(* unless the merge gave that row up (FactsHaveRows).                      *)
THEOREM PaymentsFollowTheRow == Spec => []FactsHaveRows
<1>1. IInv => FactsHaveRows
  BY DEF IInv, Tables
<1> QED BY <1>1, Invariance, PTL

(* Nobody is their own referrer, also when two accounts become one         *)
(* (NobodyInvitesThemselves).                                              *)
THEOREM NobodyIsTheirOwnReferrer == Spec => []NobodyInvitesThemselves
<1>1. IInv => NobodyInvitesThemselves
  BY DEF IInv, Tables
<1> QED BY <1>1, Invariance, PTL

\* An email a Telegram user has is lost by that user's own linking only.
LEMMA OwnersStand ==
  ASSUME IInv, Next, NEW u \in TelegramUsers, NEW e \in Emails, owner[e] = u, owner'[e] # u
  PROVE  owner'[e] = Nobody /\ \E l \in Linkers : At(l, "drop") /\ linker[l].user = u
<1> USE DEF IInv, Shape, IdShape
<1>1. u # Nobody /\ u \notin WebIds
  BY AccountsAssumption DEF Ids
<1>2. ASSUME NEW k \in cast.logins, OwnEmail(k) PROVE FALSE
  <2>1. PICK s : s = login[k]
    OBVIOUS
  <2>2. owner' = owner \/ (owner' = [owner EXCEPT ![s.email] = s.id] /\ owner[s.email] = Nobody)
    BY <1>2, <2>1 DEF OwnEmail, MayOwn
  <2> QED BY <1>1, <2>2
<1>3. ASSUME NEW l \in cast.linkers, Insert(l) PROVE FALSE
  <2>1. PICK s : s = linker[l]
    OBVIOUS
  <2>2. \/ owner' = owner
        \/ owner' = [owner EXCEPT ![s.email] = s.user] /\ owner[s.email] \in {Nobody, s.user}
    BY <1>3, <2>1 DEF Insert, Owned
  <2> QED BY <1>1, <2>2
<1>4. ASSUME NEW l \in cast.linkers, MergeCommit(l) PROVE FALSE
  <2>1. PICK s : s = linker[l]
    OBVIOUS
  <2>2. \/ owner' = owner
        \/ owner' = [owner EXCEPT ![s.email] = IF @ \in WebIds THEN s.user ELSE @]
    BY <1>4, <2>1 DEF MergeCommit, TakenOver, IsWeb
  <2> QED BY <1>1, <2>2
<1>5. ASSUME NEW l \in cast.linkers, Drop(l)
      PROVE  owner'[e] = Nobody /\ \E m \in Linkers : At(m, "drop") /\ linker[m].user = u
  <2>1. l \in Linkers /\ At(l, "drop")
    BY <1>5, TakingPart DEF Drop
  <2>2. owner'[e] = IF owner[e] = linker[l].user THEN Nobody ELSE owner[e]
    BY <1>5 DEF Drop
  <2> QED BY <2>1, <2>2
<1>6. CASE owner' = owner
  BY <1>6
<1>7. \/ owner' = owner
      \/ \E k \in cast.logins : OwnEmail(k)
      \/ \E l \in cast.linkers : Insert(l) \/ MergeCommit(l) \/ Drop(l)
  <2>1. ASSUME NEW x \in cast.users, Bootstrap(x) \/ StartLinking(x) \/ ResendCode(x)
        PROVE  owner' = owner
    BY <2>1 DEF Bootstrap, StartLinking, ResendCode, identityVars
  <2>2. ASSUME NEW p \in cast.payments, Paid(p) \/ \E id \in cast.users \cup WebIds : Invoice(p, id)
        PROVE  owner' = owner
    BY <2>2 DEF Paid, Invoice
  <2>3. ASSUME NEW a \in Accounts, Lapse(a) \/ Credit(a) PROVE owner' = owner
    BY <2>3 DEF Lapse, Credit
  <2>4. ASSUME NEW c, Expire(c) \/ Logout(c) \/ SendLoginCode(c) PROVE owner' = owner
    BY <2>4 DEF Expire, Logout, SendLoginCode, identityVars
  <2>5. ASSUME NEW x \in cast.users, NEW m \in cast.emails, AskLink(x, m) \/ AskLinkByApi(x, m)
        PROVE  owner' = owner
    BY <2>5 DEF AskLink, AskLinkByApi, identityVars
  <2>6. ASSUME NEW l \in cast.linkers, NEW x \in cast.users, NEW m \in cast.emails, NEW text \in LinkTexts,
               NEW via \in cast.vias, TypeCode(l, x, m, text, via)
        PROVE  owner' = owner
    BY <2>6 DEF TypeCode, identityVars
  <2>7. ASSUME NEW l \in cast.linkers, LinkerStep(l) \/ LinkerCrash(l)
        PROVE  owner' = owner \/ Insert(l) \/ MergeCommit(l) \/ Drop(l)
    BY <2>7 DEF LinkerStep, LinkerCrash, Check, Use, MergeRead, MergeCopy, RevokeWebKeys, LookAtRow,
                CreateKeys, identityVars
  <2>8. ASSUME NEW k \in cast.logins, NEW m, NEW text, TypeLoginCode(k, m, text) PROVE owner' = owner
    BY <2>8 DEF TypeLoginCode, identityVars
  <2>9. ASSUME NEW k \in cast.logins, LoginStep(k) \/ LoginCrash(k) PROVE owner' = owner \/ OwnEmail(k)
    BY <2>9 DEF LoginStep, LoginCrash, SpendCode, FindOwner, DrawId, ApplyReferral, identityVars
  <2> QED BY <2>1, <2>2, <2>3, <2>4, <2>5, <2>6, <2>7, <2>8, <2>9 DEF Next
<1> QED BY <1>2, <1>3, <1>4, <1>5, <1>6, <1>7

(* A Telegram user loses an email only by linking, whoever logs in, merges *)
(* or links meanwhile (RealOwnersStand).                                   *)
THEOREM NobodyTakesAnEmail == Spec => RealOwnersStand
<1>1. IInv /\ [Next]_vars =>
        [\A u \in TelegramUsers, e \in Emails :
           owner[e] = u /\ owner'[e] # u =>
             owner'[e] = Nobody /\ \E l \in Linkers : At(l, "drop") /\ linker[l].user = u]_vars
  BY OwnersStand
<1> QED BY <1>1, Invariance, PTL DEF Spec, RealOwnersStand
=============================================================================
