---------------------------- MODULE MCBotUpdates ----------------------------
(***************************************************************************)
(* Instances of BotUpdates for TLC: what three users may send.             *)
(***************************************************************************)
EXTENDS BotUpdates

CONSTANTS a, b, c

start(i, code) == [from |-> i, kind |-> "start", ref |-> code]
send(i, k)     == [from |-> i, kind |-> k, ref |-> NoOne]

\* Two codes for one newcomer; two users inviting each other; an invoice
\* followed by another message; a guarded command next to a bootstrap; a
\* bootstrap after an update that cannot be mapped.
MCScripts == {<<start(a, b), start(a, c)>>,
              <<start(a, b), start(b, a)>>,
              <<send(a, "buy"), send(a, "status")>>,
              <<send(a, "resend"), start(a, NoOne)>>,
              <<send(a, "broken"), start(a, a)>>}

\* The intake changes during the two of them that have the fewest states.
MCSwitched == {<<send(a, "buy"), send(a, "status")>>, <<send(a, "broken"), start(a, a)>>}

\* b was invited by c, or nobody by anybody.
MCReferred == {{}, {<<b, c, 1>>}}
==============================================================================
