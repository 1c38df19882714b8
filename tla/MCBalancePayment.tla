-------------------------- MODULE MCBalancePayment --------------------------
(***************************************************************************)
(* Instances of BalancePayment for TLC: u1 pays, u2 referred u1.           *)
(***************************************************************************)
EXTENDS BalancePayment, TLC

CONSTANTS u1, u2, r1, r2, d1

WorkerSymmetry == Permutations(Workers)

MCBuyer  == [r \in Requests |-> u1]
MCKind   == [r \in Requests |-> IF r = d1 THEN "device" ELSE "plan"]
MCPrice  == [r \in Requests |-> IF r = d1 THEN 3 ELSE 2]
MCPeriod == [r \in Requests |-> 2]
MCCount  == [r \in Requests |-> DefaultDevices + 1]

(***************************************************************************)
(* What is left to be submitted: a plan and the devices, both twice; a     *)
(* plan twice, and a card payment; two plans and a card payment; two       *)
(* plans, one of them twice.  In the last two the clock stands.            *)
(***************************************************************************)
MCBeginnings ==
  LET left(at, m, n, k, paid) ==
        [now |-> at, paid |-> paid,
         submits |-> [r \in Requests |-> MaxSubmits - CASE r = r1 -> m [] r = r2 -> n [] r = d1 -> k]]
  IN  {left(1, 2, 0, 2, Users), left(1, 2, 0, 0, {}),
       left(MaxTime, 1, 1, 0, {}), left(MaxTime, 2, 1, 0, Users)}

\* u2 earns one kopeck from every plan u1 buys.
MCCommission ==
  [r \in Requests |-> [u \in Users |-> IF u = u2 /\ r # d1 THEN 1 ELSE 0]]

\* u1 without a subscription, a running one, and one with its keys disabled.
MCRows ==
  LET row(state, until, off) ==
        [NoRow EXCEPT !.state = state, !.until = until, !.plan = TRUE,
                      !.devices = DefaultDevices, !.keysOff = off]
  IN  [u \in Users |-> IF u = u2 THEN {row("active", 3, Null)} ELSE
         {NoRow, row("active", 2, Null), row("expired", 1, 1)}]
==============================================================================
