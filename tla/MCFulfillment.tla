---------------------------- MODULE MCFulfillment ----------------------------
(***************************************************************************)
(* Instances of Fulfillment for TLC.                                       *)
(***************************************************************************)
EXTENDS Fulfillment, TLC

HandlerSymmetry == Permutations(Handlers)

\* The accounts a payment may meet: a new user, a running subscription, one
\* that lapsed (keys disabled), and one whose keys were already deleted.
MCAccounts ==
  LET xui(c) == [xui |-> [s \in Servers |-> c], relay |-> FALSE]
      row(state, until, off, gone) ==
        [state |-> state, until |-> until, plan |-> TRUE, devices |-> DefaultDevices,
         trialEnd |-> Null, keysOff |-> off, keysGone |-> gone]
  IN  {[row |-> NoRow,                         clients |-> NoClients],
       [row |-> row("active", 3, Null, Null),  clients |-> xui(Enabled(3))],
       [row |-> row("expired", 1, 1, Null),    clients |-> xui(Disabled(9))],
       [row |-> row("expired", 1, 1, 1),       clients |-> NoClients]}

\* All payments are made by one user; the i-th one buys i days.
MCPayer   == [p \in Payments |-> CHOOSE u \in Users : TRUE]
MCPeriod  == [p \in Payments |-> IF p = CHOOSE q \in Payments : TRUE THEN 1 ELSE 2]
MCDevices == [p \in Payments |-> DefaultDevices]
==============================================================================
