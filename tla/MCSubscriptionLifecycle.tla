---------------------- MODULE MCSubscriptionLifecycle ----------------------
(***************************************************************************)
(* Instances of SubscriptionLifecycle for TLC.                             *)
(***************************************************************************)
EXTENDS SubscriptionLifecycle

(***************************************************************************)
(* A new user, a subscription that ends now, a trial that ends tomorrow,   *)
(* and a subscription that lapsed a day ago.                               *)
(***************************************************************************)
MCAccounts ==
  LET xui(c, relay) == [xui |-> [s \in Servers |-> c], relay |-> relay]
      row(state, until, plan, off) ==
        [NoRow EXCEPT !.state = state, !.until = until, !.plan = plan,
                      !.trialEnd = IF plan THEN Null ELSE until,
                      !.devices = DefaultDevices, !.keysOff = off]
  IN  {[row |-> NoRow,                          clients |-> NoClients],
       [row |-> row("active", 2, TRUE, Null),   clients |-> xui(Enabled(2), TRUE)],
       [row |-> row("active", 3, FALSE, Null),  clients |-> xui(Enabled(9), TRUE)],
       [row |-> row("expired", 1, TRUE, 1),     clients |-> xui(Disabled(9), FALSE)]}

(***************************************************************************)
(* Actors that write the same row or the same clients; payments are always *)
(* there.  All of them together are beyond TLC.                            *)
(***************************************************************************)
MCDeployments ==
  {{"trial", "scheduler"}, {"trial", "cancel"}, {"cancel", "relay"},
   {"scheduler", "reprovision"}, {"scheduler", "relay"}, {"reprovision", "sync", "relay"},
   {"keys", "reprovision"}, {"keys", "relay"}}
==============================================================================
