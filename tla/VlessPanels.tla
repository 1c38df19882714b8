----------------------------- MODULE VlessPanels -----------------------------
(***************************************************************************)
(* What the operations of XuiVlessProvider do to the VPN clients of one    *)
(* user: one client on every 3x-ui server, and one on the bare xray relay. *)
(* A panel may fail to answer, or fail half way through a delete and       *)
(* re-add; XuiApiClient turns every such failure into an outcome value, so *)
(* an operation is a set of possible results, each a new set of clients    *)
(* and the VlessProviderOutcome the caller sees.                           *)
(*                                                                         *)
(* A panel serves a client that is enabled until its expiryTime.           *)
(***************************************************************************)
EXTENDS Naturals

CONSTANT Servers    \* the active vpn_servers rows with provider_kind 'xui'

Absent         == [st |-> "absent", exp |-> 0]
Enabled(exp)   == [st |-> "enabled", exp |-> exp]
Disabled(exp)  == [st |-> "disabled", exp |-> exp]

Client  == [st : {"absent", "enabled", "disabled"}, exp : Nat]
Clients == [xui : [Servers -> Client], relay : BOOLEAN]

NoClients == [xui |-> [s \in Servers |-> Absent], relay |-> FALSE]

Outcomes == {"success", "unavailable", "not_found"}

Result(xui, relay, outcome) ==
  [clients |-> [xui |-> xui, relay |-> relay], outcome |-> outcome]

\* _bare_xray_lifecycle is best effort: the relay follows or stays as it was.
RelayAdded(cl)   == {cl.relay, TRUE}
RelayRemoved(cl) == {cl.relay, FALSE}

\* The servers after a call that reached those in up (and lost a client in lost).
EnabledOn(xui, up, exp)  == [s \in Servers |-> IF s \in up THEN Enabled(exp) ELSE xui[s]]
DisabledOn(xui, up, exp) == [s \in Servers |-> IF s \in up THEN Disabled(exp) ELSE xui[s]]
AbsentOn(xui, up)        == [s \in Servers |-> IF s \in up THEN Absent ELSE xui[s]]

\* The servers a call may get through to: the session stands or the login
\* succeeds, with a token or with a password, which depends on the network.
Reachable == SUBSET Servers

(***************************************************************************)
(* create_user upserts an enabled client on every server that answers.     *)
(* With no success it reports UNAVAILABLE and leaves the relay alone.      *)
(***************************************************************************)
CreateUser(cl, exp) ==
  {Result(EnabledOn(cl.xui, up, exp), r, "success") :
      up \in Reachable \ {{}}, r \in RelayAdded(cl)}
  \cup {Result(cl.xui, cl.relay, "unavailable")}

(***************************************************************************)
(* activate_user deletes and re-adds the client on every server.  The      *)
(* delete's outcome is ignored, so a server may end with the client lost   *)
(* (deleted, not re-added).  The relay is told whatever happened.          *)
(***************************************************************************)
ActivateUser(cl, exp) ==
  {Result(EnabledOn(AbsentOn(cl.xui, lost), up, exp), r,
          IF up = {} THEN "not_found" ELSE "success") :
      up \in Reachable, lost \in SUBSET Servers, r \in RelayAdded(cl)}

(***************************************************************************)
(* revoke_user disables the client on every server that answers and holds  *)
(* one.  NOT_FOUND is also what it reports when no server answered at all. *)
(***************************************************************************)
RevokeUser(cl, exp) ==
  LET holding == {s \in Servers : cl.xui[s] # Absent}
  IN  {Result(DisabledOn(cl.xui, up, exp), r, IF up = {} THEN "not_found" ELSE "success") :
          up \in SUBSET holding, r \in RelayRemoved(cl)}

(***************************************************************************)
(* delete_user, which gets through to one of the sets of servers in reach; *)
(* a server that says "not found" counts as a success.                     *)
(***************************************************************************)
DeleteUser(cl, reach) ==
  {Result(AbsentOn(cl.xui, up), r, IF up = {} THEN "not_found" ELSE "success") :
      up \in reach, r \in RelayRemoved(cl)}

\* What the customer has: a server that lets the user through at instant t.
ServedOn(cl, s, t) == cl.xui[s].st = "enabled" /\ cl.xui[s].exp > t
==============================================================================
