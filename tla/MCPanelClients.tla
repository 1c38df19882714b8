--------------------------- MODULE MCPanelClients ---------------------------
(***************************************************************************)
(* Instances of PanelClients for TLC.                                      *)
(***************************************************************************)
EXTENDS PanelClients, TLC

CONSTANTS svc

\* An inbound with the relay's client and every user, and one that a reissue left
\* with the first user twice, the uuid of the link last.
MCStartLists ==
  LET key(u, gen) == Entry(Uuid(u, gen), TRUE, 2)
      all   == SetToSeq({key(u, "derived") : u \in Subscribers})
  IN  {<<Entry(Derived(svc), TRUE, Never)>> \o all,
       <<key(CHOOSE u \in Subscribers : TRUE, "old")>> \o all}
=============================================================================
