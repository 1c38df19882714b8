----------------------------- MODULE MCRuEgress -----------------------------
(***************************************************************************)
(* Instances of RuEgress for TLC: two panels abroad, the relay, one        *)
(* cascade entry.                                                          *)
(***************************************************************************)
EXTENDS RuEgress, TLC

CONSTANTS fra, hel, moscow, entry

Plain == [rules   |-> <<Rule("api", "api"), Rule("private", "blocked")>>,
          outs    |-> <<DirectOut, BlockedOut>>,
          resolve |-> FALSE, diagLog |-> FALSE]

\* A panel that was set up by hand, with the given relay address.
Routed(address) ==
  [rules   |-> <<Rule("api", "api"), Rule("private", "blocked"),
                 Rule("ruDomain", "ru-relay"), Rule("ruIp", "ru-relay")>>,
   outs    |-> <<DirectOut, BlockedOut, Outbound("ru-relay", "vless", address)>>,
   resolve |-> TRUE, diagLog |-> FALSE]

\* A cascade entry: abroad by default, Russian destinations directly.
Cascade ==
  [rules   |-> <<Rule("private", "direct"), Rule("ruDomain", "direct"), Rule("ruIp", "direct")>>,
   outs    |-> <<Outbound("abroad", "vless", "foreign"), DirectOut>>,
   resolve |-> TRUE, diagLog |-> FALSE]

MCStarting ==
  [h \in Hosts |->
     CASE h = moscow -> {SplitTemplate}
       [] h = entry -> {Cascade}
       [] h = fra   -> {Plain, Routed(moscow)}
       [] OTHER     -> {Routed(OldRelay)}]
=============================================================================
