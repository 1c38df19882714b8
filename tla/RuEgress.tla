------------------------------ MODULE RuEgress ------------------------------
(***************************************************************************)
(* The routing of the VPN panels: which destinations leave a panel through *)
(* the relay in Russia and which leave it directly.  The operator edits it *)
(* with one command at a time: manage_ru_egress.py (one action per mode    *)
(* that writes), setup_relay.py for the relay itself, and the two cascade  *)
(* scripts for the boxes that run xray without a panel.                    *)
(* What a command does to the lists of clients is in PanelClients.         *)
(*                                                                         *)
(* A command may write a backup file, then commits the new template to the *)
(* panel's database and then restarts x-ui; it may be cut between any two  *)
(* of these, and while the file is written.  A domain list is one match    *)
(* kind, a Reality outbound is the host it leads to.  Backup files no      *)
(* command reads back are left out.                                        *)
(***************************************************************************)
EXTENDS Naturals, Sequences, FiniteSets, SequencesExt, Lists

CONSTANTS
  Panels,       \* the panels abroad
  Relay,        \* 89.169.139.153, panel of the relay in Russia
  Entries,      \* cascade entries: boxes in Russia with a bare xray
  OldRelay,     \* the relay address some panels were first pointed at
  Tags,         \* the tags outbounds have and rules name
  Starting,     \* Starting[h]: the templates host h may start with
  None, Torn,   \* nothing; what a file, and then a template, is whose writing was cut
  MaxCommands   \* bound: commands the operator gives

ASSUME CommandsAssumption == MaxCommands \in Nat

ASSUME HostsAssumption ==
  /\ Relay \notin Panels \cup Entries /\ Panels \cap Entries = {}
  /\ Relay # "internet" /\ OldRelay # "internet" /\ Relay # "api"

ASSUME TagsAssumption ==
  /\ {"api", "direct", "blocked", "ru-relay", "relay-to-russia", "relay-to-helsinki"} \subseteq Tags
  /\ None \notin Tags

Hosts    == Panels \cup {Relay} \cup Entries
XuiHosts == Panels \cup {Relay}

VARIABLES
  template,     \* template[h]: what is stored (xrayTemplateConfig, or config.json)
  running,      \* running[h]: what its xray was started with
  backup,       \* backup[h]: the slot revert reads, or None
  exported,     \* the last output of export, or None
  merging,      \* the merge that has its backup and has not committed, or None
  restarting,   \* the command that has committed and not yet restarted, or None
  sniffing,     \* sniffing[h]: the user inbounds have the standard sniffing
  commands,     \* commands given so far
  pinned,       \* history: <<h, f>> routed by its own rule, and <<Relay, "clean">>
                \* sends nothing abroad, as a command that ended reported
  merged,       \* history: the panels on which a merge was committed
  before        \* history: what was stored on each panel until then

egressVars == <<template, running, backup, exported, merging, restarting, sniffing,
                commands, pinned, merged, before>>
ready == <<merging, restarting>>
past  == <<merged, before>>

-----------------------------------------------------------------------------
(* Templates *)

Outbound(tag, protocol, to) == [tag |-> tag, protocol |-> protocol, to |-> to]
Rule(match, tag) == [match |-> match, tag |-> tag]

DirectOut  == Outbound("direct", "freedom", "internet")
BlockedOut == Outbound("blocked", "blackhole", "nowhere")

\* setup_relay.py: Russian destinations leave here, the rest goes to Helsinki.
SplitTemplate ==
  [rules    |-> <<Rule("api", "api"), Rule("private", "direct"), Rule("ruDomain", "direct"),
                  Rule("ruIp", "direct"), Rule("rest", "relay-to-helsinki")>>,
   outs     |-> <<DirectOut, Outbound("relay-to-helsinki", "vless", "helsinki"), BlockedOut>>,
   resolve  |-> TRUE,
   diagLog  |-> FALSE]

TagsOf(t) == {t.outs[i].tag : i \in DOMAIN t.outs}
RulesOf(t, tag) == Selected(t.rules, {i \in DOMAIN t.rules : t.rules[i].tag = tag})

\* _relay_outbound, _ru_rules
RelayOutbound == Outbound("relay-to-russia", "vless", Relay)
RuRules       == <<Rule("ruDomain", "relay-to-russia"), Rule("ruIp", "relay-to-russia")>>

\* Rules that must come first: api, and the private addresses.
IsLocal(r) == r.tag = "api" \/ r.match = "private"
AfterLocal(rules) == SelectLastInSeq(rules, IsLocal)

InsertAfter(rules, at, new) == SubSeq(rules, 1, at) \o new \o SubSeq(rules, at + 1, Len(rules))

\* The outbounds, or the rules, of another tag.
WithoutTag(list, tag) == Selected(list, {i \in DOMAIN list : list[i].tag # tag})

\* The outbound of that tag is dropped and appended anew, its rules likewise.
ReplaceRoute(t, out, rules) ==
  LET others == WithoutTag(t.rules, out.tag)
  IN  [t EXCEPT !.resolve = TRUE,
                !.outs  = Append(WithoutTag(@, out.tag), out),
                !.rules = InsertAfter(others, AfterLocal(others), rules)]

\* merge_ru_routing and apply_exported_routing
MergeRuRouting(t) == ReplaceRoute(t, RelayOutbound, RuRules)
ApplyExportedRouting(t, export) == ReplaceRoute(t, export.outbound, export.rules)

\* _detect_relay_tag: the vless outbound to the relay, else what .ru is routed to.
DetectRelayTag(t) ==
  LET out  == SelectInSeq(t.outs, LAMBDA o : o.protocol = "vless" /\ o.to = Relay)
      rule == SelectInSeq(t.rules, LAMBDA r : r.match = "ruDomain")
  IN  IF out # 0 THEN t.outs[out].tag ELSE IF rule # 0 THEN t.rules[rule].tag ELSE None

\* _detect_direct_tag
DetectDirectTag(t) ==
  LET out == SelectInSeq(t.outs, LAMBDA o : o.protocol = "freedom")
  IN  IF out # 0 THEN t.outs[out].tag ELSE "direct"

HasDomainRule(t, family, tag) == Contains(t.rules, Rule(family, tag))
WithoutRule(rules, family, tag) == Selected(rules, {i \in DOMAIN rules : rules[i] # Rule(family, tag)})

\* merge_domain_family_routing: after the last relay, api or private rule.
MergeDomainFamily(t, family, tag) ==
  LET others == WithoutRule(t.rules, family, tag)
      at     == SelectLastInSeq(others, LAMBDA r : r.tag = tag \/ IsLocal(r))
  IN  [t EXCEPT !.rules = InsertAfter(others, at, <<Rule(family, tag)>>)]

\* Mutant: the TikTok rule is placed where the VK and MAX rules are.
MergeTiktokBehind(t, tag) ==
  LET others == WithoutRule(t.rules, "tiktok", tag)
      relay  == DetectRelayTag(t)
      at     == SelectLastInSeq(others, LAMBDA r : r.tag = relay \/ IsLocal(r))
  IN  [t EXCEPT !.rules = InsertAfter(others, at, <<Rule("tiktok", tag)>>)]

\* merge_tiktok_direct: before the first relay rule, else after api and private.
MergeTiktokDirect(t, tag) ==
  LET others == WithoutRule(t.rules, "tiktok", tag)
      relay  == DetectRelayTag(t)
      first  == SelectInSeq(others, LAMBDA r : r.tag = relay)
      at     == IF relay # None /\ first # 0 THEN first - 1 ELSE AfterLocal(others)
  IN  [t EXCEPT !.rules = InsertAfter(others, at, <<Rule("tiktok", tag)>>)]

\* repoint_ru_relay_outbound: same tag, same rules, the relay's address.
RepointRelayOutbound(t, tag) ==
  LET at == SelectInSeq(t.outs, LAMBDA o : o.tag = tag)
  IN  [t EXCEPT !.outs[at].to = Relay]

\* Mutant: its rules lead to nowhere.
CleanToBlocked(t, tag) ==
  [t EXCEPT !.outs  = WithoutTag(@, tag),
            !.rules = [i \in DOMAIN @ |-> IF @[i].tag = tag THEN Rule(@[i].match, "blocked") ELSE @[i]]]

\* clean_relay_routing: the outbound goes, its rules lead to direct.
CleanRelayRouting(t, tag) ==
  [t EXCEPT !.outs  = WithoutTag(@, tag),
            !.rules = [i \in DOMAIN @ |-> IF @[i].tag = tag THEN Rule(@[i].match, "direct") ELSE @[i]]]

\* merge_banks_direct and merge_supercell_egress, on a cascade entry: the first
\* sends the banks out in Russia, the second the games to the foreign outbound.
MergeBanksDirect(t) ==
  LET others == WithoutRule(t.rules, "banks", "direct")
  IN  [t EXCEPT !.rules = InsertAfter(others, AfterLocal(others), <<Rule("banks", "direct")>>)]

ForeignEgressTag(t) ==
  LET out == SelectInSeq(t.outs, LAMBDA o : o.protocol = "vless")
  IN  IF out # 0 THEN t.outs[out].tag ELSE IF t.outs # <<>> THEN t.outs[1].tag ELSE None

MergeSupercellEgress(t) ==
  LET others == Selected(t.rules, {i \in DOMAIN t.rules : t.rules[i].match # "supercell"})
  IN  IF ForeignEgressTag(t) = None THEN t
      ELSE [t EXCEPT !.rules = InsertAfter(others, AfterLocal(others),
                                           <<Rule("supercell", ForeignEgressTag(t))>>)]
-----------------------------------------------------------------------------
(* The templates the hosts may start with.                                 *)

Relays    == {Relay, OldRelay}
Matches   == {"api", "private", "ruDomain", "ruIp", "vk", "max", "tiktok", "banks", "supercell", "rest"}
Protocols == {"freedom", "blackhole", "vless", "other"}
Places    == Relays \cup {"internet", "foreign", "helsinki", "nowhere"}

Template == [rules   : Seq([match : Matches, tag : Tags]),
             outs    : Seq([tag : Tags, protocol : Protocols, to : Places]),
             resolve : BOOLEAN,
             diagLog : BOOLEAN]

\* Outbounds have tags of their own; api is no outbound.
Sound(t) ==
  /\ t \in Template
  /\ \A i, k \in DOMAIN t.outs : t.outs[i].tag = t.outs[k].tag => i = k
  /\ \A i \in DOMAIN t.outs : t.outs[i].tag # "api"

Goes(t, tag, where) == \E i \in DOMAIN t.outs : t.outs[i].tag = tag /\ t.outs[i].to \in where

\* A panel: what no rule takes leaves directly, Russian destinations leave through
\* a relay, if they have rules at all, and so do VK and MAX; TikTok leaves directly.
PanelTemplate(t) ==
  /\ Sound(t)
  /\ t.outs # <<>> /\ t.outs[1].to \notin Relays
  /\ \A i \in DOMAIN t.outs :
       /\ t.outs[i].protocol = "freedom" \/ t.outs[i].tag = "direct" => t.outs[i].to = "internet"
       /\ t.outs[i].tag \in {"ru-relay", "relay-to-russia"} => t.outs[i].to \in Relays
  /\ \A i \in DOMAIN t.rules : LET r == t.rules[i] IN
       \/ r.match = "api" /\ r.tag = "api"
       \/ r.match = "private"
       \/ r.match \in {"ruDomain", "ruIp", "vk", "max"} /\ Goes(t, r.tag, Relays)
       \/ r.match = "tiktok" /\ Goes(t, r.tag, {"internet"})

\* A cascade entry: banks leave directly, games through the first way abroad.
EntryTemplate(t) ==
  /\ Sound(t)
  /\ Goes(t, "direct", {"internet"})
  /\ ForeignEgressTag(t) # None /\ Goes(t, ForeignEgressTag(t), {"foreign"})
  /\ \A i \in DOMAIN t.rules : LET r == t.rules[i] IN
       \/ r.match \in {"private", "ruDomain", "ruIp"}
       \/ r.match = "banks" /\ r.tag = "direct"
       \/ r.match = "supercell" /\ r.tag = ForeignEgressTag(t)

ASSUME TornAssumption == Torn # None /\ None \notin Template /\ Torn \notin Template

ASSUME StartingAssumption ==
  /\ Starting[Relay] = {SplitTemplate}
  /\ \A h \in Panels : \A t \in Starting[h] : PanelTemplate(t)
  /\ \A h \in Entries : \A t \in Starting[h] : EntryTemplate(t)

-----------------------------------------------------------------------------
EgressInit ==
  /\ template \in {f \in [Hosts -> UNION {Starting[h] : h \in Hosts}] : \A h \in Hosts : f[h] \in Starting[h]}
  /\ running = template
  /\ backup = [h \in Panels |-> None]
  /\ exported = None
  /\ merging = None
  /\ restarting = None
  /\ sniffing = [h \in Panels |-> FALSE]
  /\ commands = 0
  /\ pinned = {}
  /\ merged = {}
  /\ before = [h \in Panels |-> {template[h]}]

\* The operator runs one command at a time.
Command ==
  /\ merging = None /\ restarting = None
  /\ commands < MaxCommands /\ commands' = commands + 1

\* Most commands load the template first, and end where it does not parse.
Parses(h) == template[h] # Torn

\* Committed; restart_and_verify is still to come.
Store(h, t, family) ==
  /\ template' = [template EXCEPT ![h] = t]
  /\ restarting' = [host |-> h, family |-> family]

Note(h, t) ==
  before' = IF h \in Panels \ merged THEN [before EXCEPT ![h] = @ \cup ({t} \ {Torn})] ELSE before

Commit(h, t, family) == Store(h, t, family) /\ Note(h, t) /\ UNCHANGED <<merging, merged>>

Restarts(h) == restarting' = [host |-> h, family |-> None] /\ UNCHANGED <<template, merging, past>>

\* The rules of its own that a command on h may have moved or dropped.
Unpin(h) == pinned' = {p \in pinned : p[1] # h}

\* Mutant: every merge overwrites the one slot revert reads.
BackupAlways(h) == backup' = [backup EXCEPT ![h] = template[h]]

\* The template is saved once; a slot that exists is kept.
BackupOnce(h) == backup' = [backup EXCEPT ![h] = IF @ = None THEN template[h] ELSE @]

\* What apply, import and repoint begin with: the file, which may be cut short.
Merge(h, next, keeps) ==
  /\ Command /\ Parses(h)
  /\ \/ BackupOnce(h) /\ merging' = [host |-> h, next |-> next, keeps |-> keeps]
     \/ backup[h] = None /\ backup' = [backup EXCEPT ![h] = Torn] /\ merging' = None
  /\ UNCHANGED <<template, running, exported, restarting, sniffing, pinned, past>>

\* And what they go on with: the template is written over.
CommitMerge ==
  /\ merging # None
  /\ Store(merging.host, merging.next, None)
  /\ IF merging.keeps THEN pinned' = pinned ELSE Unpin(merging.host)
  /\ merged' = merged \cup {merging.host}
  /\ merging' = None
  /\ UNCHANGED <<running, backup, exported, sniffing, commands, before>>

\* --mode apply
Apply(h) == Merge(h, MergeRuRouting(template[h]), FALSE)

\* --mode export, on a panel that has an outbound ru-relay
Export(h) ==
  /\ Command /\ Parses(h)
  /\ LET out == SelectInSeq(template[h].outs, LAMBDA o : o.tag = "ru-relay")
     IN  /\ out # 0
         /\ exported' = [outbound |-> template[h].outs[out],
                         rules    |-> RulesOf(template[h], "ru-relay")]
  /\ UNCHANGED <<template, running, backup, ready, sniffing, pinned, past>>

\* --mode import
Import(h) == exported # None /\ Merge(h, ApplyExportedRouting(template[h], exported), FALSE)

\* --mode repoint
Repoint(h) ==
  /\ Parses(h) /\ "ru-relay" \in TagsOf(template[h])
  /\ Merge(h, RepointRelayOutbound(template[h], "ru-relay"), TRUE)

\* --mode apply-vk, apply-max: nothing is done where the rule is there already.
ApplyFamily(h, family) ==
  /\ Command /\ Parses(h)
  /\ LET tag == DetectRelayTag(template[h])
     IN  /\ tag # None
         /\ ~HasDomainRule(template[h], family, tag)
         /\ Commit(h, MergeDomainFamily(template[h], family, tag), family)
  /\ UNCHANGED <<running, backup, exported, sniffing, pinned>>

\* --mode apply-tiktok
ApplyTiktok(h) ==
  /\ Command /\ Parses(h)
  /\ LET tag == DetectDirectTag(template[h])
     IN  /\ tag \in TagsOf(template[h])
         /\ ~HasDomainRule(template[h], "tiktok", tag)
         /\ Commit(h, MergeTiktokDirect(template[h], tag), "tiktok")
  /\ UNCHANGED <<running, backup, exported, sniffing, pinned>>

\* --mode revert: what the slot holds, whole or not; it stays where it is.
Revert(h) ==
  /\ Command
  /\ backup[h] # None
  /\ Commit(h, backup[h], None)
  /\ Unpin(h)
  /\ UNCHANGED <<running, backup, exported, sniffing>>

\* --mode reset-logs
ResetLogs(h) ==
  /\ Command /\ Parses(h)
  /\ Commit(h, [template[h] EXCEPT !.diagLog = TRUE], None)
  /\ UNCHANGED <<running, backup, exported, sniffing, pinned>>

\* --mode fix-sniffing
FixSniffing(h) ==
  /\ Command
  /\ ~sniffing[h]
  /\ sniffing' = [sniffing EXCEPT ![h] = TRUE]
  /\ Restarts(h)
  /\ UNCHANGED <<running, backup, exported, pinned>>

\* --mode clean-relay, on the relay
UsesHelsinki(t) ==
  \/ "relay-to-helsinki" \in TagsOf(t)
  \/ \E i \in DOMAIN t.rules : t.rules[i].tag = "relay-to-helsinki"

CleanRelay ==
  /\ Command
  /\ UsesHelsinki(template[Relay])
  /\ Commit(Relay, CleanRelayRouting(template[Relay], "relay-to-helsinki"), "clean")
  /\ UNCHANGED <<running, backup, exported, sniffing, pinned>>

\* ... where it finds nothing to do: "already a pure egress", and no restart.
CleanRelayAgain ==
  /\ Command
  /\ ~UsesHelsinki(template[Relay])
  /\ UNCHANGED <<template, running, backup, exported, ready, sniffing, pinned, past>>

\* setup_relay.py: the template anew; the inbound it also makes anew is in PanelClients.
SetupRelay ==
  /\ Command
  /\ Commit(Relay, SplitTemplate, None)
  /\ Unpin(Relay)
  /\ UNCHANGED <<running, backup, exported, sniffing>>

\* A merge that changes nothing stops there; a file xray refuses is put back.
CascadeApply(h, family, next) ==
  /\ Command
  /\ next # template[h]
  /\ \/ Commit(h, next, family)
     \/ UNCHANGED <<template, ready, past>>
  /\ UNCHANGED <<running, backup, exported, sniffing, pinned>>

\* cascade_apply_banks.py and cascade_apply_supercell.py
ApplyBanks(h)     == CascadeApply(h, "banks", MergeBanksDirect(template[h]))
ApplySupercell(h) == CascadeApply(h, "supercell", MergeSupercellEgress(template[h]))

\* restart_and_verify: xray runs what is stored, or nothing where that is torn.
Restart ==
  /\ restarting # None
  /\ running' = [running EXCEPT ![restarting.host] = template[restarting.host]]
  /\ pinned' = IF restarting.family = None THEN pinned
               ELSE pinned \cup {<<restarting.host, restarting.family>>}
  /\ restarting' = None
  /\ UNCHANGED <<template, backup, exported, merging, sniffing, commands, past>>

\* The command is cut before it commits, or before xray is back.
Interrupted ==
  /\ merging # None \/ restarting # None
  /\ merging' = None /\ restarting' = None
  /\ UNCHANGED <<template, running, backup, exported, sniffing, commands, pinned, past>>

\* x-ui is restarted for another reason, such as a change of the clients table.
XuiRestarted(h) ==
  /\ restarting = None
  /\ running[h] # template[h]
  /\ running' = [running EXCEPT ![h] = template[h]]
  /\ UNCHANGED <<template, backup, exported, ready, sniffing, commands, pinned, past>>

EgressNext ==
  \/ \E h \in Panels :
       \/ Apply(h) \/ Export(h) \/ Import(h) \/ Repoint(h) \/ Revert(h)
       \/ ApplyFamily(h, "vk") \/ ApplyFamily(h, "max") \/ ApplyTiktok(h)
       \/ FixSniffing(h)
  \/ \E h \in XuiHosts : ResetLogs(h) \/ XuiRestarted(h)
  \/ CleanRelay \/ CleanRelayAgain \/ SetupRelay
  \/ \E h \in Entries : ApplyBanks(h) \/ ApplySupercell(h)
  \/ CommitMerge \/ Restart \/ Interrupted

EgressSpec == EgressInit /\ [][EgressNext]_egressVars

-----------------------------------------------------------------------------
(* What xray does with a connection, by its own documentation: the first     *)
(* rule that matches decides, a rule about addresses is first skipped for a  *)
(* connection made by name and tried after the name was resolved (only with  *)
(* IPIfNonMatch), and what no rule takes leaves through the first outbound.  *)

Destinations == {"api", "private", "ruSite", "ruAddress", "vkSite", "maxSite", "tiktokRu",
                 "tiktokEdge", "bankCom", "gameEdge", "abroad"}

\* Whom a rule is about.  vkSite and bankCom resolve abroad, tiktokEdge and
\* gameEdge resolve to a Russian address.
Matching(match) ==
  CASE match = "api"       -> {"api"}
    [] match = "private"   -> {"private"}
    [] match = "ruDomain"  -> {"ruSite", "maxSite", "tiktokRu"}
    [] match = "ruIp"      -> {"ruSite", "ruAddress", "maxSite", "tiktokRu", "tiktokEdge", "gameEdge"}
    [] match = "vk"        -> {"vkSite"}
    [] match = "max"       -> {"maxSite"}
    [] match = "tiktok"    -> {"tiktokRu", "tiktokEdge"}
    [] match = "banks"     -> {"bankCom"}
    [] match = "supercell" -> {"gameEdge"}
    [] OTHER               -> Destinations \ {"api"}

ByName == Destinations \ {"api", "private", "ruAddress"}
AboutAddresses == {"private", "ruIp"}

EgressTag(t, d) ==
  LET byName == SelectInSeq(t.rules, LAMBDA r :
                  d \in Matching(r.match) /\ (d \in ByName => r.match \notin AboutAddresses))
      byAny  == SelectInSeq(t.rules, LAMBDA r : d \in Matching(r.match))
  IN  IF byName # 0 THEN t.rules[byName].tag
      ELSE IF t.resolve /\ byAny # 0 THEN t.rules[byAny].tag
      ELSE t.outs[1].tag

\* The host an outbound leads to.
LeadsTo(t, tag) == t.outs[SelectInSeq(t.outs, LAMBDA o : o.tag = tag)].to
Egress(t, d) == LET tag == EgressTag(t, d) IN IF tag = "api" THEN "api" ELSE LeadsTo(t, tag)

(***************************************************************************)
(* A family whose own rule a command reported in place keeps its egress    *)
(* in the running xray, whatever later commands add for other families:    *)
(* VK and MAX reach a relay, TikTok never does, banks leave the cascade in *)
(* Russia and games abroad.  Until apply, import or revert run on the      *)
(* host, and while one outbound of it leads to a relay: next to a second   *)
(* one TikTok's rule is put before the rules of one of them only.          *)
(***************************************************************************)
RelaysOf(t) == {tag \in TagsOf(t) : LeadsTo(t, tag) \in Relays}

FamiliesKeepTheirEgress ==
  \A p \in pinned :
    LET out(d) == Egress(running[p[1]], d)
    IN  p[1] # Relay /\ Cardinality(RelaysOf(running[p[1]])) <= 1 =>
        CASE p[2] = "vk"     -> out("vkSite") \in Relays
          [] p[2] = "max"    -> out("maxSite") \in Relays
          [] p[2] = "tiktok" -> \A d \in {"tiktokRu", "tiktokEdge"} : out(d) = "internet"
          [] p[2] = "banks"  -> out("bankCom") = "internet"
          [] OTHER           -> out("gameEdge") = "foreign"

(***************************************************************************)
(* revert brings back a template from before every merge that was ever     *)
(* committed on the panel, through merges cut before their commit, other   *)
(* commands in between and reverts (manage_ru_egress.py:912 "Backup the    *)
(* pre-apply template ONCE (re-running apply keeps the first backup)").    *)
(* Where the file itself was cut short it brings back that.                *)
(***************************************************************************)
RevertUndoesEveryMerge ==
  [][\A h \in Panels : Revert(h) /\ backup[h] # Torn => template'[h] \in before[h]]_egressVars

(***************************************************************************)
(* From the restart that ends clean-relay until the next setup no traffic  *)
(* circles between a panel and the relay: what a running panel sends to    *)
(* the relay leaves the running relay in Russia, whatever was committed,   *)
(* cut or restarted on any of them (manage_ru_egress.py:597 "must still    *)
(* egress from RU - NOT be forwarded to Helsinki").                        *)
(***************************************************************************)
EveryRouteEnds ==
  <<Relay, "clean">> \in pinned =>
    \A h \in Panels : \A d \in Destinations :
      running[h] # Torn /\ Egress(running[h], d) = Relay => Egress(running[Relay], d) = "internet"
=============================================================================
