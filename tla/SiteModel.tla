----------------------------- MODULE SiteModel -----------------------------
(***************************************************************************)
(* The desired state of the site (internal/model, store/site.go,           *)
(* store/policy.go) and every edit of it: networks and their firewall      *)
(* zones, rules, port forwards and routes, named sets of clients, blocks   *)
(* and fixed addresses, groups, WLANs, meshes, uplinks and overrides.      *)
(*                                                                         *)
(* The handlers of api/site.go, api/policy.go and api/mesh.go hold one     *)
(* lock, so an edit is one step.  What changes beside them is the          *)
(* evidence the edits depend on: devices come and go, polls record clients *)
(* and where the gateway saw them, observations age and are pruned.        *)
(*                                                                         *)
(* A CIDR is the set of its usable host addresses, a name is its zone      *)
(* label, and a table is a function from the ids of its rows.              *)
(***************************************************************************)
EXTENDS Naturals, FiniteSets, SequencesExt

CONSTANTS Zones,      \* zone labels
          Identifier, \* label -> the name firewall4 sees (FirewallZoneName)
          Addresses,
          Macs,
          Devices,
          Gateway,    \* the device adopted as gateway
          NetForms,   \* contents a network can be saved with
          RuleForms,  \* contents a policy can be saved with
          WlanForms,  \* contents a WLAN can be saved with
          MaxId,      \* bound on row ids
          MaxEdits    \* bound on the edits and events of a behaviour

Absent == "none"

\* What the requests can carry, by kind.
FirewallForms == [kind : {"firewall"}, src : Zones \cup {"wan"}, dst : Zones \cup {"wan", Absent},
                  act : STRING, macs : SUBSET Macs, set : Nat]
ForwardForms == [kind : {"forward"}, dst : Zones, ip : Addresses, port : Nat]
RouteForms == [kind : {"route"}, net : Nat, gw : Addresses, target : Addresses]

ASSUME SiteAssumption ==
    /\ Gateway \in Devices
    /\ MaxId \in Nat /\ MaxEdits \in Nat
    /\ DOMAIN Identifier = Zones
    /\ NetForms \subseteq [vlan : Nat, zone : Zones, on : BOOLEAN,
                          dhcp : {"on", "off", "omitted"}, cidr : SUBSET Addresses]
    /\ RuleForms \subseteq FirewallForms \cup ForwardForms \cup RouteForms
    /\ WlanForms \subseteq [net : Nat, grp : Nat, on : BOOLEAN, keyed : BOOLEAN, bridges : BOOLEAN]

VARIABLES
    site,    \* the policy half: tables net, zone, sets, rule and client
    wlan, grp, mesh, uplink, over,   \* the wireless half
    dev,     \* adopted devices and their management mode
    seen,    \* client_observations rows of the gateway
    edits    \* steps so far

siteVars == <<site, wlan, grp, mesh, uplink, over, dev, seen, edits>>

Unlisted == [blocked |-> FALSE, fixed |-> Absent, kept |-> FALSE]

-----------------------------------------------------------------------------
(* Tables.  INTEGER PRIMARY KEY without AUTOINCREMENT: the id after the    *)
(* largest one in use.                                                     *)

Put(t, i, v) == [j \in DOMAIN t \cup {i} |-> IF j = i THEN v ELSE t[j]]
Without(t, i) == [j \in DOMAIN t \ {i} |-> t[j]]
Ids(t) == DOMAIN t
NextId(t) == IF Ids(t) = {} THEN 1 ELSE Max(Ids(t)) + 1

\* A save updates a row that exists or, with id 0, inserts the next one.
Slots(t) == Ids(t) \cup ({NextId(t)} \cap 1..MaxId)

-----------------------------------------------------------------------------
(* Zones.                                                                  *)

Active(s) == {n \in Ids(s.net) : s.net[n].on /\ s.net[n].vlan > 1}
Labels(s) == {s.net[n].zone : n \in Active(s)}
Foreign == {"lan", "wan"}

\* Labels that render alike, or as a zone of the device's own, are left out.
ActiveZoneNames(s) ==
    {z \in Labels(s) : /\ Identifier[z] \notin Foreign
                       /\ \A y \in Labels(s) : Identifier[y] = Identifier[z] => y = z}

ValidateZoneNames(s) == ActiveZoneNames(s) = Labels(s)

ValidateZonePolicies(s) ==
    LET active == ActiveZoneNames(s) IN
    \A z \in Ids(s.zone) : /\ z \in active
                           /\ s.zone[z] \subseteq (active \cup {"wan"}) \ {z}

-----------------------------------------------------------------------------
(* Policies.                                                               *)

Holding(s, a) == {n \in Active(s) : a \in s.net[n].cidr}

SourceMACs(s, r) == IF r.set # 0 THEN s.sets[r.set] ELSE r.macs
MACRule(r) == r.kind = "firewall" /\ (r.set # 0 \/ r.macs # {})

ValidateFirewallRule(s, r) ==
    LET zones == ActiveZoneNames(s) \cup {"wan"} IN
    /\ r.src \in zones
    /\ r.dst \in (zones \cup {Absent}) \ {r.src}
    /\ r.set # 0 => r.set \in Ids(s.sets) /\ r.macs = {}

ValidatePortForward(s, r) ==
    /\ r.dst \in ActiveZoneNames(s)
    /\ \E n \in Holding(s, r.ip) : s.net[n].zone = r.dst

ValidateStaticRoute(s, r) ==
    /\ r.net # 0 => r.net \in Active(s) /\ r.gw \in s.net[r.net].cidr
    /\ Holding(s, r.target) = {}

\* Disabled rules too: one could be enabled later.
ValidateRule(s, r) ==
    CASE r.kind = "firewall" -> ValidateFirewallRule(s, r)
      [] r.kind = "forward"  -> ValidatePortForward(s, r)
      [] r.kind = "route"    -> ValidateStaticRoute(s, r)

\* A managed denial from wan would run before the forward's acceptance.
DenialOverlapsForward(d, f) ==
    /\ d.kind = "firewall" /\ f.kind = "forward"
    /\ d.act # "accept" /\ d.src = "wan" /\ d.dst = f.dst

ValidatePair(p, q) ==
    p.on /\ q.on =>
        /\ ~(/\ p.kind = "firewall" /\ q.kind = "firewall"
             /\ p.src = q.src /\ p.dst = q.dst /\ p.act # q.act)
        /\ ~(p.kind = "forward" /\ q.kind = "forward" /\ p.port = q.port)
        /\ ~DenialOverlapsForward(p, q)

ValidateFixed(s, m) ==
    LET a == s.client[m].fixed IN
    a # Absent =>
        /\ Cardinality(Holding(s, a)) = 1
        /\ \A n \in Holding(s, a) : s.net[n].dhcp # "off"
        /\ \A o \in Ids(s.client) \ {m} : s.client[o].fixed # a

\* An accepted forward from a managed zone, and clients it could carry.
AcceptsForwarded(r) == /\ r.on /\ r.kind = "firewall" /\ r.act = "accept"
                       /\ r.dst # Absent /\ r.src # "wan"
Carries(s, r, m) == SourceMACs(s, r) = {} \/ m \in SourceMACs(s, r)

ValidatePolicySets(s) == \A i \in Ids(s.sets) : s.sets[i] # {}

ValidatePolicies(s) ==
    /\ ValidatePolicySets(s)
    /\ \A p \in Ids(s.rule) : ValidateRule(s, s.rule[p])
    /\ \A p, q \in Ids(s.rule) : p # q => ValidatePair(s.rule[p], s.rule[q])
    /\ \A m \in Ids(s.client) : ValidateFixed(s, m)
    /\ \A p \in Ids(s.rule), m \in Ids(s.client) :
          s.client[m].blocked /\ AcceptsForwarded(s.rule[p]) => ~Carries(s, s.rule[p], m)

-----------------------------------------------------------------------------
(* MAC policy needs the managed gateway to have seen the client locally.   *)

Managed(d) == d \in Ids(dev) /\ dev[d] = "managed"
Enforced(c) == c.blocked \/ c.fixed # Absent

EnforcedMACs(s) ==
    {m \in Ids(s.client) : Enforced(s.client[m])}
    \cup UNION {SourceMACs(s, s.rule[p]) : p \in {q \in Ids(s.rule) :
                    s.rule[q].on /\ MACRule(s.rule[q])}}

InScope(s, m) == /\ m \in Ids(seen) /\ seen[m] = [scope |-> "local", fresh |-> TRUE]
                 /\ m \in Ids(s.client)

PolicyMACScope(s, extra) ==
    LET macs == EnforcedMACs(s) \cup extra IN
    macs = {} \/ (Managed(Gateway) /\ \A m \in macs : InScope(s, m))

-----------------------------------------------------------------------------
(* Edits of networks and zones.                                            *)

Edited == edits < MaxEdits /\ edits' = edits + 1
Policy(s) == site' = s /\ UNCHANGED <<wlan, grp, mesh, uplink, over, dev, seen>>

ChangeChecksNames(s) == ValidateZoneNames(s) /\ ValidateZonePolicies(s)
EnsureNetworkChangeSafe(s) ==
    ValidateZoneNames(s) /\ ValidateZonePolicies(s) /\ ValidatePolicies(s)

\* A request without a DHCP object is checked with the default (on) and leaves
\* the stored one alone.
KeepDHCP(i, form) ==
    IF form.dhcp # "omitted" THEN form
    ELSE [form EXCEPT !.dhcp = IF i \in Ids(site.net) THEN site.net[i].dhcp ELSE "on"]

SaveNetwork(i, form) ==
    /\ \A j \in Ids(site.net) \ {i} : site.net[j].vlan # form.vlan     \* UNIQUE
    /\ EnsureNetworkChangeSafe([site EXCEPT !.net = Put(@, i, form)])
    /\ Policy([site EXCEPT !.net = Put(@, i, KeepDHCP(i, form))])

HandleSaveNetwork ==
    Edited /\ \E i \in Slots(site.net), form \in NetForms : SaveNetwork(i, form)

DeleteNetwork(i) ==
    LET s == [site EXCEPT !.net = Without(@, i)] IN
    /\ \A w \in Ids(wlan) : wlan[w].net # i
    /\ EnsureNetworkChangeSafe(s)
    /\ \A x \in Ids(mesh) : mesh[x].net # i     \* the foreign key
    /\ Policy(s)

HandleDeleteNetwork == Edited /\ \E i \in Ids(site.net) : DeleteNetwork(i)

SaveZonePolicy(z, to) ==
    LET s == [site EXCEPT !.zone = Put(@, z, to)] IN
    ValidateZonePolicies(s) /\ Policy(s)

HandleSaveZonePolicy ==
    Edited /\ \E z \in Zones, to \in SUBSET (Zones \cup {"wan"}) : SaveZonePolicy(z, to)

DeleteZonePolicy(z) == Policy([site EXCEPT !.zone = Without(@, z)])

HandleDeleteZonePolicy == Edited /\ \E z \in Ids(site.zone) : DeleteZonePolicy(z)

-----------------------------------------------------------------------------
(* Edits of policies.                                                      *)

SavePolicySet(i, ms) ==
    LET s == [site EXCEPT !.sets = Put(@, i, ms)] IN
    /\ ms # {} /\ ms \subseteq Ids(site.client)
    /\ ValidatePolicies(s) /\ PolicyMACScope(s, ms)
    /\ Policy(s)

HandleSavePolicySet ==
    Edited /\ \E i \in Slots(site.sets), ms \in SUBSET Macs : SavePolicySet(i, ms)

DeletePolicySet(i) ==
    /\ \A p \in Ids(site.rule) : site.rule[p].kind = "firewall" => site.rule[p].set # i
    /\ Policy([site EXCEPT !.sets = Without(@, i)])

HandleDeletePolicySet == Edited /\ \E i \in Ids(site.sets) : DeletePolicySet(i)

ClearsNothing(p, r) == FALSE
ClearsActiveMACPolicy(p, r) ==
    p \in Ids(site.rule) /\ site.rule[p].on /\ MACRule(site.rule[p]) /\ ~r.on

MaySavePolicy(p, r) ==
    LET s == [site EXCEPT !.rule = Put(@, p, r)] IN
    /\ ValidatePolicies(s)
    /\ ClearsActiveMACPolicy(p, r) \/ PolicyMACScope(s, {})

SavePolicy(p, r) == MaySavePolicy(p, r) /\ Policy([site EXCEPT !.rule = Put(@, p, r)])

HandleSavePolicy ==
    Edited /\ \E p \in Slots(site.rule), form \in RuleForms, on \in BOOLEAN :
                 SavePolicy(p, Put(form, "on", on))

DeletePolicy(p) == Policy([site EXCEPT !.rule = Without(@, p)])

HandleDeletePolicy == Edited /\ \E p \in Ids(site.rule) : DeletePolicy(p)

\* Removing the last enforcement of a client is checked on its own, so that one
\* client can be released while others have lost their scope.
ClearsEnforcement(m, c) == Enforced(site.client[m]) /\ ~Enforced(c)

MaySaveClientPolicy(m, c) ==
    LET s == [site EXCEPT !.client[m] = c] IN
    ClearsEnforcement(m, c) \/ (ValidatePolicies(s) /\ PolicyMACScope(s, {}))

\* nil keeps a field; `kept` is the client's group.
SaveClientPolicy(m, c) == MaySaveClientPolicy(m, c) /\ Policy([site EXCEPT !.client[m] = c])

HandleSaveClientPolicy ==
    Edited /\ \E m \in Ids(site.client), b, k \in BOOLEAN, a \in Addresses \cup {Absent} :
                 SaveClientPolicy(m, [blocked |-> b, fixed |-> a, kept |-> k])

-----------------------------------------------------------------------------
(* The Object Manager compiles drafts for clients, a group, a set or a     *)
(* network and stores nothing.                                             *)

Objects == {[kind |-> "device", id |-> m] : m \in Ids(site.client)}
           \cup {[kind |-> "policy_set", id |-> i] : i \in Ids(site.sets)}
           \cup {[kind |-> "network", id |-> n] : n \in Active(site)}
           \cup {[kind |-> "group", id |-> Absent] : m \in {c \in Ids(site.client) : site.client[c].kept}}

\* Membership does not tell where a client is attached: one draft per zone.
SourceZones(o) == IF o.kind = "network" THEN {site.net[o.id].zone} ELSE ActiveZoneNames(site)

ObjectMACs(o) == CASE o.kind = "device" -> {o.id}
                   [] o.kind = "group" -> {m \in Ids(site.client) : site.client[m].kept}
                   [] OTHER -> {}

Draft(o, zone, dest) ==
    [kind |-> "firewall", on |-> TRUE, src |-> zone, dst |-> dest, act |-> "reject",
     macs |-> ObjectMACs(o), set |-> IF o.kind = "policy_set" THEN o.id ELSE 0]

\* The site with the drafts of one object added to its policies.
WithDrafts(o, dest) ==
    LET from == SetToSeq(SourceZones(o))
        last == NextId(site.rule) - 1
    IN [site EXCEPT !.rule =
          [p \in Ids(@) \cup (last + 1 .. last + Len(from)) |->
              IF p > last THEN Draft(o, from[p - last], dest) ELSE site.rule[p]]]

DraftsUnscoped(o, dest) == SourceZones(o) # {} /\ ValidatePolicies(WithDrafts(o, dest))
CompileObjects(o, dest) ==
    /\ SourceZones(o) # {}
    /\ ValidatePolicies(WithDrafts(o, dest))
    /\ o.kind # "network" => PolicyMACScope(WithDrafts(o, dest), {})

-----------------------------------------------------------------------------
(* Edits of the wireless half.                                             *)

Wireless(w, g, x, u, o) ==
    /\ wlan' = w /\ grp' = g /\ mesh' = x /\ uplink' = u /\ over' = o
    /\ UNCHANGED <<site, dev, seen>>

\* The membership is replaced as a whole.
SaveGroup(i, ds) == Wireless(wlan, Put(grp, i, ds), mesh, uplink, over)

HandleSaveGroup ==
    Edited /\ \E i \in Slots(grp), ds \in SUBSET Devices :
                 (\A d \in ds : Managed(d)) /\ SaveGroup(i, ds)

DeleteGroup(i) ==
    /\ \A w \in Ids(wlan) : wlan[w].grp # i
    /\ \A x \in Ids(mesh) : mesh[x].grp # i     \* the foreign key
    /\ Wireless(wlan, Without(grp, i), mesh, uplink, over)

HandleDeleteGroup == Edited /\ \E i \in Ids(grp) : DeleteGroup(i)

Stored(w) == w \in Ids(wlan) /\ wlan[w].key

\* Keyless modes erase the key; an empty one in a keyed mode keeps it.
KeyPreserved(w, form, given) == given \/ Stored(w)
KeyAfter(w, form, given) == form.keyed /\ (given \/ Stored(w))

SaveWLAN(w, form, given) ==
    /\ form.net \in Ids(site.net) /\ form.grp \in Ids(grp)     \* foreign keys
    /\ Wireless(Put(wlan, w, Put(form, "key", KeyAfter(w, form, given))),
                grp, mesh, uplink, over)

\* What Site.Validate finds in the result is reported, not refused.
HandleSaveWLAN ==
    Edited /\ \E w \in Slots(wlan), form \in WlanForms, given \in BOOLEAN :
                 SaveWLAN(w, form, given)

\* The foreign key of the uplinks holds it back; overrides have none.
DeleteWLAN(w) ==
    /\ \A d \in Ids(uplink) : uplink[d] # w
    /\ Wireless(Without(wlan, w), grp, mesh, uplink, over)

HandleDeleteWLAN == Edited /\ \E w \in Ids(wlan) : DeleteWLAN(w)

\* An empty key keeps the stored one and clear_key erases it; the two exclude
\* each other.
SaveMesh(x, n, g, key) ==
    LET had == x \in Ids(mesh) /\ mesh[x].key
        row == [net |-> n, grp |-> g, key |-> key = "given" \/ (key = "kept" /\ had)]
    IN Wireless(wlan, grp, Put(mesh, x, row), uplink, over)

HandleSaveMesh ==
    Edited /\ \E x \in Slots(mesh), n \in Ids(site.net), g \in Ids(grp) :
                 \E key \in {"given", "kept", "cleared"} : SaveMesh(x, n, g, key)

HandleDeleteMesh ==
    Edited /\ \E x \in Ids(mesh) : Wireless(wlan, grp, Without(mesh, x), uplink, over)

\* Uplink.Validate against the site.
ValidateUplink(d, w) ==
    /\ w \in Ids(wlan)
    /\ wlan[w].on /\ wlan[w].bridges
    /\ d \notin grp[wlan[w].grp]

\* `from` is the row updated (its device may change), d itself for an insert.
SaveUplink(from, d, w) ==
    /\ d \in Ids(uplink) => from = d            \* UNIQUE device_id
    /\ Wireless(wlan, grp, mesh, Put(Without(uplink, from), d, w), over)

HandleSaveUplink ==
    Edited /\ \E d \in Devices, w \in Ids(wlan) :
                 /\ ValidateUplink(d, w) /\ Managed(d)
                 /\ \E from \in Ids(uplink) \cup {d} : SaveUplink(from, d, w)

HandleDeleteUplink ==
    Edited /\ \E d \in Ids(uplink) : Wireless(wlan, grp, mesh, Without(uplink, d), over)

\* An empty value clears the override.  That the WLAN exists is not checked.
SetOverride(d, w, clear) ==
    Wireless(wlan, grp, mesh, uplink,
             IF clear THEN over \ {<<d, w>>} ELSE over \cup {<<d, w>>})

HandleSetOverride ==
    Edited /\ \E d \in Devices, w \in 1..MaxId, clear \in BOOLEAN :
                 Managed(d) /\ SetOverride(d, w, clear)

-----------------------------------------------------------------------------
(* What happens beside the edits.                                          *)

Adopt ==
    /\ Edited
    /\ \E d \in Devices \ Ids(dev), mode \in {"managed", "monitor"} : dev' = Put(dev, d, mode)
    /\ UNCHANGED <<site, wlan, grp, mesh, uplink, over, seen>>

\* The rows that belong to the device go with it.
Unadopt ==
    /\ Edited
    /\ \E d \in Ids(dev) :
          /\ dev' = Without(dev, d)
          /\ grp' = [g \in Ids(grp) |-> grp[g] \ {d}]
          /\ uplink' = Without(uplink, d)
          /\ over' = {o \in over : o[1] # d}
          /\ seen' = IF d = Gateway THEN <<>> ELSE seen
    /\ UNCHANGED <<site, wlan, mesh>>

\* Any other verdict replaces the row; "local" only in a later second.
Merge(m, scope, later) ==
    IF scope = "local" /\ m \in Ids(seen) /\ ~later THEN seen[m].scope ELSE scope

UpsertClients ==
    /\ Edited
    /\ \E m \in Macs, scope \in {"local", "upstream", "unknown"}, later, gw \in BOOLEAN :
          /\ site' = IF m \in Ids(site.client) THEN site
                     ELSE [site EXCEPT !.client = Put(@, m, Unlisted)]
          /\ gw => Gateway \in Ids(dev)
          /\ seen' = IF gw THEN Put(seen, m, [scope |-> Merge(m, scope, later), fresh |-> TRUE])
                     ELSE seen
    /\ UNCHANGED <<wlan, grp, mesh, uplink, over, dev>>

\* Thirty days pass without a sighting by the gateway.
ObservationAges ==
    /\ Edited
    /\ \E m \in Ids(seen) : seen[m].fresh /\ seen' = [seen EXCEPT ![m].fresh = FALSE]
    /\ UNCHANGED <<site, wlan, grp, mesh, uplink, over, dev>>

\* Nothing the operator said about the client is lost.
UnmentionedRow(m) == site.client[m] = Unlisted
Forgettable(m) == /\ site.client[m] = Unlisted
                  /\ \A i \in Ids(site.sets) : m \notin site.sets[i]

\* `gone` are the clients nobody saw for the retention time.
PruneClients ==
    /\ Edited
    /\ \E gone \in SUBSET {m \in Ids(site.client) : m \in Ids(seen) => ~seen[m].fresh} :
          /\ seen' = [m \in {o \in Ids(seen) : seen[o].fresh} |-> seen[m]]
          /\ site' = [site EXCEPT !.client =
                [m \in Ids(site.client) \ {o \in gone : Forgettable(o)} |-> site.client[m]]]
    /\ UNCHANGED <<wlan, grp, mesh, uplink, over, dev>>

-----------------------------------------------------------------------------
Empty == [net |-> <<>>, zone |-> <<>>, sets |-> <<>>, rule |-> <<>>, client |-> <<>>]

\* A new controller.
Fresh == /\ site = Empty /\ dev = <<>> /\ seen = <<>>
         /\ wlan = <<>> /\ grp = <<>> /\ mesh = <<>> /\ uplink = <<>> /\ over = {}

SiteNext == \/ HandleSaveNetwork \/ HandleDeleteNetwork
        \/ HandleSaveZonePolicy \/ HandleDeleteZonePolicy
        \/ HandleSavePolicySet \/ HandleDeletePolicySet
        \/ HandleSavePolicy \/ HandleDeletePolicy \/ HandleSaveClientPolicy
        \/ HandleSaveGroup \/ HandleDeleteGroup \/ HandleSaveWLAN \/ HandleDeleteWLAN
        \/ HandleSaveMesh \/ HandleDeleteMesh \/ HandleSaveUplink \/ HandleDeleteUplink
        \/ HandleSetOverride
        \/ Adopt \/ Unadopt \/ UpsertClients \/ ObservationAges \/ PruneClients

SiteSpec == edits = 0 /\ Fresh /\ [][SiteNext]_siteVars

-----------------------------------------------------------------------------
(* The stored site always passes the checks of its zones and policies:     *)
(* no sequence of edits of networks, zones, sets, rules and clients leaves *)
(* a rule in a zone that is gone, two rules that contradict each other, a  *)
(* fixed address outside the networks that serve one, or a blocked client  *)
(* that a rule lets through.                                               *)
PoliciesStay == /\ ValidateZoneNames(site)
                /\ ValidateZonePolicies(site)
                /\ ValidatePolicies(site)

(* Whatever became of the gateway and its observations, an operator can    *)
(* switch off each rule that names clients and release each client.        *)
EnforcementRemovable ==
    /\ \A p \in Ids(site.rule) :
          LET r == site.rule[p] IN
          r.on /\ MACRule(r) => MaySavePolicy(p, [r EXCEPT !.on = FALSE])
    /\ \A m \in Ids(site.client) :
          Enforced(site.client[m]) =>
            MaySaveClientPolicy(m, [site.client[m] EXCEPT !.blocked = FALSE, !.fixed = Absent])

(* No row refers to one that is gone, although some references are foreign *)
(* keys, some are checked by a handler and some only by what a prune       *)
(* spares.                                                                 *)
NothingDangles ==
    /\ \A w \in Ids(wlan) : wlan[w].net \in Ids(site.net) /\ wlan[w].grp \in Ids(grp)
    /\ \A x \in Ids(mesh) : mesh[x].net \in Ids(site.net) /\ mesh[x].grp \in Ids(grp)
    /\ \A d \in Ids(uplink) : d \in Ids(dev) /\ uplink[d] \in Ids(wlan)
    /\ \A g \in Ids(grp) : grp[g] \subseteq Ids(dev)
    /\ \A i \in Ids(site.sets) : site.sets[i] \subseteq Ids(site.client)

(* What is stored can be rendered: every policy is in force and every      *)
(* reference resolves.                                                     *)
SiteIsWhole == PoliciesStay /\ NothingDangles

(* A WLAN in a mode without a key keeps no passphrase of an earlier mode:  *)
(* turning the key on again needs a new one.                               *)
NoDormantKey == \A w \in Ids(wlan) : wlan[w].key => wlan[w].keyed

(* What the Object Manager offers for clients can be saved: each draft it  *)
(* hands out, and not only the drafts together, passes the checks of a     *)
(* save, opposing rules, blocked clients and MAC scope included.           *)
DraftsSave ==
    \A o \in Objects, dest \in ActiveZoneNames(site) \cup {"wan"} :
        o.kind # "network" /\ CompileObjects(o, dest) =>
            \A z \in SourceZones(o) : MaySavePolicy(NextId(site.rule), Draft(o, z, dest))

(* No state of the site is a trap: enforcement comes off, drafts go in.    *)
EditsStayPossible == EnforcementRemovable /\ DraftsSave
=============================================================================
