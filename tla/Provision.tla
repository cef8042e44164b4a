----------------------------- MODULE Provision -----------------------------
(***************************************************************************)
(* From the site model to one router: the renderer, the diff against what  *)
(* the router holds, the preview whose token binds an apply, the apply     *)
(* itself with the health check that decides whether the router keeps it,  *)
(* and the controller's record of the sections it owns.                    *)
(*                                                                         *)
(* A UCI section is a record: its config and name, its type, whether it    *)
(* carries the ownership marker, whether its lists are held as plain       *)
(* strings, and its options.  What the store accepts as a site is the      *)
(* subject of SiteModel; the rollback protocol is ApplyEngine's.           *)
(***************************************************************************)
EXTENDS Naturals, FiniteSets

CONSTANTS
    Sites,       \* the site models the store may hold
    Devices,     \* what the operator selected: [routes, wireless]
    Caps,        \* capability records a probe may leave
    Foreign,     \* sections the router's owner may write
    Stock,       \* the sections the router starts with
    Tampers,     \* options he may set on our wireless sections
    Truncated,   \* zone name -> the name fw4 keeps of it
    MaxEdits,    \* bound on what happens beside an apply
    MaxByHand    \* bound on the owner's edits among them

VARIABLES
    site, dev, caps,    \* rows of the controller's database
    claims,             \* owned_sections: ref -> the options applied
    located,            \* client MACs are freshly seen behind the gateway
    uci,                \* /etc/config on the router
    live,               \* what the router's daemons have loaded
    nft,                \* what `nft list ruleset` shows beside fw4's own
    tok,                \* the preview an administrator holds
    run,                \* the apply in progress
    out,                \* outcome of the last apply
    orphans,            \* refs written by runs nobody saw the end of
    edits               \* what happened beside applies so far, and by hand

provisionVars == <<site, dev, caps, claims, located, uci, live, nft, tok, run, out,
          orphans, edits>>

NoToken == [none |-> TRUE]
Idle == [pc |-> "idle"]
Configs == {"wireless", "network", "dhcp", "firewall"}

----------------------------------------------------------------------------
(* Sections.                                                               *)

\* A section of the router: marked as ours, or not.
IsSection(x) ==
    /\ x = [ref |-> x.ref, type |-> x.type, own |-> x.own, flat |-> x.flat, opts |-> x.opts]
    /\ x.own \in BOOLEAN

\* No two sections of a package share a name.
Unique(u) == \A x, y \in u : x.ref = y.ref => x = y

\* The marker is the controller's: neither the stock configuration nor the
\* router's owner writes it.
ASSUME ProvisionAssumption ==
    /\ \A x \in Stock \cup Foreign : IsSection(x) /\ ~x.own
    /\ Unique(Stock)

\* A section the renderer wants: `manages` names the options it controls,
\* the ones it does not write this time included.
Want(cfg, type, name, opts, manages) ==
    [ref |-> <<cfg, name>>, type |-> type, opts |-> opts, manages |-> manages]

\* The options of f, and those of g it does not name.
f ++ g == [k \in DOMAIN f \cup DOMAIN g |-> IF k \in DOMAIN f THEN f[k] ELSE g[k]]

Optional(present, option, value) == IF present THEN [k \in {option} |-> value] ELSE <<>>

In(u, cfg) == {x \in u : x.ref[1] = cfg}
At(u, ref) == {x \in u : x.ref = ref}
Owned(u) == {x \in u : x.own}
Others(u, cfg, type) == {x \in In(u, cfg) : ~x.own /\ x.type = type}
Has(x, option) == option \in DOMAIN x.opts
Refs(u) == {x.ref : x \in u}

Fw(zone) == Truncated[zone]
Attach(n) == IF n.vlan = "1" THEN <<n.id>> ELSE <<"net", n.id>>
NetOf(s, id) == CHOOSE n \in s.nets : n.id = id

----------------------------------------------------------------------------
(* The wired half.                                                         *)

VLANAware(u) == \E x \in In(u, "network") : x.type = "bridge-vlan"

\* The IPv6 state an owned DHCP section already holds is carried forward
\* under the "preserve" policy.
HeldIPv6(n, u) ==
    {x \in Owned(At(u, <<"dhcp", <<"dhcp", n.id>>>>)) : Has(x, "ra")}

NeedsDHCP(n, u) == n.dhcp \/ n.v6 # "preserve" \/ HeldIPv6(n, u) # {}

BridgeVLAN(n) ==
    Want("network", "bridge-vlan", <<"bv", n.vlan>>, [vlan |-> n.vlan], {})

Routed(n) ==
    Want("network", "interface", Attach(n),
         [proto |-> "static", ipaddr |-> n.id]
             ++ Optional(n.v6 = "pd", "ip6assign", "64"),
         {"ipaddr"} \cup (IF n.v6 = "preserve" THEN {} ELSE {"ip6assign"}))

Bridged(n) ==
    Want("network", "interface", Attach(n), [proto |-> "none"], {"ipaddr"})

DHCPSection(n) ==
    Want("dhcp", "dhcp", <<"dhcp", n.id>>,
         [interface |-> Attach(n),
          dhcpv4 |-> IF n.dhcp THEN "server" ELSE "disabled"]
             ++ Optional(n.dhcp, "pool", n.id)
             ++ Optional(~n.dhcp, "ignore", "1")
             ++ Optional(n.v6 # "preserve", "ra",
                         IF n.v6 = "pd" THEN "server" ELSE "disabled"),
         {"ignore", "dhcpv4"} \cup (IF n.v6 = "preserve" THEN {} ELSE {"ra"}))

\* A network renders nothing where the board's ports could not be read, are
\* one interface, or sit on a bridge nobody made VLAN-aware.
RenderNetwork(n, d, c, u) ==
    IF ~(n.on /\ n.vlan # "1" /\ c.bridge = "ports" /\ VLANAware(u)) THEN {}
    ELSE {BridgeVLAN(n)} \cup
         CASE d.routes /\ n.addr -> {Routed(n)} \cup
                    (IF NeedsDHCP(n, u) THEN {DHCPSection(n)} ELSE {})
           [] d.routes -> {}
           [] d.wireless -> {Bridged(n)}
           [] OTHER -> {}

\* The networks of this document that have an address, hence a zone.
Members(s, d, c, u) ==
    {n \in s.nets : d.routes /\ n.addr /\ RenderNetwork(n, d, c, u) # {}}

WantsVLAN(s) == \E n \in s.nets : n.on /\ n.vlan # "1"

\* Configs the render could not see into: their silence is not a decision.
Blind(s, d, c) ==
    (IF WantsVLAN(s) /\ c.bridge = "unread"
     THEN {"network", "dhcp", "firewall"} ELSE {})
        \cup (IF d.wireless /\ ~c.read THEN {"wireless"} ELSE {})

----------------------------------------------------------------------------
(* Firewall zones, their services and edges.                               *)

ForwardTo(s, zone) == IF zone \in DOMAIN s.fwd THEN s.fwd[zone] ELSE {"wan"}

ServesIPv6(n, u) ==
    \/ n.v6 = "pd"
    \/ n.v6 = "preserve" /\ \E x \in HeldIPv6(n, u) : x.opts.ra = "server"

Service(zone, kind) ==
    Want("firewall", "rule", <<"in", zone, kind>>,
         [src |-> Fw(zone), dest |-> "", target |-> "ACCEPT"], {"enabled"})

RenderZone(s, zone, group, u) ==
    {Want("firewall", "zone", <<"zone", zone>>,
          [name |-> Fw(zone), networks |-> {Attach(n) : n \in group}], {})}
    \cup (IF \E n \in group : n.dhcp
          THEN {Service(zone, k) : k \in {"dhcp", "dns"}} ELSE {})
    \cup (IF \E n \in group : ServesIPv6(n, u)
          THEN {Service(zone, k) : k \in {"dhcpv6", "dnsv6", "icmpv6"}} ELSE {})
    \cup {Want("firewall", "forwarding", <<"fwd", zone, z>>,
               [src |-> Fw(zone), dest |-> Fw(z)], {"enabled"})
            : z \in ForwardTo(s, zone)}

RenderZones(s, d, c, u) ==
    LET members == Members(s, d, c, u)
    IN  UNION {RenderZone(s, z, {n \in members : n.zone = z}, u)
                 : z \in {n.zone : n \in members}}

----------------------------------------------------------------------------
(* Policies: rules, port forwards, routes, blocked and fixed clients.      *)

Enforced(s) == {p \in s.policies : p.on}

RenderPolicy(p, d) ==
    CASE p.kind = "rule" ->
           Want("firewall", "rule", <<"policy", p.id>>,
                [src |-> Fw(p.src), target |-> p.action,
                 dest |-> IF p.dst = "" THEN "" ELSE Fw(p.dst)], {"enabled"})
      [] p.kind = "dnat" ->
           Want("firewall", "redirect", <<"policy", p.id>>,
                [src |-> "wan", dest |-> Fw(p.dst)], {"enabled"})
      [] p.kind = "route" ->
           Want("network", "route", <<"policy", p.id>>,
                [interface |-> IF p.net = "" THEN <<"wan">> ELSE <<"net", p.net>>],
                {"disabled"})

\* A route whose network the device does not carry is left out.
RenderPolicies(s, d, base) ==
    {w \in {RenderPolicy(p, d) : p \in Enforced(s)} :
        w.type = "route" => \/ w.opts.interface = <<"wan">>
                            \/ <<"network", w.opts.interface>> \in Refs(base)}

ActiveZones(s) == {n.zone : n \in {m \in s.nets : m.on /\ m.vlan # "1"}}

RenderClients(s, base) ==
    (UNION {{Want("firewall", "rule", <<"block", k.mac, z>>,
                 [src |-> Fw(z), dest |-> "*", target |-> "REJECT"], {"enabled"})
              : z \in ActiveZones(s)} : k \in {x \in s.clients : x.blocked}})
    \cup {Want("dhcp", "host", <<"fixed", k.mac>>, [ip |-> k.fixed], {"enabled"})
            : k \in {x \in s.clients : <<"dhcp", <<"dhcp", x.fixed>>>> \in Refs(base)}}

----------------------------------------------------------------------------
(* The wireless half.                                                      *)

\* A tagged network is there only if this document renders its interface.
Available(n, base) ==
    n.on /\ (n.vlan = "1" \/ <<"network", Attach(n)>> \in Refs(base))

RenderWifiIface(s, w, band) ==
    Want("wireless", "wifi-iface", <<"wlan", w.id, band>>,
         [mode |-> "ap", device |-> band, ssid |-> w.ssid, network |-> Attach(NetOf(s, w.net)),
          ieee80211w |-> IF w.pmf = "" THEN "0" ELSE w.pmf]
             ++ Optional(w.cap, "maxassoc", "32"),
         {"mode", "ssid", "network", "ieee80211w", "maxassoc"})

\* Neither the station nor the mesh point names the options it manages.
RenderUplink(s, x, w) ==
    Want("wireless", "wifi-iface", <<"up", x.id, x.band>>,
         [mode |-> "sta", device |-> x.band, ssid |-> w.ssid, network |-> Attach(NetOf(s, w.net))]
             ++ Optional(w.pmf # "", "ieee80211w", w.pmf), {})

RenderMesh(s, m) ==
    Want("wireless", "wifi-iface", <<"mesh", m.id, m.band>>,
         [mode |-> "mesh", device |-> m.band, network |-> Attach(NetOf(s, m.net)),
          encryption |-> IF m.keyed THEN "sae" ELSE "none"]
             ++ Optional(m.keyed, "key", m.id), {})

Published(s) == {w \in s.wlans : w.on /\ w.here}
Radios(c) == IF c.read THEN c.bands ELSE {}
UplinkWLAN(s, x) == CHOOSE w \in s.wlans : w.id = x.wlan

RenderWireless(s, c, base) ==
    LET there(id) == Available(NetOf(s, id), base)
    IN  (UNION {{RenderWifiIface(s, w, b) : b \in w.bands \cap Radios(c)}
                 : w \in {x \in Published(s) : there(x.net)}})
        \cup {RenderUplink(s, x, UplinkWLAN(s, x))
                : x \in {y \in s.uplinks : /\ there(UplinkWLAN(s, y).net)
                                           /\ y.band \in Radios(c)
                                           /\ c.sta = "yes"}}
        \cup {RenderMesh(s, m)
                : m \in {y \in s.meshes : /\ there(y.net)
                                          /\ y.band \in Radios(c)
                                          /\ c.mesh = "yes"}}

\* Sections left alone because the render could not decide about them: the
\* network half was unreadable, or the gate of the feature was.
Retained(s, d, c, base) ==
    LET there(id) == Available(NetOf(s, id), base)
        lost == "network" \in Blind(s, d, c)
    IN  (UNION {{<<"wireless", <<"wlan", w.id, b>>>> : b \in w.bands \cap Radios(c)}
                 : w \in {x \in Published(s) : lost /\ ~there(x.net)}})
        \cup {<<"wireless", <<"up", x.id, x.band>>>> : x \in
            {y \in s.uplinks : /\ y.band \in Radios(c)
                               /\ IF there(UplinkWLAN(s, y).net)
                                  THEN c.sta = "unknown" ELSE lost}}
        \cup {<<"wireless", <<"mesh", m.id, m.band>>>> : m \in
            {y \in s.meshes : /\ y.band \in Radios(c)
                              /\ IF there(y.net) THEN c.mesh = "unknown" ELSE lost}}

----------------------------------------------------------------------------
(* The document.                                                           *)

ManagementIPv6(s, d) ==
    {n \in s.nets : n.on /\ n.vlan = "1" /\ d.routes /\ n.v6 # "preserve"}

Patch(ref, set, del) == [ref |-> ref, set |-> set, del |-> del]

Interface(u, name) == {x \in At(u, <<"network", <<name>>>>) : x.type = "interface"}
Speaks(x, protocols) == Has(x, "proto") /\ x.opts.proto \in protocols
WAN6Client(u) == {x \in Interface(u, "wan6") : Speaks(x, {"dhcpv6"})}
PPP == {"ppp", "pppoe", "pppoa", "pptp", "l2tp"}

\* A PPP parent beside a wan6 is not to ask for a second client.
PPPValue(u) == IF Interface(u, "wan6") = {} THEN "auto" ELSE "1"

LANPatches(n, u, on) ==
    {Patch(<<"network", <<n.id>>>>, Optional(on, "ip6assign", "64"),
           IF on THEN {} ELSE {"ip6assign"})}
    \cup {Patch(x.ref, [ra |-> IF on THEN "server" ELSE "disabled"], {})
            : x \in {y \in In(u, "dhcp") : /\ y.type = "dhcp"
                                          /\ y.opts.interface = <<n.id>>}}

WANPatches(u, on) ==
    {Patch(x.ref, [auto |-> IF on THEN "1" ELSE "0"], {}) : x \in WAN6Client(u)}
    \cup {Patch(x.ref, [ipv6 |-> IF on THEN PPPValue(u) ELSE "0"], {})
            : x \in {y \in Interface(u, "wan") : on => Speaks(y, PPP)}}

\* The router's own LAN, its DHCP section, and the WAN and its IPv6 client are
\* patched option by option and never claimed.
NetworkPatches(n, u) == LANPatches(n, u, n.v6 = "pd") \cup WANPatches(u, n.v6 = "pd")

Patches(s, d, u) == UNION {NetworkPatches(n, u) : n \in ManagementIPv6(s, d)}

Render(s, d, c, u) ==
    LET wired == UNION {RenderNetwork(n, d, c, u) : n \in s.nets}
        zoned == wired \cup RenderZones(s, d, c, u)
        base == IF d.routes
                THEN zoned \cup RenderPolicies(s, d, zoned) \cup RenderClients(s, zoned)
                ELSE zoned
    IN  [sections |-> IF d.wireless THEN base \cup RenderWireless(s, c, base) ELSE base,
         patches |-> Patches(s, d, u),
         blind |-> Blind(s, d, c),
         retain |-> IF d.wireless THEN Retained(s, d, c, base) ELSE {}]

----------------------------------------------------------------------------
(* Conflicts: reasons to leave the whole device alone.                     *)

\* Mutant: the wireless names are not looked up.
NameTakenWired(doc, u) ==
    \E w \in doc.sections, x \in u :
        x.ref = w.ref /\ ~x.own /\ w.ref[1] # "wireless"

\* A section of ours whose name somebody else has taken.  The station's name
\* is not looked up.
NameTaken(doc, u) ==
    \E w \in doc.sections, x \in u :
        x.ref = w.ref /\ ~x.own /\ w.ref[2][1] # "up"

SSIDTaken(doc, u) ==
    \E w \in doc.sections, x \in In(u, "wireless") :
        /\ w.ref[2][1] = "wlan" /\ ~x.own /\ Has(x, "ssid")
        /\ x.opts.ssid = w.opts.ssid /\ x.opts.device = w.opts.device

VLANTaken(doc, u) ==
    \E w \in doc.sections, x \in Others(u, "network", "bridge-vlan") :
        w.type = "bridge-vlan" /\ x.opts.vlan = w.opts.vlan

PoolTaken(doc, u) ==
    \E w \in doc.sections, x \in Others(u, "dhcp", "dhcp") :
        w.type = "interface" /\ <<"network", x.opts.interface>> = w.ref

Matches(x, zone) == x.opts.src \in {"*", Fw(zone)}

\* A zone somebody else wrote, or two zones fw4 cannot tell apart.
ZoneTaken(s, d, c, u) ==
    LET zones == {n.zone : n \in Members(s, d, c, u)}
    IN  \/ \E a, b \in zones : a # b /\ Fw(a) = Fw(b)
        \/ \E z \in zones, x \in Others(u, "firewall", "zone") : x.opts.name = Fw(z)

\* Foreign policy that contradicts an edge of the zone matrix.
EdgeContradicted(s, d, c, u) ==
    \E z \in {n.zone : n \in Members(s, d, c, u)}, x \in In(u, "firewall") :
        LET allowed == {Fw(t) : t \in ForwardTo(s, z)}
            denied == x.opts.dest = "*" \/ x.opts.dest \notin allowed
        IN  /\ ~x.own /\ Has(x, "src") /\ Matches(x, z)
            /\ \/ x.type = "redirect"
               \/ x.type = "forwarding" /\ denied
               \/ x.type = "rule" /\ x.opts.dest # "" /\ x.opts.target = "ACCEPT" /\ denied
               \/ /\ x.type = "rule" /\ x.opts.target = "REJECT" /\ allowed # {}
                  /\ x.opts.dest \in {"*"} \cup allowed

\* A foreign denial in front of the DHCP and DNS rules of a zone.
ServiceDenied(s, d, c, u) ==
    \E n \in Members(s, d, c, u), x \in Others(u, "firewall", "rule") :
        /\ n.dhcp \/ ServesIPv6(n, u)
        /\ Matches(x, n.zone) /\ x.opts.dest = "" /\ x.opts.target = "REJECT"

\* Foreign rules, routes and hosts that contradict an enforced policy.
PolicyContradicted(s, u) ==
    \/ \E p \in Enforced(s), x \in In(u, "firewall") :
          /\ ~x.own /\ Has(x, "src")
          /\ CASE p.kind = "rule" ->
                    /\ Matches(x, p.src)
                    /\ x.opts.dest \in {"*", IF p.dst = "" THEN "" ELSE Fw(p.dst)}
                    /\ CASE x.type = "forwarding" -> p.action # "ACCEPT" /\ p.dst # ""
                         [] x.type = "rule" -> (x.opts.target = "ACCEPT") # (p.action = "ACCEPT")
                         [] OTHER -> p.action # "ACCEPT"
               [] p.kind = "dnat" ->
                    /\ x.opts.src \in {"*", "wan"}
                    /\ \/ x.type = "redirect"
                       \/ x.type = "rule" /\ x.opts.target = "REJECT"
                              /\ x.opts.dest \in {"*", Fw(p.dst)}
               [] OTHER -> FALSE
    \/ \E p \in Enforced(s) : p.kind = "route" /\ Others(u, "network", "route") # {}
    \/ \E k \in s.clients, z \in ActiveZones(s), x \in In(u, "firewall") :
          /\ k.blocked /\ ~x.own /\ Has(x, "src") /\ Matches(x, z)
          /\ \/ x.type = "forwarding" \/ x.type = "redirect"
             \/ x.type = "rule" /\ x.opts.dest # "" /\ x.opts.target = "ACCEPT"
    \/ \E k \in s.clients : k.fixed # "" /\ Others(u, "dhcp", "host") # {}

\* A rule whose zone this gateway does not render, or no firewall4 at all.
PolicyUnrenderable(s, d, c, doc) ==
    LET zones == {"wan"} \cup {w.opts.name : w \in {x \in doc.sections : x.type = "zone"}}
        rules == {p \in Enforced(s) : p.kind # "route"}
        blocked == {k \in s.clients : k.blocked}
    IN  /\ d.routes
        /\ \/ c.fw4 # "present" /\ (rules # {} \/ blocked # {})
           \/ \E p \in rules : \/ p.kind = "rule" /\ Fw(p.src) \notin zones
                               \/ p.dst # "" /\ Fw(p.dst) \notin zones
           \/ blocked # {} /\ (ActiveZones(s) = {} \/
                                 \E z \in ActiveZones(s) : Fw(z) \notin zones)

\* The sections an IPv6 policy needs are missing, are no interfaces or hold
\* addresses the owner assigned by hand, or two networks would patch the same.
LANUnpatchable(s, d, u) ==
    \/ \E n \in ManagementIPv6(s, d) :
          \/ Interface(u, n.id) = {}
          \/ Cardinality({x \in In(u, "dhcp") :
                            x.type = "dhcp" /\ x.opts.interface = <<n.id>>}) # 1
          \/ \E name \in {"wan", "wan6"} : At(u, <<"network", <<name>>>>) # Interface(u, name)
          \/ n.v6 = "off" /\ \E x \in Interface(u, n.id) \cup Interface(u, "wan") \cup WAN6Client(u) :
                                 Has(x, "ip6addr")
    \/ \E m, n \in ManagementIPv6(s, d) :
          m # n /\ \E p \in NetworkPatches(m, u), q \in NetworkPatches(n, u) : p.ref = q.ref

\* Policy in the running ruleset that fw4 did not generate.
ForeignNFT(hidden) == hidden # "fw4"

\* An explicit matrix is refused where nftables may hold policy beside UCI.
Unprovable(s, d, u) ==
    /\ d.routes
    /\ \/ DOMAIN s.fwd # {}
       \/ \E p \in Enforced(s) : p.kind # "route"
       \/ \E k \in s.clients : k.blocked
    /\ Others(u, "firewall", "include") # {} \/ ForeignNFT(nft)

Conflicts(s, d, c, u, doc) ==
    \/ NameTaken(doc, u) \/ VLANTaken(doc, u) \/ PoolTaken(doc, u)
    \/ ZoneTaken(s, d, c, u) \/ EdgeContradicted(s, d, c, u)
    \/ ServiceDenied(s, d, c, u)
    \/ d.routes /\ PolicyContradicted(s, u)
    \/ PolicyUnrenderable(s, d, c, doc) \/ LANUnpatchable(s, d, u)
    \/ SSIDTaken(doc, u) \/ Unprovable(s, d, u)

----------------------------------------------------------------------------
(* The diff.                                                               *)

Listed == {"bridge-vlan", "zone"}

\* Options of ours the router still holds and this render does not write.
ManagedButUnwritten(w, x) == (w.manages \ DOMAIN w.opts) \cap DOMAIN x.opts

Agrees(w, x) == \A k \in DOMAIN w.opts : Has(x, k) /\ x.opts[k] = w.opts[k]

\* A list held as one string reads like our list and is not one.
Matching(w, x) ==
    /\ Agrees(w, x)
    /\ ManagedButUnwritten(w, x) = {}
    /\ ~(x.flat /\ w.type \in Listed)

Pending(p, x) ==
    \/ p.del \cap DOMAIN x.opts # {}
    \/ \E k \in DOMAIN p.set : ~Has(x, k) \/ x.opts[k] # p.set[k]

\* A list held as one string is deleted before it is set.
ListOptions == {"networks"}
Flattened(w, x) == {k \in ListOptions \cap DOMAIN w.opts \cap DOMAIN x.opts : x.flat}
Cleared(w, x) == ManagedButUnwritten(w, x) \cup Flattened(w, x)

Write(w, clear) == [want |-> w, clear |-> clear]

\* Mutant: sections outside the document are stale whatever was unread.
PruneUndecided(doc, u) ==
    {x.ref : x \in {y \in Owned(u) : y.ref \notin Refs(doc.sections)}}

\* Mutant: the DHCP config is rendered into and never read.
PruneSkipsDHCP(doc, u) ==
    {x.ref : x \in {y \in Owned(u) : /\ y.ref \notin Refs(doc.sections)
                                     /\ y.ref[1] \notin doc.blind \cup {"dhcp"}
                                     /\ y.ref \notin doc.retain}}

Prune(doc, u) ==
    {x.ref : x \in {y \in Owned(u) : /\ y.ref \notin Refs(doc.sections)
                                     /\ y.ref[1] \notin doc.blind
                                     /\ y.ref \notin doc.retain}}

\* Mutant: a changed section is set again without clearing anything.
PlanSetsOnly(doc, u) ==
    [add |-> {Write(w, {}) : w \in {v \in doc.sections : At(u, v.ref) = {}}},
     put |-> UNION {{Write(w, {}) : x \in {y \in At(u, w.ref) : ~Matching(w, y)}}
                      : w \in doc.sections},
     patch |-> {p \in doc.patches : \E x \in At(u, p.ref) : Pending(p, x)},
     drop |-> Prune(doc, u)]

Plan(doc, u) ==
    [add |-> {Write(w, {}) : w \in {v \in doc.sections : At(u, v.ref) = {}}},
     put |-> UNION {{Write(w, Cleared(w, x))
                       : x \in {y \in At(u, w.ref) : ~Matching(w, y)}} : w \in doc.sections},
     patch |-> {p \in doc.patches : \E x \in At(u, p.ref) : Pending(p, x)},
     drop |-> Prune(doc, u)]

NoPlan == [add |-> {}, put |-> {}, patch |-> {}, drop |-> {}]

Written(plan) == {o.want.ref : o \in plan.add \cup plan.put}
Touched(plan) == Written(plan) \cup plan.drop \cup {p.ref : p \in plan.patch}

\* Drift: what was applied is still what is wanted, and the router differs.
Drift(doc, u, recorded) ==
    UNION {{w.ref : x \in {y \in Owned(At(u, w.ref)) :
                /\ w.ref \in DOMAIN recorded => recorded[w.ref] = w.opts
                /\ \E k \in DOMAIN w.opts :
                      IF Has(y, k) THEN y.opts[k] # w.opts[k]
                      ELSE w.ref \in DOMAIN recorded}} : w \in doc.sections}

\* A document that names a section twice is refused.
Ambiguous(doc) == \E v, w \in doc.sections : v # w /\ v.ref = w.ref

PlanDevice(s, d, c, u) ==
    LET doc == Render(s, d, c, u)
        blocked == Ambiguous(doc) \/ Conflicts(s, d, c, u, doc)
    IN  [doc |-> doc, seen |-> u, blocked |-> blocked, drift |-> Drift(doc, u, claims),
         ops |-> IF blocked THEN NoPlan ELSE Plan(doc, u)]

----------------------------------------------------------------------------
(* What the router does with a batch.                                      *)

Except(f, gone) == [k \in DOMAIN f \ gone |-> f[k]]

\* Setting or deleting what is no longer there fails the whole batch.
Stageable(plan, u) ==
    /\ \A o \in plan.put : \E x \in At(u, o.want.ref) : o.clear \subseteq DOMAIN x.opts
    /\ \A ref \in plan.drop : At(u, ref) # {}
    /\ \A p \in plan.patch : At(u, p.ref) # {}

Held(u, ref) == IF At(u, ref) = {} THEN <<>> ELSE (CHOOSE x \in At(u, ref) : TRUE).opts

Patched(plan, x) ==
    IF \E p \in plan.patch : p.ref = x.ref
    THEN LET p == CHOOSE p \in plan.patch : p.ref = x.ref
         IN  [x EXCEPT !.opts = p.set ++ Except(x.opts, p.del)]
    ELSE x

\* In the order of the batch: sections written, options patched, sections
\* deleted.
Staged(plan, u) ==
    LET written == {[ref |-> o.want.ref, type |-> o.want.type, own |-> TRUE, flat |-> FALSE,
                     opts |-> o.want.opts ++ Except(Held(u, o.want.ref), o.clear)]
                       : o \in plan.add \cup plan.put}
        left == {x \in u : x.ref \notin Written(plan)}
    IN  {Patched(plan, x) : x \in {y \in left \cup written : y.ref \notin plan.drop}}

Loaded(u, l, configs) ==
    {x \in u : x.ref[1] \in configs} \cup {x \in l : x.ref[1] \notin configs}

----------------------------------------------------------------------------
(* The health check, asked of the running daemons and never of UCI.        *)

InForce(l, w) == \E x \in At(l, w.ref) : Agrees(w, x)
Wants(doc, cfg, type) == {w \in doc.sections : w.ref[1] = cfg /\ w.type = type}
Wireless(doc) == {w \in doc.sections : w.ref[1] = "wireless"}
Gone(l, u, doc, types) ==
    \A x \in Owned(u) : x.type \in types /\ x.ref \notin Refs(doc.sections)
                           => At(l, x.ref) = {}

\* Networks some zone of ours, wanted or present, lists.
ZonedNetworks(doc, u) ==
    (UNION {w.opts.networks : w \in Wants(doc, "firewall", "zone")})
        \cup UNION {x.opts.networks : x \in {y \in Owned(In(u, "firewall")) : y.type = "zone"}}

FirewallConcerned(doc, ops, u) ==
    \/ \E ref \in Touched(ops) : ref[1] = "firewall"
    \/ \E ref \in Touched(ops) :
          /\ ref[1] = "network" /\ ref[2] \in ZonedNetworks(doc, u)
          /\ ref \in Refs(Wants(doc, "network", "interface")) \cup Refs(Owned(u))
    \/ \E w \in Wireless(doc) : w.ref \in Touched(ops) /\ w.opts.network \in ZonedNetworks(doc, u)
    \/ ops = NoPlan /\ \E w \in doc.sections : w.ref[1] = "firewall"

FirewallTypes == {"zone", "forwarding", "rule", "redirect"}

Up(l, iface) == iface = <<"wan">> \/ <<"network", iface>> \in Refs(l)

\* The chains fw4 builds for a zone, dispatched to from its devices.
ZoneLoaded(l, name) ==
    \E x \in In(l, "firewall") :
        x.type = "zone" /\ x.opts.name = name /\ \A i \in x.opts.networks : Up(l, i)

\* A rule, redirect or edge counts where its source is dispatched to.
PolicyLoaded(l, w) == InForce(l, w) /\ (w.opts.src = "wan" \/ ZoneLoaded(l, w.opts.src))

FirewallHealthy(doc, u, l, hidden) ==
    /\ \A w \in Wants(doc, "firewall", "zone") : \A i \in w.opts.networks :
          <<"network", i>> \in Refs(Wants(doc, "network", "interface"))
    /\ ~ForeignNFT(hidden)
    /\ \A w \in doc.sections : w.ref[1] = "firewall" =>
          IF w.type = "zone" THEN InForce(l, w) /\ ZoneLoaded(l, w.opts.name)
          ELSE PolicyLoaded(l, w)
    /\ Gone(l, u, doc, FirewallTypes)

\* Neither health check can describe a pool that has no range.
PoolDescribable(w) == Has(w, "pool")

RoutesAndLeases(doc, u) ==
    Wants(doc, "network", "route") \cup Wants(doc, "dhcp", "host")
        \cup {x \in Owned(u) : x.type \in {"route", "host"}}

\* Both netifd and the kernel hold the route on an interface that is up.
RouteActive(l, w) == InForce(l, w) /\ Up(l, w.opts.interface)

\* dnsmasq holds the host, and a range that covers it on an interface.
LeaseActive(l, w) ==
    InForce(l, w) /\ \E x \in At(l, <<"dhcp", <<"dhcp", w.opts.ip>>>>) :
                          Has(x, "pool") /\ Up(l, x.opts.interface)

PolicyHealthy(doc, u, l) ==
    /\ \A w \in Wants(doc, "dhcp", "dhcp") : PoolDescribable(w)
    /\ \A w \in Wants(doc, "network", "route") : RouteActive(l, w)
    /\ \A w \in Wants(doc, "dhcp", "host") : LeaseActive(l, w)
    /\ Gone(l, u, doc, {"route", "host"})

InterfacesHealthy(doc, ops, l) ==
    /\ \A w \in Wants(doc, "network", "interface") :
          w.ref \in Touched(ops) => Up(l, w.ref[2])
    /\ \A w \in Wireless(doc) :
          w.opts.network[1] = "net" => Up(l, w.opts.network)

DHCPHealthy(doc, ops, u, l) ==
    LET claimed(w) ==
            \/ w.ref \in Touched(ops) \/ <<"network", w.opts.interface>> \in Touched(ops)
            \/ \E v \in Wireless(doc) :
                  v.ref \in Touched(ops) /\ v.opts.network = w.opts.interface
    IN  /\ \A w \in Wants(doc, "dhcp", "dhcp") :
              claimed(w) => PoolDescribable(w) /\ InForce(l, w) /\ Up(l, w.opts.interface)
        /\ \A ref \in ops.drop : ref[1] = "dhcp" => At(l, ref) = {}

\* Names this plan takes off the air.
GoneSSIDs(doc, ops, u) ==
    {x.opts.ssid : x \in {y \in In(u, "wireless") :
                            Has(y, "ssid") /\ y.ref \in ops.drop \cup Written(ops)}}
        \ {w.opts.ssid : w \in {v \in Wireless(doc) : Has(v, "ssid")}}

WirelessHealthy(doc, ops, u, l) ==
    /\ \A w \in Wireless(doc) : Has(w, "ssid") =>
          \E x \in At(l, w.ref) : x.opts.ssid = w.opts.ssid
    /\ \A ref \in ops.drop : ref[1] = "wireless" => At(l, ref) = {}
    /\ \A x \in In(l, "wireless") : Has(x, "ssid") => x.opts.ssid \notin GoneSSIDs(doc, ops, u)

\* The checks the plan is composed with, in the order the code asks them.
ManagedRuntime(doc, ops, u, l, hidden) ==
    /\ FirewallConcerned(doc, ops, u) => FirewallHealthy(doc, u, l, hidden)
    /\ RoutesAndLeases(doc, u) # {} \/ (\E w \in Wants(doc, "dhcp", "dhcp") : ~PoolDescribable(w))
          => PolicyHealthy(doc, u, l)

Healthy(doc, ops, u, l, hidden) ==
    /\ ManagedRuntime(doc, ops, u, l, hidden)
    /\ InterfacesHealthy(doc, ops, l)
    /\ DHCPHealthy(doc, ops, u, l)
    /\ WirelessHealthy(doc, ops, u, l)

----------------------------------------------------------------------------
(* Preview, apply and the ownership record.                                *)

\* What a preview token commits to: the site, the device row, the claims and
\* the plan with everything the router held when it was made.
Binding == [site |-> site, dev |-> dev, caps |-> caps, claims |-> claims,
            plan |-> PlanDevice(site, dev, caps, uci)]

Renderable == site.ok /\ (site.macs => located)

\* A gateway just adopted: stock configuration and a probe that answered.
ProvisionInit ==
    /\ site \in Sites /\ dev \in {d \in Devices : d.routes}
    /\ caps \in {c \in Caps : c.read /\ c.bridge # "unread"}
    /\ claims = <<>> /\ located = TRUE
    /\ uci = Stock /\ live = Stock /\ nft = "fw4"
    /\ tok = NoToken /\ run = Idle /\ out = "none" /\ orphans = {}
    /\ edits = [all |-> 0, hand |-> 0]

Preview ==
    /\ run.pc \in {"idle", "armed"}
    /\ tok' = IF Renderable THEN Binding ELSE NoToken
    /\ UNCHANGED <<site, dev, caps, claims, located, uci, live, nft, run, out,
                   orphans, edits>>

\* ApplySite plans the fleet again and compares the whole of it.
Accept ==
    /\ run = Idle /\ tok # NoToken /\ Renderable
    /\ tok = Binding /\ ~tok.plan.blocked
    /\ run' = [pc |-> "accepted", bound |-> tok]
    /\ UNCHANGED <<site, dev, caps, claims, located, uci, live, nft, tok, out,
                   orphans, edits>>

\* The change edits the path the controller reaches the router by, which the
\* request has to acknowledge.
Traverses(plan) == \E ref \in Touched(plan) : ref[1] \in {"network", "firewall"}

Refuse ==
    /\ run = Idle /\ tok # NoToken
    /\ ~Renderable \/ tok # Binding \/ tok.plan.blocked \/ Traverses(tok.plan.ops)
    /\ tok' = NoToken /\ out' = "refused"
    /\ UNCHANGED <<site, dev, caps, claims, located, uci, live, nft, run,
                   orphans, edits>>

Ended(result) == run' = Idle /\ out' = result

\* Mutant: the plan read under the gate is not compared with the preview.
SameSiteOnly == run.bound.site = site /\ run.bound.dev = dev

\* Behind the device's gate the rows are compared and the plan made again.
StillBound == run.bound = Binding

ReadPlan ==
    /\ run.pc = "accepted"
    /\ IF StillBound /\ Renderable
       THEN /\ run' = [pc |-> "planned", bound |-> run.bound,
                       plan |-> PlanDevice(run.bound.site, dev, caps, uci)]
            /\ out' = out
       ELSE Ended("stale")
    /\ UNCHANGED <<site, dev, caps, claims, located, uci, live, nft, tok,
                   orphans, edits>>

\* The batch is staged and committed with the rollback armed; the daemons
\* take their configs up, or one of them does not.
Stage ==
    /\ run.pc = "planned" /\ run.plan.ops # NoPlan /\ Stageable(run.plan.ops, uci)
    /\ uci' = Staged(run.plan.ops, uci)
    /\ LET changed == {ref[1] : ref \in Touched(run.plan.ops)}
       IN  \E missed \in {{}} \cup {{cfg} : cfg \in changed} :
              live' = Loaded(uci', live, changed \ missed)
    /\ run' = [pc |-> "armed", bound |-> run.bound, plan |-> run.plan,
               before |-> uci, after |-> uci']
    /\ UNCHANGED <<site, dev, caps, claims, located, nft, tok, out, orphans, edits>>

StageFails ==
    /\ run.pc = "planned" /\ ~run.plan.blocked /\ ~Stageable(run.plan.ops, uci)
    /\ Ended("error")
    /\ UNCHANGED <<site, dev, caps, claims, located, uci, live, nft, tok, orphans, edits>>

Verified(u) == Healthy(run.plan.doc, run.plan.ops, u, live, nft)

\* Nothing to write is still not proof of what is running.
NothingToWrite ==
    /\ run.pc = "planned" /\ ~run.plan.blocked /\ run.plan.ops = NoPlan
    /\ IF Verified(run.plan.seen)
       THEN /\ run' = [pc |-> "confirmed", bound |-> run.bound, plan |-> run.plan,
                       before |-> run.plan.seen, after |-> run.plan.seen]
            /\ out' = out
       ELSE Ended("error")
    /\ UNCHANGED <<site, dev, caps, claims, located, uci, live, nft, tok, orphans, edits>>

Confirm ==
    /\ run.pc = "armed" /\ Verified(run.plan.seen)
    /\ run' = [run EXCEPT !.pc = "confirmed"]
    /\ UNCHANGED <<site, dev, caps, claims, located, uci, live, nft, tok, out,
                   orphans, edits>>

Revert ==
    /\ run.pc = "armed" /\ ~Verified(run.plan.seen)
    /\ uci' = run.before /\ live' = run.before
    /\ Ended("reverted")
    /\ UNCHANGED <<site, dev, caps, claims, located, nft, tok, orphans, edits>>

\* The controller stops, or never learns whether its confirmation arrived.
Lost ==
    /\ run.pc = "armed"
    /\ \/ Verified(run.plan.seen) /\ UNCHANGED <<uci, live>>
             /\ orphans' = orphans \cup Written(run.plan.ops)
       \/ uci' = run.before /\ live' = run.before /\ UNCHANGED orphans
    /\ Ended("unknown")
    /\ UNCHANGED <<site, dev, caps, claims, located, nft, tok, edits>>

\* A claim the render took no decision about is carried forward.
Preserved(doc, u, ref) ==
    /\ ref \notin Refs(doc.sections) /\ ref \in Refs(Owned(u))
    /\ ref[1] \in doc.blind \/ ref \in doc.retain

\* Mutant: the record is exactly the document.
ClaimedWanted(doc, u) ==
    [ref \in Refs(doc.sections) |-> (CHOOSE w \in doc.sections : w.ref = ref).opts]

Claimed(doc, u) ==
    LET kept == {ref \in DOMAIN claims : Preserved(doc, u, ref)}
        mine == {w \in doc.sections : \A x \in At(u, w.ref) : x.own}
    IN  [ref \in kept \cup Refs(mine) |->
            IF ref \in kept THEN claims[ref]
            ELSE (CHOOSE w \in mine : w.ref = ref).opts]

\* The audit of the outcome, written last, may fail by itself.
RecordOwned ==
    /\ run.pc = "confirmed"
    /\ claims' = Claimed(run.plan.doc, run.plan.seen)
    /\ orphans' = (orphans \cap Refs(Owned(uci))) \ DOMAIN claims'
    /\ Ended("applied") \/ Ended("error")
    /\ UNCHANGED <<site, dev, caps, located, uci, live, nft, tok, edits>>

RecordFails ==
    /\ run.pc = "confirmed"
    /\ orphans' = orphans \cup Written(run.plan.ops)
    /\ Ended("error")
    /\ UNCHANGED <<site, dev, caps, claims, located, uci, live, nft, tok, edits>>

----------------------------------------------------------------------------
(* What happens beside an apply.                                           *)

Beside ==
    /\ edits.all < MaxEdits
    /\ edits' = [edits EXCEPT !.all = @ + 1]

\* Every edit of the site takes the lock an apply holds from end to end.
EditSite ==
    /\ Beside /\ run = Idle
    /\ site' \in Sites \ {site}
    /\ UNCHANGED <<dev, caps, claims, located, uci, live, nft, tok, run, out, orphans>>

\* A probe and a change of functions wait for the device's gate only.
Reprobe ==
    /\ Beside /\ run.pc \in {"idle", "accepted"}
    /\ caps' \in Caps \ {caps}
    /\ UNCHANGED <<site, dev, claims, located, uci, live, nft, tok, run, out, orphans>>

SetFunctions ==
    /\ Beside /\ run.pc \in {"idle", "accepted"}
    /\ dev' \in Devices \ {dev}
    /\ UNCHANGED <<site, caps, claims, located, uci, live, nft, tok, run, out, orphans>>

ScopeChanges ==
    /\ Beside /\ site.macs /\ located' = ~located
    /\ UNCHANGED <<site, dev, caps, claims, uci, live, nft, tok, run, out, orphans>>

HiddenPolicy ==
    /\ Beside /\ nft' = IF nft = "fw4" THEN "foreign" ELSE "fw4"
    /\ UNCHANGED <<site, dev, caps, claims, located, uci, live, tok, run, out, orphans>>

\* The router's owner adds, removes or alters sections and reloads.
OwnerEdit(u) ==
    /\ run.pc # "armed" /\ u # uci
    /\ edits.all < MaxEdits /\ edits.hand < MaxByHand
    /\ edits' = [all |-> edits.all + 1, hand |-> edits.hand + 1]
    /\ uci' = u /\ live' = u
    /\ UNCHANGED <<site, dev, caps, claims, located, nft, tok, run, out, orphans>>

OwnerAdds == \E x \in Foreign : x.ref \notin Refs(uci) /\ OwnerEdit(uci \cup {x})
OwnerRemoves == \E x \in uci : OwnerEdit(uci \ {x})
OwnerDisowns == \E x \in Owned(uci) :
    OwnerEdit((uci \ {x}) \cup {[x EXCEPT !.own = FALSE]})
OwnerFlattens == \E x \in uci :
    x.type \in Listed /\ OwnerEdit((uci \ {x}) \cup {[x EXCEPT !.flat = TRUE]})
OwnerAlters == \E x \in Owned(In(uci, "wireless")), t \in Tampers :
    OwnerEdit((uci \ {x}) \cup {[x EXCEPT !.opts = t ++ x.opts]})

ProvisionNext ==
    \/ Preview \/ Accept \/ Refuse \/ ReadPlan \/ Stage \/ StageFails
    \/ NothingToWrite \/ Confirm \/ Revert \/ Lost \/ RecordOwned \/ RecordFails
    \/ EditSite \/ Reprobe \/ SetFunctions \/ ScopeChanges \/ HiddenPolicy
    \/ OwnerAdds \/ OwnerRemoves \/ OwnerDisowns \/ OwnerFlattens \/ OwnerAlters

ProvisionSpec == ProvisionInit /\ [][ProvisionNext]_provisionVars

----------------------------------------------------------------------------
(* Properties.                                                             *)

Staging == run.pc = "planned" /\ run'.pc = "armed"
\* The router changed by nobody else since the plan was read.
Recording ==
    /\ run.pc = "confirmed" /\ run'.pc = "idle" /\ out' = "applied"
    /\ run.before = run.plan.seen /\ uci = run.after /\ nft = "fw4"

PatchedOptions == {"ip6assign", "ra", "auto", "ipv6"}

\* An apply changes no section the router's owner wrote, except the IPv6
\* options of the LAN and WAN it patches, and claims none of them
\* (Doc.Plan, Doc.Prune and the conflicts in front of them).  The station's
\* section is left out: its name is not looked up before it is written.
ForeignKept ==
    [][Staging => \A x \in uci \cap run.plan.seen : ~x.own /\ x.ref[2][1] # "up" =>
          \E y \in At(uci', x.ref) :
              /\ ~y.own /\ y.type = x.type
              /\ Except(x.opts, PatchedOptions) = Except(y.opts, PatchedOptions)]_provisionVars

\* The network of a wireless section is on the router, or could not be looked for.
Reachable(net) ==
    \/ Available(NetOf(site, net), run.plan.doc.sections)
    \/ WantsVLAN(site) /\ caps.bridge = "unread"

\* Wireless sections the site still asks for, on bands that answer, and whose
\* feature was not found missing.
StillAsked ==
    (UNION {{<<"wireless", <<"wlan", w.id, b>>>> : b \in w.bands \cap caps.bands}
              : w \in {v \in Published(site) : Reachable(v.net)}})
    \cup {<<"wireless", <<"up", m.id, m.band>>>>
            : m \in {y \in site.uplinks : /\ caps.sta \in {"yes", "unknown"}
                                          /\ y.band \in caps.bands
                                          /\ Reachable(UplinkWLAN(site, y).net)}}
    \cup {<<"wireless", <<"mesh", m.id, m.band>>>>
            : m \in {y \in site.meshes : /\ caps.mesh \in {"yes", "unknown"}
                                         /\ y.band \in caps.bands
                                         /\ Reachable(y.net)}}

\* A section of ours disappears only if the render could see enough of the
\* router to decide against it: not while the ports or the radio list are
\* unread, nor a wireless section the site still asks for whose network or
\* capability is unknown (Doc.Retain, Doc.Blind).
IgnoranceKeeps ==
    [][Staging => \A x \in Owned(uci) : At(uci', x.ref) = {} =>
          /\ WantsVLAN(site) /\ caps.bridge = "unread"
                => x.ref[1] \notin {"network", "dhcp", "firewall"}
          /\ dev.wireless => caps.read \/ x.ref[1] # "wireless"
          /\ dev.wireless /\ caps.read => x.ref \notin StillAsked]_provisionVars

\* What an apply writes over or prunes was ours, and known to be unwanted.
TouchesOnlyOurs == ForeignKept /\ IgnoranceKeeps

\* A confirmed apply is a fixed point: planning again without any change in
\* between finds no conflict and nothing to do (plan.matches and the options
\* a section manages).
Converges ==
    [][Recording => LET again == PlanDevice(site, dev, caps, uci)
                    IN  ~again.blocked /\ again.ops = NoPlan]_provisionVars

\* What is written is what the administrator was shown, although the plan is
\* made a third time behind the device's gate (ApplySite's fingerprints).
TokenBinds ==
    run.pc \in {"planned", "armed", "confirmed"} => run.plan = run.bound.plan

\* Between applies every section that carries our marker is in the ownership
\* record un-adoption reads, or was written by a run whose end is unknown
\* (recordOwned's carry-forward, ReplaceOwned).  The station is left out here
\* too: written over a foreign section it is marked as ours and never claimed.
ClaimsCover ==
    run = Idle => \A x \in Owned(uci) :
                      x.ref[2][1] # "up" => x.ref \in DOMAIN claims \cup orphans

NetworksOf(x) ==
    CASE x.type = "wifi-iface" -> {x.opts.network}
      [] x.type = "zone" -> x.opts.networks
      [] x.type = "dhcp" -> {x.opts.interface}
      [] OTHER -> {}

\* An apply never removes a network section that an interface, a zone or a
\* pool of ours still names, unless the radio list was unread
\* (networkAttachmentAvailable, Prune).
NothingDangles ==
    [][Recording /\ "wireless" \notin run.plan.doc.blind =>
          \A x \in Owned(uci) : \A i \in NetworksOf(x) :
              <<"network", i>> \in Refs(run.before) => <<"network", i>> \in Refs(uci)]_provisionVars

\* A confirmed apply leaves nothing to do and nothing half there.
ApplyIsComplete == Converges /\ NothingDangles
=============================================================================
