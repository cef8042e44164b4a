---------------------------- MODULE MCSiteModel ----------------------------
(* Two networks, two client MACs, two devices, from an empty site and from *)
(* one in use whose clients the gateway sees, or has lost.                 *)
EXTENDS SiteModel, TLC

MCZones == {"guest", "cameras_north", "cameras_nord"}
MCIdentifier == [z \in MCZones |-> IF z = "guest" THEN "guest" ELSE "cameras_nor"]

Net(v, z, on, dhcp, c) == [vlan |-> v, zone |-> z, on |-> on, dhcp |-> dhcp, cidr |-> c]
MCNetForms == {Net(10, "guest", TRUE, "on", {"a"}), Net(10, "guest", TRUE, "omitted", {"b"}),
               Net(10, "guest", FALSE, "omitted", {"a"}), Net(10, "guest", TRUE, "off", {"a"}),
               Net(1, "guest", TRUE, "on", {"a"}),
               Net(20, "cameras_north", TRUE, "omitted", {"b"}),
               Net(20, "cameras_nord", TRUE, "on", {"b"})}

Rule(s, d, act, ms, i) ==
    [kind |-> "firewall", src |-> s, dst |-> d, act |-> act, macs |-> ms, set |-> i]
MCRuleForms == {Rule("guest", "wan", "accept", {}, 1), Rule("guest", "wan", "accept", {"m1"}, 0),
                Rule("guest", "cameras_north", "drop", {}, 0), Rule("wan", "guest", "drop", {}, 0),
                [kind |-> "forward", dst |-> "guest", ip |-> "a", port |-> 80],
                [kind |-> "route", net |-> 1, gw |-> "a", target |-> "b"]}

MCWlanForms == {[net |-> 1, grp |-> 1, on |-> TRUE, keyed |-> k, bridges |-> b] : k, b \in BOOLEAN}

\* A guest network with a WLAN, a set of clients and a rule over it, a blocked
\* client, a fixed address, an uplink and an override.
InUse == \E rule \in {Rule("guest", "wan", "accept", {}, 1), Rule("wan", "guest", "drop", {}, 0)} :
    /\ site = [net |-> 1 :> Net(10, "guest", TRUE, "on", {"a"}),
               zone |-> "guest" :> {},
               sets |-> 1 :> {"m1"},
               rule |-> 1 :> (rule @@ [on |-> TRUE]),
               client |-> "m1" :> [Unlisted EXCEPT !.fixed = "a"]
                       @@ "m2" :> [Unlisted EXCEPT !.blocked = TRUE]]
    /\ dev = [d \in Devices |-> "managed"]
    /\ seen \in {[m \in Macs |-> [scope |-> "local", fresh |-> TRUE]],
                 "m1" :> [scope |-> "local", fresh |-> FALSE]
                 @@ "m2" :> [scope |-> "upstream", fresh |-> TRUE]}
    /\ grp = 1 :> {Gateway}
    /\ wlan = 1 :> [net |-> 1, grp |-> 1, on |-> TRUE, keyed |-> TRUE, bridges |-> TRUE, key |-> TRUE]
    /\ mesh = <<>>
    /\ uplink = [d \in Devices \ {Gateway} |-> 1]
    /\ over = {<<Gateway, 1>>}

Init == edits = 0 /\ (Fresh \/ InUse)
Spec == Init /\ [][SiteNext]_siteVars
=============================================================================
