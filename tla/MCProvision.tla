---------------------------- MODULE MCProvision ----------------------------
EXTENDS Provision, TLC

Net(id, vlan, dhcp, v6) ==
    [id |-> id, vlan |-> vlan, on |-> TRUE, addr |-> TRUE, dhcp |-> dhcp,
     v6 |-> v6, zone |-> "guest"]
Lan == [Net("lan", "1", TRUE, "preserve") EXCEPT !.zone = "lan"]
Wlan(net, cap) ==
    [id |-> "w1", net |-> net, on |-> TRUE, here |-> TRUE, bands |-> {"2g"},
     ssid |-> "cafe", pmf |-> "", cap |-> cap]
Rule == [id |-> "p1", kind |-> "rule", src |-> "guest", dst |-> "wan",
         action |-> "REJECT", net |-> "", on |-> TRUE]
Route == [id |-> "p2", kind |-> "route", src |-> "", dst |-> "", action |-> "",
          net |-> "n1", on |-> TRUE]
Port == [Rule EXCEPT !.id = "p3", !.kind = "dnat", !.src = "wan", !.dst = "guest"]
Client == [mac |-> "m1", blocked |-> TRUE, fixed |-> "n1"]

Guest == [nets |-> {Lan, Net("n1", "10", TRUE, "preserve")}, fwd |-> <<>>,
          wlans |-> {Wlan("n1", TRUE)}, uplinks |-> {}, meshes |-> {},
          policies |-> {}, clients |-> {}, ok |-> TRUE, macs |-> FALSE]
Plain == [Guest EXCEPT !.nets = {[Lan EXCEPT !.v6 = "pd"]}, !.wlans = {Wlan("lan", FALSE)}]
Backhaul == [Guest EXCEPT
    !.uplinks = {[id |-> "u1", wlan |-> "w1", band |-> "5g"]},
    !.meshes = {[id |-> "x1", net |-> "n1", band |-> "2g", keyed |-> TRUE]}]
Policed == [Guest EXCEPT !.fwd = "guest" :> {"wan"}, !.policies = {Rule, Route, Port},
    !.clients = {Client}, !.macs = TRUE, !.wlans = {Wlan("n1", FALSE)}]
Broken == [Plain EXCEPT !.ok = FALSE]

MCSites == {Plain, Backhaul, Policed, Broken}

MCDevices == {[routes |-> TRUE, wireless |-> TRUE], [routes |-> FALSE, wireless |-> TRUE]}

Full == [bridge |-> "ports", read |-> TRUE, bands |-> {"2g", "5g"}, mesh |-> "yes",
         sta |-> "yes", fw4 |-> "present"]
MCCaps == {Full, [Full EXCEPT !.bridge = "unread", !.mesh = "unknown"],
           [Full EXCEPT !.read = FALSE, !.sta = "unknown"]}

Sec(cfg, name, type, opts) ==
    [ref |-> <<cfg, name>>, type |-> type, own |-> FALSE, flat |-> FALSE, opts |-> opts]
MCStock ==
    {Sec("network", <<"lan">>, "interface", [proto |-> "static", ipaddr |-> "lan"]),
     Sec("network", <<"vlan1">>, "bridge-vlan", [vlan |-> "1"]),
     Sec("network", <<"wan">>, "interface", [proto |-> "pppoe"]),
     Sec("network", <<"wan6">>, "interface", [proto |-> "dhcpv6"]),
     Sec("dhcp", <<"lan">>, "dhcp", [interface |-> <<"lan">>, ra |-> "server"])}
MCForeign ==
    {Sec("firewall", <<"mine">>, "forwarding", [src |-> "guest", dest |-> "lan"]),
     Sec("network", <<"vlan10">>, "bridge-vlan", [vlan |-> "10"]),
     Sec("wireless", <<"home">>, "wifi-iface", [ssid |-> "cafe", device |-> "2g"]),
     Sec("wireless", <<"wlan", "w1", "2g">>, "wifi-iface", [ssid |-> "other", device |-> "2g"])}
MCTampers == {[ssid |-> "other", maxassoc |-> "9"]}
MCTruncated == [z \in {"guest", "lan", "wan"} |-> z]
=============================================================================
