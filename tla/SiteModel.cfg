SPECIFICATION Spec
CONSTANTS
    Zones <- MCZones
    Identifier <- MCIdentifier
    Addresses = {"a", "b"}
    Macs = {"m1", "m2"}
    Devices = {"gw", "ap"}
    Gateway = "gw"
    NetForms <- MCNetForms
    RuleForms <- MCRuleForms
    WlanForms <- MCWlanForms
    MaxId = 2
    MaxEdits = 3
INVARIANTS SiteIsWhole EditsStayPossible NoDormantKey
CHECK_DEADLOCK FALSE
