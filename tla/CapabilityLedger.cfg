SPECIFICATION Spec
CONSTANTS
    Libs = {"libcap", "libevent"}
    Tools = {"tool"}
    Requires <- MCRequires
    Ports = {"lan1"}
    OtherPorts = {"loopback"}
    Rests = {"shipped", "edited"}
    PackagePorts <- MCPackagePorts
    PackageRest = "shipped"
INVARIANTS NothingLeftBehind EditsSurvive
