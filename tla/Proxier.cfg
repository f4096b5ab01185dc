CONSTANTS
    Names = {n1, n2}
    Ports = {p1}
    VIPs = {v1, v2}
    PortNumbers = {80}
    Addresses = {a1, a2}
    NoIP = NoIP
    UDP = UDP
    Absent = Absent
    NoObject = NoObject
    NoUnit = NoUnit
SPECIFICATION TablesSpec
SYMMETRY Symmetry
INVARIANTS TablesTypeOK RoutesCoverServices
PROPERTIES OnlyRivalsTakeVips OnlySurprisesLeaveRoutes OnlySurprisesLeaveBackends BackendsGoWithTheUnit
