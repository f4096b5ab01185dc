CONSTANTS
    v1 = v1
    v2 = v2
    n1 = n1
    n2 = n2
    a1 = a1
    Names = {n1, n2}
    Ports = {p1}
    PortNumbers = {80}
    Addresses = {a1}
    NoIP = NoIP
    UDP = UDP
    Absent = Absent
    NoObject = NoObject
    NoUnit = NoUnit
    NoName = NoName
    EmptyHand = EmptyHand
    VIPs = {v1, v2}
    ServiceNames = {n1, n2}
    EndpointsNames = {}
    ServiceInputs <- AllKinds
    EndpointsInputs <- ReadyEndpoints
SPECIFICATION OrderedSpec
SYMMETRY NameSymmetry
INVARIANTS ServicesAreServed FlagsFollowTheLists
