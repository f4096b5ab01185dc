CONSTANTS
    v1 = v1
    a1 = a1
    Names = {n1}
    Ports = {p1}
    VIPs = {v1}
    PortNumbers = {80}
    Addresses = {a1}
    NoIP = NoIP
    UDP = UDP
    Absent = Absent
    NoObject = NoObject
    NoUnit = NoUnit
    ServiceInputs <- OneService
    EndpointsInputs <- OnePod
SPECIFICATION BindSpec
INVARIANT FrontendsForBoundAddresses
