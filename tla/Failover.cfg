CONSTANTS
    v1 = v1
    Names = {n1}
    Ports = {p1}
    VIPs = {v1}
    PortNumbers = {80}
    Addresses = {}
    NoIP = NoIP
    UDP = UDP
    Absent = Absent
    NoObject = NoObject
    NoUnit = NoUnit
    ServiceInputs <- Services
    EndpointsInputs <- NoEndpoints
SPECIFICATION Spec
VIEW WithoutOutcome
INVARIANTS FailoverTypeOK CommitsReachTheFile 
PROPERTIES RateLimitersCoalesce OnlyGapsStrandFiles BackupWindsDown
