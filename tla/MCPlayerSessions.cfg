\* A player who is logged in on one device logs in on another and again on the
\* first, while a process judges the sessions one at a time.
SPECIFICATION Spec
CONSTANTS
    l1 = l1
    l2 = l2
    l3 = l3
    d1 = d1
    d2 = d2
    Logins = {l1, l2, l3}
    Devices = {d1, d2}
    DeviceOf <- MCDeviceOf
    Before = l1
    Requests = {r1}
    NoSession = NoSession
    QueryTime = 1
    SessionLife = 1
    AppLife = 1
INVARIANTS
    TypeOK
    ProfileNamesActive
    RefusedInTime
    ActiveNotRefused
