\* A pool of two. Two players' creations, a release, a completion and a dismissal of
\* one request, and a logout.
SPECIFICATION FairSpec
CONSTANTS
    p1 = p1
    p2 = p2
    r1 = r1
    r2 = r2
    r3 = r3
    r4 = r4
    r5 = r5
    r6 = r6
    Connections = {c1, c2}
    NoConnection = NoConnection
    Requests = {r1, r2, r3, r4, r5, r6}
    KindOf <- MCKindOf
    Players = {p1, p2}
    PlayerOf <- MCPlayerOf
PROPERTIES
    Recovers
CHECK_DEADLOCK FALSE
\* Nothing happens once every call is answered and every connection is closed.
