SPECIFICATION FairSpec
CONSTANTS
    s1 = s1  s2 = s2  s3 = s3  s4 = s4
    t1 = t1  t2 = t2
    NoClient = NoClient
    NoSession = NoSession
    NoKey = NoKey
    Sessions <- MCSessions
    ClientOf <- MCClientOf
    Keys = {k1}
    KeyOf <- MCKeyOf
    MaxConnects <- MCMaxConnects
INVARIANTS
    TypeOK
    OneActive
    PendingIsDialing
PROPERTIES
    TakeoverOnlyBySameTab
    ReservationSettles
CHECK_DEADLOCK FALSE
