SPECIFICATION Spec
CONSTANTS
    s1 = s1  s2 = s2  s3 = s3
    t1 = t1  t2 = t2
    NoClient = NoClient
    NoSession = NoSession
    NoKey = NoKey
    Sessions <- TwoTabs
    ClientOf <- ClientOfTwoTabs
    k1 = k1
    Keys = {k1}
    KeyOf <- OneKey
    MaxConnects <- OneConnect
PROPERTIES
    CommitEndsOnlyOwnTab
CHECK_DEADLOCK FALSE
