SPECIFICATION Spec
CONSTANTS
    s1 = s1  s2 = s2
    i1 = i1  i2 = i2
    r1 = r1  r2 = r2
    alice = alice  bob = bob
    NoToken = NoToken
    Sessions = {s1, s2}
    Tokens = {i1, i2}
    ResumeTokens = {r1, r2}
    Names = {alice, bob}
    MaxConnects = 2
SYMMETRY Symmetry
INVARIANTS
    TypeOK
    InviteLogsInOnce
    ClaimHasDial
    InvitesAreMembersOwn
    ResumeKeepsName
CHECK_DEADLOCK FALSE
