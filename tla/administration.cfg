SPECIFICATION Spec
CONSTANTS
    Callers = {k1, k2}
    Users = {u1, u2, u3}
    Channels = {c1}
    Posts = {p1}
    ChannelOf <- PostChannel
    Nobody = nobody
    MaxCalls = 5
SYMMETRY Symmetric
INVARIANTS
    TypeOK
    SecondBootstrapRaced
    VersionsNameStates
    FirstDecisionStands
PROPERTIES
    InvitersHadTheRight
    NobodyGovernsUnowned
    EditsAccumulate
CHECK_DEADLOCK FALSE
