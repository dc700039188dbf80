CONSTANTS
    k3 = k3
    k3b = k3b
    k4 = k4
    c1 = c1
    c2 = c2
    a1 = a1
    a2 = a2
    Key = {k3, k3b, k4}
    Suite <- MCSuite
    Refused = Refused
    Requests <- MCRequests
    LabelMax = 4
    MAX_CONTEXT_LEN = 9
    MAX_AAD_LEN = 16
    MaxSeals = 2
    Streams = {1, 2}
    Recipient = k3
    Context <- MCContext
    Contexts = {c1, c2}
    Aads = {a1, a2}
    Aad <- MCAad
    MaxChunks = 2
    NoStream = NoStream
SPECIFICATION CrateSpec
INVARIANTS OnlySealedOpens GenuineOpens NonceOnce
PROPERTIES StreamsAreWhole StreamsComplete
\* A caller may stop at any time.
CHECK_DEADLOCK FALSE
