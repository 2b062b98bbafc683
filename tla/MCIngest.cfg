\* Three inputs, a buffer of two events and a queue of one message: a key
\* overflows, a message is dropped, and every pair of sources interleaves.
SPECIFICATION Spec
CONSTANTS
    Octets <- MCOctets
    Written <- MCWritten
    MsLimit = 1000
    Messages <- MCMessages
    Posts <- MCPosts
    Streams <- MCStreams
    Handlers = {"h"}
    Requests = {r1, r2}
    Tenants = {"t", "u"}
    BufferCap = 2
    PendingCap = 1
    Start = 100
    MaxInputs = 3
    MaxMessages = 2
SYMMETRY MCSymmetry
INVARIANT TypeOK
INVARIANT IngestedOnce
INVARIANT Normalised
INVARIANT AllOrNothing
CHECK_DEADLOCK FALSE
