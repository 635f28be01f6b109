SPECIFICATION FairSpec
CONSTANTS
    Worker = {w1, w2}
    Request = {a1}
    Event = {1, 2}
    Observer = {o1}
    open = open
    closed = closed
    Grants <- MCGrants
    Value <- MCValue
    Claim <- MCClaim
    NoClaim = NoClaim
    None = None
    Limit = 2
    MaxFaults = 1
INVARIANTS
    PublishedIsProjected
    MindsAreDurable
    EvidenceIsObserved
PROPERTY
    EventsArePublished
