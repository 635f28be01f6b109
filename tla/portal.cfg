SPECIFICATION Spec
CONSTANTS
    Thread = {t1, t2}
    dm = dm
    player = player
    User = {dm, player}
    Admin = {}
    w1 = w1
    w2 = w2
    World = {w1, w2}
    Dm <- MCDm
    Player <- MCPlayer
    Character = {c1}
    Game = {g1, g2}
    Session = {s1}
    Status <- MCStatus
    MaxClock = 4
    MaxRequests = 6
    MaxOverlap = 5
    None = None
SYMMETRY Symmetric
INVARIANTS
    RosterOwns
    OwnersControl
    BoundHaveBodies
PROPERTY
    BindingsStay
CHECK_DEADLOCK FALSE
