SPECIFICATION Spec
CONSTANTS
    Thread = {t1, t2}
    User = {root, u1}
    Root = root
    Bot = bot
    BotGrants <- MCBotGrants
    World = {demo, w1}
    Demo = demo
    Roles <- MCRoles
    MaxRequests = 5
    MaxOverlap = 3
    None = None
SYMMETRY Symmetric
INVARIANTS
    
    AuthorityFollowsRoles
    AdministratorRemains
CHECK_DEADLOCK FALSE
