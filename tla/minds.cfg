SPECIFICATION Spec
CONSTANTS
    Thread = {t1, t2}
    Actor = {"player", "dm"}
    Entity = {"hero", "npc"}
    Relation <- MCRelation
    Event = {"public", "secret"}
    Controls <- MCControls
    WritesAll = {"dm"}
    Sees <- MCSees
    Cause = {"saved_life", "humiliation"}
    Delta <- MCDelta
    Limit = 3
    Runtime = {"HUMAN", "UTILITY", "PLANNER"}
    Problem <- MCProblem
    None = None
    Null = Null
    MaxRequests = 3
    MaxFaults = 1
SYMMETRY Symmetric
INVARIANTS
    RowsAreExplained
    MemoryIsCommitted
    MemoryIsCloseBehind
    PlansReachTheirGoal
CHECK_DEADLOCK FALSE
