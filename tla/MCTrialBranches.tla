--------------------------- MODULE MCTrialBranches ---------------------------
(***************************************************************************)
(* The demo world of bootstrap_demo (kernel/application.py) with smaller   *)
(* numbers: a hero who trades with a merchant, fights, casts, moves and    *)
(* calls a scout, on the canonical branch and in trials.                   *)
(***************************************************************************)
EXTENDS TabletopTrials, TLC

CONSTANTS k1, k2

MCInitEntities == {"hero", "merchant"}
MCEntity == MCInitEntities \cup {"scout"}

(***************************************************************************)
(* Projections: the rows of the entities there are, and rows of the hero.  *)
(***************************************************************************)
Row == [x : Int, hp : Nat, max_hp : Nat, mana : Nat, gold : Nat, herbs : Nat, defeated : BOOLEAN]
Position == [x : Int]
Profile == [deafened : BOOLEAN, blinded : BOOLEAN]
Quests == [quests : [{"escort"} -> [objectives : [{"arrive"} -> 0..2], completed : BOOLEAN]]]
Order == [order : {"HOLD"}, leader : {"hero"}, target : MCEntity \cup {"nobody"},
          squad_ai : {"ACTIVE"}, revision : Nat]

ScenarioRecord == [status : {"COMPLETED"}]

\* The row a promoted gift leaves on a branch where its receiver is not.
Gifted == [gold : Nat, herbs : Nat]

OfEntities(rows) == [MCInitEntities -> rows] \cup [MCEntity -> rows]
OfOne(owner, rows) == [{} -> rows] \cup [{owner} -> rows]

\* The bucket of scenario records is there once one has been set.
MCProjection ==
    [entities : OfEntities(Row \cup Gifted), positions : OfEntities(Position),
     sensory_profiles : OfEntities(Profile), quests : OfOne("hero", Quests),
     squads : [{"guards"} -> [leader : {"hero"}]], squad_orders : OfOne("guards", Order),
     scenario_runs : [{"ambush"} -> ScenarioRecord]]
    \cup
    [entities : OfEntities(Row \cup Gifted), positions : OfEntities(Position),
     sensory_profiles : OfEntities(Profile), quests : OfOne("hero", Quests),
     squads : [{"guards"} -> [leader : {"hero"}]], squad_orders : OfOne("guards", Order)]

Values ==
    Row \cup Position \cup Profile \cup ScenarioRecord \cup Quests \cup Order
      \cup Gifted \cup [mana : Nat] \cup [hp : Nat] \cup [hp : Nat, defeated : BOOLEAN]
MCDelta == Seq([bucket : STRING, operation : {"SET", "MERGE", "INCREMENT"}, row : STRING, values : Values])

MCApply(p, deltas) == ApplyDeltas(p, deltas)

Person(x, mana, gold, herbs) ==
    [x |-> x, hp |-> 2, max_hp |-> 2, mana |-> mana, gold |-> gold, herbs |-> herbs,
     defeated |-> FALSE]
Senses == [deafened |-> FALSE, blinded |-> FALSE]

MCInitProjection ==
    [entities |-> [hero |-> Person(0, 1, 1, 1), merchant |-> Person(2, 0, 1, 1)],
     positions |-> [hero |-> [x |-> 0], merchant |-> [x |-> 2]],
     sensory_profiles |-> [hero |-> Senses, merchant |-> Senses],
     quests |-> Empty,
     squads |-> [guards |-> [leader |-> "hero"]], squad_orders |-> Empty]

(***************************************************************************)
(* Commands.                                                               *)
(***************************************************************************)
Buy == [type |-> "trade", entity |-> "hero", other |-> "merchant", quantity |-> 1, price |-> 1,
        direction |-> "BUY"]
\* The hero on both sides.
Churn == [type |-> "trade", entity |-> "hero", other |-> "hero", quantity |-> 1, price |-> 1,
          direction |-> "SELL"]
Gift == [type |-> "trade", entity |-> "hero", other |-> "scout", quantity |-> 1, price |-> 0,
         direction |-> "SELL"]
Strike == [type |-> "attack", entity |-> "hero", other |-> "merchant", roll |-> 20, bonus |-> 0,
           damage |-> 3]
Burn == [type |-> "cast", entity |-> "hero", other |-> "scout", cost |-> 1, effect |-> "DAMAGE",
         power |-> 1]
Walk == [type |-> "move", entity |-> "hero", dx |-> 1]
Call == [type |-> "spawn", created |-> "scout", public |-> Person(1, 0, 0, 0)]
Escort == [type |-> "quest", entity |-> "hero", quest |-> "escort", objective |-> "arrive",
           amount |-> 1, target |-> 2]
Hold == [type |-> "squad_order", entity |-> "hero", squad |-> "guards", other |-> "scout",
         order |-> "HOLD"]

Ambush ==
    [type |-> "scenario", scenario |-> "ambush",
     deltas |-> <<Change("entities", "INCREMENT", "hero", [mana |-> 1])>>]
MCScenario == [r \in Run |-> Ambush]

MCCommand == {Buy, Churn, Gift, Strike, Burn, Walk, Call, Escort, Hold, Ambush}

\* Under k2 a branch gets the gift only: after a purchase or with a scout that was called
\* on the same branch, what it writes is out of context on the base.  Fights, quests and trades
\* with oneself do not depend on what was done before: they are tried on trials of the world
\* as it was at first, and orders about the scout on trials of the world as it became.
MCSent(b, key) ==
    CASE key = k2 -> {Gift}
      [] key = k1 /\ b = Canonical -> {Walk, Call, Ambush}
      [] key = k1 /\ b # Canonical ->
           {Buy, Burn, Walk, Call, Ambush}
             \cup IF b.snapshot.through = 0 THEN {Strike, Escort, Churn} ELSE {Hold}

ASSUME WorldAssumption ==
    /\ PlacesFit(MCInitProjection) /\ Counted(MCInitProjection)
    /\ \A c \in MCCommand : WellFormed(c)

MCHandle(c, p) == HandleCommand(c, p)
MCSpawns(c) == IF c.type = "spawn" THEN {c.created} ELSE {}

Workers == Permutations(Worker)
==============================================================================
