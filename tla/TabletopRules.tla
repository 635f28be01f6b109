---------------------------- MODULE TabletopRules ----------------------------
(***************************************************************************)
(* The command handlers of the tabletop pack (domains/tabletop): each      *)
(* computes, from a command and the projection of a branch, the deltas to  *)
(* commit, or raises.  A handler reads the projection once and writes what *)
(* it computed from it, row by row: a command that names one row twice     *)
(* writes it twice.                                                        *)
(*                                                                         *)
(* Parameters have passed their request models, the actor controls the     *)
(* embodied entity c.entity, and dice have been rolled: the generator is   *)
(* seeded by the command.  Coordinates have one axis, an inventory one     *)
(* kind of item (herbs) and a row only the attributes handlers read.       *)
(***************************************************************************)
EXTENDS BranchState

CONSTANT Raises

Get(row, attribute) == Lookup(row, attribute, 0)
Rows(p, bucket) == Lookup(p, bucket, Empty)
Entities(p) == Rows(p, "entities")
AtLeast(low, n) == IF n < low THEN low ELSE n
AtMost(high, n) == IF n > high THEN high ELSE n
Distance(i, j) == IF i < j THEN j - i ELSE i - j

Change(bucket, operation, row, values) ==
    [bucket |-> bucket, operation |-> operation, row |-> row, values |-> values]

Merge(entity, values) == Change("entities", "MERGE", entity, values)

\* What a handler returns when its checks hold.
When(checks, deltas) == IF checks THEN deltas ELSE Raises

(***************************************************************************)
(* Economy.                                                                *)
(***************************************************************************)
Buyer(c) == IF c.direction = "BUY" THEN c.entity ELSE c.other
Seller(c) == IF c.direction = "BUY" THEN c.other ELSE c.entity

\* Mutant: the goods leave the seller and the price stays with the buyer.
ChargedNothing(buyer, price) == Get(buyer, "gold")

Charged(buyer, price) == Get(buyer, "gold") - price

Trade(c, p) ==
    LET buyer == Entities(p)[Buyer(c)]
        seller == Entities(p)[Seller(c)]
        price == c.quantity * c.price
    IN  When({c.entity, c.other} \subseteq DOMAIN Entities(p)
               /\ Get(buyer, "gold") >= price /\ Get(seller, "herbs") >= c.quantity,
             <<Merge(Buyer(c), [gold |-> Charged(buyer, price),
                                herbs |-> Get(buyer, "herbs") + c.quantity]),
               Merge(Seller(c), [gold |-> Get(seller, "gold") + price,
                                 herbs |-> Get(seller, "herbs") - c.quantity])>>)

(***************************************************************************)
(* Combat and magic.                                                       *)
(***************************************************************************)
Hits(c, target) ==
    c.roll = 20 \/ (c.roll # 1 /\ c.roll + c.bonus >= Lookup(target, "armor", 10))

Attack(c, p) ==
    LET attacker == Entities(p)[c.entity]
        target == Entities(p)[c.other]
        hp == AtLeast(0, Get(target, "hp") - (IF Hits(c, target) THEN AtLeast(0, c.damage) ELSE 0))
    IN  When({c.entity, c.other} \subseteq DOMAIN Entities(p)
               /\ Distance(Get(attacker, "x"), Get(target, "x")) <= Lookup(attacker, "reach", 1)
               /\ Get(attacker, "hp") > 0 /\ Get(target, "hp") > 0,
             <<Merge(c.other, [hp |-> hp, defeated |-> hp = 0])>>)

\* What a spell changes of its target.
Effect(c, target) ==
    LET hp == Get(target, "hp") IN
    CASE c.effect = "DAMAGE" -> [hp |-> AtLeast(0, hp - c.power)]
      [] c.effect = "HEAL" -> [hp |-> AtMost(Lookup(target, "max_hp", hp), hp + c.power)]
      [] c.effect = "CONDITION" -> [conditions |-> Lookup(target, "conditions", {}) \cup {c.condition}]

CanAfford(caster, cost) == Get(caster, "mana") >= cost

Cast(c, p) ==
    LET caster == Entities(p)[c.entity]
        target == Entities(p)[c.other]
    IN  When({c.entity, c.other} \subseteq DOMAIN Entities(p) /\ CanAfford(caster, c.cost),
             <<Merge(c.entity, [mana |-> Get(caster, "mana") - c.cost]),
               Merge(c.other, Effect(c, target))>>)

(***************************************************************************)
(* Space.  Where an entity stands is kept in two rows.                     *)
(***************************************************************************)

\* Mutant: the entity's own row gets the step instead of the destination.
ShowStep(c, x) == Merge(c.entity, [x |-> c.dx])

Show(c, x) == Merge(c.entity, [x |-> x])

Move(c, p) ==
    LET current == Lookup(Rows(p, "positions"), c.entity, Entities(p)[c.entity])
        x == Get(current, "x") + c.dx
    IN  When(c.dx # 0 /\ c.entity \in DOMAIN Rows(p, "positions") \cup DOMAIN Entities(p)
               /\ \A o \in DOMAIN Rows(p, "obstacles") : Rows(p, "obstacles")[o].x # x,
             <<Change("positions", "SET", c.entity, [x |-> x]), Show(c, x)>>)

Spawn(c, p) ==
    When(c.created \notin DOMAIN Entities(p),
         <<Change("entities", "SET", c.created, c.public),
           Change("positions", "SET", c.created, [x |-> Get(c.public, "x")]),
           Change("sensory_profiles", "SET", c.created, [deafened |-> FALSE, blinded |-> FALSE])>>)

(***************************************************************************)
(* Quests.                                                                 *)
(***************************************************************************)

\* A quest is completed by the objective that was advanced last.
Advance(c, p) ==
    LET quests == Lookup(Lookup(Rows(p, "quests"), c.entity, Empty), "quests", Empty)
        objectives == Lookup(quests, c.quest, [objectives |-> Empty]).objectives
        value == AtMost(c.target, Get(objectives, c.objective) + c.amount)
    IN  <<Change("quests", "MERGE", c.entity,
                [quests |-> Put(quests, c.quest, [objectives |-> Put(objectives, c.objective, value),
                                                  completed |-> value >= c.target])])>>

(***************************************************************************)
(* Battlefield.  A revision counts the changes of a row.                   *)
(***************************************************************************)
IssueSquadOrder(c, p) ==
    LET existing == Lookup(Rows(p, "squad_orders"), c.squad, Empty) IN
    When(/\ c.entity \in DOMAIN Entities(p)
         /\ c.squad \in DOMAIN Rows(p, "squads")
         /\ Rows(p, "squads")[c.squad].leader = c.entity
         /\ c.other \in DOMAIN Entities(p) \cup {"nobody"},
         <<Change("squad_orders", "MERGE", c.squad,
                 [order |-> c.order, leader |-> c.entity, target |-> c.other,
                  squad_ai |-> "ACTIVE", revision |-> Get(existing, "revision") + 1])>>)

\* The handler of scenarios (experiments/executor.py): the deltas of the scenario,
\* and a record of it.
ApplyScenario(c, p) ==
    Append(c.deltas, Change("scenario_runs", "SET", c.scenario, [status |-> "COMPLETED"]))

\* CommandDefinition.handler of a command type.
HandleCommand(c, p) ==
    CASE c.type = "trade" -> Trade(c, p)
      [] c.type = "attack" -> Attack(c, p)
      [] c.type = "cast" -> Cast(c, p)
      [] c.type = "move" -> Move(c, p)
      [] c.type = "spawn" -> Spawn(c, p)
      [] c.type = "quest" -> Advance(c, p)
      [] c.type = "squad_order" -> IssueSquadOrder(c, p)
      [] c.type = "scenario" -> ApplyScenario(c, p)
==============================================================================
