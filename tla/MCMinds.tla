------------------------------- MODULE MCMinds -------------------------------
(***************************************************************************)
(* Two entities, one played and one of the game master, and problems that  *)
(* each tier of the decision engine solves.                                *)
(***************************************************************************)
EXTENDS Minds, TLC

MCControls == [a \in Actor |-> IF a = "player" THEN {"hero"} ELSE {}]
MCRelation == {<<"hero", "npc">>}

\* The player does not see the secret event.
MCSees == [a \in Actor |-> IF a = "player" THEN Event \ {"secret"} ELSE Event]
MCDelta == [saved_life |-> 2, humiliation |-> -2]

\* Three doors: the first leads to the key, as long as no alarm is known, the second needs
\* it, the third goes straight in at a greater cost.
Facts(key, inside) == [key |-> key, inside |-> inside]
Doors(price) ==
    {[name |-> 1, needs |-> [inside |-> FALSE, alarm |-> Null], effects |-> [key |-> TRUE],
      cost |-> 1],
     [name |-> 2, needs |-> [key |-> TRUE], effects |-> [inside |-> TRUE], cost |-> 1],
     [name |-> 3, needs |-> [inside |-> FALSE], effects |-> [inside |-> TRUE],
      cost |-> price]}

Flee == [id |-> 1, action |-> 3, priority |-> 1, conditions |-> [inside |-> TRUE]]

At(situation, scores, price, depth) ==
    [scores |-> scores, margin |-> 2, novel |-> FALSE, reflexes |-> {Flee},
     situation |-> situation, goal |-> [inside |-> TRUE], steps |-> Doors(price),
     depth |-> depth, nodes |-> 5]

MCProblem ==
    {At(Facts(FALSE, FALSE), <<1, 1, 1>>, price, depth) : price \in {1, 3}, depth \in {1, 3}}
        \cup {At(Facts(FALSE, TRUE), <<1, 1, 1>>, 1, 3), At(Facts(TRUE, FALSE), <<1, 4, 1>>, 3, 3),
              At([inside |-> FALSE, alarm |-> TRUE], <<1, 1, 1>>, 3, 3)}

Symmetric == Permutations(Thread)
==============================================================================
