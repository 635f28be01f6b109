-------------------------- MODULE MCDurableCommands --------------------------
(***************************************************************************)
(* A small branch for DurableCommands: one hero with a position, one       *)
(* entity to spawn, and three commands of the kernel and the tabletop pack *)
(* that differ in what replay tells apart.                                 *)
(***************************************************************************)
EXTENDS DurableCommands, BranchState, TLC

\* The farthest position, beyond which a move is blocked.
MaxX == 3

\* A projection of the branch: where the hero is and whether the npc exists.
At(x, spawned) ==
    LET hero == [hero |-> [x |-> x]]
    IN  [entities |-> IF spawned THEN Put(hero, "npc", [x |-> 0]) ELSE hero]

MCInitProjection == At(0, FALSE)
MCProjection == {At(x, spawned) : x \in 0..MaxX, spawned \in BOOLEAN}

\* The commands.  move merges the position it computed, spawn sets a row and
\* creates an entity, and promote adds to a row if the branch is as its package
\* expects it.

\* Two commands whose order and repetition replay can tell apart, one of which
\* creates an entity: the package is promoted first or not at all.
GrowOp == {"promote", "spawn"}
\* Two that may follow each other in any order.
SpawnOp == {"move", "spawn"}

On(operation, row, x) ==
    <<[bucket |-> "entities", operation |-> operation, row |-> row, values |-> [x |-> x]]>>

MCHandler ==
    [op \in Op |-> [p \in MCProjection |->
        CASE op = "move" /\ p.entities.hero.x < MaxX ->
                 On("MERGE", "hero", p.entities.hero.x + 1)
          [] op = "spawn" /\ "npc" \notin DOMAIN p.entities -> On("SET", "npc", 0)
          [] op = "promote" /\ p = MCInitProjection -> On("INCREMENT", "hero", 2)
          [] OTHER -> Raises]]

MCDelta == {MCHandler[op][p] : op \in Op, p \in MCProjection} \ {Raises}
MCApply == [d \in MCDelta |-> [p \in MCProjection |-> ApplyDeltas(p, d)]]

MCEntity == {"npc"}
MCSpawns == [op \in Op |-> IF op = "spawn" THEN "npc" ELSE NoEntity]

\* Threads and keys are interchangeable.
Symmetric == Permutations(Thread) \cup Permutations(Key)
==============================================================================
