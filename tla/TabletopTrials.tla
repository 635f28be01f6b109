---------------------------- MODULE TabletopTrials ----------------------------
(***************************************************************************)
(* Trials over the rules of the tabletop: the branches of TrialBranches    *)
(* with the handlers of TabletopRules, and what these promise together on  *)
(* every branch, whatever is sent to it, tried and promoted.               *)
(***************************************************************************)
EXTENDS TrialBranches, FiniteSetsExt

INSTANCE TabletopRules

(***************************************************************************)
(* What holds at first, and of commands: they have passed their request    *)
(* models.                                                                 *)
(***************************************************************************)
Goods == {"gold", "herbs"}

PlacesFit(p) ==
    /\ {"entities", "positions"} \subseteq DOMAIN p
    /\ DOMAIN p["positions"] = DOMAIN p["entities"]
    /\ \A e \in DOMAIN p["entities"] : Get(p["positions"][e], "x") = Get(p["entities"][e], "x")

Counted(p) ==
    /\ "entities" \in DOMAIN p /\ IsFiniteSet(DOMAIN p["entities"])
    /\ \A e \in DOMAIN p["entities"], a \in Goods : Get(p["entities"][e], a) \in Int

WellFormed(c) ==
    /\ c.type \in {"trade", "attack", "cast", "move", "spawn", "quest", "squad_order", "scenario"}
    /\ c.type = "cast" => c.effect \in {"DAMAGE", "HEAL", "CONDITION"}
    /\ c.type = "trade" => c.quantity \in Int /\ c.price \in Int
    /\ c.type = "spawn" => \A a \in Goods : Get(c.public, a) \in Int
    /\ c.type = "scenario" => c.deltas \in Delta

\* Commands that move what there is: the two sides of a trade are two entities, and who is
\* spawned owns nothing.  Nothing in the code asks for either.
Honest(c) ==
    /\ c.type = "trade" => c.entity # c.other
    /\ c.type = "spawn" => \A a \in Goods : Get(c.public, a) = 0

\* Each commit of b is one of an honest command, or promotes what one computes of the base.
HonestlyTraded(b) ==
    \A i \in 1..Len(receipts[b]) : LET op == receipts[b][i].op IN
        IF op \in Command THEN Honest(op)
        ELSE \E c \in Command : Honest(c) /\ op.deltas = Handle(c, op.expected)

(***************************************************************************)
(* What is promised.                                                       *)
(***************************************************************************)

\* Where an entity stands is the same in both of its rows, whichever of moves,
\* spawns and promotions have touched it (spatial/__init__.py:41-92,
\* entities/__init__.py:35-101), as long as promotions stay in context: the rows of
\* an entity the base does not have would be of one kind only.
PositionsAgree ==
    PromotedInContext => \A b \in DOMAIN state : LET p == state[b] IN
        /\ DOMAIN p.positions = DOMAIN p.entities
        /\ \A e \in DOMAIN p.entities : Get(p.positions[e], "x") = Get(p.entities[e], "x")

Total(p, attribute) ==
    FoldFunctionOnSet(+, 0, [e \in DOMAIN p.entities |-> Get(p.entities[e], attribute)],
                      DOMAIN p.entities)

\* Honest commands neither make nor lose gold or goods on any branch, the canonical one or a
\* trial, whatever is sent to the others: the rows of a trade that followed another one hold
\* what that one has left (test_trade_conserves_gold_and_inventory).  Promotions stay in
\* context: two purchases of a trial, promoted to its base, are two first purchases.
TradesConserve ==
    PromotedInContext => \A b \in DOMAIN state : HonestlyTraded(b) =>
        \A attribute \in Goods : Total(state[b], attribute) = Total(Origin(b), attribute)

\* "economic conservation" (docs/TESTING.md:51) of whatever trades the code accepts.  It does
\* not hold: one entity may be both sides, and the row of the seller is written last, with
\* what he had before he paid himself (economy/__init__.py:63-76).
GoodsAreConserved ==
    PromotedInContext => \A b \in DOMAIN state, attribute \in Goods :
        Total(state[b], attribute) = Total(Origin(b), attribute)
==============================================================================
