--------------------------- MODULE DecisionEngine ---------------------------
(***************************************************************************)
(* How an automatic decision is made (cognition/engine.py): by a reflex,   *)
(* by a clear utility winner, by a bounded planner (cognition/planning.py) *)
(* or, with everything else undecided, by falling back to the scores.      *)
(* Names of actions and rules are numbers, as they are only compared.      *)
(*                                                                         *)
(* A problem is what a request gives the engine:                           *)
(*   scores     the score of every available action                        *)
(*   margin     how clear a utility winner has to be, and                  *)
(*   novel      whether even a clear one has to be reconsidered            *)
(*   reflexes   a set of [id, action, priority, conditions]                *)
(*   situation  the value of every fact                                    *)
(*   goal       the facts the planner has to bring about                   *)
(*   steps      a set of [name, needs, effects, cost] for the planner      *)
(*   depth, nodes   the bounds of its search                               *)
(***************************************************************************)
EXTENDS Integers, FiniteSets, Sequences

CONSTANT Null    \* the value None of a fact

\* The member of a nonempty set that comes before all others.
First(S, Before(_, _)) == CHOOSE x \in S : \A y \in S : x = y \/ Before(x, y)

\* dict.get: a fact that is not there has the value None.
ValueOf(situation, fact) == IF fact \in DOMAIN situation THEN situation[fact] ELSE Null

\* Do the facts of a situation meet what a step needs or what the goal is?
Satisfies(situation, required) ==
    \A fact \in DOMAIN required : ValueOf(situation, fact) = required[fact]

\* Does a situation meet the conditions of a reflex?  A fact that is not there meets none.
Matches(situation, conditions) ==
    \A fact \in DOMAIN conditions :
        fact \in DOMAIN situation /\ situation[fact] = conditions[fact]

\* The names of steps are unique (cognition/planning.py:55-57), and the bounds are numbers.
IsProblem(problem) ==
    /\ problem.depth \in Nat /\ problem.nodes \in Nat
    /\ IsFiniteSet(problem.steps)
    /\ \A s, r \in problem.steps : s.name = r.name => s = r

(***************************************************************************)
(* The planner: a uniform-cost search.                                     *)
(***************************************************************************)
\* dict.update
Updated(situation, effects) ==
    [fact \in DOMAIN situation \cup DOMAIN effects |->
        IF fact \in DOMAIN effects THEN effects[fact] ELSE situation[fact]]

\* The order of the heap: cost, depth, and the names of the steps.
PathBefore(p, q) ==
    \E i \in DOMAIN p \cap DOMAIN q :
        p[i] < q[i] /\ SubSeq(p, 1, i - 1) = SubSeq(q, 1, i - 1)

NodeBefore(m, n) ==
    \/ m.cost < n.cost
    \/ m.cost = n.cost /\ Len(m.path) < Len(n.path)
    \/ m.cost = n.cost /\ Len(m.path) = Len(n.path) /\ PathBefore(m.path, n.path)

\* The head of a queue, if it is not empty.
Heads(queue) == {m \in queue : \A n \in queue : m = n \/ NodeBefore(m, n)}

\* A state of the search: nodes to expand, the least cost known for a situation,
\* how many nodes were expanded, and the node that reached the goal, if any did.
Start(problem) ==
    [queue |-> {[cost |-> 0, path |-> <<>>, at |-> problem.situation]},
     best |-> [at \in {problem.situation} |-> 0], explored |-> 0, found |-> {}]

Over(search, problem) ==
    Heads(search.queue) = {} \/ search.found # {} \/ search.explored >= problem.nodes

\* Mutant: a step is taken without what it needs.
MayTakeAnyway(node, step) == TRUE

MayTake(node, step) == Satisfies(node.at, step.needs)

\* The node that a step leads to.
Child(node, step) ==
    [cost |-> node.cost + step.cost, path |-> Append(node.path, step.name),
     at |-> Updated(node.at, step.effects)]

\* The nodes that are queued when node is expanded: those whose situation was not
\* reached as cheaply before, be it by a step that comes earlier in the order of names.
Children(search, node, problem) ==
    LET possible == {step \in problem.steps : MayTake(node, step)}
        Outdone(step) ==
            LET child == Child(node, step)
            IN  \/ child.at \in DOMAIN search.best /\ child.cost >= search.best[child.at]
                \/ \E other \in possible :
                       /\ other.name < step.name
                       /\ Child(node, other).at = child.at /\ step.cost >= other.cost
    IN  {Child(node, step) : step \in {s \in possible : ~Outdone(s)}}

\* The nodes lower the least cost of their situations.
Lowered(best, nodes) ==
    [at \in DOMAIN best \cup {n.at : n \in nodes} |->
        IF at \in {n.at : n \in nodes}
          THEN CHOOSE c \in {n.cost : n \in {m \in nodes : m.at = at}} :
                   \A n \in nodes : n.at = at => c <= n.cost
          ELSE best[at]]

\* The node at the head of the queue is taken off it, and expanded if it is not
\* outdated and not too deep.
Expanded(search, problem) ==
    LET node == CHOOSE n \in Heads(search.queue) : TRUE
        rest == [search EXCEPT !.queue = @ \ {node}]
        counted == [rest EXCEPT !.explored = @ + 1]
        children == Children(search, node, problem)
    IN  IF node.cost > search.best[node.at] THEN rest
        ELSE IF Satisfies(node.at, problem.goal) THEN [counted EXCEPT !.found = {node}]
        ELSE IF Len(node.path) >= problem.depth THEN counted
        ELSE [counted EXCEPT !.queue = @ \cup children, !.best = Lowered(@, children)]

\* As many nodes can be taken off the queue: each that is expanded queues one for
\* every step at most.
Pops(problem) == 1 + problem.nodes * Cardinality(problem.steps)

\* The search after so many nodes were taken off the queue.
Search(problem) ==
    LET after[k \in 0..Pops(problem)] ==
            IF k = 0 THEN Start(problem)
            ELSE LET before == after[k - 1]
                 IN  IF Over(before, problem) THEN before ELSE Expanded(before, problem)
    IN  after

\* The plan, if one is found within the bounds.
Plan(problem) == {node.path : node \in Search(problem)[Pops(problem)].found}

(***************************************************************************)
(* The tiers.                                                              *)
(***************************************************************************)
\* ReflexEngine.choose
Reflex(problem) ==
    LET matched == {r \in problem.reflexes : Matches(problem.situation, r.conditions)}
    IN  IF matched = {} THEN {}
        ELSE {First(matched, LAMBDA r, s : \/ r.priority > s.priority
                                           \/ r.priority = s.priority /\ r.id < s.id).action}

\* The action with the highest score, the first of equals by name.
Winner(scores) ==
    First(DOMAIN scores, LAMBDA a, b : \/ scores[a] > scores[b]
                                       \/ scores[a] = scores[b] /\ a < b)

Clear(problem) ==
    LET best == Winner(problem.scores)
    IN  /\ ~problem.novel
        /\ \A a \in DOMAIN problem.scores \ {best} :
               problem.scores[best] - problem.scores[a] >= problem.margin

\* TypedDeliberationGateway: the application configures no model, so that every
\* deliberation ends in the fallback.
Deliberated(scores) == Winner(scores)

\* decide: the tier and its action, with the plan it is the first step of.  Raises
\* if a reflex or the planner chose an action that is not available.
Decided(problem, mayPlan) ==
    LET reflex == Reflex(problem)
        plan == IF mayPlan /\ problem.steps # {} /\ DOMAIN problem.goal # {}
                  THEN Plan(problem) \ {<<>>} ELSE {}
        answer(tier, actions, path) ==
            [tier |-> tier, plan |-> path,
             action |-> IF actions \subseteq DOMAIN problem.scores THEN actions ELSE {}]
    IN  CASE reflex # {} -> answer("REFLEX", reflex, <<>>)
          [] reflex = {} /\ Clear(problem) ->
                 answer("UTILITY", {Winner(problem.scores)}, <<>>)
          [] reflex = {} /\ ~Clear(problem) /\ plan # {} ->
                 LET path == CHOOSE p \in plan : TRUE
                 IN  answer("PLANNER", {path[1]}, path)
          [] OTHER -> answer("UTILITY", {Deliberated(problem.scores)}, <<>>)

Raised(decided) == decided.action = {}
==============================================================================
