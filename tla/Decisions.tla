------------------------------ MODULE Decisions ------------------------------
(***************************************************************************)
(* What the threads of the API process are doing for their requests, and   *)
(* what the decisions among them promise.  The steps of a thread are the   *)
(* matter of Minds.                                                        *)
(***************************************************************************)
EXTENDS DecisionEngine

CONSTANT Thread       \* request threads of the API process

VARIABLES
    stage, job, draft \* what each thread does next, for what, and its result

Named(problem, name) == CHOOSE step \in problem.steps : step.name = name

Effects(problem, path, i) == Named(problem, path[i]).effects

\* The last of the first k steps of a path that has an effect on a fact, if any has.
LastEffects(problem, path, k, fact) ==
    {i \in 1..k : /\ fact \in DOMAIN Effects(problem, path, i)
                  /\ \A j \in (i + 1)..k : fact \notin DOMAIN Effects(problem, path, j)}

\* The situation after k steps: a fact has the value that the last of them gave it.
Carried(problem, path, k) ==
    [fact \in DOMAIN problem.situation \cup
                  UNION {DOMAIN Effects(problem, path, i) : i \in 1..k} |->
        LET last == LastEffects(problem, path, k, fact)
        IN  IF last = {} THEN problem.situation[fact]
            ELSE Effects(problem, path, CHOOSE i \in last : TRUE)[fact]]

\* A path can be carried out, each step finding what it needs, and ends with the goal.
ReachesGoal(problem, path) ==
    /\ \A i \in 1..Len(path) : \E step \in problem.steps :
           /\ step.name = path[i]
           /\ Satisfies(Carried(problem, path, i - 1), step.needs)
    /\ Satisfies(Carried(problem, path, Len(path)), problem.goal)

\* Every plan that a decision follows can be carried out step by step within the bound
\* on its depth and ends with the goal, its first step being the action that was chosen.
PlansReachTheirGoal ==
    \A t \in Thread : stage[t] \in {"save_trace", "record_trace"} =>
        LET decided == draft[t].id.decided
        IN  decided.tier = "PLANNER" =>
                /\ decided.action = {decided.plan[1]}
                /\ Len(decided.plan) \in 1..job[t].depth
                /\ ReachesGoal(job[t], decided.plan)
==============================================================================
