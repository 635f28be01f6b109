-------------------------------- MODULE Minds --------------------------------
(***************************************************************************)
(* What clients do to minds through the API (kernel/api/app.py): they      *)
(* change what one entity thinks of another because of an event, choose    *)
(* who or what decides for an entity, and ask for decisions.  Every change *)
(* is written to PostgreSQL (cognition/postgres.py) and then published in  *)
(* the memory of the process (cognition/store.py), on several threads.     *)
(*                                                                         *)
(* Of the axes of a relationship one is modelled, that of trust, and its   *)
(* changes are those an event asks for; a request may also name its own.   *)
(***************************************************************************)
EXTENDS Decisions, Relationships

CONSTANTS
    Actor,       \* who makes requests
    Entity,      \* entities of the branch
    Event,       \* committed events of the branch
    Controls,    \* the entities an actor controls
    WritesAll,   \* actors with mind.write.all
    Sees,        \* the events an actor may see
    Cause,       \* types of events that relationships answer to
    Delta,       \* the change of trust a cause asks for
    Limit,       \* bound of trust, either way
    Runtime,     \* who or what may be chosen to decide
    Problem,     \* situations to decide in
    None,
    MaxRequests, \* bound on requests
    MaxFaults    \* bound on failures of the repository

Trust == -Limit..Limit

ASSUME LimitAssumption == Limit \in Nat
ASSUME RelationAssumption == Relation \subseteq Entity \X Entity
ASSUME ActorAssumption ==
    /\ Controls \in [Actor -> SUBSET Entity]
    /\ Sees \in [Actor -> SUBSET Event]
    /\ WritesAll \subseteq Actor
ASSUME DeltaAssumption == Delta \in [Cause -> Int]
ASSUME RuntimeAssumption ==
    Runtime \subseteq {"HUMAN", "DETERMINISTIC", "UTILITY", "PLANNER", "LOCAL_LLM",
                      "HOSTED_LLM", "REPLAY"}
ASSUME ProblemAssumption == \A problem \in Problem : IsProblem(problem)
ASSUME BoundAssumption == MaxRequests \in Nat /\ MaxFaults \in Nat

\* A causal record of a change (RelationshipChangeRecord).
Change == [relation : Relation, event : Event, actor : Actor, cause : Cause,
           before : Trust, after : Trust]

VARIABLES
    assigned, runtime,        \* who decides for an entity, in PostgreSQL and in memory
    traces, recorded,         \* decision traces in PostgreSQL and in memory
    requests, faults

tables == <<row, changes, assigned, traces>>
memory == <<live, known, runtime, recorded>>
counters == <<requests, faults, orderly>>
vars == <<tables, memory, stage, job, draft, counters>>

Init ==
    /\ row = [r \in Relation |-> 0] /\ live = row
    /\ changes = <<>> /\ known = {}
    /\ assigned = [e \in Entity |-> None] /\ runtime = assigned
    /\ traces = {} /\ recorded = {}
    /\ stage = [t \in Thread |-> "idle"]
    /\ job = [t \in Thread |-> None]
    /\ draft = [t \in Thread |-> None]
    /\ requests = 0 /\ faults = 0 /\ orderly = TRUE

Goto(t, step) == stage' = [stage EXCEPT ![t] = step]

\* The request is over, with an answer or an error.
Leave(t) ==
    /\ Goto(t, "idle")
    /\ job' = [job EXCEPT ![t] = None]
    /\ draft' = [draft EXCEPT ![t] = None]

Begin(t, request, step) ==
    /\ stage[t] = "idle"
    /\ requests < MaxRequests /\ requests' = requests + 1
    /\ job' = [job EXCEPT ![t] = request]
    /\ Goto(t, step)

\* An actor needs to control an entity, or mind.write.all, to touch its mind.
MayTouch(actor, entity) == entity \in Controls[actor] \/ actor \in WritesAll

(***************************************************************************)
(* Relationships.                                                          *)
(***************************************************************************)
\* RelationshipEngine.apply: a betrayal counts half as much again with those who
\* are sensitive to it.
Effective(delta, sensitive) == IF delta < 0 /\ sensitive THEN (3 * delta) \div 2 ELSE delta

Clamped(n) == IF n > Limit THEN Limit ELSE IF n < -Limit THEN -Limit ELSE n

\* The record a request asks for, given the vector before.
Drafted(request, before) ==
    [relation |-> request.relation, event |-> request.event, actor |-> request.actor,
     cause |-> request.cause, before |-> before,
     after |-> Clamped(before + Effective(Delta[request.cause], request.sensitive))]

SameChange(c, d) == c.relation = d.relation /\ c.event = d.event

\* The steps of a change.
Changing == {"known", "stored", "live", "save_change", "publish_change"}

\* Only those with mind.write.all may set the modifiers of the engine.
AskChange(t) ==
    \E actor \in Actor, relation \in Relation, event \in Event, cause \in Cause,
       sensitive \in BOOLEAN :
        /\ MayTouch(actor, relation[1])
        /\ sensitive => actor \in WritesAll
        /\ event \in Sees[actor]
        /\ Begin(t, [actor |-> actor, relation |-> relation, event |-> event,
                     cause |-> cause, sensitive |-> sensitive], "known")
        /\ orderly' = (orderly /\ \A u \in Thread : stage[u] \notin Changing)
        /\ UNCHANGED <<tables, memory, draft, faults>>

\* minds.relationship_change, then get_relationship_change: a retry starts from the
\* vector before the change it repeats.
LookUp(t, step, places, otherwise) ==
    /\ stage[t] = step
    /\ IF \E c \in places : SameChange(c, job[t])
         THEN /\ \E c \in places :
                    /\ SameChange(c, job[t])
                    /\ draft' = [draft EXCEPT ![t] = Drafted(job[t], c.before)]
              /\ Goto(t, "save_change")
         ELSE Goto(t, otherwise) /\ UNCHANGED draft
    /\ UNCHANGED <<tables, memory, job, counters>>

LookUpKnown(t) == LookUp(t, "known", known, "stored")
LookUpStored(t) == LookUp(t, "stored", Stored, "live")

ReadLive(t) ==
    /\ stage[t] = "live"
    /\ draft' = [draft EXCEPT ![t] = Drafted(job[t], live[job[t].relation])]
    /\ Goto(t, "save_change")
    /\ UNCHANGED <<tables, memory, job, counters>>

Fault == faults < MaxFaults /\ faults' = faults + 1

\* The answer to a commit may be lost; the client gets an error all the same.
Committed(t, step) ==
    \/ Goto(t, step) /\ UNCHANGED <<job, draft, faults>>
    \/ Fault /\ Leave(t)

\* Mutant: the row is advanced from whatever it is.
FromAnything(change) == TRUE

\* The row is locked and must be as it was when the change was computed.
FromRow(change) == row[change.relation] = change.before

\* save_relationship_change: one transaction, or none at all.
SaveChange(t) ==
    LET change == draft[t]
        earlier == {c \in Stored : SameChange(c, change)}
    IN  /\ stage[t] = "save_change"
        /\ IF change.relation[1] = change.relation[2] \/ earlier \notin {{}, {change}}
                \/ (earlier = {} /\ ~FromRow(change))
             THEN Leave(t) /\ UNCHANGED <<row, changes, faults>>
             ELSE /\ Committed(t, "publish_change")
                  /\ IF earlier = {}
                       THEN /\ changes' = Append(changes, change)
                            /\ row' = [row EXCEPT ![change.relation] = change.after]
                       ELSE UNCHANGED <<row, changes>>
        /\ UNCHANGED <<assigned, traces, memory, requests, orderly>>

\* The vector in memory must be the one before the change, or the one after.
Continues(change) == live[change.relation] \in {change.before, change.after}

\* apply_relationship_change; refused if the change is known with another content or
\* the vector in memory has nothing to do with it.
PublishChange(t) ==
    LET change == draft[t]
    IN  /\ stage[t] = "publish_change"
        /\ IF (\E c \in known : SameChange(c, change)) \/ ~Continues(change)
             THEN UNCHANGED <<live, known>>
             ELSE /\ known' = known \cup {change}
                  /\ live' = [live EXCEPT ![change.relation] = change.after]
        /\ Leave(t)
        /\ UNCHANGED <<tables, runtime, recorded, counters>>

(***************************************************************************)
(* Runtimes and decisions.                                                 *)
(***************************************************************************)
AskRuntime(t) ==
    \E actor \in Actor, entity \in Entity, kind \in Runtime :
        /\ MayTouch(actor, entity)
        /\ Begin(t, [entity |-> entity], "save_runtime")
        /\ draft' = [draft EXCEPT ![t] = kind]
        /\ UNCHANGED <<tables, memory, faults, orderly>>

SaveRuntime(t) ==
    /\ stage[t] = "save_runtime"
    /\ assigned' = [assigned EXCEPT ![job[t].entity] = draft[t]]
    /\ Committed(t, "set_runtime")
    /\ UNCHANGED <<row, changes, traces, memory, requests, orderly>>

SetRuntime(t) ==
    /\ stage[t] = "set_runtime"
    /\ runtime' = [runtime EXCEPT ![job[t].entity] = draft[t]]
    /\ Leave(t)
    /\ UNCHANGED <<tables, live, known, recorded, counters>>

\* What the runtime of an entity allows: no decision, or one with or without a plan.
Automatic(kind) == kind \notin {"HUMAN", "REPLAY"}
MayPlan(kind) == kind \notin {"DETERMINISTIC", "UTILITY"}

\* The id of a trace names the policy, the scores and what was chosen, but neither
\* the entity nor the request.
Trace(entity, problem, decided) ==
    [id |-> [scores |-> problem.scores, decided |-> decided], entity |-> entity]

\* The decisions of the engine.
Decision ==
    [problem \in Problem |-> [planned \in BOOLEAN |-> Decided(problem, planned)]]

\* cognition_decide.  The decision is a proposal: nothing is committed to the branch.
AskDecision(t) ==
    \E actor \in Actor, entity \in Entity, problem \in Problem :
        LET decided == Decision[problem][MayPlan(runtime[entity])]
        IN  /\ MayTouch(actor, entity)
            /\ Automatic(runtime[entity])
            /\ ~Raised(decided)
            /\ Begin(t, problem, "save_trace")
            /\ draft' = [draft EXCEPT ![t] = Trace(entity, problem, decided)]
            /\ UNCHANGED <<tables, memory, faults, orderly>>

\* INSERT ... ON CONFLICT (id) DO NOTHING, and setdefault.
Added(set, trace) == IF \E d \in set : d.id = trace.id THEN set ELSE set \cup {trace}

SaveTrace(t) ==
    /\ stage[t] = "save_trace"
    /\ traces' = Added(traces, draft[t])
    /\ Committed(t, "record_trace")
    /\ UNCHANGED <<row, changes, assigned, memory, requests, orderly>>

RecordTrace(t) ==
    /\ stage[t] = "record_trace"
    /\ recorded' = Added(recorded, draft[t])
    /\ Leave(t)
    /\ UNCHANGED <<tables, live, known, runtime, counters>>

(***************************************************************************)
(* Failures.                                                               *)
(***************************************************************************)
\* Mutant: the error is swallowed and the change published.
SaveFailsUnnoticed(t) ==
    /\ stage[t] = "save_change"
    /\ Fault
    /\ Goto(t, "publish_change")
    /\ UNCHANGED <<tables, memory, job, draft, requests, orderly>>

\* A statement fails: nothing of its transaction remains.
SaveFails(t) ==
    /\ stage[t] \in {"stored", "save_change", "save_runtime", "save_trace"}
    /\ Fault
    /\ Leave(t)
    /\ UNCHANGED <<tables, memory, requests, orderly>>

\* The process is started again.  It restores the vectors and the runtimes, not the
\* changes and the traces.
Restart ==
    /\ Fault
    /\ orderly' = FALSE
    /\ live' = row /\ known' = {}
    /\ runtime' = assigned
    /\ recorded' = {}
    /\ stage' = [t \in Thread |-> "idle"]
    /\ job' = [t \in Thread |-> None]
    /\ draft' = [t \in Thread |-> None]
    /\ UNCHANGED <<tables, requests>>

Step(t) ==
    \/ AskChange(t) \/ LookUpKnown(t) \/ LookUpStored(t) \/ ReadLive(t)
    \/ SaveChange(t) \/ PublishChange(t)
    \/ AskRuntime(t) \/ SaveRuntime(t) \/ SetRuntime(t)
    \/ AskDecision(t) \/ SaveTrace(t) \/ RecordTrace(t)
    \/ SaveFails(t)

Next == (\E t \in Thread : Step(t)) \/ Restart

Spec == Init /\ [][Next]_vars
------------------------------------------------------------------------------
(***************************************************************************)
(* Properties.                                                             *)
(***************************************************************************)
TypeOK ==
    /\ row \in [Relation -> Trust] /\ live \in [Relation -> Trust]
    /\ changes \in Seq(Change) /\ known \subseteq Change
    /\ assigned \in [Entity -> Runtime \cup {None}]
    /\ runtime \in [Entity -> Runtime \cup {None}]
    /\ \A d \in traces \cup recorded : d.entity \in Entity
    /\ stage \in [Thread -> {"idle", "known", "stored", "live", "save_change",
                          "publish_change", "save_runtime", "set_runtime", "save_trace",
                          "record_trace"}]
    /\ requests \in 0..MaxRequests /\ faults \in 0..MaxFaults /\ orderly \in BOOLEAN
==============================================================================
