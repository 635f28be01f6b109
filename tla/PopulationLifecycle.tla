------------------------- MODULE PopulationLifecycle -------------------------
(***************************************************************************)
(* The people of one population pool, on their way between the levels      *)
(* STATISTICAL, MATERIALIZED and ACTIVE: PopulationLifecycle in memory     *)
(* (population/lifecycle.py), the rows and the transitions in PostgreSQL   *)
(* (population/postgres.py), and the routes that change the one and then   *)
(* the other (kernel/api/app.py).                                          *)
(*                                                                         *)
(* Requests run on threads and the lifecycle has no lock.  A request reads *)
(* the member, numbers its transition, keeps the new member, appends the   *)
(* transition, takes the last transition of the history and saves both in  *)
(* one database transaction; others run between these steps.               *)
(*                                                                         *)
(* Somebody who is not registered is STATISTICAL here, with version 0, and *)
(* a row with version 0 is one that is not there.                          *)
(***************************************************************************)
EXTENDS Integers, Sequences, FiniteSets

CONSTANTS
    Thread,      \* request threads
    Persona,     \* people of the pool
    Fact,        \* fields of a person's persistent and active state
    Preserved,   \* fields that deactivation keeps
    BulkState,   \* the active state of people who are activated in bulk
    MaxStep,     \* bound: the largest world step a client sends
    MaxHistory,  \* bound: nothing is asked for once the history or a row has come this far,
    MaxOverlap,  \* bound: or this far if another request is being served,
    MaxAfter,    \* bound: or this far after requests have overlapped or a second pool
    MaxPools,    \* bound: how often the pool is generated
    None

ASSUME FactAssumption == Preserved \subseteq Fact /\ BulkState \subseteq Fact
ASSUME BoundsAssumption == {MaxStep, MaxHistory, MaxOverlap, MaxAfter, MaxPools} \subseteq Nat
ASSUME NoneAssumption == None \notin Persona

Level == {"STATISTICAL", "MATERIALIZED", "ACTIVE"}
Kind == {"materialize", "activate", "deactivate"}

Member == [level : Level, version : Nat, step : Nat,
           persistent : SUBSET Fact, active : SUBSET Fact, compressed : SUBSET Fact]
Statistical ==
    [level |-> "STATISTICAL", version |-> 0, step |-> 0,
     persistent |-> {}, active |-> {}, compressed |-> {}]

Transition == [persona : Persona, sequence : Nat, version : Nat, from : Level, to : Level,
               step : Nat, persistent : SUBSET Fact, active : SUBSET Fact]

\* A request: what it does, to whom it has yet to do it, at which step, and the
\* state the client has sent.
Job == [kind : Kind, bulk : BOOLEAN, todo : SUBSET Persona, step : Nat, facts : SUBSET Fact]

VARIABLES
    members, history, \* the lifecycle of the process
    listed, actives,  \* people the pool's record lists as materialized and as active
    rows, stored,     \* rows of materialized_people, and of lifecycle_transitions
    pc, job,          \* what each thread does next, and for which request
    who, after,       \* the person it is at, and what becomes of that person
    number, last,     \* the number of the transition, and the transition it will store
    pools,            \* how often the pool was generated
    orderly           \* requests have come one at a time, and the pool was generated once

memory == <<members, history, listed, actives>>
table == <<rows, stored>>
locals == <<job, who, after, number, last>>
vars == <<memory, table, pc, locals, pools, orderly>>

Steps == {"idle", "look", "number", "keep", "append", "take", "save"}

Init ==
    /\ members = [p \in Persona |-> Statistical]
    /\ history = <<>>
    /\ listed = {} /\ actives = {}
    /\ rows = [p \in Persona |-> Statistical]
    /\ stored = {}
    /\ pc = [t \in Thread |-> "idle"]
    /\ job = [t \in Thread |-> None]
    /\ who = [t \in Thread |-> None]
    /\ after = [t \in Thread |-> Statistical]
    /\ number = [t \in Thread |-> 0]
    /\ last = [t \in Thread |-> None]
    /\ pools = 1
    /\ orderly = TRUE

Goto(t, step) == pc' = [pc EXCEPT ![t] = step]

\* The thread is done with a person.
Forget(t) ==
    /\ who' = [who EXCEPT ![t] = None]
    /\ after' = [after EXCEPT ![t] = Statistical]
    /\ number' = [number EXCEPT ![t] = 0]
    /\ last' = [last EXCEPT ![t] = None]

Leave(t) == Goto(t, "idle") /\ job' = [job EXCEPT ![t] = None] /\ Forget(t)

(***************************************************************************)
(* Requests.                                                               *)
(***************************************************************************)
AllIdle == \A t \in Thread : pc[t] = "idle"

Limit ==
    IF ~orderly THEN MaxAfter ELSE IF AllIdle THEN MaxHistory ELSE MaxOverlap

Ask(t, kind, bulk, todo, step, facts) ==
    /\ pc[t] = "idle"
    /\ Len(history) < Limit /\ \A p \in Persona : rows[p].version < Limit
    /\ job' = [job EXCEPT ![t] = [kind |-> kind, bulk |-> bulk, todo |-> todo, step |-> step,
                                  facts |-> facts]]
    /\ Goto(t, "look")
    /\ orderly' = (orderly /\ AllIdle)
    /\ UNCHANGED <<memory, table, who, after, number, last, pools>>

\* One person, at the step and with the state the client sends.
AskOne(t, kind, p, step, facts) == Ask(t, kind, FALSE, {p}, step, facts)

\* The first step of a bulk request comes after all steps of the history.
StartSteps ==
    IF history = <<>> THEN {0}
    ELSE {history[i].step + 1 : i \in {i \in 1..Len(history) :
                                         \A j \in 1..Len(history) : history[j].step <= history[i].step}}

\* A sample of the pool is materialized.
MaterializeBulk(t, sample) ==
    \E start \in StartSteps :
        Ask(t, "materialize", TRUE, sample, start, {})

\* Listed people who are not active are activated.
ActivateBulk(t, candidates) ==
    /\ candidates \subseteq listed \ actives
    /\ \E start \in StartSteps :
        Ask(t, "activate", TRUE, candidates, start, BulkState)

(***************************************************************************)
(* The lifecycle.                                                          *)
(***************************************************************************)

\* The levels a transition leads from and to.
Source(kind) ==
    CASE kind = "materialize" -> "STATISTICAL"
      [] kind = "activate" -> "MATERIALIZED"
      [] kind = "deactivate" -> "ACTIVE"

Target(kind) == IF kind = "activate" THEN "ACTIVE" ELSE "MATERIALIZED"

Allowed(kind, level) == level = Source(kind)

\* Mutant: deactivation starts from the compressed state instead of the persistent one.
KeptAnew(kind, m, facts) ==
    IF kind = "activate" THEN m.persistent ELSE facts \cup (m.active \cap Preserved)

\* The persistent state a transition leaves.
Kept(kind, m, facts) ==
    CASE kind = "materialize" -> facts
      [] kind = "activate" -> m.persistent
      [] kind = "deactivate" -> m.persistent \cup (m.active \cap Preserved) \cup facts

\* A member after a transition.
Moved(kind, m, step, facts) ==
    [level |-> Target(kind), version |-> m.version + 1, step |-> step,
     persistent |-> Kept(kind, m, facts),
     active |-> IF kind = "activate" THEN facts ELSE {},
     compressed |-> CASE kind = "materialize" -> {}
                      [] kind = "activate" -> m.compressed
                      [] kind = "deactivate" -> facts]

\* A bulk request when it is done with a person; every person takes a step.
Rest(q, p) ==
    [kind |-> q.kind, bulk |-> q.bulk, todo |-> q.todo \ {p}, step |-> q.step + 1,
     facts |-> q.facts]

\* Bulk materialization skips people who are listed.
Skip(t, p) ==
    /\ pc[t] = "look"
    /\ p \in job[t].todo
    /\ job[t].bulk /\ job[t].kind = "materialize" /\ p \in listed
    /\ IF job[t].todo = {p}
         THEN Leave(t)
         ELSE /\ job' = [job EXCEPT ![t] = Rest(job[t], p)]
              /\ UNCHANGED <<pc, who, after, number, last>>
    /\ UNCHANGED <<memory, table, pools, orderly>>

\* The member is read, its level checked and its successor computed.
Look(t, p) ==
    LET q == job[t] IN
    /\ pc[t] = "look"
    /\ p \in q.todo
    /\ ~(q.bulk /\ q.kind = "materialize" /\ p \in listed)
    /\ IF Allowed(q.kind, members[p].level)
         THEN /\ who' = [who EXCEPT ![t] = p]
              /\ after' = [after EXCEPT ![t] = Moved(q.kind, members[p], q.step, q.facts)]
              /\ Goto(t, "number")
              /\ UNCHANGED <<job, number, last>>
         ELSE Leave(t)
    /\ UNCHANGED <<memory, table, pools, orderly>>

\* Steps do not go back: the last transition of p in the history is not later.
InOrder(p, step) ==
    \A i \in 1..Len(history) :
        history[i].persona = p /\ (\A j \in (i + 1)..Len(history) : history[j].persona # p)
          => history[i].step <= step

\* The rest of the lifecycle's _commit, in three steps.
Number(t) ==
    /\ pc[t] = "number"
    /\ IF InOrder(who[t], after[t].step)
         THEN /\ number' = [number EXCEPT ![t] = Len(history) + 1]
              /\ Goto(t, "keep")
              /\ UNCHANGED <<job, who, after, last>>
         ELSE Leave(t)
    /\ UNCHANGED <<memory, table, pools, orderly>>

Keep(t) ==
    /\ pc[t] = "keep"
    /\ members' = [members EXCEPT ![who[t]] = after[t]]
    /\ Goto(t, "append")
    /\ UNCHANGED <<history, listed, actives, table, locals, pools, orderly>>

NewTransition(t) ==
    [persona |-> who[t], sequence |-> number[t], version |-> after[t].version,
     from |-> Source(job[t].kind), to |-> after[t].level, step |-> after[t].step,
     persistent |-> after[t].persistent, active |-> after[t].active]

AppendTransition(t) ==
    /\ pc[t] = "append"
    /\ history' = Append(history, NewTransition(t))
    /\ Goto(t, "take")
    /\ UNCHANGED <<members, listed, actives, table, locals, pools, orderly>>

\* The pool's record follows.
List(t) ==
    /\ listed' = IF job[t].kind = "materialize" THEN listed \cup {who[t]} ELSE listed
    /\ actives' = CASE job[t].kind = "materialize" -> actives
                    [] job[t].kind = "activate" -> actives \cup {who[t]}
                    [] job[t].kind = "deactivate" -> actives \ {who[t]}

\* The transition to store is the last one of the history by now.  A request about
\* one person has updated the record of the pool before.
Take(t) ==
    /\ pc[t] = "take"
    /\ last' = [last EXCEPT ![t] = history[Len(history)]]
    /\ IF job[t].bulk THEN UNCHANGED <<listed, actives>> ELSE List(t)
    /\ Goto(t, "save")
    /\ UNCHANGED <<members, history, table, job, who, after, number, pools, orderly>>

(***************************************************************************)
(* The database.                                                           *)
(***************************************************************************)

\* Mutant: the number of updated rows is not looked at.
RowFitsAnyway(kind, m, row) == TRUE

\* Whether save_materialized or save_transition accepts the member: it creates the
\* row, moves it on by one version, or finds it as it should be.
RowFits(kind, m, row) ==
    \/ row = m
    \/ IF kind = "materialize" THEN row.version = 0
       ELSE row.version # 0 /\ row.version = m.version - 1 /\ row.step <= m.step

\* Mutant: the update forgets the active state.
WrittenWithout(m, row) == [m EXCEPT !.active = row.active]

\* The row that is written.
Written(m, row) == m

\* transition_id is a hash of everything but the version.
SameId(x, y) == x = [y EXCEPT !.version = x.version]

\* _insert_transition: a known identifier is left alone, the row must be there, and
\* a version is stored once.
Insertable(x, newRows) ==
    /\ newRows[x.persona].version # 0
    /\ \/ \E y \in stored : SameId(x, y)
       \/ ~\E y \in stored : y.persona = x.persona /\ y.version = x.version

Inserted(x) == IF \E y \in stored : SameId(x, y) THEN stored ELSE stored \cup {x}

\* save_materialized also compares the transition with the member.
Saves(t) ==
    LET p == who[t] IN
    /\ job[t].kind = "materialize" => last[t].persona = p
    /\ RowFits(job[t].kind, after[t], rows[p])
    /\ rows' = [rows EXCEPT ![p] = Written(after[t], rows[p])]
    /\ Insertable(last[t], rows')
    /\ stored' = Inserted(last[t])

\* On to the next person of a bulk request.
Continue(t) ==
    IF job[t].todo = {who[t]}
      THEN Leave(t)
      ELSE /\ job' = [job EXCEPT ![t] = Rest(job[t], who[t])]
           /\ Goto(t, "look")
           /\ Forget(t)

Save(t) ==
    /\ pc[t] = "save"
    /\ Saves(t)
    /\ IF job[t].bulk THEN List(t) ELSE UNCHANGED <<listed, actives>>
    /\ Continue(t)
    /\ UNCHANGED <<members, history, pools, orderly>>

\* Mutant: the transition is committed before the row.
SaveFailsHalfway(t) ==
    /\ pc[t] = "save"
    /\ Leave(t)
    /\ stored' = IF Insertable(last[t], rows) THEN Inserted(last[t]) ELSE stored
    /\ UNCHANGED <<memory, rows, pools, orderly>>

\* The transaction is refused, or the database cannot be reached.
SaveFails(t) ==
    /\ pc[t] = "save"
    /\ Leave(t)
    /\ UNCHANGED <<memory, table, pools, orderly>>

\* The transaction commits and its answer is lost.
AnswerLost(t) ==
    /\ pc[t] = "save"
    /\ Saves(t)
    /\ Leave(t)
    /\ UNCHANGED <<memory, pools, orderly>>

(***************************************************************************)
(* The pool.                                                               *)
(***************************************************************************)

\* The same pool is generated again, between requests: its lifecycle starts anew
\* while its rows stay.
Regenerate ==
    /\ AllIdle
    /\ pools < MaxPools
    /\ pools' = pools + 1
    /\ members' = [p \in Persona |-> Statistical]
    /\ history' = <<>>
    /\ listed' = {} /\ actives' = {}
    /\ orderly' = FALSE
    /\ UNCHANGED <<table, pc, locals>>

\* The transitions that are stored, by their numbers.
Restored ==
    {h \in [1..Cardinality(stored) -> stored] :
        \A i, j \in 1..Cardinality(stored) : i < j => h[i] # h[j] /\ h[i].sequence <= h[j].sequence}

\* The process ends and starts again.
Restart ==
    /\ members' = rows
    /\ history' \in Restored
    /\ listed' = {p \in Persona : rows[p].version # 0}
    /\ actives' = {p \in Persona : rows[p].level = "ACTIVE"}
    /\ pc' = [t \in Thread |-> "idle"]
    /\ job' = [t \in Thread |-> None]
    /\ who' = [t \in Thread |-> None]
    /\ after' = [t \in Thread |-> Statistical]
    /\ number' = [t \in Thread |-> 0]
    /\ last' = [t \in Thread |-> None]
    /\ UNCHANGED <<table, pools, orderly>>

(***************************************************************************)
(* The specification.                                                      *)
(***************************************************************************)
Serve(t) ==
    \/ \E kind \in Kind, p \in Persona, step \in 0..MaxStep, facts \in SUBSET Fact :
          AskOne(t, kind, p, step, facts)
    \/ \E people \in (SUBSET Persona) \ {{}} : MaterializeBulk(t, people) \/ ActivateBulk(t, people)

Step(t) ==
    \/ \E p \in Persona : Skip(t, p) \/ Look(t, p)
    \/ Number(t) \/ Keep(t) \/ AppendTransition(t) \/ Take(t)
    \/ Save(t) \/ SaveFails(t) \/ AnswerLost(t)

Next == Regenerate \/ Restart \/ \E t \in Thread : Serve(t) \/ Step(t)

Spec == Init /\ [][Next]_vars
------------------------------------------------------------------------------
(***************************************************************************)
(* Properties.                                                             *)
(***************************************************************************)
TypeOK ==
    /\ members \in [Persona -> Member]
    /\ history \in Seq(Transition)
    /\ listed \subseteq Persona /\ actives \subseteq Persona
    /\ rows \in [Persona -> Member]
    /\ stored \subseteq Transition
    /\ pc \in [Thread -> Steps]
    /\ job \in [Thread -> Job \cup {None}]
    /\ who \in [Thread -> Persona \cup {None}]
    /\ after \in [Thread -> Member]
    /\ number \in [Thread -> Nat]
    /\ last \in [Thread -> Transition \cup {None}]
    /\ pools \in Nat
    /\ orderly \in BOOLEAN

\* The level that goes with a version.
LevelOf(version) ==
    IF version = 0 THEN "STATISTICAL" ELSE IF version % 2 = 1 THEN "MATERIALIZED" ELSE "ACTIVE"

Legal(m) == m.level = LevelOf(m.version)

LegalTransition(x) ==
    x.version # 0 /\ x.to = LevelOf(x.version) /\ x.from = LevelOf(x.version - 1)

\* However requests overlap, fail and are restarted, everybody's path is STATISTICAL,
\* MATERIALIZED, ACTIVE, MATERIALIZED, ACTIVE and so on, one version after the other, in
\* memory, in the row and in the transitions ("Cannot activate a ... persona",
\* population/lifecycle.py:106, 135, 157).
LevelsAlternate ==
    /\ \A p \in Persona : Legal(members[p]) /\ Legal(rows[p])
    /\ \A x \in stored : LegalTransition(x)
    /\ \A i \in 1..Len(history) : LegalTransition(history[i])

\* A row moves on by one version at a time and never to an earlier step, whoever else
\* is writing it ("monotonic world steps", docs/ARCHITECTURE.md:153-154).
RowsAdvance ==
    [][\A p \in Persona : rows'[p] # rows[p] =>
          rows'[p].version = rows[p].version + 1 /\ rows[p].step <= rows'[p].step]_vars

\* What a person has to remember: the persistent state, and what deactivation will keep.
Mind(m) == m.persistent \cup (m.active \cap Preserved)

\* Nothing a stored person has to remember is ever lost ("Lifecycle transitions preserve
\* persistent state", docs/ARCHITECTURE.md:153-154), as long as requests come one at a
\* time and the pool is not generated again.
FactsSurvive == [][orderly => \A p \in Persona : Mind(rows[p]) \subseteq Mind(rows'[p])]_vars

\* Memory is where the table is or ahead of it by transitions that were not saved; in
\* the first case they agree.  Restarting loses the unsaved transitions and no others
\* (load_lifecycle, population/postgres.py:335-409).
MemoryIsNotBehind ==
    orderly => \A p \in Persona :
        /\ rows[p].version <= members[p].version
        /\ rows[p].version = members[p].version => rows[p] = members[p]

Fits(x, row) ==
    /\ x.version <= row.version
    /\ x.version = row.version =>
         x.step = row.step /\ x.persistent = row.persistent /\ x.active = row.active

\* No stored transition is ahead of its row, and the one of the row's version describes
\* it: what is stored can be continued after any failure.
StoredHistoryFits == orderly => \A x \in stored : Fits(x, rows[x.persona])
==============================================================================
