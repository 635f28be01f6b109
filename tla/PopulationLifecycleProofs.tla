---------------------- MODULE PopulationLifecycleProofs ----------------------
(***************************************************************************)
(* Theorems about PopulationLifecycle, for any people, facts and bounds,   *)
(* and any number of threads.                                              *)
(*                                                                         *)
(* Typed makes the types inductive.  Levelled adds what a thread in the    *)
(* middle of a request carries: a legal successor of the member it read,   *)
(* which need not be the successor of the member that is there by now.     *)
(* Ordered holds while requests come one at a time: then it is.            *)
(***************************************************************************)
EXTENDS PopulationLifecycle, TLAPS, FiniteSetTheorems, SequenceTheorems

\* A thread between reading a member and saving its successor.
InFlight(t) == pc[t] \in {"number", "keep", "append", "take", "save"}

MemoryTyped ==
    /\ members \in [Persona -> Member]
    /\ history \in Seq(Transition)
    /\ listed \subseteq Persona /\ actives \subseteq Persona

TableTyped ==
    /\ rows \in [Persona -> Member]
    /\ stored \subseteq Transition /\ IsFiniteSet(stored)

LocalsTyped ==
    /\ pc \in [Thread -> Steps]
    /\ job \in [Thread -> Job \cup {None}]
    /\ who \in [Thread -> Persona \cup {None}]
    /\ after \in [Thread -> Member]
    /\ number \in [Thread -> Nat]
    /\ last \in [Thread -> Transition \cup {None}]
    /\ \A t \in Thread : pc[t] # "idle" => job[t] \in Job
    /\ \A t \in Thread : InFlight(t) => who[t] \in Persona
    /\ \A t \in Thread : pc[t] = "save" => last[t] \in Transition

Typed ==
    /\ MemoryTyped /\ TableTyped /\ LocalsTyped
    /\ \A t \in Thread : pc[t] = "take" => history # <<>>
    /\ pools \in Nat /\ orderly \in BOOLEAN

\* The fields of a member after a transition.
LEMMA MovedFields ==
    ASSUME NEW kind \in Kind, NEW m \in Member, NEW step \in Nat, NEW facts \in SUBSET Fact
    PROVE  LET n == Moved(kind, m, step, facts) IN
           /\ n \in Member
           /\ n.level = Target(kind)
           /\ n.version = m.version + 1
           /\ n.step = step
           /\ n.persistent = Kept(kind, m, facts)
           /\ n.active = IF kind = "activate" THEN facts ELSE {}
  <1>1. Kept(kind, m, facts) \in SUBSET Fact
    BY DEF Kept, Kind, Member
  <1>2. Target(kind) \in Level
    BY DEF Target, Level
  <1>3. m.version + 1 \in Nat /\ m.compressed \in SUBSET Fact
    BY DEF Member
  <1> QED BY <1>1, <1>2, <1>3 DEF Moved, Member, Kind

\* A request that goes on to the next person is still a request.
LEMMA RestIsJob ==
    ASSUME NEW q \in Job, NEW p
    PROVE  Rest(q, p) \in Job
  <1>1. q.todo \ {p} \in SUBSET Persona /\ q.step + 1 \in Nat
    BY DEF Job
  <1> QED BY <1>1 DEF Rest, Job

\* What there is of stored transitions can be put in order.
LEMMA RestoredType ==
    ASSUME IsFiniteSet(stored), stored \subseteq Transition, NEW h \in Restored
    PROVE  h \in Seq(Transition) /\ \A i \in 1..Len(h) : h[i] \in stored
  <1>1. Cardinality(stored) \in Nat
    BY FS_CardinalityType
  <1>2. h \in [1..Cardinality(stored) -> stored]
    BY DEF Restored
  <1>3. h \in Seq(stored) /\ Len(h) = Cardinality(stored)
    BY <1>1, <1>2
  <1> QED BY <1>2, <1>3

\* Steps of a bulk request are steps.
LEMMA StartStepsType ==
    ASSUME history \in Seq(Transition)
    PROVE  StartSteps \subseteq Nat
  <1>1. ASSUME NEW i \in 1..Len(history) PROVE history[i].step + 1 \in Nat
    <2>1. history[i] \in Transition
      OBVIOUS
    <2> QED BY <2>1 DEF Transition
  <1> QED BY <1>1 DEF StartSteps

LEMMA StatisticalType == Statistical \in Member
  BY DEF Statistical, Member, Level

\* A thread that leaves its request carries nothing.
LEMMA LeaveTyped ==
    ASSUME LocalsTyped, NEW t \in Thread, Leave(t)
    PROVE  LocalsTyped' /\ \A u \in Thread : pc'[u] = "take" => pc[u] = "take"
  BY StatisticalType DEF LocalsTyped, Leave, Goto, Forget, InFlight, Steps

\* Whoever saves leaves well-typed tables.
LEMMA SavesTyped ==
    ASSUME TableTyped, LocalsTyped, NEW t \in Thread, pc[t] = "save", Saves(t)
    PROVE  TableTyped'
  <1>1. who[t] \in Persona /\ after[t] \in Member /\ last[t] \in Transition
    BY DEF InFlight, LocalsTyped
  <1>2. rows' \in [Persona -> Member]
    BY <1>1 DEF Saves, Written, TableTyped
  <1>3. stored' \in {stored, stored \cup {last[t]}}
    BY DEF Saves, Inserted
  <1>4. IsFiniteSet(stored \cup {last[t]})
    BY FS_AddElement DEF TableTyped
  <1> QED BY <1>1, <1>2, <1>3, <1>4 DEF TableTyped

\* A bulk request goes on well-typed.
LEMMA ContinueTyped ==
    ASSUME LocalsTyped, NEW t \in Thread, pc[t] = "save", Continue(t)
    PROVE  LocalsTyped' /\ \A u \in Thread : pc'[u] = "take" => pc[u] = "take"
  <1>1. CASE job[t].todo = {who[t]}
    BY <1>1, LeaveTyped DEF Continue
  <1>2. CASE job[t].todo # {who[t]}
    <2>1. job[t] \in Job /\ Rest(job[t], who[t]) \in Job
      BY RestIsJob DEF LocalsTyped
    <2> QED BY <1>2, <2>1, StatisticalType DEF Continue, LocalsTyped, Goto, Forget, InFlight, Steps
  <1> QED BY <1>1, <1>2

\* The pool's record names people of the pool.
LEMMA ListTyped ==
    ASSUME NEW t \in Thread, List(t), listed \subseteq Persona, actives \subseteq Persona,
           job[t] \in Job, who[t] \in Persona
    PROVE  listed' \subseteq Persona /\ actives' \subseteq Persona
  BY DEF List, Job, Kind

\* What a client asks for is a request.
LEMMA ServeAsks ==
    ASSUME MemoryTyped, NEW t \in Thread, Serve(t)
    PROVE  \E kind \in Kind, bulk \in BOOLEAN, todo \in SUBSET Persona, step \in Nat,
              facts \in SUBSET Fact : Ask(t, kind, bulk, todo, step, facts)
  <1>1. CASE \E kind \in Kind, p \in Persona, step \in 0..MaxStep, facts \in SUBSET Fact :
               AskOne(t, kind, p, step, facts)
    <2>1. PICK kind \in Kind, p \in Persona, step \in 0..MaxStep, facts \in SUBSET Fact :
                 AskOne(t, kind, p, step, facts)
      BY <1>1
    <2>2. step \in Nat /\ {p} \in SUBSET Persona
      BY BoundsAssumption
    <2> QED BY <2>1, <2>2 DEF AskOne
  <1>2. CASE \E people \in (SUBSET Persona) \ {{}} : MaterializeBulk(t, people)
    BY <1>2, StartStepsType DEF MaterializeBulk, Kind, MemoryTyped
  <1>3. CASE \E people \in (SUBSET Persona) \ {{}} : ActivateBulk(t, people)
    BY <1>3, StartStepsType, FactAssumption DEF ActivateBulk, Kind, MemoryTyped
  <1> QED BY <1>1, <1>2, <1>3 DEF Serve

\* Types are kept by every step.
LEMMA TypedKept ==
    ASSUME Typed, [Next]_vars
    PROVE  Typed'
  <1> USE DEF memory, table, locals
  <1>1. CASE UNCHANGED vars
    BY <1>1 DEF Typed, MemoryTyped, TableTyped, LocalsTyped, InFlight, vars
  <1>2. CASE Regenerate
    <2>1. MemoryTyped'
      BY <1>2, StatisticalType DEF Regenerate, MemoryTyped
    <2>2. LocalsTyped' /\ TableTyped'
      BY <1>2 DEF Regenerate, LocalsTyped, TableTyped, InFlight, Typed
    <2>3. \A t \in Thread : pc'[t] # "take"
      BY <1>2 DEF Regenerate, AllIdle
    <2>4. pools' \in Nat
      BY <1>2 DEF Regenerate, Typed
    <2>5. orderly' \in BOOLEAN
      BY <1>2 DEF Regenerate
    <2> QED BY <2>1, <2>2, <2>3, <2>4, <2>5 DEF Typed
  <1>3. CASE Restart
    <2>1. MemoryTyped'
      BY <1>3, RestoredType DEF Restart, Typed, TableTyped, MemoryTyped
    <2>2. LocalsTyped'
      BY <1>3, StatisticalType DEF Restart, LocalsTyped, InFlight, Steps
    <2> QED BY <1>3, <2>1, <2>2 DEF Restart, Typed, TableTyped
  <1>4. ASSUME NEW t \in Thread, Serve(t)
        PROVE  Typed'
    <2>1. PICK kind \in Kind, bulk \in BOOLEAN, todo \in SUBSET Persona, step \in Nat,
               facts \in SUBSET Fact : Ask(t, kind, bulk, todo, step, facts)
      BY <1>4, ServeAsks DEF Typed
    <2>2. LocalsTyped' /\ \A u \in Thread : pc'[u] = "take" => pc[u] = "take"
      BY <2>1 DEF Ask, Goto, Typed, LocalsTyped, InFlight, Steps, Job
    <2> QED BY <2>1, <2>2 DEF Ask, Typed, MemoryTyped, TableTyped
  <1>5. ASSUME NEW t \in Thread, NEW p \in Persona, Skip(t, p)
        PROVE  Typed'
    <2>1. job[t] \in Job /\ Rest(job[t], p) \in Job
      BY <1>5, RestIsJob DEF Skip, Typed, LocalsTyped
    <2>2. LocalsTyped' /\ \A u \in Thread : pc'[u] = "take" => pc[u] = "take"
      <3>1. CASE Leave(t)
        BY <3>1, LeaveTyped DEF Typed
      <3>2. CASE ~Leave(t)
        <4>1. /\ job' = [job EXCEPT ![t] = Rest(job[t], p)]
              /\ UNCHANGED <<pc, who, after, number, last>>
          BY <1>5, <3>2 DEF Skip
        <4> QED BY <2>1, <4>1 DEF Typed, LocalsTyped, InFlight
      <3> QED BY <3>1, <3>2
    <2> QED BY <1>5, <2>2 DEF Skip, Typed, MemoryTyped, TableTyped
  <1>6. ASSUME NEW t \in Thread, NEW p \in Persona, Look(t, p)
        PROVE  Typed'
    <2>1. job[t] \in Job /\ members[p] \in Member
      BY <1>6 DEF Look, Typed, LocalsTyped, MemoryTyped
    <2>2. Moved(job[t].kind, members[p], job[t].step, job[t].facts) \in Member
      BY <2>1, MovedFields DEF Job
    <2>3. LocalsTyped' /\ \A u \in Thread : pc'[u] = "take" => pc[u] = "take"
      <3>1. CASE Leave(t)
        BY <3>1, LeaveTyped DEF Typed
      <3>2. CASE ~Leave(t)
        <4>1. /\ who' = [who EXCEPT ![t] = p]
              /\ after' = [after EXCEPT ![t] = Moved(job[t].kind, members[p], job[t].step,
                                                     job[t].facts)]
              /\ pc' = [pc EXCEPT ![t] = "number"]
              /\ UNCHANGED <<job, number, last>>
          BY <1>6, <3>2 DEF Look, Goto
        <4> QED BY <2>1, <2>2, <4>1 DEF Typed, LocalsTyped, InFlight, Steps
      <3> QED BY <3>1, <3>2
    <2> QED BY <1>6, <2>3 DEF Look, Typed, MemoryTyped, TableTyped
  <1>7. ASSUME NEW t \in Thread, Number(t)
        PROVE  Typed'
    <2>1. Len(history) + 1 \in Nat
      BY DEF Typed, MemoryTyped
    <2>2. LocalsTyped' /\ \A u \in Thread : pc'[u] = "take" => pc[u] = "take"
      <3>1. CASE Leave(t)
        BY <3>1, LeaveTyped DEF Typed
      <3>2. CASE ~Leave(t)
        BY <1>7, <2>1, <3>2 DEF Number, Goto, Typed, LocalsTyped, InFlight, Steps
      <3> QED BY <3>1, <3>2
    <2> QED BY <1>7, <2>2 DEF Number, Typed, MemoryTyped, TableTyped
  <1>8. ASSUME NEW t \in Thread, Keep(t)
        PROVE  Typed'
    <2>1. who[t] \in Persona /\ after[t] \in Member
      BY <1>8 DEF Keep, Typed, LocalsTyped, InFlight
    <2>2. MemoryTyped'
      BY <1>8, <2>1 DEF Keep, Typed, MemoryTyped
    <2>3. LocalsTyped' /\ \A u \in Thread : pc'[u] = "take" => pc[u] = "take"
      BY <1>8 DEF Keep, Goto, Typed, LocalsTyped, InFlight, Steps
    <2> QED BY <1>8, <2>2, <2>3 DEF Keep, Typed, TableTyped
  <1>9. ASSUME NEW t \in Thread, AppendTransition(t)
        PROVE  Typed'
    <2>1. who[t] \in Persona /\ job[t] \in Job /\ after[t] \in Member /\ number[t] \in Nat
      BY <1>9 DEF AppendTransition, Typed, LocalsTyped, InFlight
    <2>2. Source(job[t].kind) \in Level
      BY <2>1 DEF Source, Job, Kind, Level
    <2>3. NewTransition(t) \in Transition
      BY <2>1, <2>2 DEF NewTransition, Transition, Member
    <2>4. MemoryTyped' /\ history' # <<>>
      BY <1>9, <2>3 DEF AppendTransition, Typed, MemoryTyped
    <2>5. LocalsTyped'
      BY <1>9 DEF AppendTransition, Goto, Typed, LocalsTyped, InFlight, Steps
    <2> QED BY <1>9, <2>4, <2>5 DEF AppendTransition, Typed, TableTyped
  <1>10. ASSUME NEW t \in Thread, Take(t)
         PROVE  Typed'
    <2>1. history[Len(history)] \in Transition
      BY <1>10 DEF Take, Typed, MemoryTyped
    <2>2. listed' \subseteq Persona /\ actives' \subseteq Persona
      BY <1>10, ListTyped DEF Take, Typed, MemoryTyped, LocalsTyped, InFlight
    <2>3. LocalsTyped' /\ \A u \in Thread : pc'[u] = "take" => pc[u] = "take"
      BY <1>10, <2>1 DEF Take, Goto, Typed, LocalsTyped, InFlight, Steps
    <2> QED BY <1>10, <2>2, <2>3 DEF Take, Typed, MemoryTyped, TableTyped
  <1>11. ASSUME NEW t \in Thread, Save(t)
         PROVE  Typed'
    <2>1. TableTyped'
      BY <1>11, SavesTyped DEF Save, Typed
    <2>2. listed' \subseteq Persona /\ actives' \subseteq Persona
      BY <1>11, ListTyped DEF Save, Typed, MemoryTyped, LocalsTyped, InFlight
    <2>3. LocalsTyped' /\ \A u \in Thread : pc'[u] = "take" => pc[u] = "take"
      BY <1>11, ContinueTyped DEF Save, Typed
    <2> QED BY <1>11, <2>1, <2>2, <2>3 DEF Save, Typed, MemoryTyped
  <1>12. ASSUME NEW t \in Thread, SaveFails(t)
         PROVE  Typed'
    BY <1>12, LeaveTyped DEF SaveFails, Typed, MemoryTyped, TableTyped
  <1>13. ASSUME NEW t \in Thread, AnswerLost(t)
         PROVE  Typed'
    <2>1. TableTyped'
      BY <1>13, SavesTyped DEF AnswerLost, Typed
    <2> QED BY <1>13, <2>1, LeaveTyped DEF AnswerLost, Typed, MemoryTyped
  <1> QED BY <1>1, <1>2, <1>3, <1>4, <1>5, <1>6, <1>7, <1>8, <1>9, <1>10, <1>11, <1>12, <1>13
          DEF Next, Step

LEMMA TypedAtFirst == ASSUME Init PROVE Typed
  BY StatisticalType, FS_EmptySet
     DEF Init, Typed, MemoryTyped, TableTyped, LocalsTyped, Steps, InFlight

LEMMA TypedAlways == Spec => []Typed
  BY TypedAtFirst, TypedKept, PTL DEF Spec

\* Every variable always has its type; in particular no request sends or keeps a
\* negative step, which the schema would refuse (population/lifecycle.py:183-184).
THEOREM TypeCorrect == Spec => []TypeOK
  <1>1. Typed => TypeOK
    BY DEF Typed, MemoryTyped, TableTyped, LocalsTyped, TypeOK
  <1> QED BY <1>1, TypedAlways, PTL
------------------------------------------------------------------------------
(***************************************************************************)
(* Levels and versions.                                                    *)
(***************************************************************************)

\* Only somebody who is active has an active state.
Settled(m) == m.level # "ACTIVE" => m.active = {}

\* A member as the lifecycle makes it.
Sound(m) == Legal(m) /\ Settled(m) /\ (m.version = 0 => m = Statistical)

\* What a thread in flight carries is one version after a member that it may leave.
Carried(t) ==
    /\ Sound(after[t])
    /\ after[t].version # 0
    /\ Source(job[t].kind) = LevelOf(after[t].version - 1)
    /\ after[t].level = Target(job[t].kind)

MembersSound == \A p \in Persona : Sound(members[p])
RowsSound == \A p \in Persona : Sound(rows[p])
HistoryLegal == \A i \in 1..Len(history) : LegalTransition(history[i])
StoredLegal == \A x \in stored : LegalTransition(x)
ThreadsCarry == \A t \in Thread : InFlight(t) => Carried(t)
LastLegal == \A t \in Thread : pc[t] = "save" => LegalTransition(last[t])

Levelled ==
    /\ MembersSound /\ RowsSound
    /\ HistoryLegal /\ StoredLegal
    /\ ThreadsCarry /\ LastLegal

LEMMA LevelsOfVersions ==
    ASSUME NEW v \in Nat
    PROVE  /\ LevelOf(v) = "STATISTICAL" <=> v = 0
           /\ LevelOf(v) = "MATERIALIZED" => LevelOf(v + 1) = "ACTIVE"
           /\ LevelOf(v) # "MATERIALIZED" => LevelOf(v + 1) = "MATERIALIZED"
  BY DEF LevelOf

LEMMA StatisticalIsSound == Sound(Statistical)
  BY DEF Sound, Legal, Settled, LevelOf, Statistical

\* A transition from a level that allows it leads to the next level.
LEMMA MovedIsSound ==
    ASSUME NEW kind \in Kind, NEW m \in Member, NEW step \in Nat, NEW facts \in SUBSET Fact,
           Legal(m), Allowed(kind, m.level)
    PROVE  LET n == Moved(kind, m, step, facts) IN
           /\ Sound(n) /\ n.version # 0
           /\ Source(kind) = LevelOf(n.version - 1)
           /\ n.level = Target(kind)
  <1> DEFINE n == Moved(kind, m, step, facts)
  <1>1. /\ n.level = Target(kind)
        /\ n.version = m.version + 1
        /\ n.active = IF kind = "activate" THEN facts ELSE {}
    BY DEF Moved
  <1>2. m.version \in Nat /\ m.level = Source(kind) /\ m.level = LevelOf(m.version)
    BY DEF Member, Legal, Allowed
  <1>3. n.version # 0 /\ n.version - 1 = m.version
    BY <1>1, <1>2
  <1>4. Target(kind) = LevelOf(m.version + 1)
    <2>1. CASE kind = "activate"
      BY <1>2, <2>1, LevelsOfVersions DEF Source, Target
    <2>2. CASE kind \in {"materialize", "deactivate"}
      BY <1>2, <2>2, LevelsOfVersions DEF Source, Target
    <2> QED BY <2>1, <2>2 DEF Kind
  <1>5. Settled(n)
    BY <1>1 DEF Settled, Target
  <1> HIDE DEF n
  <1>6. Sound(n)
    BY <1>1, <1>3, <1>4, <1>5 DEF Sound, Legal
  <1>7. Source(kind) = LevelOf(n.version - 1)
    BY <1>2, <1>3
  <1> QED BY <1>1, <1>3, <1>6, <1>7 DEF n

\* A thread that leaves its request carries nothing.
LEMMA LeaveCarries ==
    ASSUME LocalsTyped, ThreadsCarry, LastLegal, NEW t \in Thread, Leave(t)
    PROVE  ThreadsCarry' /\ LastLegal'
  BY DEF ThreadsCarry, LastLegal, Carried, LocalsTyped, Leave, Goto, Forget, InFlight

\* So does one that goes on to the next person.
LEMMA ContinueCarries ==
    ASSUME LocalsTyped, ThreadsCarry, LastLegal, NEW t \in Thread, Continue(t)
    PROVE  ThreadsCarry' /\ LastLegal'
  <1>1. CASE job[t].todo = {who[t]}
    BY <1>1, LeaveCarries DEF Continue
  <1>2. CASE job[t].todo # {who[t]}
    BY <1>2 DEF Continue, ThreadsCarry, LastLegal, Carried, LocalsTyped, Goto, Forget, InFlight
  <1> QED BY <1>1, <1>2

\* What is saved is what the thread carries.
LEMMA SavesSound ==
    ASSUME LocalsTyped, TableTyped, Levelled, NEW t \in Thread, pc[t] = "save", Saves(t)
    PROVE  RowsSound' /\ StoredLegal'
  <1>1. who[t] \in Persona /\ Sound(after[t]) /\ LegalTransition(last[t])
    BY DEF LocalsTyped, Levelled, ThreadsCarry, LastLegal, Carried, InFlight
  <1>2. RowsSound'
    BY <1>1 DEF Saves, Written, TableTyped, Levelled, RowsSound
  <1>3. StoredLegal'
    BY <1>1 DEF Saves, Inserted, Levelled, StoredLegal
  <1> QED BY <1>2, <1>3

LEMMA LevelledKept ==
    ASSUME Typed, Levelled, [Next]_vars
    PROVE  Levelled'
  <1> USE DEF memory, table, locals
  <1>1. CASE UNCHANGED vars
    BY <1>1 DEF vars, Levelled, MembersSound, RowsSound, HistoryLegal, StoredLegal, ThreadsCarry,
                LastLegal, Carried, InFlight
  <1>2. CASE Regenerate
    <2>1. MembersSound' /\ HistoryLegal'
      BY <1>2, StatisticalIsSound DEF Regenerate, MembersSound, HistoryLegal
    <2>2. RowsSound' /\ StoredLegal' /\ ThreadsCarry' /\ LastLegal'
      BY <1>2 DEF Regenerate, Levelled, RowsSound, StoredLegal, ThreadsCarry, LastLegal, Carried,
                  InFlight
    <2> QED BY <2>1, <2>2 DEF Levelled
  <1>3. CASE Restart
    <2>1. MembersSound' /\ RowsSound' /\ StoredLegal'
      BY <1>3 DEF Restart, Levelled, MembersSound, RowsSound, StoredLegal
    <2>2. HistoryLegal'
      BY <1>3, RestoredType DEF Restart, Levelled, StoredLegal, HistoryLegal, Typed, TableTyped
    <2>3. ThreadsCarry' /\ LastLegal'
      BY <1>3 DEF Restart, ThreadsCarry, LastLegal, InFlight
    <2> QED BY <2>1, <2>2, <2>3 DEF Levelled
  <1>4. ASSUME NEW t \in Thread, Serve(t)
        PROVE  Levelled'
    <2>1. PICK kind \in Kind, bulk \in BOOLEAN, todo \in SUBSET Persona, step \in Nat,
               facts \in SUBSET Fact : Ask(t, kind, bulk, todo, step, facts)
      BY <1>4, ServeAsks DEF Typed
    <2>2. ThreadsCarry' /\ LastLegal'
      BY <2>1 DEF Ask, Goto, Levelled, ThreadsCarry, LastLegal, Carried, InFlight, Typed, LocalsTyped
    <2> QED BY <2>1, <2>2
            DEF Ask, Levelled, MembersSound, RowsSound, HistoryLegal, StoredLegal
  <1>5. ASSUME NEW t \in Thread, NEW p \in Persona, Skip(t, p)
        PROVE  Levelled'
    <2>1. ThreadsCarry' /\ LastLegal'
      <3>1. CASE Leave(t)
        BY <3>1, LeaveCarries DEF Typed, Levelled
      <3>2. CASE ~Leave(t)
        BY <1>5, <3>2 DEF Skip, Levelled, ThreadsCarry, LastLegal, Carried, InFlight, Typed,
                          LocalsTyped
      <3> QED BY <3>1, <3>2
    <2> QED BY <1>5, <2>1
            DEF Skip, Levelled, MembersSound, RowsSound, HistoryLegal, StoredLegal
  <1>6. ASSUME NEW t \in Thread, NEW p \in Persona, Look(t, p)
        PROVE  Levelled'
    <2>1. ThreadsCarry' /\ LastLegal'
      <3>1. CASE Leave(t)
        BY <3>1, LeaveCarries DEF Typed, Levelled
      <3>2. CASE ~Leave(t)
        <4> DEFINE n == Moved(job[t].kind, members[p], job[t].step, job[t].facts)
        <4>1. job[t] \in Job /\ members[p] \in Member /\ Legal(members[p])
              /\ Allowed(job[t].kind, members[p].level)
          BY <1>6, <3>2 DEF Look, Typed, LocalsTyped, MemoryTyped, Levelled, MembersSound, Sound
        <4>2. /\ Sound(n) /\ n.version # 0
              /\ Source(job[t].kind) = LevelOf(n.version - 1)
              /\ n.level = Target(job[t].kind)
          BY <4>1, MovedIsSound DEF Job
        <4>3. after' = [after EXCEPT ![t] = n] /\ job' = job /\ last' = last
              /\ pc' = [pc EXCEPT ![t] = "number"]
          BY <1>6, <3>2 DEF Look, Goto
        <4> HIDE DEF n
        <4> QED BY <4>2, <4>3 DEF Levelled, ThreadsCarry, LastLegal, Carried, InFlight, Typed,
                                  LocalsTyped
      <3> QED BY <3>1, <3>2
    <2> QED BY <1>6, <2>1
            DEF Look, Levelled, MembersSound, RowsSound, HistoryLegal, StoredLegal
  <1>7. ASSUME NEW t \in Thread, Number(t)
        PROVE  Levelled'
    <2>1. ThreadsCarry' /\ LastLegal'
      <3>1. CASE Leave(t)
        BY <3>1, LeaveCarries DEF Typed, Levelled
      <3>2. CASE ~Leave(t)
        BY <1>7, <3>2 DEF Number, Goto, Levelled, ThreadsCarry, LastLegal, Carried, InFlight, Typed,
                          LocalsTyped
      <3> QED BY <3>1, <3>2
    <2> QED BY <1>7, <2>1
            DEF Number, Levelled, MembersSound, RowsSound, HistoryLegal, StoredLegal
  <1>8. ASSUME NEW t \in Thread, Keep(t)
        PROVE  Levelled'
    <2>1. who[t] \in Persona /\ Sound(after[t])
      BY <1>8 DEF Keep, Typed, LocalsTyped, Levelled, ThreadsCarry, Carried, InFlight
    <2>2. MembersSound'
      BY <1>8, <2>1 DEF Keep, Typed, MemoryTyped, Levelled, MembersSound
    <2>3. ThreadsCarry' /\ LastLegal'
      BY <1>8 DEF Keep, Goto, Levelled, ThreadsCarry, LastLegal, Carried, InFlight, Typed, LocalsTyped
    <2> QED BY <1>8, <2>2, <2>3 DEF Keep, Levelled, RowsSound, HistoryLegal, StoredLegal
  <1>9. ASSUME NEW t \in Thread, AppendTransition(t)
        PROVE  Levelled'
    <2>1. LegalTransition(NewTransition(t))
      BY <1>9 DEF AppendTransition, Levelled, ThreadsCarry, Carried, InFlight, Sound, Legal,
                  NewTransition, LegalTransition
    <2>2. HistoryLegal'
      <3> DEFINE x == NewTransition(t)
      <3>1. history' = Append(history, x) /\ LegalTransition(x)
        BY <1>9, <2>1 DEF AppendTransition
      <3> HIDE DEF x
      <3>2. ASSUME NEW i \in 1..Len(history') PROVE LegalTransition(history'[i])
        <4>1. i \in 1..Len(history) \/ i = Len(history) + 1
          BY <3>1 DEF Typed, MemoryTyped
        <4> QED BY <3>1, <4>1 DEF Typed, MemoryTyped, Levelled, HistoryLegal
      <3> QED BY <3>2 DEF HistoryLegal
    <2>3. ThreadsCarry' /\ LastLegal'
      BY <1>9 DEF AppendTransition, Goto, Levelled, ThreadsCarry, LastLegal, Carried, InFlight, Typed,
                  LocalsTyped
    <2> QED BY <1>9, <2>2, <2>3 DEF AppendTransition, Levelled, MembersSound, RowsSound, StoredLegal
  <1>10. ASSUME NEW t \in Thread, Take(t)
         PROVE  Levelled'
    <2>1. LegalTransition(history[Len(history)])
      BY <1>10 DEF Take, Typed, MemoryTyped, Levelled, HistoryLegal
    <2>2. ThreadsCarry' /\ LastLegal'
      BY <1>10, <2>1 DEF Take, Goto, Levelled, ThreadsCarry, LastLegal, Carried, InFlight, Typed,
                         LocalsTyped
    <2> QED BY <1>10, <2>2
            DEF Take, Levelled, MembersSound, RowsSound, HistoryLegal, StoredLegal
  <1>11. ASSUME NEW t \in Thread, Save(t)
         PROVE  Levelled'
    <2>1. RowsSound' /\ StoredLegal'
      BY <1>11, SavesSound DEF Save, Typed
    <2>2. ThreadsCarry' /\ LastLegal'
      BY <1>11, ContinueCarries DEF Save, Typed, Levelled
    <2> QED BY <1>11, <2>1, <2>2 DEF Save, Levelled, MembersSound, HistoryLegal
  <1>12. ASSUME NEW t \in Thread, SaveFails(t)
         PROVE  Levelled'
    BY <1>12, LeaveCarries
       DEF SaveFails, Typed, Levelled, MembersSound, RowsSound, HistoryLegal, StoredLegal
  <1>13. ASSUME NEW t \in Thread, AnswerLost(t)
         PROVE  Levelled'
    <2>1. RowsSound' /\ StoredLegal'
      BY <1>13, SavesSound DEF AnswerLost, Typed
    <2> QED BY <1>13, <2>1, LeaveCarries DEF AnswerLost, Typed, Levelled, MembersSound, HistoryLegal
  <1> QED BY <1>1, <1>2, <1>3, <1>4, <1>5, <1>6, <1>7, <1>8, <1>9, <1>10, <1>11, <1>12, <1>13
          DEF Next, Step

LEMMA LevelledAlways == Spec => []Levelled
  <1>1. ASSUME Init PROVE Levelled
    BY <1>1, StatisticalIsSound
       DEF Init, Levelled, MembersSound, RowsSound, HistoryLegal, StoredLegal, ThreadsCarry,
           LastLegal, InFlight
  <1> QED BY <1>1, LevelledKept, TypedAlways, PTL DEF Spec

\* However requests overlap, fail and are restarted, levels and versions go together
\* (population/lifecycle.py:105-107, 134-135, 156-157).
THEOREM LevelsAlways == Spec => []LevelsAlternate
  <1>1. Levelled => LevelsAlternate
    BY DEF Levelled, MembersSound, RowsSound, HistoryLegal, StoredLegal, Sound, LevelsAlternate
  <1> QED BY <1>1, LevelledAlways, PTL

\* A row that changes is one that somebody saves.
LEMMA OnlySavesWrite ==
    ASSUME [Next]_vars, rows' # rows
    PROVE  \E t \in Thread : pc[t] = "save" /\ Saves(t)
  BY DEF vars, Next, Serve, Step, Regenerate, Restart, AskOne, MaterializeBulk, ActivateBulk, Ask, Skip,
         Look, Number, Keep, AppendTransition, Take, Save, SaveFails, AnswerLost, memory, table, locals

\* A save that changes the row of a person writes the next version of it.
LEMMA SavesAdvance ==
    ASSUME Typed, Levelled, NEW t \in Thread, pc[t] = "save", Saves(t), rows[who[t]] # after[t]
    PROVE  /\ after[t].version = rows[who[t]].version + 1
           /\ rows[who[t]].step <= after[t].step
  <1>1. /\ who[t] \in Persona /\ job[t] \in Job /\ after[t] \in Member /\ rows[who[t]] \in Member
        /\ Carried(t) /\ Sound(rows[who[t]])
    BY DEF Typed, LocalsTyped, TableTyped, Levelled, ThreadsCarry, RowsSound, InFlight
  <1>2. after[t].version \in Nat \ {0} /\ after[t].step \in Nat
    BY <1>1 DEF Member, Carried
  <1>3. CASE job[t].kind = "materialize"
    <2>1. rows[who[t]] = Statistical
      BY <1>1, <1>3 DEF Saves, RowFits, Sound
    <2>2. after[t].version - 1 = 0
      BY <1>1, <1>2, <1>3, LevelsOfVersions DEF Carried, Source
    <2> QED BY <1>2, <2>1, <2>2 DEF Statistical
  <1>4. CASE job[t].kind # "materialize"
    BY <1>1, <1>2, <1>4 DEF Saves, RowFits, Member
  <1> QED BY <1>3, <1>4

\* A row moves on by one version at a time and never to an earlier step, whoever else is
\* writing it (population/postgres.py:276-303).
THEOREM RowsAlwaysAdvance == Spec => RowsAdvance
  <1>1. ASSUME Typed, Levelled, [Next]_vars, NEW p \in Persona, rows'[p] # rows[p]
        PROVE  rows'[p].version = rows[p].version + 1 /\ rows[p].step <= rows'[p].step
    <2>1. PICK t \in Thread : pc[t] = "save" /\ Saves(t)
      BY <1>1, OnlySavesWrite
    <2>2. rows' = [rows EXCEPT ![who[t]] = after[t]]
      BY <2>1 DEF Saves, Written
    <2>3. p = who[t] /\ rows'[p] = after[t]
      BY <1>1, <2>2 DEF Typed, TableTyped
    <2> QED BY <1>1, <2>1, <2>3, SavesAdvance
  <1>2. Typed /\ Levelled /\ [Next]_vars =>
          [\A p \in Persona : rows'[p] # rows[p] =>
              rows'[p].version = rows[p].version + 1 /\ rows[p].step <= rows'[p].step]_vars
    BY <1>1
  <1> QED BY <1>2, TypedAlways, LevelledAlways, PTL DEF Spec, RowsAdvance
------------------------------------------------------------------------------
(***************************************************************************)
(* Requests that come one at a time.                                       *)
(***************************************************************************)
OneAtATime == \A t, u \in Thread : pc[t] # "idle" /\ pc[u] # "idle" => t = u

NotBehind ==
    \A p \in Persona :
        /\ rows[p].version <= members[p].version
        /\ rows[p].version = members[p].version => rows[p] = members[p]

StoredFits == \A x \in stored : Fits(x, rows[x.persona])

\* Until the new member is kept it is the successor of the one in memory.
Successor(t) ==
    /\ after[t].version = members[who[t]].version + 1
    /\ Mind(members[who[t]]) \subseteq Mind(after[t])

\* From then on it is the one in memory, and may succeed the row.
InPlace(t) ==
    /\ members[who[t]] = after[t]
    /\ rows[who[t]].version + 1 = after[t].version => Mind(rows[who[t]]) \subseteq Mind(after[t])

\* What the one thread at work carries.
InHand ==
    \A t \in Thread :
        /\ pc[t] \in {"number", "keep"} => Successor(t)
        /\ pc[t] \in {"append", "take", "save"} => InPlace(t)
        /\ pc[t] = "take" => history[Len(history)] = NewTransition(t)
        /\ pc[t] = "save" => last[t] = NewTransition(t)

Ordered == orderly => OneAtATime /\ NotBehind /\ StoredFits /\ InHand

\* A transition forgets nothing.
LEMMA MovedRemembers ==
    ASSUME NEW kind \in Kind, NEW m \in Member, NEW step \in Nat, NEW facts \in SUBSET Fact,
           Sound(m), Allowed(kind, m.level)
    PROVE  Mind(m) \subseteq Mind(Moved(kind, m, step, facts))
  <1> DEFINE n == Moved(kind, m, step, facts)
  <1>1. /\ n.persistent = Kept(kind, m, facts)
        /\ n.active = IF kind = "activate" THEN facts ELSE {}
    BY DEF Moved
  <1>2. CASE kind = "materialize"
    <2>1. m.version = 0
      BY <1>2, LevelsOfVersions DEF Sound, Legal, Allowed, Source, Member
    <2>2. m.persistent = {} /\ m.active = {}
      BY <2>1 DEF Sound, Statistical
    <2> QED BY <2>2 DEF Mind
  <1>3. CASE kind = "activate"
    <2>1. m.active = {}
      BY <1>3 DEF Sound, Settled, Allowed, Source
    <2> QED BY <1>1, <1>3, <2>1 DEF Mind, Kept
  <1>4. CASE kind = "deactivate"
    BY <1>1, <1>4 DEF Mind, Kept
  <1> QED BY <1>2, <1>3, <1>4 DEF Kind

\* A thread at work is the only one.
LEMMA Alone ==
    ASSUME OneAtATime, NEW t \in Thread, pc[t] # "idle", NEW u \in Thread, u # t
    PROVE  pc[u] = "idle"
  BY DEF OneAtATime

\* The thread at work steps: what the others carry does not matter.
LEMMA OneSteps ==
    ASSUME LocalsTyped, OneAtATime, NEW t \in Thread, pc[t] # "idle",
           NEW step \in Steps, pc' = [pc EXCEPT ![t] = step]
    PROVE  OneAtATime' /\ pc'[t] = step /\ \A u \in Thread \ {t} : pc'[u] = "idle"
  BY DEF OneAtATime, LocalsTyped

\* If it is done with a person, nobody carries anything.
LEMMA OneLeaves ==
    ASSUME LocalsTyped, OneAtATime, NEW t \in Thread, pc[t] # "idle",
           NEW step \in {"idle", "look"}, pc' = [pc EXCEPT ![t] = step]
    PROVE  OneAtATime' /\ InHand'
  <1>1. step \in Steps
    BY DEF Steps
  <1>2. OneAtATime' /\ \A u \in Thread : pc'[u] \in {"idle", "look"}
    BY <1>1, OneSteps
  <1> QED BY <1>2 DEF InHand

\* What an orderly save does to the tables.
LEMMA OrderlySave ==
    ASSUME Typed, Levelled, OneAtATime, NotBehind, StoredFits, InHand,
           NEW t \in Thread, pc[t] = "save", Saves(t), members' = members
    PROVE  NotBehind' /\ StoredFits'
  <1> DEFINE p == who[t]  m == after[t]  x == last[t]
  <1>1. /\ p \in Persona /\ m \in Member /\ x \in Transition /\ rows[p] \in Member
        /\ rows \in [Persona -> Member] /\ members \in [Persona -> Member]
        /\ stored \subseteq Transition
    BY DEF Typed, LocalsTyped, TableTyped, MemoryTyped, InFlight
  <1>2. members[p] = m
    BY DEF InHand, InPlace
  <1>3. /\ x.persona = p /\ x.version = m.version /\ x.step = m.step
        /\ x.persistent = m.persistent /\ x.active = m.active
    <2>1. last[t] = NewTransition(t)
      BY DEF InHand
    <2> QED BY <2>1 DEF NewTransition
  <1>4. rows' = [rows EXCEPT ![p] = m] /\ stored' \in {stored, stored \cup {x}}
    BY DEF Saves, Written, Inserted
  <1>5. rows[p] = m \/ rows[p].version + 1 = m.version
    BY SavesAdvance
  <1> HIDE DEF p, m, x
  <1>6. NotBehind'
    BY <1>1, <1>2, <1>4 DEF NotBehind, Member
  <1>7. ASSUME NEW y \in stored' PROVE Fits(y, rows'[y.persona])
    <2>1. CASE y = x
      BY <1>1, <1>3, <1>4, <2>1 DEF Fits, Member
    <2>2. CASE y \in stored /\ y.persona = p
      <3>1. Fits(y, rows[p]) /\ y.version \in Nat /\ rows[p].version \in Nat /\ rows'[p] = m
        BY <1>1, <1>4, <2>2 DEF StoredFits, Transition, Member
      <3> QED BY <1>5, <2>2, <3>1 DEF Fits
    <2>3. CASE y \in stored /\ y.persona # p
      <3>1. y.persona \in Persona
        BY <1>1, <2>3 DEF Transition
      <3>2. rows'[y.persona] = rows[y.persona]
        BY <1>1, <1>4, <2>3, <3>1
      <3> QED BY <2>3, <3>2 DEF StoredFits
    <2> QED BY <1>4, <2>1, <2>2, <2>3
  <1> QED BY <1>6, <1>7 DEF StoredFits

LEMMA OrderedKept ==
    ASSUME Typed, Levelled, Ordered, [Next]_vars
    PROVE  Ordered'
  <1> SUFFICES ASSUME orderly'
               PROVE  OneAtATime' /\ NotBehind' /\ StoredFits' /\ InHand'
    BY DEF Ordered
  <1> USE DEF memory, table, locals
  <1>1. CASE UNCHANGED vars
    BY <1>1 DEF vars, Ordered, OneAtATime, NotBehind, StoredFits, InHand, Successor, InPlace,
                NewTransition
  <1>2. CASE Regenerate
    BY <1>2 DEF Regenerate
  <1>3. CASE Restart
    <2>1. NotBehind'
      BY <1>3 DEF Restart, NotBehind, Typed, TableTyped, Member
    <2>2. StoredFits'
      BY <1>3 DEF Restart, Ordered, StoredFits
    <2>3. OneAtATime' /\ InHand'
      BY <1>3 DEF Restart, OneAtATime, InHand
    <2> QED BY <2>1, <2>2, <2>3
  <1>4. ASSUME NEW t \in Thread, Serve(t)
        PROVE  OneAtATime' /\ NotBehind' /\ StoredFits' /\ InHand'
    <2>1. PICK kind \in Kind, bulk \in BOOLEAN, todo \in SUBSET Persona, step \in Nat,
               facts \in SUBSET Fact : Ask(t, kind, bulk, todo, step, facts)
      BY <1>4, ServeAsks DEF Typed
    <2>2. orderly /\ AllIdle
      BY <2>1 DEF Ask
    <2>3. NotBehind' /\ StoredFits'
      BY <2>1, <2>2 DEF Ask, Ordered, NotBehind, StoredFits
    <2>4. OneAtATime' /\ \A u \in Thread : pc'[u] \in {"idle", "look"}
      BY <2>1, <2>2 DEF Ask, Goto, AllIdle, OneAtATime, Typed, LocalsTyped
    <2> QED BY <2>3, <2>4 DEF InHand
  <1>5. ASSUME NEW t \in Thread, NEW p \in Persona, Skip(t, p)
        PROVE  OneAtATime' /\ NotBehind' /\ StoredFits' /\ InHand'
    <2>1. orderly /\ NotBehind' /\ StoredFits'
      BY <1>5 DEF Skip, Ordered, NotBehind, StoredFits
    <2>2. PICK step \in {"idle", "look"} : pc' = [pc EXCEPT ![t] = step]
      BY <1>5 DEF Skip, Leave, Goto, Typed, LocalsTyped
    <2> QED BY <1>5, <2>1, <2>2, OneLeaves DEF Skip, Typed, Ordered
  <1>6. ASSUME NEW t \in Thread, NEW p \in Persona, Look(t, p)
        PROVE  OneAtATime' /\ NotBehind' /\ StoredFits' /\ InHand'
    <2>1. orderly /\ OneAtATime /\ NotBehind' /\ StoredFits'
      BY <1>6 DEF Look, Ordered, NotBehind, StoredFits
    <2>2. CASE Leave(t)
      BY <1>6, <2>1, <2>2, OneLeaves DEF Look, Leave, Goto, Typed
    <2>3. CASE ~Leave(t)
      <3> DEFINE n == Moved(job[t].kind, members[p], job[t].step, job[t].facts)
      <3>1. /\ job[t] \in Job /\ members[p] \in Member /\ Sound(members[p])
            /\ Allowed(job[t].kind, members[p].level)
        BY <1>6, <2>3 DEF Look, Typed, LocalsTyped, MemoryTyped, Levelled, MembersSound
      <3>2. n.version = members[p].version + 1 /\ Mind(members[p]) \subseteq Mind(n)
        BY <3>1, MovedFields, MovedRemembers DEF Job
      <3>3. /\ after' = [after EXCEPT ![t] = n] /\ who' = [who EXCEPT ![t] = p]
            /\ members' = members /\ pc' = [pc EXCEPT ![t] = "number"]
        BY <1>6, <2>3 DEF Look, Goto
      <3> HIDE DEF n
      <3>4. Successor(t)'
        BY <3>2, <3>3 DEF Successor, Typed, LocalsTyped
      <3>5. OneAtATime' /\ pc'[t] = "number" /\ \A u \in Thread \ {t} : pc'[u] = "idle"
        BY <1>6, <2>1, <3>3, OneSteps DEF Look, Steps, Typed
      <3> QED BY <2>1, <3>4, <3>5 DEF InHand
    <2> QED BY <2>2, <2>3
  <1>7. ASSUME NEW t \in Thread, Number(t)
        PROVE  OneAtATime' /\ NotBehind' /\ StoredFits' /\ InHand'
    <2>1. orderly /\ OneAtATime /\ NotBehind' /\ StoredFits'
      BY <1>7 DEF Number, Ordered, NotBehind, StoredFits
    <2>2. CASE Leave(t)
      BY <1>7, <2>1, <2>2, OneLeaves DEF Number, Leave, Goto, Typed
    <2>3. CASE ~Leave(t)
      <3>1. OneAtATime' /\ pc'[t] = "keep" /\ \A u \in Thread \ {t} : pc'[u] = "idle"
        BY <1>7, <2>1, <2>3, OneSteps DEF Number, Goto, Steps, Typed
      <3>2. Successor(t)'
        BY <1>7, <2>1, <2>3 DEF Number, Ordered, InHand, Successor
      <3> QED BY <2>1, <3>1, <3>2 DEF InHand
    <2> QED BY <2>2, <2>3
  <1>8. ASSUME NEW t \in Thread, Keep(t)
        PROVE  OneAtATime' /\ NotBehind' /\ StoredFits' /\ InHand'
    <2>1. orderly /\ OneAtATime /\ NotBehind /\ Successor(t) /\ StoredFits'
      BY <1>8 DEF Keep, Ordered, StoredFits, InHand
    <2>2. /\ who[t] \in Persona /\ after[t] \in Member
          /\ rows \in [Persona -> Member] /\ members \in [Persona -> Member]
          /\ members' = [members EXCEPT ![who[t]] = after[t]] /\ rows' = rows
      BY <1>8 DEF Keep, Typed, LocalsTyped, MemoryTyped, TableTyped, InFlight
    <2>3. NotBehind'
      BY <2>1, <2>2 DEF NotBehind, Successor, Member
    <2>4. InPlace(t)'
      <3>1. rows[who[t]].version + 1 = after[t].version => rows[who[t]] = members[who[t]]
        BY <2>1, <2>2 DEF NotBehind, Successor, Member
      <3> QED BY <1>8, <2>1, <2>2, <3>1 DEF Keep, InPlace, Successor
    <2>5. OneAtATime' /\ pc'[t] = "append" /\ \A u \in Thread \ {t} : pc'[u] = "idle"
      BY <1>8, <2>1, OneSteps DEF Keep, Goto, Steps, Typed
    <2> QED BY <2>1, <2>3, <2>4, <2>5 DEF InHand
  <1>9. ASSUME NEW t \in Thread, AppendTransition(t)
        PROVE  OneAtATime' /\ NotBehind' /\ StoredFits' /\ InHand'
    <2>1. orderly /\ OneAtATime /\ InPlace(t) /\ NotBehind' /\ StoredFits'
      BY <1>9 DEF AppendTransition, Ordered, NotBehind, StoredFits, InHand
    <2>2. InPlace(t)' /\ NewTransition(t)' = NewTransition(t)
      BY <1>9, <2>1 DEF AppendTransition, InPlace, NewTransition
    <2>3. history'[Len(history')] = NewTransition(t)
      <3> DEFINE x == NewTransition(t)
      <3>1. history' = Append(history, x)
        BY <1>9 DEF AppendTransition
      <3> HIDE DEF x
      <3>2. history'[Len(history')] = x
        BY <3>1 DEF Typed, MemoryTyped
      <3> QED BY <3>2 DEF x
    <2>4. OneAtATime' /\ pc'[t] = "take" /\ \A u \in Thread \ {t} : pc'[u] = "idle"
      BY <1>9, <2>1, OneSteps DEF AppendTransition, Goto, Steps, Typed
    <2> QED BY <2>1, <2>2, <2>3, <2>4 DEF InHand
  <1>10. ASSUME NEW t \in Thread, Take(t)
         PROVE  OneAtATime' /\ NotBehind' /\ StoredFits' /\ InHand'
    <2>1. /\ orderly /\ OneAtATime /\ InPlace(t) /\ history[Len(history)] = NewTransition(t)
          /\ NotBehind' /\ StoredFits'
      BY <1>10 DEF Take, Ordered, NotBehind, StoredFits, InHand
    <2>2. InPlace(t)' /\ NewTransition(t)' = NewTransition(t) /\ last'[t] = NewTransition(t)
      BY <1>10, <2>1 DEF Take, InPlace, NewTransition, Typed, LocalsTyped
    <2>3. OneAtATime' /\ pc'[t] = "save" /\ \A u \in Thread \ {t} : pc'[u] = "idle"
      BY <1>10, <2>1, OneSteps DEF Take, Goto, Steps, Typed
    <2> QED BY <2>1, <2>2, <2>3 DEF InHand
  <1>11. ASSUME NEW t \in Thread, Save(t)
         PROVE  OneAtATime' /\ NotBehind' /\ StoredFits' /\ InHand'
    <2>1. orderly /\ OneAtATime /\ NotBehind /\ StoredFits /\ InHand
      BY <1>11 DEF Save, Ordered
    <2>2. NotBehind' /\ StoredFits'
      BY <1>11, <2>1, OrderlySave DEF Save
    <2>3. PICK step \in {"idle", "look"} : pc' = [pc EXCEPT ![t] = step]
      BY <1>11 DEF Save, Continue, Leave, Goto
    <2> QED BY <1>11, <2>1, <2>2, <2>3, OneLeaves DEF Save, Typed
  <1>12. ASSUME NEW t \in Thread, SaveFails(t)
         PROVE  OneAtATime' /\ NotBehind' /\ StoredFits' /\ InHand'
    <2>1. orderly /\ OneAtATime /\ NotBehind' /\ StoredFits'
      BY <1>12 DEF SaveFails, Ordered, NotBehind, StoredFits
    <2> QED BY <1>12, <2>1, OneLeaves DEF SaveFails, Leave, Goto, Typed
  <1>13. ASSUME NEW t \in Thread, AnswerLost(t)
         PROVE  OneAtATime' /\ NotBehind' /\ StoredFits' /\ InHand'
    <2>1. orderly /\ OneAtATime /\ NotBehind /\ StoredFits /\ InHand
      BY <1>13 DEF AnswerLost, Ordered
    <2>2. NotBehind' /\ StoredFits'
      BY <1>13, <2>1, OrderlySave DEF AnswerLost
    <2> QED BY <1>13, <2>1, <2>2, OneLeaves DEF AnswerLost, Leave, Goto, Typed
  <1> QED BY <1>1, <1>2, <1>3, <1>4, <1>5, <1>6, <1>7, <1>8, <1>9, <1>10, <1>11, <1>12, <1>13
          DEF Next, Step

LEMMA OrderedAlways == Spec => []Ordered
  <1>1. ASSUME Init PROVE Ordered
    <2>1. NotBehind
      BY <1>1 DEF Init, NotBehind, Statistical
    <2> QED BY <1>1, <2>1 DEF Init, Ordered, OneAtATime, StoredFits, InHand
  <1> QED BY <1>1, OrderedKept, TypedAlways, LevelledAlways, PTL DEF Spec

\* As long as requests come one at a time, memory is ahead of the table only by transitions
\* that were not saved (kernel/api/app.py:2507-2522, population/postgres.py:335-409).
THEOREM MemoryNeverBehind == Spec => []MemoryIsNotBehind
  <1>1. Ordered => MemoryIsNotBehind
    BY DEF Ordered, NotBehind, MemoryIsNotBehind
  <1> QED BY <1>1, OrderedAlways, PTL

\* Under the same condition no stored transition is ahead of its row or differs from it
\* (population/postgres.py:262-332).
THEOREM StoredHistoryAlwaysFits == Spec => []StoredHistoryFits
  <1>1. Ordered => StoredHistoryFits
    BY DEF Ordered, StoredFits, StoredHistoryFits
  <1> QED BY <1>1, OrderedAlways, PTL

\* Under the same condition no step loses what a stored person has to remember
\* (population/lifecycle.py:158-163).
THEOREM FactsAlwaysSurvive == Spec => FactsSurvive
  <1>1. ASSUME Typed, Levelled, Ordered, [Next]_vars, orderly, NEW p \in Persona
        PROVE  Mind(rows[p]) \subseteq Mind(rows'[p])
    <2>1. CASE rows' = rows
      BY <2>1
    <2>2. CASE rows' # rows
      <3>1. PICK t \in Thread : pc[t] = "save" /\ Saves(t)
        BY <1>1, <2>2, OnlySavesWrite
      <3>2. members[who[t]] = after[t]
            /\ (rows[who[t]].version + 1 = after[t].version => Mind(rows[who[t]]) \subseteq Mind(after[t]))
        BY <1>1, <3>1 DEF Ordered, InHand, InPlace
      <3>3. rows[who[t]] = after[t] \/ Mind(rows[who[t]]) \subseteq Mind(after[t])
        BY <1>1, <3>1, <3>2, SavesAdvance
      <3>4. rows' = [rows EXCEPT ![who[t]] = after[t]] /\ rows \in [Persona -> Member]
        BY <1>1, <3>1 DEF Saves, Written, Typed, TableTyped
      <3> QED BY <3>3, <3>4
    <2> QED BY <2>1, <2>2
  <1>2. Typed /\ Levelled /\ Ordered /\ [Next]_vars =>
          [orderly => \A p \in Persona : Mind(rows[p]) \subseteq Mind(rows'[p])]_vars
    BY <1>1
  <1> QED BY <1>2, TypedAlways, LevelledAlways, OrderedAlways, PTL DEF Spec, FactsSurvive
==============================================================================
