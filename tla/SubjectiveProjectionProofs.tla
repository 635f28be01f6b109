---------------------- MODULE SubjectiveProjectionProofs ----------------------
(***************************************************************************)
(* Proofs about what the system keeps of minds, in two parts.              *)
(*                                                                         *)
(* The first is about Minds, for any number of threads, entities and       *)
(* events: what clients make entities think of each other.                 *)
(*                                                                         *)
(* The second is about SubjectiveProjection, for any number of projectors, *)
(* request threads, events and observers, with any failures, crashes and   *)
(* stalls: what entities believe of what they perceived.                   *)
(***************************************************************************)
EXTENDS SubjectiveProjection, Relationships, Decisions, FiniteSetTheorems,
        WellFoundedInduction, TLAPS

(***************************************************************************)
(* Minds, with parameters and variables of its own.                        *)
(***************************************************************************)
CONSTANTS Actor, Entity, Happening, Controls, WritesAll, Sees, Cause, Delta, Bound,
          Runtime, Problem, Nobody, MaxRequests, MaxLosses

VARIABLES assigned, runtime, traces, recorded, requests, losses

Regard == INSTANCE Minds WITH
    Event <- Happening, Limit <- Bound, None <- Nobody, MaxFaults <- MaxLosses,
    faults <- losses

\* What is assumed of the parameters: no more than Minds assumes.
Bounded ==
    /\ {Bound, MaxRequests, MaxLosses} \subseteq Nat
    /\ Delta \in [Cause -> Int]
    /\ \A problem \in Problem : IsProblem(problem)

USE DEF Regard!tables, Regard!memory, Regard!counters

\* What a request for a change holds.
ChangeRequest == [actor : Actor, relation : Relation, event : Happening, cause : Cause,
                  sensitive : BOOLEAN]

\* What a thread holds at each step.
RegardLocals(t) ==
    /\ stage[t] \in Regard!Changing => job[t] \in ChangeRequest
    /\ stage[t] \in {"save_change", "publish_change"} => draft[t] \in Regard!Change
    /\ stage[t] = "publish_change" => draft[t] \in Regard!Stored
    /\ stage[t] \in {"save_runtime", "set_runtime"} =>
           job[t].entity \in Entity /\ draft[t] \in Runtime
    /\ stage[t] \in {"save_trace", "record_trace"} => draft[t].entity \in Entity

RegardInv ==
    /\ Bounded
    /\ Regard!TypeOK
    /\ DOMAIN job = Thread /\ DOMAIN draft = Thread
    /\ \A t \in Thread : RegardLocals(t)

(***************************************************************************)
(* The types.                                                              *)
(***************************************************************************)
LEMMA ClampedType == ASSUME Bounded, NEW n \in Int PROVE Regard!Clamped(n) \in Regard!Trust
  BY DEF Bounded, Regard!Clamped, Regard!Trust

LEMMA EffectiveType ==
    ASSUME NEW d \in Int, NEW sensitive \in BOOLEAN
    PROVE  Regard!Effective(d, sensitive) \in Int
  BY DEF Regard!Effective

\* A record that is drafted has the type of a change, and is that of its request.
LEMMA DraftedType ==
    ASSUME Bounded, NEW request \in ChangeRequest, NEW before \in Regard!Trust
    PROVE  /\ Regard!Drafted(request, before) \in Regard!Change
           /\ Regard!Drafted(request, before).relation = request.relation
           /\ Regard!Drafted(request, before).event = request.event
           /\ Regard!Drafted(request, before).before = before
<1>1. Delta[request.cause] \in Int /\ request.sensitive \in BOOLEAN
  BY DEF Bounded, ChangeRequest
<1>2. before \in Int
  BY DEF Bounded, Regard!Trust
<1>3. before + Regard!Effective(Delta[request.cause], request.sensitive) \in Int
  BY <1>1, <1>2, EffectiveType
<1>4. Regard!Clamped(before + Regard!Effective(Delta[request.cause], request.sensitive))
        \in Regard!Trust
  BY <1>3, ClampedType
<1> QED
  BY <1>4 DEF Regard!Drafted, Regard!Change, ChangeRequest

LEMMA StoredType ==
    ASSUME Regard!TypeOK PROVE Regard!Stored \subseteq Regard!Change
  BY DEF Regard!TypeOK, Regard!Stored

LEMMA RegardInitType == Bounded /\ Regard!Init => RegardInv
<1> SUFFICES ASSUME Bounded, Regard!Init PROVE RegardInv
  OBVIOUS
<1> USE DEF Bounded
<1>1. row \in [Relation -> Regard!Trust] /\ live \in [Relation -> Regard!Trust]
  BY DEF Regard!Init, Regard!Trust
<1>2. changes \in Seq(Regard!Change) /\ known \subseteq Regard!Change
  BY DEF Regard!Init
<1>3. /\ assigned \in [Entity -> Runtime \cup {Nobody}]
      /\ runtime \in [Entity -> Runtime \cup {Nobody}]
  BY DEF Regard!Init
<1>4. \A d \in traces \cup recorded : d.entity \in Entity
  BY DEF Regard!Init
<1>5. requests \in 0..MaxRequests /\ losses \in 0..MaxLosses /\ orderly \in BOOLEAN
  BY DEF Regard!Init
<1>6. stage = [t \in Thread |-> "idle"]
  BY DEF Regard!Init
<1>7. Regard!TypeOK
  BY <1>1, <1>2, <1>3, <1>4, <1>5, <1>6 DEF Regard!TypeOK
<1>8. \A t \in Thread : RegardLocals(t)
  BY <1>6 DEF RegardLocals, Regard!Changing
<1> QED
  BY <1>7, <1>8 DEF RegardInv, Regard!Init

LEMMA AskChangeType ==
    ASSUME RegardInv, NEW t \in Thread, Regard!AskChange(t) PROVE RegardInv'
<1> USE DEF RegardInv, Bounded
<1>1. Regard!TypeOK'
  <2>1. UNCHANGED <<row, live, changes, known, assigned, runtime, traces, recorded, losses>>
    BY DEF Regard!AskChange
  <2>2. stage' = [stage EXCEPT ![t] = "known"] /\ requests' \in 0..MaxRequests
    BY DEF Regard!AskChange, Regard!Begin, Regard!Goto, Regard!TypeOK
  <2>3. orderly' \in BOOLEAN
    BY DEF Regard!AskChange
  <2> QED
    BY <2>1, <2>2, <2>3 DEF Regard!TypeOK
<1>2. (DOMAIN job = Thread /\ DOMAIN draft = Thread)'
  BY DEF Regard!AskChange, Regard!Begin
<1>3. ASSUME NEW u \in Thread PROVE RegardLocals(u)'
  BY <1>3 DEF Regard!AskChange, Regard!Begin, Regard!Goto, Regard!TypeOK, RegardLocals,
     ChangeRequest, Regard!Changing, Regard!Stored
<1> QED
  BY <1>1, <1>2, <1>3

LEMMA LookUpType ==
    ASSUME RegardInv, NEW t \in Thread, NEW places, places \subseteq Regard!Change,
           \/ Regard!LookUp(t, "known", places, "stored")
           \/ Regard!LookUp(t, "stored", places, "live")
    PROVE  RegardInv'
<1> USE DEF RegardInv, Bounded
<1>1. stage[t] \in Regard!Changing /\ job[t] \in ChangeRequest
  BY DEF Regard!LookUp, RegardLocals, Regard!Changing
<1>2. CASE \E c \in places : Regard!SameChange(c, job[t])
  <2>1. PICK c \in places : draft' = [draft EXCEPT ![t] = Regard!Drafted(job[t], c.before)]
    BY <1>2 DEF Regard!LookUp
  <2>2. c.before \in Regard!Trust
    BY DEF Regard!Change
  <2>3. Regard!Drafted(job[t], c.before) \in Regard!Change
    BY <1>1, <2>2, DraftedType
  <2>4. stage' = [stage EXCEPT ![t] = "save_change"]
    BY <1>2 DEF Regard!LookUp, Regard!Goto
  <2>5. Regard!TypeOK'
    BY <2>4 DEF Regard!LookUp, Regard!TypeOK
  <2>6. (DOMAIN job = Thread /\ DOMAIN draft = Thread)'
    BY <2>1 DEF Regard!LookUp
  <2>7. ASSUME NEW u \in Thread PROVE RegardLocals(u)'
    BY <1>1, <2>1, <2>3, <2>4, <2>7 DEF Regard!LookUp, Regard!TypeOK, RegardLocals,
       Regard!Changing, Regard!Stored
  <2> QED
    BY <2>5, <2>6, <2>7
<1>3. CASE ~\E c \in places : Regard!SameChange(c, job[t])
  <2>1. UNCHANGED draft /\ \E s \in {"stored", "live"} : stage' = [stage EXCEPT ![t] = s]
    BY <1>3 DEF Regard!LookUp, Regard!Goto
  <2>2. Regard!TypeOK'
    BY <2>1 DEF Regard!LookUp, Regard!TypeOK
  <2>3. (DOMAIN job = Thread /\ DOMAIN draft = Thread)'
    BY <2>1 DEF Regard!LookUp
  <2>4. ASSUME NEW u \in Thread PROVE RegardLocals(u)'
    BY <1>1, <2>1, <2>4 DEF Regard!LookUp, Regard!TypeOK, RegardLocals, Regard!Changing,
       Regard!Stored
  <2> QED
    BY <2>2, <2>3, <2>4
<1> QED
  BY <1>2, <1>3

LEMMA ReadLiveType ==
    ASSUME RegardInv, NEW t \in Thread, Regard!ReadLive(t) PROVE RegardInv'
<1> USE DEF RegardInv, Bounded
<1>1. job[t] \in ChangeRequest
  BY DEF Regard!ReadLive, RegardLocals, Regard!Changing
<1>2. live[job[t].relation] \in Regard!Trust
  BY <1>1 DEF ChangeRequest, Regard!TypeOK
<1>3. Regard!Drafted(job[t], live[job[t].relation]) \in Regard!Change
  BY <1>1, <1>2, DraftedType
<1>4. Regard!TypeOK'
  BY DEF Regard!ReadLive, Regard!Goto, Regard!TypeOK
<1>5. (DOMAIN job = Thread /\ DOMAIN draft = Thread)'
  BY DEF Regard!ReadLive
<1>6. ASSUME NEW u \in Thread PROVE RegardLocals(u)'
  BY <1>1, <1>3, <1>6 DEF Regard!ReadLive, Regard!Goto, Regard!TypeOK, RegardLocals,
     Regard!Changing, Regard!Stored
<1> QED
  BY <1>4, <1>5, <1>6

\* What is stored once a change is appended.
LEMMA AppendStored ==
    ASSUME Regard!TypeOK, NEW c \in Regard!Change, changes' = Append(changes, c)
    PROVE  /\ changes' \in Seq(Regard!Change)
           /\ Len(changes') = Len(changes) + 1
           /\ changes'[Len(changes')] = c
           /\ \A i \in DOMAIN changes : i \in DOMAIN changes' /\ changes'[i] = changes[i]
           /\ \A i \in DOMAIN changes' : i \in DOMAIN changes \/ i = Len(changes')
           /\ Regard!Stored' = Regard!Stored \cup {c}
<1>1. changes \in Seq(Regard!Change)
  BY DEF Regard!TypeOK
<1>2. /\ changes' \in Seq(Regard!Change)
      /\ Len(changes') = Len(changes) + 1
      /\ changes'[Len(changes')] = c
      /\ \A i \in DOMAIN changes : i \in DOMAIN changes' /\ changes'[i] = changes[i]
      /\ \A i \in DOMAIN changes' : i \in DOMAIN changes \/ i = Len(changes')
  BY <1>1
<1>3. Len(changes') \in DOMAIN changes'
  BY <1>1, <1>2
<1> QED
  BY <1>2, <1>3 DEF Regard!Stored

\* What saving a change does.
LEMMA SaveChangeCases ==
    ASSUME RegardInv, NEW t \in Thread, Regard!SaveChange(t)
    PROVE  LET change == draft[t]
           IN  /\ change \in Regard!Change
               /\ \/ /\ UNCHANGED <<row, changes>>
                     /\ stage'[t] = "publish_change" => change \in Regard!Stored
                  \/ /\ ~\E c \in Regard!Stored : Regard!SameChange(c, change)
                     /\ Regard!FromRow(change)
                     /\ changes' = Append(changes, change)
                     /\ row' = [row EXCEPT ![change.relation] = change.after]
               /\ \/ Regard!Goto(t, "publish_change") /\ UNCHANGED <<job, draft>>
                  \/ Regard!Leave(t)
               /\ losses' \in 0..MaxLosses
               /\ UNCHANGED <<live, known, assigned, runtime, traces, recorded,
                              requests, orderly>>
<1> DEFINE change == draft[t]
           earlier == {c \in Regard!Stored : Regard!SameChange(c, change)}
<1> USE DEF RegardInv, Bounded
<1>1. change \in Regard!Change
  BY DEF Regard!SaveChange, RegardLocals
<1>2. losses' \in 0..MaxLosses
  BY DEF Regard!SaveChange, Regard!Committed, Regard!Fault, Regard!TypeOK
<1>3. \/ Regard!Goto(t, "publish_change") /\ UNCHANGED <<job, draft>>
      \/ Regard!Leave(t)
  BY DEF Regard!SaveChange, Regard!Committed
<1>4. /\ UNCHANGED <<live, known, assigned, runtime, traces, recorded, requests, orderly>>
  BY DEF Regard!SaveChange
<1>5. \/ /\ UNCHANGED <<row, changes>>
         /\ stage'[t] = "publish_change" => change \in Regard!Stored
      \/ /\ ~\E c \in Regard!Stored : Regard!SameChange(c, change)
         /\ Regard!FromRow(change)
         /\ changes' = Append(changes, change)
         /\ row' = [row EXCEPT ![change.relation] = change.after]
  <2>1. CASE \/ change.relation[1] = change.relation[2]
             \/ earlier \notin {{}, {change}}
             \/ earlier = {} /\ ~Regard!FromRow(change)
    <3>1. Regard!Leave(t) /\ UNCHANGED <<row, changes>>
      BY <2>1 DEF Regard!SaveChange
    <3>2. stage'[t] = "idle"
      BY <3>1 DEF Regard!Leave, Regard!Goto, Regard!TypeOK
    <3> QED
      BY <3>1, <3>2
  <2>2. CASE ~(\/ change.relation[1] = change.relation[2]
               \/ earlier \notin {{}, {change}}
               \/ earlier = {} /\ ~Regard!FromRow(change))
    <3>1. IF earlier = {}
            THEN /\ changes' = Append(changes, change)
                 /\ row' = [row EXCEPT ![change.relation] = change.after]
            ELSE UNCHANGED <<row, changes>>
      BY <2>2 DEF Regard!SaveChange
    <3>2. CASE earlier = {}
      BY <2>2, <3>1, <3>2
    <3>3. CASE earlier = {change}
      BY <3>1, <3>3
    <3> QED
      BY <2>2, <3>2, <3>3
  <2> QED
    BY <2>1, <2>2
<1> QED
  BY <1>1, <1>2, <1>3, <1>4, <1>5

LEMMA SaveChangeType ==
    ASSUME RegardInv, NEW t \in Thread, Regard!SaveChange(t) PROVE RegardInv'
<1> DEFINE change == draft[t]
<1> USE DEF RegardInv, Bounded
<1>1. /\ change \in Regard!Change
      /\ \/ UNCHANGED <<row, changes>>
         \/ /\ changes' = Append(changes, change)
            /\ row' = [row EXCEPT ![change.relation] = change.after]
      /\ \/ Regard!Goto(t, "publish_change") /\ UNCHANGED <<job, draft>>
         \/ Regard!Leave(t)
      /\ losses' \in 0..MaxLosses
      /\ UNCHANGED <<live, known, assigned, runtime, traces, recorded, requests, orderly>>
  BY SaveChangeCases
<1>2. row' \in [Relation -> Regard!Trust] /\ changes' \in Seq(Regard!Change)
  BY <1>1, AppendStored DEF Regard!TypeOK, Regard!Change
<1>3. stage' \in [Thread -> {"idle", "known", "stored", "live", "save_change",
                          "publish_change", "save_runtime", "set_runtime", "save_trace",
                          "record_trace"}]
  BY <1>1 DEF Regard!TypeOK, Regard!Goto, Regard!Leave
<1>4. Regard!TypeOK'
  BY <1>1, <1>2, <1>3 DEF Regard!TypeOK
<1>5. (DOMAIN job = Thread /\ DOMAIN draft = Thread)'
  BY <1>1 DEF Regard!Leave
<1>6. /\ Regard!Stored \subseteq Regard!Stored'
      /\ stage'[t] = "publish_change" => change \in Regard!Stored'
  BY SaveChangeCases, AppendStored DEF Regard!Stored
<1>7. ASSUME NEW u \in Thread, u # t PROVE RegardLocals(u)'
  BY <1>1, <1>6, <1>7 DEF RegardLocals, Regard!Goto, Regard!Leave, Regard!TypeOK
<1>8. RegardLocals(t)'
  <2>1. CASE Regard!Goto(t, "publish_change") /\ UNCHANGED <<job, draft>>
    <3>1. job[t] \in ChangeRequest
      BY DEF Regard!SaveChange, RegardLocals, Regard!Changing
    <3>2. stage'[t] = "publish_change" /\ draft'[t] = change /\ job'[t] = job[t]
      BY <2>1 DEF Regard!Goto, Regard!TypeOK
    <3> QED
      BY <1>1, <1>6, <3>1, <3>2 DEF RegardLocals
  <2>2. CASE Regard!Leave(t)
    <3>1. stage'[t] = "idle"
      BY <2>2 DEF Regard!Leave, Regard!Goto, Regard!TypeOK
    <3> QED
      BY <3>1 DEF RegardLocals, Regard!Changing
  <2> QED
    BY <1>1, <2>1, <2>2
<1> QED
  BY <1>4, <1>5, <1>7, <1>8

LEMMA PublishChangeType ==
    ASSUME RegardInv, NEW t \in Thread, Regard!PublishChange(t) PROVE RegardInv'
<1> USE DEF RegardInv, Bounded
<1>1. draft[t] \in Regard!Change
  BY DEF Regard!PublishChange, RegardLocals
<1>2. /\ known' \in {known, known \cup {draft[t]}}
      /\ live' \in {live, [live EXCEPT ![draft[t].relation] = draft[t].after]}
  BY DEF Regard!PublishChange
<1>3. known' \subseteq Regard!Change
  BY <1>1, <1>2 DEF Regard!TypeOK
<1>4. live' \in [Relation -> Regard!Trust]
  BY <1>1, <1>2 DEF Regard!TypeOK, Regard!Change
<1>5. Regard!TypeOK'
  BY <1>3, <1>4 DEF Regard!PublishChange, Regard!Leave, Regard!Goto, Regard!TypeOK
<1>6. (DOMAIN job = Thread /\ DOMAIN draft = Thread)'
  BY DEF Regard!PublishChange, Regard!Leave
<1>7. ASSUME NEW u \in Thread PROVE RegardLocals(u)'
  BY <1>7 DEF Regard!PublishChange, Regard!Leave, Regard!Goto, Regard!TypeOK,
     RegardLocals, Regard!Changing, Regard!Stored
<1> QED
  BY <1>5, <1>6, <1>7

LEMMA RuntimeType ==
    ASSUME RegardInv, NEW t \in Thread,
           Regard!AskRuntime(t) \/ Regard!SaveRuntime(t) \/ Regard!SetRuntime(t)
    PROVE  RegardInv'
<1> USE DEF RegardInv, Bounded
<1>1. CASE Regard!AskRuntime(t)
  <2>1. Regard!TypeOK'
    BY <1>1 DEF Regard!AskRuntime, Regard!Begin, Regard!Goto, Regard!TypeOK
  <2>2. (DOMAIN job = Thread /\ DOMAIN draft = Thread)'
    BY <1>1 DEF Regard!AskRuntime, Regard!Begin
  <2>3. ASSUME NEW u \in Thread PROVE RegardLocals(u)'
    BY <1>1, <2>3 DEF Regard!AskRuntime, Regard!Begin, Regard!Goto, Regard!TypeOK,
       RegardLocals, Regard!Changing, Regard!Stored
  <2> QED
    BY <2>1, <2>2, <2>3
<1>2. CASE Regard!SaveRuntime(t)
  <2>1. job[t].entity \in Entity /\ draft[t] \in Runtime
    BY <1>2 DEF Regard!SaveRuntime, RegardLocals
  <2>2. assigned' \in [Entity -> Runtime \cup {Nobody}]
    BY <1>2, <2>1 DEF Regard!SaveRuntime, Regard!TypeOK
  <2>3. Regard!TypeOK'
    BY <1>2, <2>2 DEF Regard!SaveRuntime, Regard!Committed, Regard!Fault, Regard!Leave,
       Regard!Goto, Regard!TypeOK
  <2>4. (DOMAIN job = Thread /\ DOMAIN draft = Thread)'
    BY <1>2 DEF Regard!SaveRuntime, Regard!Committed, Regard!Leave
  <2>5. ASSUME NEW u \in Thread PROVE RegardLocals(u)'
    BY <1>2, <2>1, <2>5 DEF Regard!SaveRuntime, Regard!Committed, Regard!Leave,
       Regard!Goto, Regard!TypeOK, RegardLocals, Regard!Changing, Regard!Stored
  <2> QED
    BY <2>3, <2>4, <2>5
<1>3. CASE Regard!SetRuntime(t)
  <2>1. job[t].entity \in Entity /\ draft[t] \in Runtime
    BY <1>3 DEF Regard!SetRuntime, RegardLocals
  <2>2. runtime' \in [Entity -> Runtime \cup {Nobody}]
    BY <1>3, <2>1 DEF Regard!SetRuntime, Regard!TypeOK
  <2>3. Regard!TypeOK'
    BY <1>3, <2>2 DEF Regard!SetRuntime, Regard!Leave, Regard!Goto, Regard!TypeOK
  <2>4. (DOMAIN job = Thread /\ DOMAIN draft = Thread)'
    BY <1>3 DEF Regard!SetRuntime, Regard!Leave
  <2>5. ASSUME NEW u \in Thread PROVE RegardLocals(u)'
    BY <1>3, <2>5 DEF Regard!SetRuntime, Regard!Leave, Regard!Goto, Regard!TypeOK,
       RegardLocals, Regard!Changing, Regard!Stored
  <2> QED
    BY <2>3, <2>4, <2>5
<1> QED
  BY <1>1, <1>2, <1>3

LEMMA DecisionType ==
    ASSUME RegardInv, NEW t \in Thread,
           Regard!AskDecision(t) \/ Regard!SaveTrace(t) \/ Regard!RecordTrace(t)
    PROVE  RegardInv'
<1> USE DEF RegardInv, Bounded
<1>1. CASE Regard!AskDecision(t)
  <2>1. PICK entity, problem, decided :
          /\ entity \in Entity
          /\ Regard!Begin(t, problem, "save_trace")
          /\ draft' = [draft EXCEPT ![t] = Regard!Trace(entity, problem, decided)]
          /\ UNCHANGED <<Regard!tables, Regard!memory, losses, orderly>>
    BY <1>1 DEF Regard!AskDecision
  <2>2. Regard!Trace(entity, problem, decided).entity = entity
    BY DEF Regard!Trace
  <2>3. /\ stage' = [stage EXCEPT ![t] = "save_trace"] /\ DOMAIN job' = DOMAIN job
        /\ \A u \in Thread : u # t => job'[u] = job[u]
        /\ requests' \in 0..MaxRequests
        /\ UNCHANGED <<Regard!tables, Regard!memory, losses, orderly>>
    BY <2>1 DEF Regard!Begin, Regard!Goto, Regard!TypeOK
  <2>4. Regard!TypeOK'
    BY <2>3 DEF Regard!TypeOK
  <2>5. (DOMAIN job = Thread /\ DOMAIN draft = Thread)'
    BY <2>1, <2>3
  <2>6. ASSUME NEW u \in Thread PROVE RegardLocals(u)'
    BY <2>1, <2>2, <2>3, <2>6 DEF Regard!TypeOK, RegardLocals, Regard!Changing,
       Regard!Stored
  <2> QED
    BY <2>4, <2>5, <2>6
<1>2. CASE Regard!SaveTrace(t)
  <2>1. draft[t].entity \in Entity
    BY <1>2 DEF Regard!SaveTrace, RegardLocals
  <2>2. \A d \in traces' : d.entity \in Entity
    BY <1>2, <2>1 DEF Regard!SaveTrace, Regard!Added, Regard!TypeOK
  <2>3. Regard!TypeOK'
    <3>1. PICK s \in {"idle", "record_trace"} : stage' = [stage EXCEPT ![t] = s]
      BY <1>2 DEF Regard!SaveTrace, Regard!Committed, Regard!Leave, Regard!Goto
    <3>2. losses' \in 0..MaxLosses
      BY <1>2 DEF Regard!SaveTrace, Regard!Committed, Regard!Fault, Regard!TypeOK
    <3>3. UNCHANGED <<row, changes, assigned, live, known, runtime, recorded, requests, orderly>>
      BY <1>2 DEF Regard!SaveTrace
    <3> QED
      BY <2>2, <3>1, <3>2, <3>3 DEF Regard!TypeOK
  <2>4. (DOMAIN job = Thread /\ DOMAIN draft = Thread)'
    BY <1>2 DEF Regard!SaveTrace, Regard!Committed, Regard!Leave
  <2>5. ASSUME NEW u \in Thread PROVE RegardLocals(u)'
    BY <1>2, <2>1, <2>5 DEF Regard!SaveTrace, Regard!Committed, Regard!Leave,
       Regard!Goto, Regard!TypeOK, RegardLocals, Regard!Changing, Regard!Stored
  <2> QED
    BY <2>3, <2>4, <2>5
<1>3. CASE Regard!RecordTrace(t)
  <2>1. draft[t].entity \in Entity
    BY <1>3 DEF Regard!RecordTrace, RegardLocals
  <2>2. \A d \in recorded' : d.entity \in Entity
    BY <1>3, <2>1 DEF Regard!RecordTrace, Regard!Added, Regard!TypeOK
  <2>3. Regard!TypeOK'
    BY <1>3, <2>2 DEF Regard!RecordTrace, Regard!Leave, Regard!Goto, Regard!TypeOK
  <2>4. (DOMAIN job = Thread /\ DOMAIN draft = Thread)'
    BY <1>3 DEF Regard!RecordTrace, Regard!Leave
  <2>5. ASSUME NEW u \in Thread PROVE RegardLocals(u)'
    BY <1>3, <2>5 DEF Regard!RecordTrace, Regard!Leave, Regard!Goto, Regard!TypeOK,
       RegardLocals, Regard!Changing, Regard!Stored
  <2> QED
    BY <2>3, <2>4, <2>5
<1> QED
  BY <1>1, <1>2, <1>3

LEMMA FailureType ==
    ASSUME RegardInv, (\E t \in Thread : Regard!SaveFails(t)) \/ Regard!Restart
    PROVE  RegardInv'
<1> USE DEF RegardInv, Bounded
<1>1. ASSUME NEW t \in Thread, Regard!SaveFails(t) PROVE RegardInv'
  <2>1. Regard!TypeOK'
    BY <1>1 DEF Regard!SaveFails, Regard!Fault, Regard!Leave, Regard!Goto, Regard!TypeOK
  <2>2. (DOMAIN job = Thread /\ DOMAIN draft = Thread)'
    BY <1>1 DEF Regard!SaveFails, Regard!Leave
  <2>3. ASSUME NEW u \in Thread PROVE RegardLocals(u)'
    BY <1>1, <2>3 DEF Regard!SaveFails, Regard!Leave, Regard!Goto, Regard!TypeOK,
       RegardLocals, Regard!Changing, Regard!Stored
  <2> QED
    BY <2>1, <2>2, <2>3
<1>2. CASE Regard!Restart
  <2>1. Regard!TypeOK'
    <3>1. /\ live' = row /\ known' = {} /\ runtime' = assigned /\ recorded' = {}
          /\ UNCHANGED <<row, changes, assigned, traces, requests>>
          /\ orderly' = FALSE /\ losses' \in 0..MaxLosses
      BY <1>2 DEF Regard!Restart, Regard!Fault, Regard!TypeOK
    <3>2. stage' = [t \in Thread |-> "idle"]
      BY <1>2 DEF Regard!Restart
    <3> QED
      BY <3>1, <3>2 DEF Regard!TypeOK
  <2>2. (DOMAIN job = Thread /\ DOMAIN draft = Thread)'
    BY <1>2 DEF Regard!Restart
  <2>3. ASSUME NEW u \in Thread PROVE RegardLocals(u)'
    BY <1>2, <2>3 DEF Regard!Restart, RegardLocals, Regard!Changing
  <2> QED
    BY <2>1, <2>2, <2>3
<1> QED
  BY <1>1, <1>2

LEMMA RegardNextType == RegardInv /\ [Regard!Next]_Regard!vars => RegardInv'
<1> SUFFICES ASSUME RegardInv, [Regard!Next]_Regard!vars PROVE RegardInv'
  OBVIOUS
<1>1. ASSUME NEW t \in Thread, Regard!Step(t) PROVE RegardInv'
  <2>1. CASE Regard!AskChange(t)
    BY <2>1, AskChangeType
  <2>2. CASE Regard!LookUpKnown(t) \/ Regard!LookUpStored(t)
    <3>1. known \subseteq Regard!Change /\ Regard!Stored \subseteq Regard!Change
      BY StoredType DEF RegardInv, Regard!TypeOK
    <3> QED
      BY <2>2, <3>1, LookUpType DEF Regard!LookUpKnown, Regard!LookUpStored
  <2>3. CASE Regard!ReadLive(t)
    BY <2>3, ReadLiveType
  <2>4. CASE Regard!SaveChange(t)
    BY <2>4, SaveChangeType
  <2>5. CASE Regard!PublishChange(t)
    BY <2>5, PublishChangeType
  <2>6. CASE Regard!AskRuntime(t) \/ Regard!SaveRuntime(t) \/ Regard!SetRuntime(t)
    BY <2>6, RuntimeType
  <2>7. CASE Regard!AskDecision(t) \/ Regard!SaveTrace(t) \/ Regard!RecordTrace(t)
    BY <2>7, DecisionType
  <2>8. CASE Regard!SaveFails(t)
    BY <2>8, FailureType
  <2> QED
    BY <1>1, <2>1, <2>2, <2>3, <2>4, <2>5, <2>6, <2>7, <2>8 DEF Regard!Step
<1>2. CASE Regard!Restart
  BY <1>2, FailureType
<1>3. CASE UNCHANGED Regard!vars
  BY <1>3 DEF Regard!vars, RegardInv, Regard!TypeOK, RegardLocals, Regard!Stored
<1> QED
  BY <1>1, <1>2, <1>3 DEF Regard!Next

\* The variables of Minds keep their types, and trust its bounds
\* (cognition/relationships.py:167-171).
THEOREM RegardTypeCorrect ==
    ASSUME Bounded PROVE Regard!Spec => []Regard!TypeOK
<1>1. RegardInv => Regard!TypeOK
  BY DEF RegardInv
<1> QED
  BY <1>1, RegardInitType, RegardNextType, PTL DEF Regard!Spec

(***************************************************************************)
(* What is stored and what memory holds of it.                             *)
(***************************************************************************)
\* A change is stored once.
StoredOnce ==
    \A i, j \in DOMAIN changes : Regard!SameChange(changes[i], changes[j]) => i = j
RegardSafe == StoredOnce /\ Regard!RowsAreExplained /\ Regard!MemoryIsCommitted

\* The first changes go on explaining what they did when another one is appended.
LEMMA ExplainedStays ==
    ASSUME NEW log \in Seq(Regard!Change), NEW c \in Regard!Change, NEW r, NEW v,
           NEW n \in 0..Len(log), Regard!Explained(log, r, n, v)
    PROVE  Regard!Explained(Append(log, c), r, n, v)
<1>1. \A i \in 1..n : Append(log, c)[i] = log[i]
  OBVIOUS
<1>2. CASE v = 0 /\ \A i \in 1..n : log[i].relation # r
  BY <1>1, <1>2 DEF Regard!Explained
<1>3. ASSUME NEW i \in 1..n, Regard!Latest(log, r, i, n), v = log[i].after
      PROVE  Regard!Explained(Append(log, c), r, n, v)
  <2>1. \A k \in (i + 1)..n : Append(log, c)[k] = log[k]
    BY <1>1
  <2>2. Regard!Latest(Append(log, c), r, i, n)
    BY <1>1, <1>3, <2>1 DEF Regard!Latest
  <2> QED
    BY <1>1, <1>3, <2>2 DEF Regard!Explained
<1> QED
  BY <1>2, <1>3 DEF Regard!Explained

\* All of them do, as far as other relations are concerned.
LEMMA ExplainedPast ==
    ASSUME NEW log \in Seq(Regard!Change), NEW c \in Regard!Change, NEW r, NEW v,
           c.relation # r, Regard!Explained(log, r, Len(log), v)
    PROVE  Regard!Explained(Append(log, c), r, Len(log) + 1, v)
<1> DEFINE more == Append(log, c)
           n == Len(log)
<1>1. /\ \A i \in 1..n : more[i] = log[i]
      /\ more[n + 1] = c
      /\ n \in Nat /\ \A i \in 1..(n + 1) : i \in 1..n \/ i = n + 1
  OBVIOUS
<1> SUFFICES Regard!Explained(more, r, n + 1, v)
  OBVIOUS
<1> HIDE DEF more, n
<1>2. Regard!Explained(log, r, n, v)
  BY DEF n
<1>3. CASE v = 0 /\ \A i \in 1..n : log[i].relation # r
  BY <1>1, <1>3 DEF Regard!Explained
<1>4. ASSUME NEW i \in 1..n, Regard!Latest(log, r, i, n), v = log[i].after
      PROVE  Regard!Explained(more, r, n + 1, v)
  <2>1. \A k \in (i + 1)..(n + 1) : k \in (i + 1)..n \/ k = n + 1
    BY <1>1
  <2>2. \A k \in (i + 1)..n : more[k] = log[k]
    BY <1>1
  <2>3. Regard!Latest(more, r, i, n + 1)
    BY <1>1, <1>4, <2>1, <2>2 DEF Regard!Latest
  <2> QED
    BY <1>1, <1>4, <2>3 DEF Regard!Explained
<1> QED
  BY <1>2, <1>3, <1>4 DEF Regard!Explained

\* A relation is led to where the change appended to it ends.
LEMMA ExplainedByTheLast ==
    ASSUME NEW log \in Seq(Regard!Change), NEW c \in Regard!Change
    PROVE  /\ Regard!Latest(Append(log, c), c.relation, Len(log) + 1, Len(log) + 1)
           /\ Regard!Explained(Append(log, c), c.relation, Len(log) + 1, c.after)
<1>1. Append(log, c)[Len(log) + 1] = c /\ Len(log) + 1 \in 1..(Len(log) + 1)
  OBVIOUS
<1>2. (Len(log) + 1 + 1)..(Len(log) + 1) = {}
  OBVIOUS
<1>3. Regard!Latest(Append(log, c), c.relation, Len(log) + 1, Len(log) + 1)
  BY <1>1, <1>2 DEF Regard!Latest
<1> QED
  BY <1>1, <1>3 DEF Regard!Explained

LEMMA SaveChangeSafe ==
    ASSUME RegardInv, RegardSafe, NEW t \in Thread, Regard!SaveChange(t)
    PROVE  RegardSafe'
<1> DEFINE change == draft[t]
<1>1. /\ change \in Regard!Change
      /\ \/ UNCHANGED <<row, changes>>
         \/ /\ ~\E c \in Regard!Stored : Regard!SameChange(c, change)
            /\ Regard!FromRow(change)
            /\ changes' = Append(changes, change)
            /\ row' = [row EXCEPT ![change.relation] = change.after]
      /\ UNCHANGED <<live, known>>
  BY SaveChangeCases
<1>2. CASE UNCHANGED <<row, changes>>
  BY <1>1, <1>2 DEF RegardSafe, StoredOnce, Regard!RowsAreExplained,
     Regard!MemoryIsCommitted, Regard!Stored
<1>3. CASE /\ ~\E c \in Regard!Stored : Regard!SameChange(c, change)
           /\ Regard!FromRow(change)
           /\ changes' = Append(changes, change)
           /\ row' = [row EXCEPT ![change.relation] = change.after]
  <2> DEFINE n == Len(changes)
  <2>1. changes \in Seq(Regard!Change) /\ n \in Nat /\ DOMAIN changes = 1..n
    BY DEF RegardInv, Regard!TypeOK
  <2>2. /\ \A i \in DOMAIN changes : changes'[i] = changes[i]
        /\ \A i \in DOMAIN changes' : i \in DOMAIN changes \/ i = n + 1
        /\ changes'[n + 1] = change /\ Len(changes') = n + 1
    <3>1. changes' = Append(changes, change)
      BY <1>3
    <3> QED
      BY <1>1, <2>1, <3>1, AppendStored DEF RegardInv
  <2>3. Regard!Stored' = Regard!Stored \cup {change}
    BY <1>1, <1>3, AppendStored DEF RegardInv
  <2>4. \A i \in DOMAIN changes : changes[i] \in Regard!Stored
    BY DEF Regard!Stored
  <2>5. StoredOnce'
    <3>1. ASSUME NEW i \in DOMAIN changes', NEW j \in DOMAIN changes',
                 Regard!SameChange(changes'[i], changes'[j])
          PROVE  i = j
      <4>1. CASE i \in DOMAIN changes /\ j \in DOMAIN changes
        BY <2>2, <3>1, <4>1 DEF RegardSafe, StoredOnce
      <4>2. CASE i = n + 1 /\ j \in DOMAIN changes
        BY <1>3, <2>2, <2>4, <3>1, <4>2 DEF Regard!SameChange
      <4>3. CASE i \in DOMAIN changes /\ j = n + 1
        BY <1>3, <2>2, <2>4, <3>1, <4>3 DEF Regard!SameChange
      <4> QED
        BY <2>2, <4>1, <4>2, <4>3
    <3> QED
      BY <3>1 DEF StoredOnce
  <2>6. Regard!RowsAreExplained'
    <3>1. ASSUME NEW i \in DOMAIN changes
          PROVE  Regard!Explained(changes', changes[i].relation, i - 1, changes[i].before)
      <4>1. Regard!Explained(changes, changes[i].relation, i - 1, changes[i].before)
        BY DEF RegardSafe, Regard!RowsAreExplained
      <4>2. i - 1 \in 0..Len(changes)
        BY <2>1
      <4>3. Regard!Explained(Append(changes, change), changes[i].relation, i - 1,
                             changes[i].before)
        BY <1>1, <2>1, <4>1, <4>2, ExplainedStays
      <4> QED
        BY <1>3, <4>3
    <3>2. Regard!Explained(changes', change.relation, n, change.before)
      <4>1. change.relation \in Relation /\ change.before = row[change.relation]
        BY <1>1, <1>3 DEF Regard!Change, Regard!FromRow
      <4>2. Regard!Explained(changes, change.relation, n, change.before)
        BY <4>1 DEF RegardSafe, Regard!RowsAreExplained
      <4>3. n \in 0..Len(changes)
        BY <2>1
      <4>4. Regard!Explained(Append(changes, change), change.relation, n, change.before)
        BY <1>1, <2>1, <4>2, <4>3, ExplainedStays
      <4> QED
        BY <1>3, <4>4
    <3>3. ASSUME NEW i \in DOMAIN changes'
          PROVE  Regard!Explained(changes', changes'[i].relation, i - 1, changes'[i].before)
      <4>1. CASE i \in DOMAIN changes
        BY <2>2, <3>1, <4>1
      <4>2. CASE i = n + 1
        <5>1. i - 1 = n /\ changes'[i] = change
          BY <2>1, <2>2, <4>2
        <5> QED
          BY <3>2, <5>1
      <4> QED
        BY <2>2, <4>1, <4>2
    <3>4. ASSUME NEW r \in Relation
          PROVE  Regard!Explained(changes', r, Len(changes'), row'[r])
      <4>1. CASE r = change.relation
        <5>1. row'[r] = change.after
          BY <1>3, <4>1 DEF RegardInv, Regard!TypeOK
        <5>2. Regard!Explained(Append(changes, change), r, n + 1, change.after)
          BY <1>1, <2>1, <4>1, ExplainedByTheLast
        <5> QED
          BY <1>3, <2>2, <5>1, <5>2
      <4>2. CASE r # change.relation
        <5>1. row'[r] = row[r]
          BY <1>3, <4>2 DEF RegardInv, Regard!TypeOK
        <5>2. Regard!Explained(changes, r, n, row[r])
          BY DEF RegardSafe, Regard!RowsAreExplained
        <5>3. Regard!Explained(Append(changes, change), r, n + 1, row[r])
          BY <1>1, <2>1, <4>2, <5>2, ExplainedPast
        <5> QED
          BY <1>3, <2>2, <5>1, <5>3
      <4> QED
        BY <4>1, <4>2
    <3> QED
      BY <3>3, <3>4 DEF Regard!RowsAreExplained
  <2>7. Regard!MemoryIsCommitted'
    BY <1>1, <2>3 DEF RegardSafe, Regard!MemoryIsCommitted
  <2> QED
    BY <2>5, <2>6, <2>7 DEF RegardSafe
<1> QED
  BY <1>1, <1>2, <1>3

LEMMA PublishChangeSafe ==
    ASSUME RegardInv, RegardSafe, NEW t \in Thread, Regard!PublishChange(t)
    PROVE  RegardSafe'
<1>1. draft[t] \in Regard!Stored /\ draft[t] \in Regard!Change
  BY DEF RegardInv, RegardLocals, Regard!PublishChange
<1>2. /\ UNCHANGED <<row, changes>>
      /\ \/ UNCHANGED <<live, known>>
         \/ /\ known' = known \cup {draft[t]}
            /\ live' = [live EXCEPT ![draft[t].relation] = draft[t].after]
  BY DEF Regard!PublishChange
<1>3. Regard!MemoryIsCommitted'
  <2>1. Regard!Stored' = Regard!Stored
    BY <1>2 DEF Regard!Stored
  <2>2. known' \subseteq Regard!Stored
    BY <1>1, <1>2 DEF RegardSafe, Regard!MemoryIsCommitted
  <2>3. ASSUME NEW r \in Relation
        PROVE  live'[r] = 0 \/ \E c \in Regard!Stored : c.relation = r /\ c.after = live'[r]
    <3>1. CASE live'[r] = live[r]
      BY <3>1 DEF RegardSafe, Regard!MemoryIsCommitted
    <3>2. CASE live'[r] # live[r]
      <4>1. r = draft[t].relation /\ live'[r] = draft[t].after
        BY <1>1, <1>2, <3>2 DEF RegardInv, Regard!TypeOK
      <4> QED
        BY <1>1, <4>1
    <3> QED
      BY <3>1, <3>2
  <2> QED
    BY <2>1, <2>2, <2>3 DEF Regard!MemoryIsCommitted
<1> QED
  BY <1>2, <1>3 DEF RegardSafe, StoredOnce, Regard!RowsAreExplained

LEMMA RestartSafe ==
    ASSUME RegardInv, RegardSafe, Regard!Restart PROVE RegardSafe'
<1>1. UNCHANGED <<row, changes>> /\ live' = row /\ known' = {}
  BY DEF Regard!Restart
<1>2. ASSUME NEW r \in Relation
      PROVE  row[r] = 0 \/ \E c \in Regard!Stored : c.relation = r /\ c.after = row[r]
  <2>1. Regard!Explained(changes, r, Len(changes), row[r])
    BY DEF RegardSafe, Regard!RowsAreExplained
  <2>2. ASSUME NEW i \in 1..Len(changes), Regard!Latest(changes, r, i, Len(changes)),
               row[r] = changes[i].after
        PROVE  \E c \in Regard!Stored : c.relation = r /\ c.after = row[r]
    <3>1. changes[i] \in Regard!Stored /\ changes[i].relation = r
      BY <2>2 DEF Regard!Stored, Regard!Latest, RegardInv, Regard!TypeOK
    <3> QED
      BY <2>2, <3>1
  <2> QED
    BY <2>1, <2>2 DEF Regard!Explained
<1>3. Regard!MemoryIsCommitted'
  BY <1>1, <1>2 DEF Regard!MemoryIsCommitted, Regard!Stored
<1> QED
  BY <1>1, <1>3 DEF RegardSafe, StoredOnce, Regard!RowsAreExplained

LEMMA RegardInitSafe == Regard!Init => RegardSafe
<1> SUFFICES ASSUME Regard!Init PROVE RegardSafe
  OBVIOUS
<1>1. changes = <<>> /\ Len(changes) = 0 /\ DOMAIN changes = {} /\ 1..0 = {}
  BY DEF Regard!Init
<1>2. \A r \in Relation : row[r] = 0 /\ live[r] = 0
  BY DEF Regard!Init
<1>3. StoredOnce
  BY <1>1 DEF StoredOnce
<1>4. Regard!RowsAreExplained
  BY <1>1, <1>2 DEF Regard!RowsAreExplained, Regard!Explained
<1>5. Regard!MemoryIsCommitted
  BY <1>2 DEF Regard!MemoryIsCommitted, Regard!Init
<1> QED
  BY <1>3, <1>4, <1>5 DEF RegardSafe

\* The other actions leave relationships alone.
LEMMA OthersLeaveAlone ==
    ASSUME NEW t \in Thread,
           \/ Regard!AskChange(t) \/ Regard!LookUpKnown(t) \/ Regard!LookUpStored(t)
           \/ Regard!ReadLive(t)
           \/ Regard!AskRuntime(t) \/ Regard!SaveRuntime(t) \/ Regard!SetRuntime(t)
           \/ Regard!AskDecision(t) \/ Regard!SaveTrace(t) \/ Regard!RecordTrace(t)
           \/ Regard!SaveFails(t)
    PROVE  UNCHANGED <<row, changes, live, known>>
<1>1. CASE \/ Regard!AskChange(t) \/ Regard!LookUpKnown(t) \/ Regard!LookUpStored(t)
           \/ Regard!ReadLive(t) \/ Regard!SaveFails(t)
  BY <1>1 DEF Regard!AskChange, Regard!LookUpKnown, Regard!LookUpStored, Regard!LookUp,
     Regard!ReadLive, Regard!SaveFails
<1>2. CASE Regard!AskRuntime(t) \/ Regard!SaveRuntime(t) \/ Regard!SetRuntime(t)
  BY <1>2 DEF Regard!AskRuntime, Regard!SaveRuntime, Regard!SetRuntime
<1>3. CASE Regard!AskDecision(t)
  BY <1>3 DEF Regard!AskDecision
<1>4. CASE Regard!SaveTrace(t) \/ Regard!RecordTrace(t)
  BY <1>4 DEF Regard!SaveTrace, Regard!RecordTrace
<1> QED
  BY <1>1, <1>2, <1>3, <1>4

LEMMA RegardNextSafe == RegardInv /\ RegardSafe /\ [Regard!Next]_Regard!vars => RegardSafe'
<1> SUFFICES ASSUME RegardInv, RegardSafe, [Regard!Next]_Regard!vars PROVE RegardSafe'
  OBVIOUS
<1>1. CASE UNCHANGED <<row, changes, live, known>>
  BY <1>1 DEF RegardSafe, StoredOnce, Regard!RowsAreExplained, Regard!MemoryIsCommitted,
     Regard!Stored
<1>2. ASSUME NEW t \in Thread, Regard!Step(t) PROVE RegardSafe'
  <2>1. CASE Regard!SaveChange(t)
    BY <2>1, SaveChangeSafe
  <2>2. CASE Regard!PublishChange(t)
    BY <2>2, PublishChangeSafe
  <2> QED
    BY <1>1, <1>2, <2>1, <2>2, OthersLeaveAlone DEF Regard!Step
<1>3. CASE Regard!Restart
  BY <1>3, RestartSafe
<1>4. CASE UNCHANGED Regard!vars
  BY <1>1, <1>4 DEF Regard!vars
<1> QED
  BY <1>2, <1>3, <1>4 DEF Regard!Next

\* What the instance says of relationships is what Relationships says.
LEMMA InstanceMeans ==
    /\ Regard!RowsAreExplained => RowsAreExplained
    /\ Regard!MemoryIsCommitted => MemoryIsCommitted
<1>1. ASSUME NEW log, NEW r, NEW n, NEW v, Regard!Explained(log, r, n, v)
      PROVE  Explained(log, r, n, v)
  BY <1>1, Zenon DEF Explained, Latest, Regard!Explained, Regard!Latest
<1>2. Regard!RowsAreExplained => RowsAreExplained
  BY <1>1 DEF RowsAreExplained, Regard!RowsAreExplained
<1>3. Regard!MemoryIsCommitted => MemoryIsCommitted
  BY Zenon DEF MemoryIsCommitted, Regard!MemoryIsCommitted, Stored, Regard!Stored
<1> QED
  BY <1>2, <1>3

\* Whatever threads race for a relation, repeat a change, fail or lose their answers, its
\* changes lead without a gap from no opinion to its row: save_relationship_change
\* appends to them and advances the row in one transaction, under the lock of the row
\* and only from where the row is (cognition/postgres.py:362-400).
THEOREM RowsAlwaysExplained ==
    ASSUME Bounded PROVE Regard!Spec => []RowsAreExplained
<1>1. RegardSafe => RowsAreExplained
  BY InstanceMeans DEF RegardSafe
<1> QED
  BY <1>1, RegardInitType, RegardNextType, RegardInitSafe, RegardNextSafe,
     PTL DEF Regard!Spec

\* However changes overlap and whenever the process is restarted, memory knows only
\* changes that are stored, and holds vectors that some of them ended with: a change is
\* published after its transaction (kernel/api/app.py:2091-2094).
THEOREM MemoryAlwaysCommitted ==
    ASSUME Bounded PROVE Regard!Spec => []MemoryIsCommitted
<1>1. RegardSafe => MemoryIsCommitted
  BY InstanceMeans DEF RegardSafe
<1> QED
  BY <1>1, RegardInitType, RegardNextType, RegardInitSafe, RegardNextSafe,
     PTL DEF Regard!Spec

(***************************************************************************)
(* Changes that come one at a time.  The thread that makes one knows that  *)
(* nobody else does, so that what it looked up is still so when it saves.  *)
(***************************************************************************)
\* At most one thread is in a change.
OneChange ==
    \A t, u \in Thread : stage[t] \in Regard!Changing /\ stage[u] \in Regard!Changing => t = u

\* Memory holds what the last change of a relation has ended with, if it is known,
\* and what that change began with until then.
MemoryFollows ==
    \A r \in Relation :
        /\ (\A i \in DOMAIN changes : changes[i].relation # r) => live[r] = 0
        /\ \A i \in DOMAIN changes : Regard!Latest(changes, r, i, Len(changes)) =>
               live[r] = IF changes[i] \in known THEN changes[i].after
                                                ELSE changes[i].before

\* A change that memory does not know is the last of its relation, or changes nothing.
OnlyTheLastIsPending ==
    \A i \in DOMAIN changes : changes[i] \notin known =>
        \/ Regard!Latest(changes, changes[i].relation, i, Len(changes))
        \/ changes[i].before = changes[i].after

\* What t relies on: who reads the vector in memory makes a change that is not stored,
\* and who saves such a change computed it from the vector that memory still holds.
Prepared(t) ==
    /\ stage[t] = "live" => ~\E c \in Regard!Stored : Regard!SameChange(c, job[t])
    /\ stage[t] = "save_change" =>
           \/ \E c \in Regard!Stored : Regard!SameChange(c, draft[t])
           \/ draft[t].before = live[draft[t].relation]

\* All of it is so as long as no two changes have overlapped.
RegardOrder ==
    orderly => /\ OneChange /\ MemoryFollows /\ OnlyTheLastIsPending
               /\ \A t \in Thread : Prepared(t)

\* There is one last change of a relation.
LEMMA LatestIsOne ==
    ASSUME NEW log, NEW r, NEW n \in Nat, NEW i, NEW j,
           Regard!Latest(log, r, i, n), Regard!Latest(log, r, j, n)
    PROVE  i = j
<1>1. i \in 1..n /\ j \in 1..n
  BY DEF Regard!Latest
<1>2. CASE i < j
  <2>1. j \in (i + 1)..n
    BY <1>1, <1>2
  <2> QED
    BY <2>1 DEF Regard!Latest
<1>3. CASE j < i
  <2>1. i \in (j + 1)..n
    BY <1>1, <1>3
  <2> QED
    BY <2>1 DEF Regard!Latest
<1> QED
  BY <1>1, <1>2, <1>3

\* It is where the changes lead.
LEMMA ExplainedByLatest ==
    ASSUME NEW log, NEW r, NEW n \in Nat, NEW i, NEW v,
           Regard!Latest(log, r, i, n), Regard!Explained(log, r, n, v)
    PROVE  v = log[i].after
<1>1. i \in 1..n /\ log[i].relation = r
  BY DEF Regard!Latest
<1>2. PICK j \in 1..n : Regard!Latest(log, r, j, n) /\ v = log[j].after
  BY <1>1 DEF Regard!Explained
<1> QED
  BY <1>2, LatestIsOne

\* What the last change of a relation was before another one was appended.
LEMMA LatestAppended ==
    ASSUME NEW log \in Seq(Regard!Change), NEW c \in Regard!Change, NEW r, NEW i,
           Regard!Latest(Append(log, c), r, i, Len(log) + 1)
    PROVE  IF r = c.relation THEN i = Len(log) + 1 ELSE Regard!Latest(log, r, i, Len(log))
<1> DEFINE n == Len(log)
<1>1. /\ n \in Nat /\ \A k \in 1..n : Append(log, c)[k] = log[k]
      /\ Append(log, c)[n + 1] = c
  OBVIOUS
<1>2. i \in 1..(n + 1)
  BY DEF Regard!Latest
<1>3. CASE r = c.relation
  <2>1. ASSUME i # n + 1 PROVE FALSE
    <3>1. n + 1 \in (i + 1)..(n + 1)
      BY <1>1, <1>2, <2>1
    <3> QED
      BY <1>1, <1>3, <3>1 DEF Regard!Latest
  <2> QED
    BY <1>3, <2>1
<1>4. CASE r # c.relation
  <2>1. i # n + 1
    BY <1>1, <1>4 DEF Regard!Latest
  <2>2. i \in 1..n
    BY <1>1, <1>2, <2>1
  <2>3. \A k \in (i + 1)..n : k \in 1..n /\ k \in (i + 1)..(n + 1)
    BY <1>1, <2>2
  <2>4. Regard!Latest(log, r, i, n)
    BY <1>1, <2>2, <2>3 DEF Regard!Latest
  <2> QED
    BY <1>4, <2>4
<1> QED
  BY <1>3, <1>4

\* The last change of a relation remains the last when one of another is appended.
LEMMA LatestPast ==
    ASSUME NEW log \in Seq(Regard!Change), NEW c \in Regard!Change, NEW r, NEW i,
           r # c.relation, Regard!Latest(log, r, i, Len(log))
    PROVE  Regard!Latest(Append(log, c), r, i, Len(log) + 1)
<1> DEFINE n == Len(log)
<1>1. /\ n \in Nat /\ \A k \in 1..n : Append(log, c)[k] = log[k]
      /\ Append(log, c)[n + 1] = c
  OBVIOUS
<1>2. i \in 1..n /\ log[i].relation = r
  BY DEF Regard!Latest
<1>3. \A k \in (i + 1)..(n + 1) : k = n + 1 \/ (k \in 1..n /\ k \in (i + 1)..n)
  BY <1>1, <1>2
<1>4. i \in 1..(n + 1)
  BY <1>1, <1>2
<1> QED
  BY <1>1, <1>2, <1>3, <1>4 DEF Regard!Latest

\* What memory knows of the changes.
Pending == MemoryFollows /\ OnlyTheLastIsPending

\* A change that is appended starts from the vector that both memory and the row hold.
\* So the one before it was known, or changed nothing.
LEMMA SaveChangePending ==
    ASSUME RegardInv, RegardSafe, NEW t \in Thread, Regard!SaveChange(t), Pending,
           Prepared(t)
    PROVE  Pending'
<1> DEFINE change == draft[t]
           n == Len(changes)
<1>1. /\ change \in Regard!Change
      /\ \/ UNCHANGED changes
         \/ /\ ~\E c \in Regard!Stored : Regard!SameChange(c, change)
            /\ Regard!FromRow(change)
            /\ changes' = Append(changes, change)
      /\ UNCHANGED <<live, known>>
  BY SaveChangeCases
<1>2. CASE UNCHANGED changes
  BY <1>1, <1>2 DEF Pending, MemoryFollows, OnlyTheLastIsPending
<1>3. CASE /\ ~\E c \in Regard!Stored : Regard!SameChange(c, change)
           /\ Regard!FromRow(change)
           /\ changes' = Append(changes, change)
  <2>1. changes \in Seq(Regard!Change) /\ n \in Nat /\ DOMAIN changes = 1..n
    BY DEF RegardInv, Regard!TypeOK
  <2>2. /\ \A i \in DOMAIN changes : i \in DOMAIN changes' /\ changes'[i] = changes[i]
        /\ \A i \in DOMAIN changes' : i \in DOMAIN changes \/ i = n + 1
        /\ changes'[n + 1] = change /\ Len(changes') = n + 1
    <3>1. changes' = Append(changes, change)
      BY <1>3
    <3> QED
      BY <1>1, <2>1, <3>1, AppendStored DEF RegardInv
  <2>3. change.relation \in Relation
    BY <1>1 DEF Regard!Change
  <2>4. live[change.relation] = change.before /\ row[change.relation] = change.before
    BY <1>3 DEF Prepared, Regard!SaveChange, Regard!FromRow
  <2>5. change \notin known
    BY <1>3 DEF RegardSafe, Regard!MemoryIsCommitted, Regard!SameChange
  <2>6. ASSUME NEW r \in Relation, NEW i \in DOMAIN changes',
               Regard!Latest(changes', r, i, Len(changes'))
        PROVE  live[r] = IF changes'[i] \in known THEN changes'[i].after
                                                  ELSE changes'[i].before
    <3>1. Regard!Latest(Append(changes, change), r, i, Len(changes) + 1)
      BY <1>3, <2>2, <2>6
    <3>2. IF r = change.relation THEN i = n + 1 ELSE Regard!Latest(changes, r, i, n)
      BY <1>1, <2>1, <3>1, LatestAppended
    <3>3. CASE r = change.relation
      BY <2>2, <2>4, <2>5, <3>2, <3>3
    <3>4. CASE r # change.relation
      <4>1. Regard!Latest(changes, r, i, n) /\ i \in DOMAIN changes
        BY <2>1, <3>2, <3>4 DEF Regard!Latest
      <4> QED
        BY <2>2, <4>1 DEF Pending, MemoryFollows
    <3> QED
      BY <3>3, <3>4
  <2>7. ASSUME NEW r \in Relation, \A i \in DOMAIN changes' : changes'[i].relation # r
        PROVE  live[r] = 0
    <3>1. \A i \in DOMAIN changes : changes[i].relation # r
      BY <2>2, <2>7
    <3> QED
      BY <3>1 DEF Pending, MemoryFollows
  <2>8. MemoryFollows'
    BY <1>1, <2>6, <2>7 DEF MemoryFollows
  <2>9. ASSUME NEW i \in DOMAIN changes', changes'[i] \notin known
        PROVE  \/ Regard!Latest(changes', changes'[i].relation, i, Len(changes'))
               \/ changes'[i].before = changes'[i].after
    <3>1. CASE i = n + 1
      <4>1. Regard!Latest(Append(changes, change), change.relation, n + 1, n + 1)
        BY <1>1, <2>1, ExplainedByTheLast
      <4> QED
        BY <1>3, <2>2, <3>1, <4>1
    <3>2. CASE i \in DOMAIN changes
      <4>1. changes'[i] = changes[i] /\ changes[i] \notin known
        BY <2>2, <2>9, <3>2
      <4>2. CASE changes[i].before = changes[i].after
        BY <4>1, <4>2
      <4>3. CASE Regard!Latest(changes, changes[i].relation, i, n)
        <5>1. CASE changes[i].relation = change.relation
          <6>1. live[change.relation] = changes[i].before
            BY <2>3, <3>2, <4>1, <4>3, <5>1 DEF Pending, MemoryFollows
          <6>2. Regard!Explained(changes, change.relation, n, row[change.relation])
            BY <2>3 DEF RegardSafe, Regard!RowsAreExplained
          <6>3. row[change.relation] = changes[i].after
            BY <2>1, <4>3, <5>1, <6>2, ExplainedByLatest
          <6> QED
            BY <2>4, <4>1, <6>1, <6>3
        <5>2. CASE changes[i].relation # change.relation
          <6>1. PICK r : r = changes[i].relation
            OBVIOUS
          <6>2. Regard!Latest(Append(changes, change), r, i, n + 1)
            BY <1>1, <2>1, <4>3, <5>2, <6>1, LatestPast
          <6> QED
            BY <1>3, <2>2, <4>1, <6>1, <6>2
        <5> QED
          BY <5>1, <5>2
      <4> QED
        BY <3>2, <4>1, <4>2, <4>3 DEF Pending, OnlyTheLastIsPending
    <3> QED
      BY <2>2, <3>1, <3>2
  <2>10. OnlyTheLastIsPending'
    BY <1>1, <2>9 DEF OnlyTheLastIsPending
  <2> QED
    BY <2>8, <2>10 DEF Pending
<1> QED
  BY <1>1, <1>2, <1>3

\* Who publishes a change publishes the last of its relation, or one that changes
\* nothing.
LEMMA PublishChangePending ==
    ASSUME RegardInv, RegardSafe, NEW t \in Thread, Regard!PublishChange(t), Pending
    PROVE  Pending'
<1> DEFINE change == draft[t]
           n == Len(changes)
<1>1. change \in Regard!Change /\ change \in Regard!Stored
  BY DEF RegardInv, RegardLocals, Regard!PublishChange
<1>2. n \in Nat /\ DOMAIN changes = 1..n
  BY DEF RegardInv, Regard!TypeOK
<1>3. PICK j \in DOMAIN changes : changes[j] = change
  BY <1>1 DEF Regard!Stored
<1>4. UNCHANGED changes
  BY DEF Regard!PublishChange
<1>5. CASE UNCHANGED <<live, known>>
  BY <1>4, <1>5 DEF Pending, MemoryFollows, OnlyTheLastIsPending
<1>6. CASE ~UNCHANGED <<live, known>>
  <2>1. /\ change \notin known
        /\ live[change.relation] \in {change.before, change.after}
        /\ known' = known \cup {change}
        /\ live' = [live EXCEPT ![change.relation] = change.after]
    BY <1>6 DEF Regard!PublishChange, Regard!Continues, Regard!SameChange
  <2>2. \/ Regard!Latest(changes, change.relation, j, n)
        \/ change.before = change.after
    BY <1>3, <2>1 DEF Pending, OnlyTheLastIsPending
  <2>3. live'[change.relation] = change.after
    BY <1>1, <2>1 DEF RegardInv, Regard!TypeOK, Regard!Change
  <2>4. \A r \in Relation : r # change.relation => live'[r] = live[r]
    BY <2>1 DEF RegardInv, Regard!TypeOK
  <2>5. ASSUME NEW r \in Relation, NEW i \in DOMAIN changes, Regard!Latest(changes, r, i, n)
        PROVE  live'[r] = IF changes[i] \in known' THEN changes[i].after
                                                   ELSE changes[i].before
    <3>1. changes[i].relation = r
      BY <2>5 DEF Regard!Latest
    <3>2. CASE changes[i] = change
      BY <2>1, <2>3, <3>1, <3>2
    <3>3. CASE changes[i] # change
      <4>1. live'[r] = live[r]
        <5>1. CASE r = change.relation
          <6>1. i # j
            BY <1>3, <3>3
          <6>2. ~Regard!Latest(changes, change.relation, j, n)
            BY <1>2, <2>5, <5>1, <6>1, LatestIsOne
          <6> QED
            BY <2>1, <2>2, <2>3, <5>1, <6>2
        <5> QED
          BY <2>4, <5>1
      <4>2. changes[i] \in known' <=> changes[i] \in known
        BY <2>1, <3>3
      <4> QED
        BY <2>5, <4>1, <4>2 DEF Pending, MemoryFollows
    <3> QED
      BY <3>2, <3>3
  <2>6. ASSUME NEW r \in Relation, \A i \in DOMAIN changes : changes[i].relation # r
        PROVE  live'[r] = 0
    <3>1. r # change.relation
      BY <1>3, <2>6
    <3> QED
      BY <2>4, <2>6, <3>1 DEF Pending, MemoryFollows
  <2>7. MemoryFollows'
    BY <1>4, <2>5, <2>6 DEF MemoryFollows
  <2>8. OnlyTheLastIsPending'
    BY <1>4, <2>1 DEF Pending, OnlyTheLastIsPending
  <2> QED
    BY <2>7, <2>8 DEF Pending
<1> QED
  BY <1>5, <1>6

LEMMA NextPending ==
    ASSUME RegardInv, RegardSafe, [Regard!Next]_Regard!vars, orderly, orderly', RegardOrder
    PROVE  Pending'
<1>1. Pending /\ \A t \in Thread : Prepared(t)
  BY DEF RegardOrder, Pending
<1>2. CASE UNCHANGED <<changes, live, known>>
  BY <1>1, <1>2 DEF Pending, MemoryFollows, OnlyTheLastIsPending
<1>3. ASSUME NEW t \in Thread, Regard!Step(t) PROVE Pending'
  <2>1. CASE Regard!SaveChange(t)
    BY <1>1, <2>1, SaveChangePending
  <2>2. CASE Regard!PublishChange(t)
    BY <1>1, <2>2, PublishChangePending
  <2> QED
    BY <1>2, <1>3, <2>1, <2>2, OthersLeaveAlone DEF Regard!Step
<1>4. CASE Regard!Restart
  BY <1>4 DEF Regard!Restart
<1>5. CASE UNCHANGED Regard!vars
  BY <1>2, <1>5 DEF Regard!vars
<1> QED
  BY <1>3, <1>4, <1>5 DEF Regard!Next

\* A step of t moves no other thread; and if t gets into a change, nobody else is.
LEMMA StepOfOne ==
    ASSUME RegardInv, NEW t \in Thread, Regard!Step(t)
    PROVE  /\ \A u \in Thread : u # t =>
                  stage'[u] = stage[u] /\ job'[u] = job[u] /\ draft'[u] = draft[u]
           /\ orderly' => orderly
           /\ orderly' /\ stage'[t] \in Regard!Changing =>
                  \/ stage[t] \in Regard!Changing
                  \/ \A u \in Thread : stage[u] \notin Regard!Changing
<1> USE DEF RegardInv, Regard!TypeOK
<1>1. CASE Regard!AskChange(t)
  BY <1>1 DEF Regard!AskChange, Regard!Begin, Regard!Goto
<1>2. CASE Regard!LookUpKnown(t) \/ Regard!LookUpStored(t)
  BY <1>2 DEF Regard!LookUpKnown, Regard!LookUpStored, Regard!LookUp, Regard!Goto,
     Regard!Changing
<1>3. CASE Regard!ReadLive(t) \/ Regard!PublishChange(t)
  BY <1>3 DEF Regard!ReadLive, Regard!PublishChange, Regard!Leave, Regard!Goto,
     Regard!Changing
<1>4. CASE Regard!SaveChange(t)
  <2>1. /\ \/ Regard!Goto(t, "publish_change") /\ UNCHANGED <<job, draft>>
           \/ Regard!Leave(t)
        /\ UNCHANGED orderly
    BY <1>4, SaveChangeCases
  <2>2. stage[t] \in Regard!Changing
    BY <1>4 DEF Regard!SaveChange, Regard!Changing
  <2> QED
    BY <2>1, <2>2 DEF Regard!Leave, Regard!Goto
<1>5. CASE Regard!AskRuntime(t) \/ Regard!SaveRuntime(t) \/ Regard!SetRuntime(t)
  BY <1>5 DEF Regard!AskRuntime, Regard!SaveRuntime, Regard!SetRuntime, Regard!Committed,
     Regard!Begin, Regard!Leave, Regard!Goto, Regard!Changing
<1>6. CASE Regard!AskDecision(t)
  <2>1. PICK problem, trace :
          /\ Regard!Begin(t, problem, "save_trace")
          /\ draft' = [draft EXCEPT ![t] = trace]
          /\ UNCHANGED orderly
    BY <1>6 DEF Regard!AskDecision
  <2> QED
    BY <2>1 DEF Regard!Begin, Regard!Goto, Regard!Changing
<1>7. CASE Regard!SaveTrace(t) \/ Regard!RecordTrace(t)
  BY <1>7 DEF Regard!SaveTrace, Regard!RecordTrace, Regard!Committed, Regard!Leave,
     Regard!Goto, Regard!Changing
<1>8. CASE Regard!SaveFails(t)
  BY <1>8 DEF Regard!SaveFails, Regard!Leave, Regard!Goto, Regard!Changing
<1> QED
  BY <1>1, <1>2, <1>3, <1>4, <1>5, <1>6, <1>7, <1>8 DEF Regard!Step

\* A change begins when no other is being made, or they have overlapped.
LEMMA NextOneChange ==
    ASSUME RegardInv, [Regard!Next]_Regard!vars, orderly', orderly => OneChange
    PROVE  OneChange'
<1>1. ASSUME NEW t \in Thread, Regard!Step(t) PROVE OneChange'
  <2>1. /\ \A u \in Thread : u # t => stage'[u] = stage[u]
        /\ stage'[t] \in Regard!Changing =>
               \/ stage[t] \in Regard!Changing
               \/ \A u \in Thread : stage[u] \notin Regard!Changing
    BY <1>1, StepOfOne
  <2>2. OneChange
    BY <1>1, StepOfOne
  <2> QED
    BY <2>1, <2>2 DEF OneChange
<1>2. CASE Regard!Restart
  BY <1>2 DEF Regard!Restart
<1>3. CASE UNCHANGED Regard!vars
  BY <1>3 DEF Regard!vars, OneChange
<1> QED
  BY <1>1, <1>2, <1>3 DEF Regard!Next

\* What t relies on before a change: of its own steps only.
LEMMA PreparedByOwnStep ==
    ASSUME RegardInv, RegardSafe, NEW t \in Thread, Regard!Step(t)
    PROVE  Prepared(t)'
<1> USE DEF RegardInv, Regard!TypeOK
<1>1. CASE Regard!LookUpKnown(t) \/ Regard!LookUpStored(t)
  <2>1. known \subseteq Regard!Stored /\ Regard!Stored \subseteq Regard!Change
    BY StoredType DEF RegardSafe, Regard!MemoryIsCommitted
  <2>2. PICK places \in SUBSET Regard!Stored, otherwise \in {"stored", "live"} :
          /\ otherwise = "live" => places = Regard!Stored
          /\ IF \E c \in places : Regard!SameChange(c, job[t])
               THEN /\ \E c \in places :
                          /\ Regard!SameChange(c, job[t])
                          /\ draft' = [draft EXCEPT ![t] = Regard!Drafted(job[t], c.before)]
                    /\ Regard!Goto(t, "save_change")
               ELSE Regard!Goto(t, otherwise) /\ UNCHANGED draft
          /\ UNCHANGED <<changes, live, job>>
    BY <1>1, <2>1 DEF Regard!LookUpKnown, Regard!LookUpStored, Regard!LookUp
  <2>3. job[t] \in ChangeRequest
    BY <1>1 DEF Regard!LookUpKnown, Regard!LookUpStored, Regard!LookUp, RegardLocals,
       Regard!Changing
  <2>4. CASE \E c \in places : Regard!SameChange(c, job[t])
    <3>1. PICK c \in places : /\ Regard!SameChange(c, job[t])
                              /\ draft' = [draft EXCEPT ![t] = Regard!Drafted(job[t], c.before)]
      BY <2>2, <2>4
    <3>2. c.before \in Regard!Trust
      BY <2>1 DEF Regard!Change
    <3>3. draft'[t] = Regard!Drafted(job[t], c.before)
      BY <3>1
    <3>4. Regard!SameChange(c, draft'[t])
      BY <2>3, <3>1, <3>2, <3>3, DraftedType DEF Regard!SameChange
    <3>5. stage'[t] = "save_change" /\ Regard!Stored' = Regard!Stored
      BY <2>2, <2>4 DEF Regard!Goto, Regard!Stored
    <3> QED
      BY <3>4, <3>5 DEF Prepared
  <2>5. CASE ~\E c \in places : Regard!SameChange(c, job[t])
    <3>1. stage'[t] = otherwise /\ Regard!Stored' = Regard!Stored /\ job'[t] = job[t]
      BY <2>2, <2>5 DEF Regard!Goto, Regard!Stored
    <3> QED
      BY <2>2, <2>5, <3>1 DEF Prepared
  <2> QED
    BY <2>4, <2>5
<1>2. CASE Regard!ReadLive(t)
  <2>1. job[t] \in ChangeRequest
    BY <1>2 DEF Regard!ReadLive, RegardLocals, Regard!Changing
  <2>2. live[job[t].relation] \in Regard!Trust
    BY <2>1 DEF ChangeRequest
  <2>3. draft'[t] = Regard!Drafted(job[t], live[job[t].relation]) /\ live' = live
        /\ stage'[t] = "save_change"
    BY <1>2 DEF Regard!ReadLive, Regard!Goto
  <2> QED
    BY <2>1, <2>2, <2>3, DraftedType DEF Prepared
<1>3. CASE ~(Regard!LookUpKnown(t) \/ Regard!LookUpStored(t) \/ Regard!ReadLive(t))
  <2>1. stage'[t] \notin {"live", "save_change"}
    <3>1. CASE Regard!AskChange(t)
      BY <3>1 DEF Regard!AskChange, Regard!Begin, Regard!Goto
    <3>2. CASE Regard!SaveChange(t)
      <4>1. Regard!Goto(t, "publish_change") \/ Regard!Leave(t)
        BY <3>2, SaveChangeCases
      <4> QED
        BY <4>1 DEF Regard!Leave, Regard!Goto
    <3>3. CASE Regard!PublishChange(t) \/ Regard!SaveFails(t)
      BY <3>3 DEF Regard!PublishChange, Regard!SaveFails, Regard!Leave, Regard!Goto
    <3>4. CASE Regard!AskRuntime(t) \/ Regard!SaveRuntime(t) \/ Regard!SetRuntime(t)
      BY <3>4 DEF Regard!AskRuntime, Regard!SaveRuntime, Regard!SetRuntime,
         Regard!Committed, Regard!Begin, Regard!Leave, Regard!Goto
    <3>5. CASE Regard!AskDecision(t)
      BY <3>5 DEF Regard!AskDecision, Regard!Begin, Regard!Goto
    <3>6. CASE Regard!SaveTrace(t) \/ Regard!RecordTrace(t)
      BY <3>6 DEF Regard!SaveTrace, Regard!RecordTrace, Regard!Committed, Regard!Leave,
         Regard!Goto
    <3> QED
      BY <1>3, <3>1, <3>2, <3>3, <3>4, <3>5, <3>6 DEF Regard!Step
  <2> QED
    BY <2>1 DEF Prepared
<1> QED
  BY <1>1, <1>2, <1>3

LEMMA NextPrepared ==
    ASSUME RegardInv, RegardSafe, [Regard!Next]_Regard!vars, orderly', RegardOrder,
           orderly, NEW u \in Thread
    PROVE  Prepared(u)'
<1>1. Prepared(u) /\ OneChange
  BY DEF RegardOrder
<1>2. ASSUME NEW t \in Thread, Regard!Step(t), t # u PROVE Prepared(u)'
  <2>1. stage'[u] = stage[u] /\ job'[u] = job[u] /\ draft'[u] = draft[u]
    BY <1>2, StepOfOne
  <2>2. CASE Regard!SaveChange(t) \/ Regard!PublishChange(t)
    <3>1. stage[t] \in Regard!Changing
      BY <2>2 DEF Regard!SaveChange, Regard!PublishChange, Regard!Changing
    <3>2. stage[u] \notin Regard!Changing
      BY <1>1, <1>2, <3>1 DEF OneChange
    <3> QED
      BY <2>1, <3>2 DEF Prepared, Regard!Changing
  <2>3. CASE ~(Regard!SaveChange(t) \/ Regard!PublishChange(t))
    <3>1. UNCHANGED <<changes, live>>
      BY <1>2, <2>3, OthersLeaveAlone DEF Regard!Step
    <3> QED
      BY <1>1, <2>1, <3>1 DEF Prepared, Regard!Stored
  <2> QED
    BY <2>2, <2>3
<1>3. CASE Regard!Restart
  BY <1>3 DEF Regard!Restart
<1>4. CASE UNCHANGED Regard!vars
  BY <1>1, <1>4 DEF Regard!vars, Prepared, Regard!Stored
<1> QED
  BY <1>2, <1>3, <1>4, PreparedByOwnStep DEF Regard!Next

LEMMA RegardInitOrder == Regard!Init => RegardOrder
<1> SUFFICES ASSUME Regard!Init PROVE RegardOrder
  OBVIOUS
<1>1. DOMAIN changes = {} /\ \A r \in Relation : live[r] = 0
  BY DEF Regard!Init
<1>2. \A t \in Thread : stage[t] = "idle"
  BY DEF Regard!Init
<1>3. OneChange /\ \A t \in Thread : Prepared(t)
  BY <1>2 DEF OneChange, Prepared, Regard!Changing
<1>4. MemoryFollows /\ OnlyTheLastIsPending
  BY <1>1 DEF MemoryFollows, OnlyTheLastIsPending
<1> QED
  BY <1>3, <1>4 DEF RegardOrder

LEMMA RegardNextOrder ==
    RegardInv /\ RegardSafe /\ RegardOrder /\ [Regard!Next]_Regard!vars => RegardOrder'
<1> SUFFICES ASSUME RegardInv, RegardSafe, RegardOrder, [Regard!Next]_Regard!vars, orderly'
             PROVE  (/\ OneChange /\ MemoryFollows /\ OnlyTheLastIsPending
                     /\ \A t \in Thread : Prepared(t))'
  BY DEF RegardOrder
<1>1. orderly
  <2>1. CASE UNCHANGED Regard!vars
    BY <2>1 DEF Regard!vars
  <2>2. CASE Regard!Restart
    BY <2>2 DEF Regard!Restart
  <2> QED
    BY <2>1, <2>2, StepOfOne DEF Regard!Next
<1>2. OneChange'
  BY NextOneChange DEF RegardOrder
<1>3. Pending'
  BY <1>1, NextPending
<1>4. \A t \in Thread : Prepared(t)'
  BY <1>1, NextPrepared
<1> QED
  BY <1>2, <1>3, <1>4 DEF Pending

\* As long as changes do not overlap and the process lives, memory is never more than
\* the last change behind the row, even if answers are lost and changes are repeated
\* (MindStore.apply_relationship_change, cognition/store.py:163-185).
THEOREM MemoryAlwaysClose ==
    ASSUME Bounded PROVE Regard!Spec => []MemoryIsCloseBehind
<1>1. RegardInv /\ RegardSafe /\ RegardOrder => MemoryIsCloseBehind
  <2> SUFFICES ASSUME RegardInv, RegardSafe, RegardOrder, orderly, NEW r \in Relation
               PROVE  \/ live[r] = row[r]
                      \/ \E i \in DOMAIN changes :
                             /\ Latest(changes, r, i, Len(changes))
                             /\ live[r] = changes[i].before
    BY DEF MemoryIsCloseBehind
  <2>1. DOMAIN changes = 1..Len(changes)
    BY DEF RegardInv, Regard!TypeOK
  <2>2. Explained(changes, r, Len(changes), row[r])
    BY InstanceMeans DEF RegardSafe, RowsAreExplained
  <2>3. MemoryFollows
    BY DEF RegardOrder
  <2>4. CASE row[r] = 0 /\ \A i \in DOMAIN changes : changes[i].relation # r
    BY <2>3, <2>4 DEF MemoryFollows
  <2>5. ASSUME NEW i \in DOMAIN changes, Latest(changes, r, i, Len(changes)),
               row[r] = changes[i].after
        PROVE  live[r] \in {row[r], changes[i].before}
    BY <2>3, <2>5 DEF MemoryFollows, Latest, Regard!Latest
  <2> QED
    BY <2>1, <2>2, <2>4, <2>5 DEF Explained, Latest
<1> QED
  BY <1>1, RegardInitType, RegardNextType, RegardInitSafe, RegardNextSafe,
     RegardInitOrder, RegardNextOrder, PTL DEF Regard!Spec

(***************************************************************************)
(* Decisions.  What the planner returns, for every problem it is given: an *)
(* invariant of its search, and then of the threads that carry a decision  *)
(* from the engine to the traces.                                          *)
(***************************************************************************)
\* Induction over the naturals, for a set instead of a predicate.
LEMMA CountUp ==
    ASSUME NEW S, 0 \in S, \A n \in Nat : n \in S => n + 1 \in S
    PROVE  Nat \subseteq S
<1> DEFINE T == Nat \ S
<1> SUFFICES ASSUME T # {} PROVE FALSE
  OBVIOUS
<1>1. PICK n \in T : \A m \in T : ~ (<<m, n>> \in OpToRel(<, Nat))
  BY NatLessThanWellFounded, WFMin, Zenon
<1>2. n \in Nat /\ n # 0
  OBVIOUS
<1>3. n - 1 \in Nat /\ n - 1 < n /\ n - 1 + 1 = n
  BY <1>2
<1>4. n - 1 \in T
  BY <1>2, <1>3
<1>5. <<n - 1, n>> \in OpToRel(<, Nat)
  BY <1>2, <1>3 DEF OpToRel
<1> QED
  BY <1>1, <1>4, <1>5

(***************************************************************************)
(* Paths.                                                                  *)
(***************************************************************************)
\* The facts of the situation after k steps, and their values.
LEMMA CarriedFacts ==
    ASSUME NEW problem, NEW path, NEW k, NEW fact
    PROVE  fact \in DOMAIN Carried(problem, path, k) <=>
               \/ fact \in DOMAIN problem.situation
               \/ \E i \in 1..k : fact \in DOMAIN Effects(problem, path, i)
<1>1. DOMAIN Carried(problem, path, k) = DOMAIN problem.situation \cup
                                  UNION {DOMAIN Effects(problem, path, i) : i \in 1..k}
  BY Zenon DEF Carried
<1> QED
  BY <1>1, Zenon

LEMMA CarriedValue ==
    ASSUME NEW problem, NEW path, NEW k, NEW fact \in DOMAIN Carried(problem, path, k),
           NEW last, last = LastEffects(problem, path, k, fact)
    PROVE  Carried(problem, path, k)[fact] =
               IF last = {} THEN problem.situation[fact]
               ELSE Effects(problem, path, CHOOSE i \in last : TRUE)[fact]
<1> DEFINE facts == DOMAIN problem.situation \cup
                        UNION {DOMAIN Effects(problem, path, i) : i \in 1..k}
<1>1. fact \in facts
  BY CarriedFacts, Zenon
<1>2. Carried(problem, path, k) = [f \in facts |->
        IF LastEffects(problem, path, k, f) = {} THEN problem.situation[f]
        ELSE Effects(problem, path, CHOOSE i \in LastEffects(problem, path, k, f) : TRUE)[f]]
  BY Zenon DEF Carried
<1> HIDE DEF facts
<1> QED
  BY <1>1, <1>2

\* A longer path has the same effects, as far as the shorter one goes.
LEMMA EffectsStay ==
    ASSUME NEW problem, NEW T, NEW path \in Seq(T), NEW name \in T, NEW i \in 1..Len(path)
    PROVE  Effects(problem, Append(path, name), i) = Effects(problem, path, i)
<1>1. Append(path, name)[i] = path[i]
  OBVIOUS
<1> QED
  BY <1>1, Zenon DEF Effects

LEMMA LastStays ==
    ASSUME NEW problem, NEW T, NEW path \in Seq(T), NEW name \in T, NEW k \in 0..Len(path),
           NEW fact
    PROVE  LastEffects(problem, Append(path, name), k, fact)
               = LastEffects(problem, path, k, fact)
<1> DEFINE long == Append(path, name)
<1>1. \A i \in 1..k : Effects(problem, long, i) = Effects(problem, path, i)
  <2>1. \A i \in 1..k : i \in 1..Len(path)
    OBVIOUS
  <2> QED
    BY <2>1, EffectsStay
<1>2. \A i \in 1..k : \A j \in (i + 1)..k : j \in 1..k
  OBVIOUS
<1> HIDE DEF long
<1>3. ASSUME NEW i \in 1..k
      PROVE  i \in LastEffects(problem, long, k, fact) <=> i \in LastEffects(problem, path, k, fact)
  <2>1. \A j \in (i + 1)..k : Effects(problem, long, j) = Effects(problem, path, j)
    BY <1>1, <1>2
  <2> QED
    BY <1>1, <2>1, Zenon DEF LastEffects
<1>4. LastEffects(problem, long, k, fact) = LastEffects(problem, path, k, fact)
  <2>1. /\ LastEffects(problem, long, k, fact) \subseteq 1..k
        /\ LastEffects(problem, path, k, fact) \subseteq 1..k
    BY Zenon DEF LastEffects
  <2> QED
    BY <1>3, <2>1, Zenon
<1> QED
  BY <1>4 DEF long

\* The situations on the way are the same, too.
LEMMA CarriedStays ==
    ASSUME NEW problem, NEW T, NEW path \in Seq(T), NEW name \in T, NEW k \in 0..Len(path)
    PROVE  Carried(problem, Append(path, name), k) = Carried(problem, path, k)
<1> DEFINE long == Append(path, name)
<1>1. \A fact : LastEffects(problem, long, k, fact) = LastEffects(problem, path, k, fact)
  BY LastStays, Zenon
<1>2. \A i \in 1..k : Effects(problem, long, i) = Effects(problem, path, i)
  <2>1. \A i \in 1..k : i \in 1..Len(path)
    OBVIOUS
  <2> QED
    BY <2>1, EffectsStay
<1> HIDE DEF long
<1>3. UNION {DOMAIN Effects(problem, long, i) : i \in 1..k}
        = UNION {DOMAIN Effects(problem, path, i) : i \in 1..k}
  BY <1>2, Zenon
<1>4. ASSUME NEW fact, LastEffects(problem, path, k, fact) # {}
      PROVE  LET last == LastEffects(problem, path, k, fact)
             IN  Effects(problem, long, CHOOSE i \in last : TRUE)
                     = Effects(problem, path, CHOOSE i \in last : TRUE)
  <2>1. PICK last : last = LastEffects(problem, path, k, fact)
    OBVIOUS
  <2>2. last \subseteq 1..k /\ last # {}
    BY <1>4, <2>1, Zenon DEF LastEffects
  <2>3. (CHOOSE i \in last : TRUE) \in 1..k
    BY <2>2, Zenon
  <2> QED
    BY <1>2, <2>1, <2>3, Zenon
<1> DEFINE Last(p, fact) ==
        LET last == LastEffects(problem, p, k, fact)
        IN  IF last = {} THEN problem.situation[fact]
            ELSE Effects(problem, p, CHOOSE i \in last : TRUE)[fact]
           Facts(p) == DOMAIN problem.situation \cup UNION {DOMAIN Effects(problem, p, i) : i \in 1..k}
<1>5. ASSUME NEW fact PROVE Last(long, fact) = Last(path, fact)
  <2>0. LastEffects(problem, long, k, fact) = LastEffects(problem, path, k, fact)
    BY <1>1
  <2>1. CASE LastEffects(problem, path, k, fact) = {}
    BY <2>0, <2>1
  <2>2. CASE LastEffects(problem, path, k, fact) # {}
    <3>1. LastEffects(problem, long, k, fact) # {}
      BY <2>0, <2>2
    <3> QED
      BY <2>0, <1>4, <2>2, <3>1
  <2> QED
    BY <2>1, <2>2
<1>6. Facts(long) = Facts(path)
  BY <1>3
<1>7. /\ Carried(problem, long, k) = [fact \in Facts(long) |-> Last(long, fact)]
      /\ Carried(problem, path, k) = [fact \in Facts(path) |-> Last(path, fact)]
  BY Zenon DEF Carried
<1> HIDE DEF Last, Facts
<1>8. Carried(problem, long, k) = Carried(problem, path, k)
  BY <1>5, <1>6, <1>7, Zenon
<1> QED
  BY <1>8 DEF long

\* One situation has the facts of another.
Agree(at, other) ==
    DOMAIN at = DOMAIN other /\ \A fact \in DOMAIN other : at[fact] = other[fact]

\* Before the first step the situation is that of the problem.
LEMMA CarriedFirst ==
    ASSUME NEW problem
    PROVE  Agree(problem.situation, Carried(problem, <<>>, 0))
<1>1. 1..0 = {}
  OBVIOUS
<1>2. \A fact : LastEffects(problem, <<>>, 0, fact) = {}
  BY <1>1, Zenon DEF LastEffects
<1>3. UNION {DOMAIN Effects(problem, <<>>, i) : i \in 1..0} = {}
  BY <1>1, Zenon
<1>4. Carried(problem, <<>>, 0) = [fact \in DOMAIN problem.situation |-> problem.situation[fact]]
  BY <1>2, <1>3, Zenon DEF Carried
<1> QED
  BY <1>4, Zenon DEF Agree

\* A step changes the situation by its effects.
LEMMA CarriedNext ==
    ASSUME NEW problem, IsProblem(problem), NEW T, NEW path \in Seq(T),
           NEW step \in problem.steps, step.name \in T,
           NEW at, Agree(at, Carried(problem, path, Len(path)))
    PROVE  Agree(Updated(at, step.effects),
                 Carried(problem, Append(path, step.name), Len(path) + 1))
<1> DEFINE long == Append(path, step.name)
           n == Len(path)
           old == Carried(problem, path, n)
           new == Carried(problem, long, n + 1)
<1>1. n \in Nat /\ long[n + 1] = step.name /\ n \in 0..Len(path)
  OBVIOUS
<1>2. Effects(problem, long, n + 1) = step.effects
  <2>1. \A s \in problem.steps : s.name = step.name => s = step
    BY DEF IsProblem
  <2>2. Named(problem, step.name) = step
    BY <2>1, Zenon DEF Named
  <2> QED
    BY <1>1, <2>2, Zenon DEF Effects
<1>3. old = Carried(problem, long, n)
  BY <1>1, CarriedStays
<1> HIDE DEF long, old, new, n
<1>4. DOMAIN new = DOMAIN old \cup DOMAIN step.effects
  <2>1. \A i : i \in 1..(n + 1) <=> i \in 1..n \/ i = n + 1
    BY <1>1
  <2>2. \A fact : fact \in DOMAIN new <=>
            \/ fact \in DOMAIN problem.situation
            \/ \E i \in 1..(n + 1) : fact \in DOMAIN Effects(problem, long, i)
    BY Zenon, CarriedFacts DEF new
  <2>3. \A fact : fact \in DOMAIN old <=>
            \/ fact \in DOMAIN problem.situation
            \/ \E i \in 1..n : fact \in DOMAIN Effects(problem, long, i)
    BY <1>3, CarriedFacts, Zenon
  <2>4. \A fact : fact \in DOMAIN new <=> fact \in DOMAIN old \/ fact \in DOMAIN step.effects
    BY <1>2, <2>1, <2>2, <2>3, Zenon
  <2> QED
    BY <2>4
<1>5. ASSUME NEW fact \in DOMAIN step.effects PROVE new[fact] = step.effects[fact]
  <2>1. (n + 1) + 1 > n + 1 /\ n + 1 \in 1..(n + 1) /\ ((n + 1) + 1)..(n + 1) = {}
    BY <1>1
  <2>2. n + 1 \in LastEffects(problem, long, n + 1, fact)
    BY <1>2, <2>1, Zenon DEF LastEffects
  <2>3. \A i \in 1..(n + 1) : i = n + 1 \/ n + 1 \in (i + 1)..(n + 1)
    BY <1>1
  <2>4. \A i \in LastEffects(problem, long, n + 1, fact) : i = n + 1
    BY <1>2, <2>3, Zenon DEF LastEffects
  <2>5. (CHOOSE i \in LastEffects(problem, long, n + 1, fact) : TRUE) = n + 1
    BY <2>2, <2>4, Zenon
  <2>6. fact \in DOMAIN new
    BY <1>4
  <2> QED
    BY <1>2, <2>2, <2>5, <2>6, Zenon DEF new, Carried
<1>6. ASSUME NEW fact \in DOMAIN old, fact \notin DOMAIN step.effects
      PROVE  new[fact] = old[fact]
  <2>1. \A i \in 1..n : i \in 1..(n + 1) /\ (i + 1)..(n + 1) = (i + 1)..n \cup {n + 1}
    BY <1>1
  <2>2. 1..(n + 1) = 1..n \cup {n + 1}
    BY <1>1
  <2>3. LastEffects(problem, long, n + 1, fact) = LastEffects(problem, long, n, fact)
    <3>1. ASSUME NEW i \in 1..n
          PROVE  i \in LastEffects(problem, long, n + 1, fact)
                     <=> i \in LastEffects(problem, long, n, fact)
      <4>1. i \in 1..(n + 1) /\ (i + 1)..(n + 1) = (i + 1)..n \cup {n + 1}
        BY <2>1
      <4>2. (\A j \in (i + 1)..(n + 1) : fact \notin DOMAIN Effects(problem, long, j))
               <=> \A j \in (i + 1)..n : fact \notin DOMAIN Effects(problem, long, j)
        BY <1>2, <1>6, <4>1, Zenon
      <4> QED
        BY <4>1, <4>2, Zenon DEF LastEffects
    <3>2. n + 1 \notin LastEffects(problem, long, n + 1, fact)
      BY <1>2, <1>6, Zenon DEF LastEffects
    <3>3. /\ LastEffects(problem, long, n + 1, fact) \subseteq 1..(n + 1)
          /\ LastEffects(problem, long, n, fact) \subseteq 1..n
      BY Zenon DEF LastEffects
    <3> QED
      BY <2>2, <3>1, <3>2, <3>3, Zenon
  <2>4. fact \in DOMAIN new
    BY <1>4, <1>6
  <2>5. PICK last : last = LastEffects(problem, long, n, fact)
    OBVIOUS
  <2>6. new[fact] = IF last = {} THEN problem.situation[fact]
                    ELSE Effects(problem, long, CHOOSE i \in last : TRUE)[fact]
    <3>1. last = LastEffects(problem, long, n + 1, fact)
      BY <2>3, <2>5
    <3>2. fact \in DOMAIN Carried(problem, long, n + 1)
      BY <2>4 DEF new
    <3> QED
      BY <3>1, <3>2, CarriedValue DEF new
  <2>7. old[fact] = IF last = {} THEN problem.situation[fact]
                    ELSE Effects(problem, long, CHOOSE i \in last : TRUE)[fact]
    <3>1. fact \in DOMAIN Carried(problem, long, n)
      BY <1>3, <1>6
    <3> QED
      BY <1>3, <2>5, <3>1, CarriedValue
  <2> QED
    BY <2>6, <2>7
<1>7. Agree(at, old)
  BY DEF old, n
<1>8. Agree(Updated(at, step.effects), new)
  <2>1. DOMAIN Updated(at, step.effects) = DOMAIN at \cup DOMAIN step.effects
    BY Zenon DEF Updated
  <2>2. DOMAIN at = DOMAIN old
    BY <1>7 DEF Agree
  <2>3. ASSUME NEW fact \in DOMAIN new PROVE Updated(at, step.effects)[fact] = new[fact]
    <3>1. CASE fact \in DOMAIN step.effects
      <4>1. Updated(at, step.effects)[fact] = step.effects[fact]
        BY <3>1, Zenon DEF Updated
      <4> QED
        BY <1>5, <3>1, <4>1
    <3>2. CASE fact \notin DOMAIN step.effects
      <4>1. fact \in DOMAIN old /\ fact \in DOMAIN at
        BY <1>4, <2>2, <3>2
      <4>2. Updated(at, step.effects)[fact] = at[fact]
        BY <3>2, <4>1, Zenon DEF Updated
      <4>3. at[fact] = old[fact]
        BY <1>7, <4>1, Zenon DEF Agree
      <4> QED
        BY <1>6, <3>2, <4>1, <4>2, <4>3
    <3> QED
      BY <3>1, <3>2
  <2> QED
    BY <1>4, <2>1, <2>2, <2>3, Zenon DEF Agree
<1> QED
  BY <1>8 DEF new, long, n

(***************************************************************************)
(* The search.                                                             *)
(***************************************************************************)
\* What agrees with a situation meets the same requirements.
LEMMA AgreeSatisfies ==
    ASSUME NEW at, NEW other, NEW required, Agree(at, other), Satisfies(at, required)
    PROVE  Satisfies(other, required)
<1>1. DOMAIN at = DOMAIN other /\ \A fact \in DOMAIN other : at[fact] = other[fact]
  BY Zenon DEF Agree
<1> QED
  BY <1>1, Zenon DEF Satisfies, ValueOf

Names(problem) == {step.name : step \in problem.steps}

\* Every step of a path finds what it needs.
Feasible(problem, path) ==
    \A i \in 1..Len(path) : \E step \in problem.steps :
        step.name = path[i] /\ Satisfies(Carried(problem, path, i - 1), step.needs)

\* A node is reached by the steps of its path.
Reaches(node, problem) ==
    /\ node.path \in Seq(Names(problem)) /\ Len(node.path) \in 0..problem.depth
    /\ Feasible(problem, node.path)
    /\ Agree(node.at, Carried(problem, node.path, Len(node.path)))

LEMMA ChildReaches ==
    ASSUME NEW problem, IsProblem(problem), NEW node, Reaches(node, problem),
           Len(node.path) < problem.depth,
           NEW step \in problem.steps, MayTake(node, step)
    PROVE  Reaches(Child(node, step), problem)
<1> DEFINE path == node.path
           long == Append(path, step.name)
<1>1. /\ Child(node, step).path = long
      /\ Child(node, step).at = Updated(node.at, step.effects)
  BY DEF Child
<1>2. step.name \in Names(problem)
  BY Zenon DEF Names
<1>3. path \in Seq(Names(problem)) /\ Len(path) \in 0..problem.depth /\ problem.depth \in Nat
  BY Zenon DEF Reaches, IsProblem
<1>4. /\ long \in Seq(Names(problem)) /\ Len(long) = Len(path) + 1
      /\ Len(long) \in 0..problem.depth
      /\ \A i \in 1..Len(path) : long[i] = path[i]
      /\ long[Len(path) + 1] = step.name
  BY <1>2, <1>3
<1>5. \A k \in 0..Len(path) : Carried(problem, long, k) = Carried(problem, path, k)
  BY <1>2, <1>3, CarriedStays
<1>6. Agree(node.at, Carried(problem, path, Len(path)))
  BY Zenon DEF Reaches
<1>7. Feasible(problem, long)
  <2>1. SUFFICES ASSUME NEW i \in 1..Len(long)
                 PROVE  \E s \in problem.steps : /\ s.name = long[i]
                                                 /\ Satisfies(Carried(problem, long, i - 1), s.needs)
    BY Zenon DEF Feasible
  <2>2. CASE i \in 1..Len(path)
    <3>1. PICK s \in problem.steps :
              s.name = path[i] /\ Satisfies(Carried(problem, path, i - 1), s.needs)
      BY <2>2, Zenon DEF Reaches, Feasible
    <3>2. i - 1 \in 0..Len(path)
      BY <1>3, <2>2
    <3>3. Carried(problem, long, i - 1) = Carried(problem, path, i - 1) /\ long[i] = path[i]
      BY <1>4, <1>5, <2>2, <3>2
    <3> HIDE DEF long, path
    <3> QED
      BY <3>1, <3>3, Zenon
  <2>3. CASE i = Len(path) + 1
    <3>1. i - 1 = Len(path) /\ Len(path) \in 0..Len(path) /\ long[i] = step.name
      BY <1>3, <1>4, <2>3
    <3>2. Satisfies(node.at, step.needs)
      BY Zenon DEF MayTake
    <3>3. Satisfies(Carried(problem, path, Len(path)), step.needs)
      BY <1>6, <3>2, AgreeSatisfies, Zenon
    <3>4. Carried(problem, long, i - 1) = Carried(problem, path, Len(path))
      BY <1>5, <3>1
    <3> HIDE DEF long, path
    <3> QED
      BY <3>1, <3>3, <3>4, Zenon
  <2>4. i \in 1..Len(path) \/ i = Len(path) + 1
    BY <1>3, <1>4
  <2> QED
    BY <2>2, <2>3, <2>4
<1>8. Agree(Updated(node.at, step.effects), Carried(problem, long, Len(long)))
  BY <1>2, <1>3, <1>4, <1>6, CarriedNext
<1> HIDE DEF long, path
<1> QED
  BY <1>1, <1>4, <1>7, <1>8 DEF Reaches

\* What is queued was reached, and what was found meets the goal.
GoodSearch(search, problem) ==
    /\ search = [queue |-> search.queue, best |-> search.best,
                 explored |-> search.explored, found |-> search.found]
    /\ \A node \in search.queue : Reaches(node, problem)
    /\ \A node \in search.found : Reaches(node, problem) /\ Satisfies(node.at, problem.goal)

LEMMA StartGood ==
    ASSUME NEW problem, IsProblem(problem)
    PROVE  GoodSearch(Start(problem), problem)
<1> DEFINE node == [cost |-> 0, path |-> <<>>, at |-> problem.situation]
<1>1. Reaches(node, problem)
  <2>1. /\ node.path = <<>> /\ node.at = problem.situation
        /\ Len(<<>>) = 0 /\ <<>> \in Seq(Names(problem)) /\ 1..0 = {}
    OBVIOUS
  <2>2. 0 \in 0..problem.depth
    BY DEF IsProblem
  <2>3. Feasible(problem, <<>>)
    BY <2>1, Zenon DEF Feasible
  <2>4. Agree(problem.situation, Carried(problem, <<>>, 0))
    BY CarriedFirst
  <2> HIDE DEF node
  <2> QED
    BY <2>1, <2>2, <2>3, <2>4 DEF Reaches
<1>2. /\ Start(problem).queue = {node} /\ Start(problem).found = {}
      /\ Start(problem) = [queue |-> Start(problem).queue, best |-> Start(problem).best,
                 explored |-> Start(problem).explored, found |-> Start(problem).found]
  BY DEF Start
<1> HIDE DEF node
<1> QED
  BY <1>1, <1>2, Zenon DEF GoodSearch

LEMMA ExpandedGood ==
    ASSUME NEW problem, IsProblem(problem), NEW search, GoodSearch(search, problem),
           ~Over(search, problem)
    PROVE  GoodSearch(Expanded(search, problem), problem)
<1> DEFINE node == CHOOSE n \in Heads(search.queue) : TRUE
           rest == [search EXCEPT !.queue = @ \ {node}]
           counted == [rest EXCEPT !.explored = @ + 1]
           children == Children(search, node, problem)
<1>1. node \in search.queue
  <2>1. Heads(search.queue) # {}
    BY Zenon DEF Over
  <2>2. Heads(search.queue) \subseteq search.queue
    BY Zenon DEF Heads
  <2> QED
    BY <2>1, <2>2, Zenon
<1>2. Reaches(node, problem)
  BY <1>1, Zenon DEF GoodSearch
<1>3. search = [queue |-> search.queue, best |-> search.best,
                explored |-> search.explored, found |-> search.found]
  BY Zenon DEF GoodSearch
<1> HIDE DEF node
<1>4. rest = [queue |-> search.queue \ {node}, best |-> search.best,
              explored |-> search.explored, found |-> search.found]
  BY <1>3
<1> HIDE DEF rest
<1>5. counted = [queue |-> search.queue \ {node}, best |-> search.best,
              explored |-> search.explored + 1, found |-> search.found]
  BY <1>4
<1> HIDE DEF counted
<1>6. GoodSearch(rest, problem) /\ GoodSearch(counted, problem)
  BY <1>4, <1>5, Zenon DEF GoodSearch
<1>7. ASSUME Len(node.path) < problem.depth, NEW child \in children
      PROVE  Reaches(child, problem)
  <2>1. PICK step \in problem.steps : MayTake(node, step) /\ child = Child(node, step)
    BY <1>7, Zenon DEF Children
  <2> QED
    BY <1>2, <1>7, <2>1, ChildReaches
<1>8. CASE node.cost > search.best[node.at]
  <2>1. Expanded(search, problem) = rest
    BY <1>8 DEF Expanded, node, rest, counted
  <2> QED
    BY <1>6, <2>1
<1>9. CASE ~(node.cost > search.best[node.at]) /\ Satisfies(node.at, problem.goal)
  <2>1. Expanded(search, problem) = [counted EXCEPT !.found = {node}]
    BY <1>9 DEF Expanded, node, rest, counted
  <2>2. [counted EXCEPT !.found = {node}]
            = [queue |-> search.queue \ {node}, best |-> search.best,
               explored |-> search.explored + 1, found |-> {node}]
    BY <1>5
  <2> QED
    BY <1>2, <1>5, <1>6, <1>9, <2>1, <2>2 DEF GoodSearch
<1>10. CASE /\ ~(node.cost > search.best[node.at]) /\ ~Satisfies(node.at, problem.goal)
            /\ Len(node.path) >= problem.depth
  <2>1. Expanded(search, problem) = counted
    BY <1>10 DEF Expanded, node, rest, counted
  <2> QED
    BY <1>6, <2>1
<1>11. CASE /\ ~(node.cost > search.best[node.at]) /\ ~Satisfies(node.at, problem.goal)
            /\ ~(Len(node.path) >= problem.depth)
  <2> DEFINE queue == counted.queue \cup children
             best == Lowered(counted.best, children)
  <2>1. Expanded(search, problem) = [counted EXCEPT !.queue = queue, !.best = best]
    BY <1>11 DEF Expanded, node, rest, counted
  <2> HIDE DEF children
  <2>5. queue = (search.queue \ {node}) \cup children
    BY <1>5
  <2> HIDE DEF queue, best
  <2>2. [counted EXCEPT !.queue = queue, !.best = best]
            = [queue |-> queue, best |-> best,
               explored |-> search.explored + 1, found |-> search.found]
    <3> DEFINE longer == [counted EXCEPT !.queue = queue]
    <3>1. [counted EXCEPT !.queue = queue, !.best = best] = [longer EXCEPT !.best = best]
      OBVIOUS
    <3>2. longer = [queue |-> queue, best |-> search.best,
                    explored |-> search.explored + 1, found |-> search.found]
      BY <1>5
    <3> HIDE DEF longer
    <3>3. [longer EXCEPT !.best = best]
              = [queue |-> queue, best |-> best,
                 explored |-> search.explored + 1, found |-> search.found]
      BY <3>2
    <3> QED
      BY <3>1, <3>3
  <2>3. Len(node.path) < problem.depth
    BY <1>2, <1>11 DEF Reaches, IsProblem
  <2>4. \A child \in children : Reaches(child, problem)
    BY <1>7, <2>3 DEF children
  <2> QED
    BY <1>5, <1>6, <2>1, <2>2, <2>4, <2>5 DEF GoodSearch
<1> QED
  BY <1>8, <1>9, <1>10, <1>11

\* The states of a search, up to the n-th.
Searching(problem, n, after) ==
    after = [k \in 0..n |->
                IF k = 0 THEN Start(problem)
                ELSE LET before == after[k - 1]
                     IN  IF Over(before, problem) THEN before ELSE Expanded(before, problem)]

LEMMA SearchingExists ==
    ASSUME NEW problem, NEW n \in Nat
    PROVE  \E after : Searching(problem, n, after)
<1> DEFINE After(before) == IF Over(before, problem) THEN before ELSE Expanded(before, problem)
           S == {m \in Nat : \E after : Searching(problem, m, after)}
<1>1. 0 \in S
  <2> DEFINE after == [k \in 0..0 |-> Start(problem)]
  <2>1. \A k \in 0..0 : k = 0
    OBVIOUS
  <2>2. Searching(problem, 0, after)
    BY <2>1, Zenon DEF Searching
  <2> QED
    BY <2>2, Zenon
<1>2. ASSUME NEW m \in Nat, m \in S PROVE m + 1 \in S
  <2>1. PICK old : Searching(problem, m, old)
    BY <1>2, Zenon
  <2> DEFINE last == After(old[m])
             new == [k \in 0..(m + 1) |-> IF k = m + 1 THEN last ELSE old[k]]
  <2>2. \A k \in 0..(m + 1) : new[k] = IF k = 0 THEN Start(problem) ELSE After(new[k - 1])
    <3> HIDE DEF After
    <3>1. ASSUME NEW k \in 0..m
          PROVE  old[k] = IF k = 0 THEN Start(problem) ELSE After(old[k - 1])
      BY <2>1, Zenon DEF Searching, After
    <3> HIDE DEF last
    <3>2. ASSUME NEW k \in 0..(m + 1), k = m + 1
          PROVE  new[k] = IF k = 0 THEN Start(problem) ELSE After(new[k - 1])
      <4>1. k # 0 /\ k - 1 = m /\ m \in 0..(m + 1) /\ m # m + 1
        BY <3>2
      <4>2. new[k] = last /\ new[m] = old[m]
        BY <3>2, <4>1
      <4> QED
        BY <4>1, <4>2 DEF last
    <3>3. ASSUME NEW k \in 0..(m + 1), k # m + 1
          PROVE  new[k] = IF k = 0 THEN Start(problem) ELSE After(new[k - 1])
      <4>1. k \in 0..m /\ new[k] = old[k]
        BY <3>3
      <4>2. k # 0 => k - 1 \in 0..(m + 1) /\ k - 1 # m + 1
        BY <3>3
      <4>3. k # 0 => new[k - 1] = old[k - 1]
        BY <4>2
      <4> HIDE DEF new
      <4> QED
        BY <3>1, <4>1, <4>3
    <3> QED
      BY <3>2, <3>3
  <2> HIDE DEF last
  <2>3. new = [k \in 0..(m + 1) |-> IF k = 0 THEN Start(problem) ELSE After(new[k - 1])]
    <3> DEFINE V(k) == IF k = 0 THEN Start(problem) ELSE After(new[k - 1])
               W(k) == IF k = m + 1 THEN last ELSE old[k]
    <3>1. \A k \in 0..(m + 1) : new[k] = V(k) /\ new[k] = W(k)
      BY <2>2
    <3>2. \A k \in 0..(m + 1) : V(k) = W(k)
      BY <3>1, Zenon
    <3>3. new = [k \in 0..(m + 1) |-> W(k)]
      OBVIOUS
    <3> HIDE DEF V, W, new
    <3>4. new = [k \in 0..(m + 1) |-> V(k)]
      BY <3>2, <3>3, Zenon
    <3> QED
      BY <3>4 DEF V
  <2> HIDE DEF new
  <2>4. Searching(problem, m + 1, new)
    BY <2>3, Zenon DEF Searching
  <2>5. m + 1 \in Nat
    OBVIOUS
  <2> QED
    BY <2>4, <2>5, Zenon
<1>3. n \in S
  <2> HIDE DEF S
  <2> QED
    BY <1>1, <1>2, CountUp
<1> QED
  BY <1>3, Zenon

LEMMA SearchIs ==
    ASSUME NEW problem, Pops(problem) \in Nat
    PROVE  Searching(problem, Pops(problem), Search(problem))
<1>1. \E after : Searching(problem, Pops(problem), after)
  BY SearchingExists
<1>2. Search(problem) = CHOOSE after : Searching(problem, Pops(problem), after)
  BY Zenon DEF Search, Searching
<1> QED
  BY <1>1, <1>2, Zenon

LEMMA PopsType ==
    ASSUME NEW problem, IsProblem(problem)
    PROVE  Pops(problem) \in Nat
<1>1. Cardinality(problem.steps) \in Nat
  BY FS_CardinalityType DEF IsProblem
<1>2. problem.nodes \in Nat
  BY Zenon DEF IsProblem
<1>3. \A a, b \in Nat : 1 + a * b \in Nat
  OBVIOUS
<1> QED
  BY <1>1, <1>2, <1>3, Zenon DEF Pops

LEMMA SearchGood ==
    ASSUME NEW problem, IsProblem(problem), NEW k \in 0..Pops(problem)
    PROVE  GoodSearch(Search(problem)[k], problem)
<1>0. Pops(problem) \in Nat
  BY PopsType
<1>1. Searching(problem, Pops(problem), Search(problem))
  BY <1>0, SearchIs
<1> DEFINE n == Pops(problem)
           after == Search(problem)
           S == {m \in Nat : m \in 0..n => GoodSearch(after[m], problem)}
<1> HIDE DEF after, n
<1>2. \A m \in 0..n : after[m] = IF m = 0 THEN Start(problem)
                                 ELSE IF Over(after[m - 1], problem) THEN after[m - 1]
                                 ELSE Expanded(after[m - 1], problem)
  BY <1>1, Zenon DEF Searching, after, n
<1>3. 0 \in S
  <2>1. 0 \in 0..n => after[0] = Start(problem)
    BY <1>2, Zenon
  <2> QED
    BY <2>1, StartGood
<1>4. ASSUME NEW m \in Nat, m \in S PROVE m + 1 \in S
  <2>1. SUFFICES ASSUME m + 1 \in 0..n PROVE GoodSearch(after[m + 1], problem)
    OBVIOUS
  <2>2. m \in 0..n /\ m + 1 # 0 /\ (m + 1) - 1 = m
    BY <2>1, <1>0 DEF n
  <2>3. GoodSearch(after[m], problem)
    BY <1>4, <2>2
  <2>4. after[m + 1] = IF Over(after[m], problem) THEN after[m] ELSE Expanded(after[m], problem)
    BY <1>2, <2>1, <2>2
  <2>5. CASE Over(after[m], problem)
    BY <2>3, <2>4, <2>5
  <2>6. CASE ~Over(after[m], problem)
    <3>1. GoodSearch(Expanded(after[m], problem), problem)
      BY <2>3, <2>6, ExpandedGood
    <3> QED
      BY <2>4, <2>6, <3>1
  <2> QED
    BY <2>5, <2>6
<1>5. k \in Nat
  BY <1>0
<1>6. k \in S
  <2> HIDE DEF S
  <2> QED
    BY <1>3, <1>4, <1>5, CountUp
<1> QED
  BY <1>6 DEF n, after

\* A plan reaches the goal within the bound on its depth.
LEMMA PlanGood ==
    ASSUME NEW problem, IsProblem(problem), NEW path \in Plan(problem)
    PROVE  /\ path \in Seq(Names(problem)) /\ Len(path) \in 0..problem.depth
           /\ ReachesGoal(problem, path)
<1>1. PICK node \in Search(problem)[Pops(problem)].found : path = node.path
  BY Zenon DEF Plan
<1>2. Pops(problem) \in 0..Pops(problem)
  BY PopsType
<1>3. GoodSearch(Search(problem)[Pops(problem)], problem)
  BY <1>2, SearchGood
<1>4. Reaches(node, problem) /\ Satisfies(node.at, problem.goal)
  BY <1>3, Zenon DEF GoodSearch
<1>5. Satisfies(Carried(problem, path, Len(path)), problem.goal)
  BY <1>1, <1>4, AgreeSatisfies, Zenon DEF Reaches
<1> QED
  BY <1>1, <1>4, <1>5, Zenon DEF Reaches, Feasible, ReachesGoal

\* What a planner decides.
PlanFollowed(problem, decided) ==
    decided.tier = "PLANNER" =>
        /\ decided.action = {decided.plan[1]}
        /\ Len(decided.plan) \in 1..problem.depth
        /\ ReachesGoal(problem, decided.plan)

LEMMA DecidedGood ==
    ASSUME NEW problem, IsProblem(problem), NEW mayPlan, ~Raised(Decided(problem, mayPlan))
    PROVE  PlanFollowed(problem, Decided(problem, mayPlan))
<1> DEFINE reflex == Reflex(problem)
           clear == Clear(problem)
           plan == IF mayPlan /\ problem.steps # {} /\ DOMAIN problem.goal # {}
                     THEN Plan(problem) \ {<<>>} ELSE {}
           path == CHOOSE p \in plan : TRUE
           available(actions) == IF actions \subseteq DOMAIN problem.scores THEN actions ELSE {}
           planned == reflex = {} /\ ~clear /\ plan # {}
<1>1. CASE reflex # {}
  <2>1. Decided(problem, mayPlan).tier = "REFLEX"
    BY <1>1 DEF Decided
  <2> QED
    BY <2>1 DEF PlanFollowed
<1>2. CASE reflex = {} /\ clear
  <2>1. Decided(problem, mayPlan).tier = "UTILITY"
    BY <1>2 DEF Decided
  <2> QED
    BY <2>1 DEF PlanFollowed
<1>3. CASE planned
  <2>1. Decided(problem, mayPlan) = [tier |-> "PLANNER", plan |-> path, action |-> available({path[1]})]
    <3> HIDE DEF reflex, clear, plan
    <3>1. Decided(problem, mayPlan) =
              CASE reflex # {} -> [tier |-> "REFLEX", plan |-> <<>>, action |-> available(reflex)]
                [] reflex = {} /\ clear ->
                       [tier |-> "UTILITY", plan |-> <<>>,
                        action |-> available({Winner(problem.scores)})]
                [] reflex = {} /\ ~clear /\ plan # {} ->
                       [tier |-> "PLANNER", plan |-> path, action |-> available({path[1]})]
                [] OTHER -> [tier |-> "UTILITY", plan |-> <<>>,
                             action |-> available({Deliberated(problem.scores)})]
      BY Zenon DEF Decided, reflex, clear, plan
    <3> HIDE DEF path, available
    <3> QED
      BY <1>3, <3>1
  <2>2. path \in Plan(problem) /\ path # <<>>
    <3>1. plan # {} /\ plan \subseteq Plan(problem) \ {<<>>}
      BY <1>3
    <3> HIDE DEF plan
    <3>2. path \in plan
      BY <3>1, Zenon
    <3> QED
      BY <3>1, <3>2, Zenon
  <2> HIDE DEF path, available
  <2>3. /\ path \in Seq(Names(problem)) /\ Len(path) \in 0..problem.depth
        /\ ReachesGoal(problem, path)
    BY <2>2, PlanGood
  <2>4. Len(path) \in 1..problem.depth
    BY <2>2, <2>3 DEF IsProblem
  <2>5. available({path[1]}) # {}
    BY <2>1 DEF Raised
  <2>6. available({path[1]}) = {path[1]}
    BY <2>5 DEF available
  <2>7. Decided(problem, mayPlan).plan = path /\ Decided(problem, mayPlan).action = {path[1]}
    BY <2>1, <2>6
  <2> QED
    BY <2>3, <2>4, <2>7, Zenon DEF PlanFollowed
<1>4. CASE ~(reflex # {}) /\ ~(reflex = {} /\ clear) /\ ~planned
  <2>1. Decided(problem, mayPlan).tier = "UTILITY"
    BY <1>4 DEF Decided
  <2> QED
    BY <2>1 DEF PlanFollowed
<1> QED
  BY <1>1, <1>2, <1>3, <1>4

\* The decisions of the instance are those of DecisionEngine.
LEMMA SameDecisions ==
    ASSUME NEW problem \in Problem, NEW planned \in BOOLEAN
    PROVE  /\ Regard!Decision[problem][planned] = Decided(problem, planned)
           /\ \A decided : Regard!Raised(decided) <=> Raised(decided)
<1>0. Regard!Pops(problem) = Pops(problem)
  BY Zenon DEF Pops, Cardinality, Regard!Pops, Regard!Cardinality
<1> DEFINE Then(before) == IF Over(before, problem) THEN before ELSE Expanded(before, problem)
           States(after) ==
               after = [k \in 0..Pops(problem) |->
                           IF k = 0 THEN Start(problem) ELSE Then(after[k - 1])]
           RegardThen(before) == IF Regard!Over(before, problem) THEN before
                                 ELSE Regard!Expanded(before, problem)
           RegardStates(after) ==
               after = [k \in 0..Pops(problem) |->
                           IF k = 0 THEN Regard!Start(problem) ELSE RegardThen(after[k - 1])]
<1>1. Regard!Search(problem) = Search(problem)
  <2>1. \A queue : Regard!Heads(queue) = Heads(queue)
    BY Zenon DEF Heads, NodeBefore, PathBefore, Regard!Heads, Regard!NodeBefore,
       Regard!PathBefore
  <2>2. \A at, required : Regard!Satisfies(at, required) <=> Satisfies(at, required)
    BY Zenon DEF Satisfies, ValueOf, Regard!Satisfies, Regard!ValueOf
  <2>3. \A search, node : Regard!Children(search, node, problem) = Children(search, node, problem)
    BY Zenon DEF Children, MayTake, Satisfies, ValueOf, Child, Updated, Regard!Children,
       Regard!MayTake, Regard!Satisfies, Regard!ValueOf, Regard!Child, Regard!Updated
  <2>4. \A search : Regard!Over(search, problem) <=> Over(search, problem)
    BY <2>1, Zenon DEF Over, Regard!Over
  <2>5. ASSUME NEW search PROVE Regard!Expanded(search, problem) = Expanded(search, problem)
    <3> DEFINE Result(node, meets, children) ==
                   LET rest == [search EXCEPT !.queue = @ \ {node}]
                       counted == [rest EXCEPT !.explored = @ + 1]
                   IN  IF node.cost > search.best[node.at] THEN rest
                       ELSE IF meets THEN [counted EXCEPT !.found = {node}]
                       ELSE IF Len(node.path) >= problem.depth THEN counted
                       ELSE [counted EXCEPT !.queue = @ \cup children,
                                            !.best = Lowered(@, children)]
               node == CHOOSE n \in Heads(search.queue) : TRUE
               same == CHOOSE n \in Regard!Heads(search.queue) : TRUE
    <3>1. Expanded(search, problem) = Result(node, Satisfies(node.at, problem.goal),
                                             Children(search, node, problem))
      BY Zenon DEF Expanded
    <3>2. Regard!Expanded(search, problem)
            = Result(same, Regard!Satisfies(same.at, problem.goal),
                     Regard!Children(search, same, problem))
      BY Zenon DEF Regard!Expanded, Lowered, Regard!Lowered
    <3>3. node = same
      BY <2>1
    <3> HIDE DEF Result, node, same
    <3>4. Regard!Satisfies(same.at, problem.goal) = Satisfies(same.at, problem.goal)
      BY <2>2, Zenon DEF Satisfies, ValueOf, Regard!Satisfies, Regard!ValueOf
    <3> QED
      BY <2>3, <3>1, <3>2, <3>3, <3>4, Zenon
  <2>6. \A before : RegardThen(before) = Then(before)
    BY <2>4, <2>5
  <2>7. Regard!Start(problem) = Start(problem)
    BY Zenon DEF Start, Regard!Start
  <2> HIDE DEF Then, RegardThen
  <2>8. \A after : RegardStates(after) <=> States(after)
    BY <2>6, <2>7
  <2>9. /\ Search(problem) = CHOOSE after : States(after)
        /\ Regard!Search(problem) = CHOOSE after : RegardStates(after)
    BY <1>0, Zenon DEF Search, Then, Regard!Search, RegardThen
  <2> HIDE DEF States, RegardStates
  <2>10. (CHOOSE after : States(after)) = CHOOSE after : RegardStates(after)
    BY <2>8, Zenon
  <2> QED
    BY <2>9, <2>10, Zenon
<1>2. Regard!Plan(problem) = Plan(problem)
  BY <1>0, <1>1, Zenon DEF Plan, Regard!Plan
<1>3. Regard!Winner(problem.scores) = Winner(problem.scores)
  BY Zenon DEF Winner, First, Regard!Winner, Regard!First
<1>4. Regard!Reflex(problem) = Reflex(problem)
  BY Zenon DEF Reflex, Matches, First, Regard!Reflex, Regard!Matches, Regard!First
<1>5. Regard!Clear(problem) <=> Clear(problem)
  BY <1>3, Zenon DEF Clear, Regard!Clear
<1>6. Regard!Decided(problem, planned) = Decided(problem, planned)
  BY <1>2, <1>3, <1>4, <1>5, Zenon DEF Decided, Deliberated, Regard!Decided, Regard!Deliberated
<1>7. Regard!Decision[problem][planned] = Regard!Decided(problem, planned)
  BY DEF Regard!Decision
<1> QED
  BY <1>6, <1>7, Zenon DEF Raised, Regard!Raised

\* The threads that store a decision hold one that follows its plan, if it has one.
Proposing == {"save_trace", "record_trace"}

PlansFollowed ==
    \A t \in Thread : stage[t] \in Proposing => PlanFollowed(job[t], draft[t].id.decided)

LEMMA AskDecisionFollows ==
    ASSUME RegardInv, NEW t \in Thread, Regard!AskDecision(t)
    PROVE  PlanFollowed(job'[t], draft'[t].id.decided)
<1>1. PICK entity \in Entity, problem \in Problem, planned \in BOOLEAN :
          /\ ~Regard!Raised(Regard!Decision[problem][planned])
          /\ Regard!Begin(t, problem, "save_trace")
          /\ draft' = [draft EXCEPT ![t] = Regard!Trace(entity, problem,
                                                        Regard!Decision[problem][planned])]
  BY DEF Regard!AskDecision, Regard!MayPlan
<1>2. /\ Regard!Decision[problem][planned] = Decided(problem, planned)
      /\ ~Raised(Decided(problem, planned))
  BY <1>1, SameDecisions
<1>3. job'[t] = problem /\ draft'[t].id.decided = Decided(problem, planned)
  BY <1>1, <1>2 DEF RegardInv, Regard!Begin, Regard!Trace
<1>4. PlanFollowed(problem, Decided(problem, planned))
  BY <1>2, DecidedGood DEF RegardInv, Bounded
<1> QED
  BY <1>3, <1>4

\* Nobody else gets to a decision, and nothing happens to it on the way.
LEMMA OthersPropose ==
    ASSUME RegardInv, NEW t \in Thread, Regard!Step(t), ~Regard!AskDecision(t),
           stage'[t] \in Proposing
    PROVE  stage[t] \in Proposing /\ job'[t] = job[t] /\ draft'[t] = draft[t]
<1> USE DEF RegardInv, Regard!TypeOK, Proposing
<1>1. CASE Regard!AskChange(t) \/ Regard!AskRuntime(t)
  BY <1>1 DEF Regard!AskChange, Regard!AskRuntime, Regard!Begin, Regard!Goto
<1>2. CASE Regard!LookUpKnown(t) \/ Regard!LookUpStored(t) \/ Regard!ReadLive(t)
  BY <1>2 DEF Regard!LookUpKnown, Regard!LookUpStored, Regard!LookUp, Regard!ReadLive,
     Regard!Goto
<1>3. CASE Regard!PublishChange(t) \/ Regard!SetRuntime(t) \/ Regard!RecordTrace(t)
  BY <1>3 DEF Regard!PublishChange, Regard!SetRuntime, Regard!RecordTrace, Regard!Leave,
     Regard!Goto
<1>4. CASE Regard!SaveChange(t)
  <2>1. Regard!Goto(t, "publish_change") \/ Regard!Leave(t)
    BY <1>4, SaveChangeCases
  <2> QED
    BY <2>1 DEF Regard!Leave, Regard!Goto
<1>5. CASE Regard!SaveRuntime(t) \/ Regard!SaveFails(t)
  BY <1>5 DEF Regard!SaveRuntime, Regard!SaveFails, Regard!Committed, Regard!Leave,
     Regard!Goto
<1>6. CASE Regard!SaveTrace(t)
  BY <1>6 DEF Regard!SaveTrace, Regard!Committed, Regard!Leave, Regard!Goto
<1> QED
  BY <1>1, <1>2, <1>3, <1>4, <1>5, <1>6 DEF Regard!Step

LEMMA NextFollowed ==
    RegardInv /\ PlansFollowed /\ [Regard!Next]_Regard!vars => PlansFollowed'
<1> SUFFICES ASSUME RegardInv, PlansFollowed, [Regard!Next]_Regard!vars,
                    NEW u \in Thread, stage'[u] \in Proposing
             PROVE  PlanFollowed(job'[u], draft'[u].id.decided)
  BY Zenon DEF PlansFollowed
<1>1. ASSUME NEW t \in Thread, Regard!Step(t)
      PROVE  PlanFollowed(job'[u], draft'[u].id.decided)
  <2>1. CASE u # t
    <3>1. stage'[u] = stage[u] /\ job'[u] = job[u] /\ draft'[u] = draft[u]
      BY <1>1, <2>1, StepOfOne
    <3> QED
      BY <3>1, Zenon DEF PlansFollowed
  <2>2. CASE u = t /\ Regard!AskDecision(t)
    BY <2>2, AskDecisionFollows
  <2>3. CASE u = t /\ ~Regard!AskDecision(t)
    <3>1. stage[u] \in Proposing /\ job'[u] = job[u] /\ draft'[u] = draft[u]
      BY <1>1, <2>3, OthersPropose
    <3> QED
      BY <3>1, Zenon DEF PlansFollowed
  <2> QED
    BY <2>1, <2>2, <2>3
<1>2. CASE Regard!Restart
  BY <1>2 DEF Regard!Restart, Proposing
<1>3. CASE UNCHANGED Regard!vars
  <2>1. UNCHANGED <<stage, job, draft>>
    BY <1>3 DEF Regard!vars
  <2> QED
    BY <2>1, Zenon DEF PlansFollowed
<1> QED
  BY <1>1, <1>2, <1>3 DEF Regard!Next

\* For every problem, whatever its facts, steps, costs and bounds, a plan that a decision
\* follows can be carried out step by step, each step finding what it needs, within the
\* bound on its depth, and ends with the goal; its first step is the action that was
\* chosen (GOAPPlanner.plan, cognition/planning.py:36-107, and the planner tier of
\* DecisionEngine.decide, cognition/engine.py:269-287).
THEOREM PlansAlwaysReachTheirGoal ==
    ASSUME Bounded PROVE Regard!Spec => []PlansReachTheirGoal
<1>1. Regard!Init => PlansFollowed
  BY DEF Regard!Init, PlansFollowed, Proposing
<1>2. PlansFollowed => PlansReachTheirGoal
  BY Zenon DEF PlansFollowed, PlanFollowed, Proposing, PlansReachTheirGoal
<1> QED
  BY <1>1, <1>2, NextFollowed, RegardInitType, RegardNextType, PTL DEF Regard!Spec

(***************************************************************************)
(* SubjectiveProjection.                                                   *)
(***************************************************************************)
USE EventAssumption, GrantsAssumption, ClaimAssumption, WriterAssumption, BoundAssumption
USE DEF Writer, outbox, locals

Projecting == {"observer", "load beliefs", "check", "save", "publish"}

\* Among the stored beliefs of o there is one with the identity of b.
Kept(b, o) == \E d \in stored[o].beliefs : Id(d) = Id(b)

\* What a writer may rely on at each step: an event and an observer; beliefs that
\* rest on what the observer has observed and on the event; that what it publishes is
\* stored; and, of a projector, that the observers it is done with have observed.
WriterInv(x) ==
    /\ pc[x] \in Projecting \cup {"release"} => event[x] \in Event
    /\ pc[x] \in Projecting \ {"observer"} => observer[x] \in Observer
    /\ pc[x] \in {"check", "save"} =>
         \A b \in update[x] : Rests(b, stored[observer[x]].observed \cup {event[x]})
    /\ pc[x] = "publish" =>
         /\ event[x] \in stored[observer[x]].observed
         /\ \A b \in update[x] : Rests(b, stored[observer[x]].observed) /\ Kept(b, observer[x])
    /\ x \in Worker /\ pc[x] \in Projecting =>
         \A o \in Grants[event[x]] \ todo[x] : event[x] \in stored[o].observed

\* The minds in memory rest on what is stored.
MemoryInv ==
    \A o \in Observer : \A b \in memory[o].beliefs : Rests(b, stored[o].observed)

IInv ==
    /\ TypeOK
    /\ PublishedIsProjected /\ MindsAreDurable /\ EvidenceIsObserved
    /\ MemoryInv
    /\ \A x \in Writer : WriterInv(x)

(***************************************************************************)
(* Revision.                                                               *)
(***************************************************************************)

\* A revised belief is one that was there, a new one, or what became of an active one.
LEMMA RevisedCases ==
    ASSUME NEW beliefs, NEW e, NEW r \in Revised(beliefs, e), NEW b \in r
    PROVE  \/ b \in beliefs
           \/ Claims(e) /\ b = New(e)
           \/ \E prior \in beliefs : b \in Reviewed(prior, e)
<1>1. CASE Active(beliefs) = {}
  BY <1>1 DEF Revised
<1>2. CASE Active(beliefs) # {}
  <2>1. PICK prior \in Active(beliefs) : r = (beliefs \ Active(beliefs)) \cup Reviewed(prior, e)
    BY <1>2 DEF Revised
  <2>2. prior \in beliefs
    BY DEF Active
  <2> QED
    BY <2>1, <2>2
<1> QED
  BY <1>1, <1>2

LEMMA NewType == ASSUME NEW e \in Event, Claims(e) PROVE New(e) \in Belief
<1>1. Claim[e] \in Value
  BY ClaimAssumption DEF Claims
<1>2. <<e>> \in Seq(Event)
  OBVIOUS
<1> QED
  BY <1>1, <1>2 DEF New, Belief

LEMMA ReviewedType ==
    ASSUME NEW prior \in Belief, NEW e \in Event, NEW b \in Reviewed(prior, e)
    PROVE  b \in Belief
<1>1. CASE ~Claims(e)
  BY <1>1 DEF Reviewed
<1>2. CASE Claims(e) /\ prior.value = Claim[e]
  <2>1. b = [prior EXCEPT !.sources = Append(prior.sources, e)]
    BY <1>2 DEF Reviewed
  <2>2. Append(prior.sources, e) \in Seq(Event)
    BY DEF Belief
  <2> QED
    BY <2>1, <2>2 DEF Belief
<1>3. CASE Claims(e) /\ prior.value # Claim[e]
  <2>1. b = [prior EXCEPT !.contradicted = e] \/ b = New(e)
    BY <1>3 DEF Reviewed
  <2> QED
    BY <1>3, <2>1, NewType DEF Belief
<1> QED
  BY <1>1, <1>2, <1>3

\* A belief that is revised is a belief.
LEMMA RevisedType ==
    ASSUME NEW beliefs \in SUBSET Belief, NEW e \in Event, NEW r \in Revised(beliefs, e)
    PROVE  r \in SUBSET Belief
  BY RevisedCases, NewType, ReviewedType

LEMMA NewRests == ASSUME NEW e \in Event, NEW seen PROVE Rests(New(e), seen \cup {e})
  BY DEF Rests, New

LEMMA ReviewedRests ==
    ASSUME NEW prior \in Belief, NEW e \in Event, NEW seen, Rests(prior, seen),
           NEW b \in Reviewed(prior, e)
    PROVE  Rests(b, seen \cup {e})
<1>1. Rests(prior, seen \cup {e})
  BY DEF Rests
<1>2. CASE ~Claims(e)
  BY <1>1, <1>2 DEF Reviewed
<1>3. CASE Claims(e) /\ prior.value = Claim[e]
  <2>1. b = [prior EXCEPT !.sources = Append(prior.sources, e)]
    BY <1>3 DEF Reviewed
  <2>2. prior.sources \in Seq(Event)
    BY DEF Belief
  <2>3. b.value = Claim[e] /\ b.sources = Append(prior.sources, e)
    BY <1>3, <2>1 DEF Belief
  <2>4. ASSUME NEW i \in DOMAIN b.sources
        PROVE  b.sources[i] \in seen \cup {e} /\ Claim[b.sources[i]] = b.value
    <3>1. CASE i = Len(prior.sources) + 1
      BY <2>2, <2>3, <3>1
    <3>2. CASE i # Len(prior.sources) + 1
      <4>1. i \in DOMAIN prior.sources /\ b.sources[i] = prior.sources[i]
        BY <2>2, <2>3, <3>2
      <4> QED
        BY <1>3, <2>3, <4>1 DEF Rests
    <3> QED
      BY <3>1, <3>2
  <2> QED
    BY <2>4 DEF Rests
<1>4. CASE Claims(e) /\ prior.value # Claim[e]
  <2>1. b = [prior EXCEPT !.contradicted = e] \/ b = New(e)
    BY <1>4 DEF Reviewed
  <2>2. CASE b = [prior EXCEPT !.contradicted = e]
    BY <1>1, <2>2 DEF Rests, Belief
  <2> QED
    BY <2>1, <2>2, NewRests
<1> QED
  BY <1>2, <1>3, <1>4

\* The beliefs after a revision rest on what the ones before rested on, and on the
\* event (BeliefEngine.revise, cognition/beliefs.py:46-117).
LEMMA RevisedRests ==
    ASSUME NEW beliefs \in SUBSET Belief, NEW e \in Event, NEW seen,
           \A b \in beliefs : Rests(b, seen),
           NEW r \in Revised(beliefs, e), NEW b \in r
    PROVE  Rests(b, seen \cup {e})
<1>1. ASSUME b \in beliefs PROVE Rests(b, seen \cup {e})
  BY <1>1 DEF Rests
<1> QED
  BY <1>1, RevisedCases, NewRests, ReviewedRests

(***************************************************************************)
(* What steps have in common.                                              *)
(***************************************************************************)

\* Observations and the identities of beliefs are never lost.
StoredGrows ==
    \A o \in Observer :
      /\ stored[o].observed \subseteq stored'[o].observed
      /\ \A d \in stored[o].beliefs : \E n \in stored'[o].beliefs : Id(n) = Id(d)

\* The step is not one of y.
Idle(y) ==
    /\ pc'[y] = pc[y] /\ event'[y] = event[y] /\ todo'[y] = todo[y]
    /\ observer'[y] = observer[y] /\ update'[y] = update[y]

LEMMA InitInv == Init => IInv
<1> SUFFICES ASSUME Init PROVE IInv
  OBVIOUS
<1>1. 0 \in 0..MaxFaults
  OBVIOUS
<1>2. Blank \in [Observer -> Mind]
  BY DEF Blank, Mind
<1>3. TypeOK
  BY <1>1, <1>2 DEF Init, TypeOK, Steps
<1>4. PublishedIsProjected /\ MindsAreDurable /\ EvidenceIsObserved /\ MemoryInv
  BY DEF Init, Blank, PublishedIsProjected, MindsAreDurable, EvidenceIsObserved, MemoryInv
<1>5. \A x \in Writer : WriterInv(x)
  BY DEF Init, WriterInv, Projecting
<1> QED
  BY <1>3, <1>4, <1>5 DEF IInv

LEMMA UnchangedStored == ASSUME stored' = stored PROVE StoredGrows
  BY DEF StoredGrows

LEMMA WriterKept ==
    ASSUME TypeOK, StoredGrows, NEW y \in Writer, WriterInv(y), Idle(y)
    PROVE  WriterInv(y)'
<1>1. pc[y] \in Projecting \cup {"release"} => event[y] \in Event
  BY DEF WriterInv
<1>2. pc[y] \in Projecting \ {"observer"} => observer[y] \in Observer
  BY DEF WriterInv
<1>3. ASSUME pc[y] \in {"check", "save"}, NEW b \in update[y]
      PROVE  Rests(b, stored'[observer[y]].observed \cup {event[y]})
  <2>1. observer[y] \in Observer
    BY <1>2, <1>3 DEF Projecting
  <2>2. Rests(b, stored[observer[y]].observed \cup {event[y]})
    BY <1>3 DEF WriterInv
  <2> QED
    BY <2>1, <2>2 DEF Rests, StoredGrows
<1>4. ASSUME pc[y] = "publish"
      PROVE  /\ event[y] \in stored'[observer[y]].observed
             /\ \A b \in update[y] :
                  /\ Rests(b, stored'[observer[y]].observed)
                  /\ \E d \in stored'[observer[y]].beliefs : Id(d) = Id(b)
  <2>1. observer[y] \in Observer
    BY <1>2, <1>4 DEF Projecting
  <2>2. event[y] \in stored[observer[y]].observed
    BY <1>4 DEF WriterInv
  <2>3. ASSUME NEW b \in update[y]
        PROVE  Rests(b, stored[observer[y]].observed) /\ Kept(b, observer[y])
    BY <1>4 DEF WriterInv
  <2>4. ASSUME NEW b \in update[y] PROVE Rests(b, stored'[observer[y]].observed)
    BY <2>1, <2>3 DEF Rests, StoredGrows
  <2>5. ASSUME NEW b \in update[y]
        PROVE  \E d \in stored'[observer[y]].beliefs : Id(d) = Id(b)
    BY <2>1, <2>3 DEF Kept, StoredGrows
  <2> QED
    BY <2>1, <2>2, <2>4, <2>5 DEF StoredGrows
<1>5. ASSUME y \in Worker, pc[y] \in Projecting, NEW o \in Grants[event[y]] \ todo[y]
      PROVE  event[y] \in stored'[o].observed
  <2>1. o \in Observer
    BY <1>1, <1>5
  <2>2. event[y] \in stored[o].observed
    BY <1>5 DEF WriterInv
  <2> QED
    BY <2>1, <2>2 DEF StoredGrows
<1> QED
  BY <1>1, <1>2, <1>3, <1>4, <1>5 DEF WriterInv, Idle, Kept

\* A step of x that leaves minds and published rows alone.
LEMMA QuietStep ==
    ASSUME IInv, TypeOK', UNCHANGED <<stored, memory, published>>,
           NEW x \in Writer, WriterInv(x)', \A y \in Writer \ {x} : Idle(y)
    PROVE  IInv'
<1>1. \A y \in Writer : WriterInv(y)'
  BY UnchangedStored, WriterKept DEF IInv
<1>2. PublishedIsProjected' /\ MindsAreDurable' /\ EvidenceIsObserved' /\ MemoryInv'
  BY DEF IInv, PublishedIsProjected, MindsAreDurable, EvidenceIsObserved, MemoryInv
<1> QED
  BY <1>1, <1>2 DEF IInv

\* A step that is nobody's leaves every writer as it was.
LEMMA TimeStep ==
    ASSUME IInv, TypeOK', UNCHANGED <<stored, memory, published>>, \A y \in Writer : Idle(y)
    PROVE  IInv'
<1>1. \A y \in Writer : WriterInv(y)'
  BY UnchangedStored, WriterKept DEF IInv
<1>2. PublishedIsProjected' /\ MindsAreDurable' /\ EvidenceIsObserved' /\ MemoryInv'
  BY DEF IInv, PublishedIsProjected, MindsAreDurable, EvidenceIsObserved, MemoryInv
<1> QED
  BY <1>1, <1>2 DEF IInv

LEMMA FaultType == ASSUME TypeOK, Fault PROVE faults' \in 0..MaxFaults
  BY DEF TypeOK, Fault

LEMMA TickType ==
    ASSUME TypeOK, NEW x \in Writer, NEW o, Tick(x, o)
    PROVE  /\ todo' \in [Writer -> SUBSET Observer]
           /\ todo'[x] = todo[x] \ {o}
           /\ \A y \in Writer \ {x} : todo'[y] = todo[y]
  BY DEF TypeOK, Tick

(***************************************************************************)
(* Steps of the projector.                                                 *)
(***************************************************************************)

LEMMA TakeInv == ASSUME IInv, NEW w \in Worker, Take(w) PROVE IInv'
<1>1. TypeOK'
  <2>1. holder' \in [Event -> Worker \cup {None}]
    BY DEF IInv, TypeOK, Take, Goto
  <2>2. expired' \subseteq Event
    BY DEF IInv, TypeOK, Take, Goto
  <2>3. pc' \in [Writer -> Steps]
    BY DEF IInv, TypeOK, Take, Goto, Steps
  <2>4. batch' \in [Writer -> SUBSET Event]
    BY DEF IInv, TypeOK, Take, Goto, Claimable
  <2> QED
    BY <2>1, <2>2, <2>3, <2>4 DEF IInv, TypeOK, Take, Goto
<1>2. WriterInv(w)'
  BY DEF IInv, TypeOK, Take, Goto, WriterInv, Projecting
<1>3. UNCHANGED <<stored, memory, published>> /\ \A y \in Writer \ {w} : Idle(y)
  BY DEF IInv, TypeOK, Take, Goto, Idle
<1> QED
  BY <1>1, <1>2, <1>3, QuietStep

LEMMA TakeNextInv == ASSUME IInv, NEW x \in Writer, TakeNext(x) PROVE IInv'
<1>1. TypeOK'
  <2>1. event' \in [Writer -> Event \cup {None}]
    BY DEF IInv, TypeOK, TakeNext, Begin, Goto
  <2>2. todo' \in [Writer -> SUBSET Observer]
    BY DEF IInv, TypeOK, TakeNext, Begin, Goto
  <2>3. pc' \in [Writer -> Steps]
    BY DEF IInv, TypeOK, TakeNext, Begin, Goto, Steps
  <2>4. batch' \in [Writer -> SUBSET Event]
    BY DEF IInv, TypeOK, TakeNext, Begin, Goto
  <2> QED
    BY <2>1, <2>2, <2>3, <2>4 DEF IInv, TypeOK, TakeNext, Begin, Goto
<1>2. WriterInv(x)'
  <2>1. PICK e \in batch[x] :
          /\ event' = [event EXCEPT ![x] = e]
          /\ todo' = [todo EXCEPT ![x] = Grants[e]]
          /\ pc' = [pc EXCEPT ![x] = "observer"]
    BY DEF TakeNext, Begin, Goto
  <2>2. e \in Event
    BY DEF IInv, TypeOK
  <2>3. pc'[x] = "observer" /\ event'[x] = e /\ todo'[x] = Grants[e]
    BY <2>1 DEF IInv, TypeOK
  <2> QED
    BY <2>2, <2>3 DEF WriterInv, Projecting
<1>3. UNCHANGED <<stored, memory, published>> /\ \A y \in Writer \ {x} : Idle(y)
  BY DEF IInv, TypeOK, TakeNext, Begin, Goto, Idle
<1> QED
  BY <1>1, <1>2, <1>3, QuietStep

LEMMA BatchDoneInv == ASSUME IInv, NEW w \in Worker, BatchDone(w) PROVE IInv'
<1>1. TypeOK'
  <2>1. pc' \in [Writer -> Steps]
    BY DEF IInv, TypeOK, BatchDone, Goto, Steps
  <2> QED
    BY <2>1 DEF IInv, TypeOK, BatchDone, Goto
<1>2. WriterInv(w)'
  BY DEF IInv, TypeOK, BatchDone, Goto, WriterInv, Projecting
<1>3. UNCHANGED <<stored, memory, published>> /\ \A y \in Writer \ {w} : Idle(y)
  BY DEF IInv, TypeOK, BatchDone, Goto, Idle
<1> QED
  BY <1>1, <1>2, <1>3, QuietStep

LEMMA LoadObservationsInv == ASSUME IInv, NEW w \in Worker, LoadObservations(w) PROVE IInv'
<1>1. PICK o \in todo[w] :
        /\ observer' = [observer EXCEPT ![w] = o]
        /\ IF event[w] \in stored[o].observed
             THEN Tick(w, o)
             ELSE Goto(w, "load beliefs") /\ UNCHANGED todo
  BY DEF LoadObservations
<1>2. o \in Observer
  BY DEF IInv, TypeOK
<1>3. TypeOK'
  <2>1. todo' \in [Writer -> SUBSET Observer]
    BY <1>1, TickType DEF IInv, TypeOK
  <2>2. pc' \in [Writer -> Steps]
    <3>1. PICK step \in {"observer", "load beliefs"} : pc' = [pc EXCEPT ![w] = step]
      BY <1>1 DEF Tick, Goto
    <3>2. step \in Steps /\ pc \in [Writer -> Steps]
      BY DEF Steps, IInv, TypeOK
    <3> QED
      BY <3>1, <3>2
  <2>3. observer' \in [Writer -> Observer \cup {None}]
    BY <1>1, <1>2 DEF IInv, TypeOK, LoadObservations, Tick, Goto
  <2> QED
    BY <2>1, <2>2, <2>3 DEF IInv, TypeOK, LoadObservations, Tick, Goto
<1>4. UNCHANGED <<stored, memory, published>> /\ \A y \in Writer \ {w} : Idle(y)
  BY <1>1 DEF IInv, TypeOK, LoadObservations, Tick, Goto, Idle
<1>5. event[w] \in Event /\ pc[w] = "observer"
  BY DEF IInv, WriterInv, LoadObservations, Projecting
<1>6. pc'[w] \in {"observer", "load beliefs"} /\ event'[w] = event[w] /\ observer'[w] = o
  BY <1>1 DEF IInv, TypeOK, LoadObservations, Tick, Goto
<1>7. ASSUME NEW i \in Grants[event[w]] \ todo'[w] PROVE event[w] \in stored[i].observed
  <2>1. ASSUME i \notin todo[w] PROVE event[w] \in stored[i].observed
    BY <1>5, <1>7, <2>1 DEF IInv, WriterInv, Projecting
  <2>2. ASSUME i \in todo[w] PROVE event[w] \in stored[i].observed
    <3>1. CASE event[w] \in stored[o].observed
      <4>1. todo'[w] = todo[w] \ {o}
        BY <1>1, <3>1 DEF IInv, TypeOK, Tick
      <4> QED
        BY <1>7, <2>2, <3>1, <4>1
    <3>2. CASE event[w] \notin stored[o].observed
      BY <1>1, <1>7, <2>2, <3>2
    <3> QED
      BY <3>1, <3>2
  <2> QED
    BY <2>1, <2>2
<1>8. WriterInv(w)'
  BY <1>2, <1>4, <1>5, <1>6, <1>7 DEF WriterInv, Projecting
<1> QED
  BY <1>3, <1>4, <1>8, QuietStep

LEMMA LoadBeliefsInv == ASSUME IInv, NEW w \in Worker, LoadBeliefs(w) PROVE IInv'
<1> DEFINE o == observer[w]
           e == event[w]
<1>1. /\ o \in Observer /\ e \in Event
      /\ \A i \in Grants[e] \ todo[w] : e \in stored[i].observed
  BY DEF IInv, WriterInv, LoadBeliefs, Projecting
<1>2. PICK r \in Revised(stored[o].beliefs, e) : update' = [update EXCEPT ![w] = r]
  BY DEF LoadBeliefs
<1>3. stored[o].beliefs \in SUBSET Belief
  BY <1>1 DEF IInv, TypeOK, Mind
<1>4. \A b \in stored[o].beliefs : Rests(b, stored[o].observed)
  BY <1>1 DEF IInv, EvidenceIsObserved
<1>5. r \in SUBSET Belief /\ \A b \in r : Rests(b, stored[o].observed \cup {e})
  <2> HIDE DEF o, e
  <2> QED
    BY <1>1, <1>2, <1>3, <1>4, RevisedType, RevisedRests
<1>6. TypeOK'
  <2>1. pc' \in [Writer -> Steps]
    BY <1>2, <1>5 DEF IInv, TypeOK, LoadBeliefs, Goto, Steps
  <2>2. update' \in [Writer -> SUBSET Belief]
    BY <1>2, <1>5 DEF IInv, TypeOK, LoadBeliefs, Goto
  <2> QED
    BY <2>1, <2>2 DEF IInv, TypeOK, LoadBeliefs, Goto
<1>7. UNCHANGED <<stored, memory, published>> /\ \A y \in Writer \ {w} : Idle(y)
  BY <1>2 DEF IInv, TypeOK, LoadBeliefs, Goto, Idle
<1>8. /\ pc'[w] = "save" /\ event'[w] = e /\ observer'[w] = o /\ todo'[w] = todo[w]
      /\ update'[w] = r
  BY <1>2 DEF IInv, TypeOK, LoadBeliefs, Goto
<1>9. WriterInv(w)'
  BY <1>1, <1>5, <1>7, <1>8 DEF WriterInv, Projecting
<1> QED
  BY <1>6, <1>7, <1>9, QuietStep

LEMMA ReleaseInv == ASSUME IInv, NEW w \in Worker, Release(w) PROVE IInv'
<1>1. TypeOK'
  <2>1. waiting' \subseteq Event
    <3>1. event[w] \in Event
      BY DEF IInv, WriterInv, Release
    <3>2. waiting' \in {waiting, waiting \cup {event[w]}}
      BY DEF Release
    <3> QED
      BY <3>1, <3>2 DEF IInv, TypeOK
  <2>2. holder' \in [Event -> Worker \cup {None}]
    BY DEF IInv, TypeOK, Release, Forget, Goto
  <2>3. expired' \subseteq Event
    BY DEF IInv, TypeOK, Release, Forget, Goto
  <2>4. pc' \in [Writer -> Steps]
    BY DEF IInv, TypeOK, Release, Forget, Goto, Steps
  <2>5. event' \in [Writer -> Event \cup {None}]
    BY DEF IInv, TypeOK, Release, Forget, Goto
  <2>6. todo' \in [Writer -> SUBSET Observer]
    BY DEF IInv, TypeOK, Release, Forget, Goto
  <2>7. observer' \in [Writer -> Observer \cup {None}]
    BY DEF IInv, TypeOK, Release, Forget, Goto
  <2>8. update' \in [Writer -> SUBSET Belief]
    BY DEF IInv, TypeOK, Release, Forget, Goto
  <2> QED
    BY <2>1, <2>2, <2>3, <2>4, <2>5, <2>6, <2>7, <2>8 DEF IInv, TypeOK, Release, Forget, Goto
<1>2. WriterInv(w)'
  BY DEF IInv, TypeOK, Release, Forget, Goto, WriterInv, Projecting
<1>3. UNCHANGED <<stored, memory, published>> /\ \A y \in Writer \ {w} : Idle(y)
  BY DEF IInv, TypeOK, Release, Forget, Goto, Idle
<1> QED
  BY <1>1, <1>2, <1>3, QuietStep

LEMMA FailsInv == ASSUME IInv, NEW w \in Worker, Fails(w) PROVE IInv'
<1>1. TypeOK'
  <2>1. pc' \in [Writer -> Steps]
    BY DEF IInv, TypeOK, Fails, Goto, Fault, Steps
  <2>2. faults' \in 0..MaxFaults
    BY FaultType DEF IInv, Fails
  <2> QED
    BY <2>1, <2>2 DEF IInv, TypeOK, Fails, Goto, Fault
<1>2. WriterInv(w)'
  BY DEF IInv, TypeOK, Fails, Goto, Fault, WriterInv, Projecting
<1>3. UNCHANGED <<stored, memory, published>> /\ \A y \in Writer \ {w} : Idle(y)
  BY DEF IInv, TypeOK, Fails, Goto, Fault, Idle
<1> QED
  BY <1>1, <1>2, <1>3, QuietStep

LEMMA CrashInv == ASSUME IInv, NEW w \in Worker, Crash(w) PROVE IInv'
<1>1. TypeOK'
  <2>1. pc' \in [Writer -> Steps]
    BY DEF IInv, TypeOK, Crash, Forget, Goto, Fault, Steps
  <2>2. batch' \in [Writer -> SUBSET Event]
    BY DEF IInv, TypeOK, Crash, Forget, Goto, Fault
  <2>3. faults' \in 0..MaxFaults
    BY FaultType DEF IInv, Crash
  <2>4. event' \in [Writer -> Event \cup {None}]
    BY DEF IInv, TypeOK, Crash, Forget, Goto, Fault
  <2>5. todo' \in [Writer -> SUBSET Observer]
    BY DEF IInv, TypeOK, Crash, Forget, Goto, Fault
  <2>6. observer' \in [Writer -> Observer \cup {None}]
    BY DEF IInv, TypeOK, Crash, Forget, Goto, Fault
  <2>7. update' \in [Writer -> SUBSET Belief]
    BY DEF IInv, TypeOK, Crash, Forget, Goto, Fault
  <2> QED
    BY <2>1, <2>2, <2>3, <2>4, <2>5, <2>6, <2>7 DEF IInv, TypeOK, Crash, Forget, Goto, Fault
<1>2. WriterInv(w)'
  BY DEF IInv, TypeOK, Crash, Forget, Goto, Fault, WriterInv, Projecting
<1>3. UNCHANGED <<stored, memory, published>> /\ \A y \in Writer \ {w} : Idle(y)
  BY DEF IInv, TypeOK, Crash, Forget, Goto, Fault, Idle
<1> QED
  BY <1>1, <1>2, <1>3, QuietStep

(***************************************************************************)
(* Steps of the API process.                                               *)
(***************************************************************************)

LEMMA SubmitInv == ASSUME IInv, NEW a \in Request, NEW e \in Event, Submit(a, e) PROVE IInv'
<1>1. TypeOK'
  <2>1. committed' \subseteq Event
    BY DEF IInv, TypeOK, Submit, Begin, Goto
  <2>2. pc' \in [Writer -> Steps]
    BY DEF IInv, TypeOK, Submit, Begin, Goto, Steps
  <2>3. event' \in [Writer -> Event \cup {None}]
    BY DEF IInv, TypeOK, Submit, Begin, Goto
  <2>4. todo' \in [Writer -> SUBSET Observer]
    BY DEF IInv, TypeOK, Submit, Begin, Goto
  <2> QED
    BY <2>1, <2>2, <2>3, <2>4 DEF IInv, TypeOK, Submit, Begin, Goto
<1>2. WriterInv(a)'
  BY DEF IInv, TypeOK, Submit, Begin, Goto, WriterInv, Projecting
<1>3. UNCHANGED <<stored, memory, published>> /\ \A y \in Writer \ {a} : Idle(y)
  BY DEF IInv, TypeOK, Submit, Begin, Goto, Idle
<1> QED
  BY <1>1, <1>2, <1>3, QuietStep

LEMMA ReadMindInv == ASSUME IInv, NEW a \in Request, ReadMind(a) PROVE IInv'
<1> DEFINE e == event[a]
<1>1. e \in Event
  BY DEF IInv, WriterInv, ReadMind, Projecting
<1>2. PICK o \in todo[a] :
        /\ observer' = [observer EXCEPT ![a] = o]
        /\ \E r \in Revised(memory[o].beliefs, e) : update' = [update EXCEPT ![a] = r]
  BY DEF ReadMind
<1>3. PICK r \in Revised(memory[o].beliefs, e) : update' = [update EXCEPT ![a] = r]
  BY <1>2
<1>4. /\ observer' = [observer EXCEPT ![a] = o]
      /\ update' = [update EXCEPT ![a] = r]
  BY <1>2, <1>3
<1>5. o \in Observer
  BY DEF IInv, TypeOK
<1>6. memory[o].beliefs \in SUBSET Belief
  BY <1>5 DEF IInv, TypeOK, Mind
<1>7. \A b \in memory[o].beliefs : Rests(b, stored[o].observed)
  BY <1>5 DEF IInv, MemoryInv
<1>8. r \in SUBSET Belief /\ \A b \in r : Rests(b, stored[o].observed \cup {e})
  <2> HIDE DEF e
  <2> QED
    BY <1>1, <1>4, <1>6, <1>7, RevisedType, RevisedRests
<1>9. TypeOK'
  <2>1. pc' \in [Writer -> Steps]
    BY <1>4, <1>5, <1>8 DEF IInv, TypeOK, ReadMind, Goto, Steps
  <2>2. observer' \in [Writer -> Observer \cup {None}]
    BY <1>4, <1>5, <1>8 DEF IInv, TypeOK, ReadMind, Goto
  <2>3. update' \in [Writer -> SUBSET Belief]
    BY <1>4, <1>5, <1>8 DEF IInv, TypeOK, ReadMind, Goto
  <2> QED
    BY <2>1, <2>2, <2>3 DEF IInv, TypeOK, ReadMind, Goto
<1>10. UNCHANGED <<stored, memory, published>> /\ \A y \in Writer \ {a} : Idle(y)
  BY <1>4 DEF IInv, TypeOK, ReadMind, Goto, Idle
<1>11. /\ pc'[a] = "check" /\ event'[a] = e /\ observer'[a] = o /\ update'[a] = r
  BY <1>4 DEF IInv, TypeOK, ReadMind, Goto
<1>12. a \notin Worker
  OBVIOUS
<1>13. WriterInv(a)'
  BY <1>1, <1>5, <1>8, <1>10, <1>11, <1>12 DEF WriterInv, Projecting
<1> QED
  BY <1>9, <1>10, <1>13, QuietStep

LEMMA CheckObservedInv == ASSUME IInv, NEW a \in Request, CheckObserved(a) PROVE IInv'
<1>1. TypeOK'
  <2>1. pc' \in [Writer -> Steps]
    <3>1. pc' \in {[pc EXCEPT ![a] = "observer"], [pc EXCEPT ![a] = "save"]}
      BY DEF CheckObserved, Tick, Goto
    <3>2. pc \in [Writer -> Steps] /\ {"observer", "save"} \subseteq Steps
      BY DEF IInv, TypeOK, Steps
    <3> QED
      BY <3>1, <3>2
  <2>2. todo' \in [Writer -> SUBSET Observer]
    BY DEF IInv, TypeOK, CheckObserved, Tick, Goto
  <2> QED
    BY <2>1, <2>2 DEF IInv, TypeOK, CheckObserved, Tick, Goto
<1>2. WriterInv(a)'
  <2>1. /\ event[a] \in Event /\ observer[a] \in Observer
        /\ \A b \in update[a] : Rests(b, stored[observer[a]].observed \cup {event[a]})
    BY DEF IInv, WriterInv, CheckObserved, Projecting
  <2>2. pc' \in {[pc EXCEPT ![a] = "observer"], [pc EXCEPT ![a] = "save"]}
    BY DEF CheckObserved, Tick, Goto
  <2>3. pc'[a] \in {"observer", "save"}
    BY <2>2 DEF IInv, TypeOK
  <2>4. UNCHANGED <<stored, event, observer, update>> /\ a \notin Worker
    BY DEF CheckObserved
  <2> QED
    BY <2>1, <2>3, <2>4 DEF WriterInv, Projecting
<1>3. UNCHANGED <<stored, memory, published>> /\ \A y \in Writer \ {a} : Idle(y)
  BY DEF IInv, TypeOK, CheckObserved, Tick, Goto, Idle
<1> QED
  BY <1>1, <1>2, <1>3, QuietStep

LEMMA ProjectedInv == ASSUME IInv, NEW a \in Request, Projected(a) PROVE IInv'
<1>1. TypeOK'
  <2>1. pc' \in [Writer -> Steps]
    BY DEF IInv, TypeOK, Projected, Forget, Goto, Steps
  <2>2. event' \in [Writer -> Event \cup {None}]
    BY DEF IInv, TypeOK, Projected, Forget, Goto
  <2>3. todo' \in [Writer -> SUBSET Observer]
    BY DEF IInv, TypeOK, Projected, Forget, Goto
  <2>4. observer' \in [Writer -> Observer \cup {None}]
    BY DEF IInv, TypeOK, Projected, Forget, Goto
  <2>5. update' \in [Writer -> SUBSET Belief]
    BY DEF IInv, TypeOK, Projected, Forget, Goto
  <2> QED
    BY <2>1, <2>2, <2>3, <2>4, <2>5 DEF IInv, TypeOK, Projected, Forget, Goto
<1>2. WriterInv(a)'
  BY DEF IInv, TypeOK, Projected, Forget, Goto, WriterInv, Projecting
<1>3. UNCHANGED <<stored, memory, published>> /\ \A y \in Writer \ {a} : Idle(y)
  BY DEF IInv, TypeOK, Projected, Forget, Goto, Idle
<1> QED
  BY <1>1, <1>2, <1>3, QuietStep

LEMMA RequestFailsInv == ASSUME IInv, NEW a \in Request, RequestFails(a) PROVE IInv'
<1>1. TypeOK'
  <2>1. pc' \in [Writer -> Steps]
    BY DEF IInv, TypeOK, RequestFails, Forget, Goto, Fault, Steps
  <2>2. faults' \in 0..MaxFaults
    BY FaultType DEF IInv, RequestFails
  <2>3. event' \in [Writer -> Event \cup {None}]
    BY DEF IInv, TypeOK, RequestFails, Forget, Goto, Fault
  <2>4. todo' \in [Writer -> SUBSET Observer]
    BY DEF IInv, TypeOK, RequestFails, Forget, Goto, Fault
  <2>5. observer' \in [Writer -> Observer \cup {None}]
    BY DEF IInv, TypeOK, RequestFails, Forget, Goto, Fault
  <2>6. update' \in [Writer -> SUBSET Belief]
    BY DEF IInv, TypeOK, RequestFails, Forget, Goto, Fault
  <2> QED
    BY <2>1, <2>2, <2>3, <2>4, <2>5, <2>6 DEF IInv, TypeOK, RequestFails, Forget, Goto, Fault
<1>2. WriterInv(a)'
  BY DEF IInv, TypeOK, RequestFails, Forget, Goto, Fault, WriterInv, Projecting
<1>3. UNCHANGED <<stored, memory, published>> /\ \A y \in Writer \ {a} : Idle(y)
  BY DEF IInv, TypeOK, RequestFails, Forget, Goto, Fault, Idle
<1> QED
  BY <1>1, <1>2, <1>3, QuietStep

LEMMA CaughtUpInv == ASSUME IInv, NEW a \in Request, CaughtUp(a) PROVE IInv'
<1>1. TypeOK'
  <2>1. serving' \in BOOLEAN
    BY DEF IInv, TypeOK, CaughtUp, Goto
  <2>2. pc' \in [Writer -> Steps]
    BY DEF IInv, TypeOK, CaughtUp, Goto, Steps
  <2> QED
    BY <2>1, <2>2 DEF IInv, TypeOK, CaughtUp, Goto
<1>2. WriterInv(a)'
  BY DEF IInv, TypeOK, CaughtUp, Goto, WriterInv, Projecting
<1>3. UNCHANGED <<stored, memory, published>> /\ \A y \in Writer \ {a} : Idle(y)
  BY DEF IInv, TypeOK, CaughtUp, Goto, Idle
<1> QED
  BY <1>1, <1>2, <1>3, QuietStep

(***************************************************************************)
(* Steps that change minds or publish.                                     *)
(***************************************************************************)

LEMMA UpsertKeeps ==
    ASSUME NEW beliefs, NEW new, NEW d \in beliefs
    PROVE  \E n \in Upsert(beliefs, new) : Id(n) = Id(d)
  BY DEF Upsert

\* A mind is written: nothing is lost, the event is observed, and every belief still
\* rests on what was observed.
LEMMA Saved ==
    ASSUME IInv, NEW x \in Writer, pc[x] = "save", SaveUpdate(x)
    PROVE  /\ stored' \in [Observer -> Mind]
           /\ StoredGrows
           /\ EvidenceIsObserved'
           /\ event[x] \in stored'[observer[x]].observed
           /\ update[x] \subseteq stored'[observer[x]].beliefs
<1> DEFINE o == observer[x]
           e == event[x]
           mind == [observed |-> stored[o].observed \cup {e},
                    beliefs |-> Upsert(stored[o].beliefs, update[x])]
<1>1. o \in Observer /\ e \in Event
  BY DEF IInv, WriterInv, Projecting
<1>2. stored[o] \in Mind /\ update[x] \in SUBSET Belief
  BY <1>1 DEF IInv, TypeOK
<1>3. mind \in Mind
  BY <1>1, <1>2 DEF Mind, Upsert
<1>4. stored' = [stored EXCEPT ![o] = mind]
  BY DEF SaveUpdate, Observe
<1>5. /\ stored'[o] = mind
      /\ \A i \in Observer \ {o} : stored'[i] = stored[i]
      /\ stored' \in [Observer -> Mind]
  BY <1>1, <1>3, <1>4 DEF IInv, TypeOK
<1>6. StoredGrows
  <2>1. \A d \in stored[o].beliefs : \E n \in mind.beliefs : Id(n) = Id(d)
    BY UpsertKeeps
  <2> QED
    BY <1>5, <2>1 DEF StoredGrows
<1>7. e \in stored'[o].observed /\ update[x] \subseteq stored'[o].beliefs
  BY <1>5 DEF Upsert
<1>8. ASSUME NEW b \in mind.beliefs PROVE Rests(b, mind.observed)
  <2>1. CASE b \in update[x]
    BY <2>1 DEF IInv, WriterInv
  <2>2. CASE b \in stored[o].beliefs
    BY <1>1, <2>2 DEF IInv, EvidenceIsObserved, Rests
  <2> QED
    BY <2>1, <2>2 DEF Upsert
<1>9. ASSUME NEW i \in Observer, NEW b \in stored'[i].beliefs
      PROVE  Rests(b, stored'[i].observed)
  <2>1. CASE i = o
    BY <1>5, <1>8, <1>9, <2>1
  <2>2. CASE i # o
    BY <1>5, <1>9, <2>2 DEF IInv, EvidenceIsObserved
  <2> QED
    BY <2>1, <2>2
<1>10. EvidenceIsObserved'
  BY <1>9 DEF EvidenceIsObserved, Rests
<1> QED
  BY <1>5, <1>6, <1>7, <1>10

\* What was said of minds and rows stays so while minds grow.
LEMMA GrowingStep ==
    ASSUME IInv, TypeOK', StoredGrows, EvidenceIsObserved', UNCHANGED <<memory, published>>,
           NEW x \in Writer, WriterInv(x)', \A y \in Writer \ {x} : Idle(y)
    PROVE  IInv'
<1>1. \A y \in Writer : WriterInv(y)'
  BY WriterKept DEF IInv
<1>2. PublishedIsProjected'
  <2>1. \A e \in published : Grants[e] \subseteq Observer
    BY DEF IInv, TypeOK
  <2> QED
    BY <2>1 DEF IInv, PublishedIsProjected, StoredGrows
<1>3. MindsAreDurable'
  BY DEF IInv, MindsAreDurable, StoredGrows
<1>4. MemoryInv'
  BY DEF IInv, MemoryInv, StoredGrows, Rests
<1> QED
  BY <1>1, <1>2, <1>3, <1>4 DEF IInv

LEMMA SaveInv == ASSUME IInv, NEW w \in Worker, Save(w) PROVE IInv'
<1>1. pc[w] = "save" /\ SaveUpdate(w) /\ Tick(w, observer[w])
  BY DEF Save
<1>2. /\ stored' \in [Observer -> Mind] /\ StoredGrows /\ EvidenceIsObserved'
      /\ event[w] \in stored'[observer[w]].observed
  BY <1>1, Saved
<1>3. TypeOK'
  <2>1. pc' \in [Writer -> Steps]
    BY <1>1 DEF IInv, TypeOK, Tick, Goto, Steps
  <2>2. todo' \in [Writer -> SUBSET Observer]
    BY <1>1, TickType DEF IInv
  <2> QED
    BY <1>2, <2>1, <2>2 DEF IInv, TypeOK, Save
<1>4. UNCHANGED <<memory, published>> /\ \A y \in Writer \ {w} : Idle(y)
  BY DEF IInv, TypeOK, Save, Tick, Goto, Idle
<1>5. pc'[w] = "observer" /\ event'[w] = event[w] /\ event[w] \in Event
  BY <1>1 DEF IInv, TypeOK, WriterInv, Projecting, Save, Tick, Goto
<1>6. ASSUME NEW i \in Grants[event[w]] \ todo'[w] PROVE event[w] \in stored'[i].observed
  <2>1. CASE i = observer[w]
    BY <1>2, <2>1
  <2>2. CASE i # observer[w]
    <3>1. i \in Observer
      BY <1>5, <1>6
    <3>2. i \notin todo[w]
      BY <1>1, <1>6, <2>2, TickType DEF IInv
    <3>3. event[w] \in stored[i].observed
      BY <1>1, <1>6, <3>2 DEF IInv, WriterInv, Projecting
    <3> QED
      BY <1>2, <3>1, <3>3 DEF StoredGrows
  <2> QED
    BY <2>1, <2>2
<1>7. WriterInv(w)'
  BY <1>5, <1>6 DEF WriterInv, Projecting
<1> QED
  BY <1>2, <1>3, <1>4, <1>7, GrowingStep

LEMMA SaveMindInv == ASSUME IInv, NEW a \in Request, SaveMind(a) PROVE IInv'
<1>1. pc[a] = "save" /\ SaveUpdate(a)
  BY DEF SaveMind
<1>2. /\ stored' \in [Observer -> Mind] /\ StoredGrows /\ EvidenceIsObserved'
      /\ event[a] \in stored'[observer[a]].observed
      /\ update[a] \subseteq stored'[observer[a]].beliefs
  BY <1>1, Saved
<1>3. TypeOK'
  <2>1. pc' \in [Writer -> Steps]
    BY DEF IInv, TypeOK, SaveMind, Goto, Steps
  <2> QED
    BY <1>2, <2>1 DEF IInv, TypeOK, SaveMind
<1>4. UNCHANGED <<memory, published>> /\ \A y \in Writer \ {a} : Idle(y)
  BY DEF IInv, TypeOK, SaveMind, Goto, Idle
<1>5. /\ pc'[a] = "publish" /\ event'[a] = event[a] /\ observer'[a] = observer[a]
      /\ update'[a] = update[a]
      /\ event[a] \in Event /\ observer[a] \in Observer /\ a \notin Worker
  BY <1>1 DEF IInv, TypeOK, WriterInv, Projecting, SaveMind, Goto
<1>6. ASSUME NEW b \in update[a]
      PROVE  /\ Rests(b, stored'[observer[a]].observed)
             /\ \E d \in stored'[observer[a]].beliefs : Id(d) = Id(b)
  BY <1>2, <1>5 DEF EvidenceIsObserved, Rests
<1>7. WriterInv(a)'
  BY <1>2, <1>5, <1>6 DEF WriterInv, Projecting, Kept
<1> QED
  BY <1>2, <1>3, <1>4, <1>7, GrowingStep

LEMMA CompleteInv == ASSUME IInv, NEW w \in Worker, Complete(w) PROVE IInv'
<1>1. event[w] \in Event /\ pc[w] = "observer" /\ todo[w] = {}
  BY DEF IInv, WriterInv, Complete, Projecting
<1>2. TypeOK'
  <2>1. published' \in {published, published \cup {event[w]}}
    BY DEF Complete
  <2>2. published' \subseteq Event
    BY <1>1, <2>1 DEF IInv, TypeOK
  <2>3. holder' \in [Event -> Worker \cup {None}]
    BY DEF IInv, TypeOK, Complete
  <2>4. expired' \subseteq Event
    BY DEF IInv, TypeOK, Complete
  <2>5. pc' \in [Writer -> Steps]
    BY DEF IInv, TypeOK, Complete, Goto, Steps
  <2>6. event' \in [Writer -> Event \cup {None}]
    BY DEF IInv, TypeOK, Complete, Forget
  <2>7. todo' \in [Writer -> SUBSET Observer]
    BY DEF IInv, TypeOK, Complete, Forget
  <2>8. observer' \in [Writer -> Observer \cup {None}]
    BY DEF IInv, TypeOK, Complete, Forget
  <2>9. update' \in [Writer -> SUBSET Belief]
    BY DEF IInv, TypeOK, Complete, Forget
  <2> QED
    BY <2>2, <2>3, <2>4, <2>5, <2>6, <2>7, <2>8, <2>9 DEF IInv, TypeOK, Complete
<1>3. PublishedIsProjected'
  <2>1. \A o \in Grants[event[w]] : event[w] \in stored[o].observed
    BY <1>1 DEF IInv, WriterInv, Projecting
  <2> QED
    BY <2>1 DEF IInv, PublishedIsProjected, Complete
<1>4. pc'[w] = "next" /\ \A y \in Writer \ {w} : Idle(y)
  BY DEF IInv, TypeOK, Complete, Forget, Goto, Idle
<1>5. WriterInv(w)'
  BY <1>4 DEF WriterInv, Projecting
<1>6. \A y \in Writer : WriterInv(y)'
  BY <1>4, <1>5, UnchangedStored, WriterKept DEF IInv, Complete
<1>7. MindsAreDurable' /\ EvidenceIsObserved' /\ MemoryInv'
  BY DEF IInv, MindsAreDurable, EvidenceIsObserved, MemoryInv, Complete
<1> QED
  BY <1>2, <1>3, <1>6, <1>7 DEF IInv

LEMMA ApplyUpdateInv == ASSUME IInv, NEW a \in Request, ApplyUpdate(a) PROVE IInv'
<1> DEFINE o == observer[a]
           e == event[a]
           mind == [observed |-> memory[o].observed \cup {e}, beliefs |-> update[a]]
<1>1. o \in Observer /\ e \in Event /\ e \in stored[o].observed
  BY DEF IInv, WriterInv, ApplyUpdate, Projecting
<1>2. \A b \in update[a] : Rests(b, stored[o].observed) /\ Kept(b, o)
  BY DEF IInv, WriterInv, ApplyUpdate
<1>3. mind \in Mind
  BY <1>1 DEF IInv, TypeOK, Mind
<1>4. memory' = [memory EXCEPT ![o] = mind]
  BY DEF ApplyUpdate, Observe
<1>5. /\ memory' \in [Observer -> Mind] /\ memory'[o] = mind
      /\ \A i \in Observer \ {o} : memory'[i] = memory[i]
  BY <1>1, <1>3, <1>4 DEF IInv, TypeOK
<1>6. TypeOK'
  <2>1. pc' \in [Writer -> Steps]
    BY DEF IInv, TypeOK, ApplyUpdate, Tick, Goto, Steps
  <2>2. todo' \in [Writer -> SUBSET Observer]
    BY TickType DEF IInv, ApplyUpdate
  <2> QED
    BY <1>5, <2>1, <2>2 DEF IInv, TypeOK, ApplyUpdate
<1>7. MindsAreDurable'
  <2>1. ASSUME NEW i \in Observer
        PROVE  /\ memory'[i].observed \subseteq stored[i].observed
               /\ \A b \in memory'[i].beliefs : \E d \in stored[i].beliefs : Id(d) = Id(b)
    <3>1. CASE i = o
      BY <1>1, <1>2, <1>5, <3>1 DEF IInv, MindsAreDurable, Kept
    <3>2. CASE i # o
      BY <1>5, <3>2 DEF IInv, MindsAreDurable
    <3> QED
      BY <3>1, <3>2
  <2> QED
    BY <2>1 DEF MindsAreDurable, ApplyUpdate
<1>8. MemoryInv'
  <2>1. ASSUME NEW i \in Observer, NEW b \in memory'[i].beliefs
        PROVE  Rests(b, stored[i].observed)
    BY <1>2, <1>5 DEF IInv, MemoryInv
  <2> QED
    BY <2>1 DEF MemoryInv, Rests, ApplyUpdate
<1>9. /\ pc'[a] = "observer" /\ event'[a] = e /\ a \notin Worker
      /\ \A y \in Writer \ {a} : Idle(y)
  BY DEF IInv, TypeOK, ApplyUpdate, Tick, Goto, Idle
<1>10. WriterInv(a)'
  BY <1>1, <1>9 DEF WriterInv, Projecting
<1>11. \A y \in Writer : WriterInv(y)'
  BY <1>9, <1>10, UnchangedStored, WriterKept DEF IInv, ApplyUpdate
<1>12. PublishedIsProjected' /\ EvidenceIsObserved'
  BY DEF IInv, PublishedIsProjected, EvidenceIsObserved, ApplyUpdate
<1> QED
  BY <1>6, <1>7, <1>8, <1>11, <1>12 DEF IInv

LEMMA RestartInv == ASSUME IInv, NEW a \in Request, Restart(a) PROVE IInv'
<1>1. TypeOK'
  <2>1. faults' \in 0..MaxFaults
    BY FaultType DEF IInv, Restart
  <2>2. pc' \in [Writer -> Steps]
    BY DEF IInv, TypeOK, Restart, Steps
  <2>3. batch' \in [Writer -> SUBSET Event]
    BY DEF IInv, TypeOK, Restart
  <2>4. event' \in [Writer -> Event \cup {None}]
    BY DEF IInv, TypeOK, Restart
  <2>5. todo' \in [Writer -> SUBSET Observer]
    BY DEF IInv, TypeOK, Restart
  <2>6. observer' \in [Writer -> Observer \cup {None}]
    BY DEF IInv, TypeOK, Restart
  <2>7. update' \in [Writer -> SUBSET Belief]
    BY DEF IInv, TypeOK, Restart
  <2> QED
    BY <2>1, <2>2, <2>3, <2>4, <2>5, <2>6, <2>7 DEF IInv, TypeOK, Restart
<1>2. MindsAreDurable' /\ MemoryInv'
  BY DEF IInv, MindsAreDurable, MemoryInv, EvidenceIsObserved, Restart
<1>3. PublishedIsProjected' /\ EvidenceIsObserved'
  BY DEF IInv, PublishedIsProjected, EvidenceIsObserved, Restart
<1>4. ASSUME NEW y \in Worker PROVE WriterInv(y)'
  <2>1. Idle(y)
    BY DEF Restart, Idle
  <2> QED
    BY <2>1, UnchangedStored, WriterKept DEF IInv, Restart
<1>5. ASSUME NEW y \in Request PROVE WriterInv(y)'
  <2>1. y \notin Worker /\ pc'[y] \in {"next", "idle"}
    BY DEF Restart
  <2> QED
    BY <2>1 DEF WriterInv, Projecting
<1> QED
  BY <1>1, <1>2, <1>3, <1>4, <1>5 DEF IInv

LEMMA TimeInv == ASSUME IInv, NEW e \in Event, Time(e) PROVE IInv'
<1>1. CASE LeaseExpires(e)
  <2>1. faults' \in 0..MaxFaults
    BY <1>1, FaultType DEF IInv, LeaseExpires, TypeOK
  <2>2. expired' \subseteq Event
    BY <1>1 DEF IInv, TypeOK, LeaseExpires
  <2>3. TypeOK'
    BY <1>1, <2>1, <2>2 DEF IInv, TypeOK, LeaseExpires
  <2> QED
    BY <1>1, <2>3, TimeStep DEF LeaseExpires, Idle
<1>2. CASE BackoffEnds(e)
  <2>1. waiting' \subseteq Event
    BY <1>2 DEF IInv, TypeOK, BackoffEnds
  <2>2. TypeOK'
    BY <1>2, <2>1 DEF IInv, TypeOK, BackoffEnds
  <2> QED
    BY <1>2, <2>2, TimeStep DEF BackoffEnds, Idle
<1> QED
  BY <1>1, <1>2 DEF Time

(***************************************************************************)
(* The theorems.                                                           *)
(***************************************************************************)
LEMMA Step == IInv /\ [Next]_vars => IInv'
<1> SUFFICES ASSUME IInv, [Next]_vars PROVE IInv'
  OBVIOUS
<1>1. ASSUME NEW w \in Worker, WorkerStep(w) \/ Fails(w) \/ Crash(w) PROVE IInv'
  BY <1>1, TakeInv, TakeNextInv, BatchDoneInv, LoadObservationsInv, LoadBeliefsInv, SaveInv,
     CompleteInv, ReleaseInv, FailsInv, CrashInv DEF WorkerStep
<1>2. ASSUME NEW a \in Request, RequestStep(a) \/ RequestFails(a) \/ Restart(a) PROVE IInv'
  BY <1>2, ReadMindInv, CheckObservedInv, SaveMindInv, ApplyUpdateInv, ProjectedInv,
     TakeNextInv, CaughtUpInv, RequestFailsInv, RestartInv DEF RequestStep
<1>3. CASE UNCHANGED vars
  <2>1. TypeOK'
    BY <1>3 DEF IInv, TypeOK, vars
  <2>2. UNCHANGED <<stored, memory, published>> /\ \A y \in Writer : Idle(y)
    BY <1>3 DEF vars, Idle
  <2> QED
    BY <2>1, <2>2, TimeStep
<1> QED
  BY <1>1, <1>2, <1>3, SubmitInv, TimeInv DEF Next

LEMMA Invariance == Spec => []IInv
<1>1. Init => IInv
  BY InitInv
<1>2. IInv /\ [Next]_vars => IInv'
  BY Step
<1> QED
  BY <1>1, <1>2, PTL DEF Spec

\* What the projectors, the API and the outbox keep always has its type.
THEOREM TypeCorrect == Spec => []TypeOK
<1>1. IInv => TypeOK
  BY DEF IInv
<1> QED
  BY <1>1, Invariance, PTL

\* A row of the outbox is published only when each of its observers has observed the
\* event (cognition/projector.py:36-45), whichever workers had it.
THEOREM NothingIsPublishedEarly == Spec => []PublishedIsProjected
<1>1. IInv => PublishedIsProjected
  BY DEF IInv
<1> QED
  BY <1>1, Invariance, PTL

\* The API commits a mind before it publishes it in memory (project_subjective_event,
\* kernel/api/app.py:477-490), so what it shows is stored.
THEOREM MemoryIsBehindStorage == Spec => []MindsAreDurable
<1>1. IInv => MindsAreDurable
  BY DEF IInv
<1> QED
  BY <1>1, Invariance, PTL

\* However the writers of a mind overwrite each other (save_subjective_update,
\* cognition/postgres.py:71-223), no stored belief rests on an event its holder has
\* not observed, or on one that claims something else.
THEOREM NoBeliefWithoutEvidence == Spec => []EvidenceIsObserved
<1>1. IInv => EvidenceIsObserved
  BY DEF IInv
<1> QED
  BY <1>1, Invariance, PTL
===============================================================================
