------------------------- MODULE SubjectiveProjection -------------------------
(***************************************************************************)
(* From committed events to the beliefs of those who perceived them.       *)
(* Projector processes (cognition/projector.py) take events from the       *)
(* outbox and write the minds of their observers to PostgreSQL.  The API   *)
(* process (kernel/api/app.py) projects the same events on the threads of  *)
(* its requests, from minds it keeps in memory, and writes them to the     *)
(* same rows.  Either may fail or die between any two steps.               *)
(*                                                                         *)
(* The beliefs of an observer are about one subject and predicate.         *)
(***************************************************************************)
EXTENDS Integers, FiniteSets, Sequences

CONSTANTS
    Worker,     \* projector processes
    Request,    \* request threads of the API process
    Event,      \* ids of world events, as numbered in the outbox
    Observer,   \* entities with minds
    Grants,     \* who perceives an event
    Value,      \* what can be believed
    Claim,      \* what an event claims, or NoClaim
    NoClaim,
    None,
    Limit,      \* how many events a worker claims at once
    MaxFaults   \* bound on failures, crashes, restarts and stalls

Writer == Worker \cup Request

ASSUME EventAssumption == Event \subseteq Nat
ASSUME GrantsAssumption == Grants \in [Event -> SUBSET Observer]
ASSUME ClaimAssumption == Claim \in [Event -> Value \cup {NoClaim}] /\ NoClaim \notin Value
ASSUME WriterAssumption == Worker \cap Request = {} /\ None \notin Worker \cup Event \cup Observer
ASSUME BoundAssumption == Limit \in Nat \ {0} /\ MaxFaults \in Nat

\* A belief: its confidence is that of the events it was merged from, the first
\* of which is its identity; it may be contradicted by a later one.
Belief == [value : Value, sources : Seq(Event), contradicted : Event \cup {None}]
Mind == [observed : SUBSET Event, beliefs : SUBSET Belief]

VARIABLES
    committed, published, holder, expired, waiting,  \* the outbox
    stored,    \* minds in PostgreSQL
    memory,    \* minds in the API process
    serving,   \* whether the API process has caught up and takes requests
    pc, batch, event, todo, observer, update,        \* what each writer is doing
    faults     \* failures so far

outbox == <<committed, published, holder, expired, waiting>>
locals == <<batch, event, todo, observer, update>>
vars == <<outbox, stored, memory, serving, pc, locals, faults>>

Steps == {"idle", "next", "observer", "load beliefs", "check", "save", "publish", "release"}

Blank == [o \in Observer |-> [observed |-> {}, beliefs |-> {}]]

Init ==
    /\ committed = {} /\ published = {} /\ expired = {} /\ waiting = {}
    /\ holder = [e \in Event |-> None]
    /\ stored = Blank
    /\ memory = Blank
    /\ serving = TRUE
    /\ pc = [x \in Writer |-> "idle"]
    /\ batch = [x \in Writer |-> {}]
    /\ event = [x \in Writer |-> None]
    /\ todo = [x \in Writer |-> {}]
    /\ observer = [x \in Writer |-> None]
    /\ update = [x \in Writer |-> {}]
    /\ faults = 0

Goto(x, step) == pc' = [pc EXCEPT ![x] = step]

\* x begins to project e.
Begin(x, e) ==
    /\ event' = [event EXCEPT ![x] = e]
    /\ todo' = [todo EXCEPT ![x] = Grants[e]]
    /\ Goto(x, "observer")

\* x forgets what it was doing.
Forget(x) ==
    /\ event' = [event EXCEPT ![x] = None]
    /\ todo' = [todo EXCEPT ![x] = {}]
    /\ observer' = [observer EXCEPT ![x] = None]
    /\ update' = [update EXCEPT ![x] = {}]

\* x is done with observer o.
Tick(x, o) ==
    /\ todo' = [todo EXCEPT ![x] = @ \ {o}]
    /\ Goto(x, "observer")

Fault == faults < MaxFaults /\ faults' = faults + 1

(***************************************************************************)
(* Revision of beliefs.                                                    *)
(***************************************************************************)
Id(b) == Head(b.sources)
Active(beliefs) == {b \in beliefs : b.contradicted = None}

Claims(e) == Claim[e] # NoClaim

New(e) == [value |-> Claim[e], sources |-> <<e>>, contradicted |-> None]

\* What becomes of the active belief prior when e is observed.
Reviewed(prior, e) ==
    IF ~Claims(e) THEN {prior}
    ELSE IF prior.value = Claim[e]
           THEN {[prior EXCEPT !.sources = Append(@, e)]}
           ELSE {[prior EXCEPT !.contradicted = e], New(e)}

\* revise: what beliefs may become when e is observed.  Of several active beliefs
\* with one key the engine keeps one.
Revised(beliefs, e) ==
    LET past == beliefs \ Active(beliefs)
    IN  IF Active(beliefs) = {}
          THEN {past \cup (IF Claims(e) THEN {New(e)} ELSE {})}
          ELSE {past \cup Reviewed(prior, e) : prior \in Active(beliefs)}

\* INSERT ... ON CONFLICT (id) DO UPDATE, belief by belief.
Upsert(beliefs, new) == {b \in beliefs : \A n \in new : Id(n) # Id(b)} \cup new

Observe(mind, e, beliefs) == [observed |-> mind.observed \cup {e}, beliefs |-> beliefs]

(***************************************************************************)
(* The projector.                                                          *)
(***************************************************************************)
\* Mutant: the claims of a dead worker are never taken over.
ClaimableOnce == {e \in committed \ (published \cup waiting) : holder[e] = None}

Claimable == {e \in committed \ (published \cup waiting) : holder[e] = None \/ e \in expired}

\* _claim: rows another claim has locked are skipped.
Take(w) ==
    /\ pc[w] = "idle"
    /\ \E rows \in SUBSET Claimable :
         /\ rows # {} /\ Cardinality(rows) <= Limit
         /\ batch' = [batch EXCEPT ![w] = rows]
         /\ holder' = [e \in Event |-> IF e \in rows THEN w ELSE holder[e]]
         /\ expired' = expired \ rows
    /\ Goto(w, "next")
    /\ UNCHANGED <<committed, published, waiting, stored, memory, serving, event, todo,
                   observer, update, faults>>

\* The events of a batch are projected in the order of their rows.
TakeNext(w) ==
    /\ pc[w] = "next"
    /\ \E e \in batch[w] :
         /\ \A f \in batch[w] : e <= f
         /\ batch' = [batch EXCEPT ![w] = @ \ {e}]
         /\ Begin(w, e)
    /\ UNCHANGED <<outbox, stored, memory, serving, observer, update, faults>>

BatchDone(w) ==
    /\ pc[w] = "next"
    /\ batch[w] = {}
    /\ Goto(w, "idle")
    /\ UNCHANGED <<outbox, stored, memory, serving, locals, faults>>

\* load_projection reads the observations before the beliefs.  An event that was
\* observed is skipped.
LoadObservations(w) ==
    /\ pc[w] = "observer"
    /\ \E o \in todo[w] :
         /\ observer' = [observer EXCEPT ![w] = o]
         /\ IF event[w] \in stored[o].observed
              THEN Tick(w, o)
              ELSE Goto(w, "load beliefs") /\ UNCHANGED todo
    /\ UNCHANGED <<outbox, stored, memory, serving, batch, event, update, faults>>

LoadBeliefs(w) ==
    /\ pc[w] = "load beliefs"
    /\ \E beliefs \in Revised(stored[observer[w]].beliefs, event[w]) :
         update' = [update EXCEPT ![w] = beliefs]
    /\ Goto(w, "save")
    /\ UNCHANGED <<outbox, stored, memory, serving, batch, event, todo, observer, faults>>

\* Mutant: the beliefs are saved without the observation they come from.
SaveBeliefs(x) ==
    stored' = [stored EXCEPT ![observer[x]] =
                 [@ EXCEPT !.beliefs = Upsert(@, update[x])]]

\* save_subjective_update: one transaction.
SaveUpdate(x) ==
    stored' = [stored EXCEPT ![observer[x]] =
                 Observe(@, event[x], Upsert(@.beliefs, update[x]))]

Save(w) ==
    /\ pc[w] = "save"
    /\ SaveUpdate(w)
    /\ Tick(w, observer[w])
    /\ UNCHANGED <<outbox, memory, serving, batch, event, observer, update, faults>>

\* _complete; nothing is done if another worker has taken the row over.
Complete(w) ==
    /\ pc[w] = "observer"
    /\ todo[w] = {}
    /\ IF holder[event[w]] = w
         THEN /\ published' = published \cup {event[w]}
              /\ holder' = [holder EXCEPT ![event[w]] = None]
              /\ expired' = expired \ {event[w]}
         ELSE UNCHANGED <<published, holder, expired>>
    /\ Forget(w)
    /\ Goto(w, "next")
    /\ UNCHANGED <<committed, waiting, stored, memory, serving, batch, faults>>

\* The projection of an event raises.
Fails(w) ==
    /\ pc[w] \in {"observer", "load beliefs", "save"}
    /\ todo[w] # {}
    /\ Fault
    /\ Goto(w, "release")
    /\ UNCHANGED <<outbox, stored, memory, serving, locals>>

\* Mutant: a row is marked published whether its projection raised or not.
ReleasePublished(w) ==
    /\ pc[w] = "release"
    /\ published' = published \cup {event[w]}
    /\ holder' = [holder EXCEPT ![event[w]] = None]
    /\ expired' = expired \ {event[w]}
    /\ Forget(w)
    /\ Goto(w, "next")
    /\ UNCHANGED <<committed, waiting, stored, memory, serving, batch, faults>>

\* _release, with a backoff.
Release(w) ==
    /\ pc[w] = "release"
    /\ IF holder[event[w]] = w
         THEN /\ waiting' = waiting \cup {event[w]}
              /\ holder' = [holder EXCEPT ![event[w]] = None]
              /\ expired' = expired \ {event[w]}
         ELSE UNCHANGED <<waiting, holder, expired>>
    /\ Forget(w)
    /\ Goto(w, "next")
    /\ UNCHANGED <<committed, published, stored, memory, serving, batch, faults>>

\* The process dies, or an error outside of a projection ends it.  It is started
\* again under the same name.
Crash(w) ==
    /\ pc[w] # "idle"
    /\ Fault
    /\ Forget(w)
    /\ batch' = [batch EXCEPT ![w] = {}]
    /\ Goto(w, "idle")
    /\ UNCHANGED <<outbox, stored, memory, serving>>

Works(w, e) == e \in batch[w] \/ event[w] = e

\* Five minutes have passed since e was claimed.  A worker that is still at work
\* has stalled for that long.
LeaseExpires(e) ==
    /\ holder[e] # None
    /\ e \notin expired
    /\ IF Works(holder[e], e) THEN Fault ELSE UNCHANGED faults
    /\ expired' = expired \cup {e}
    /\ UNCHANGED <<committed, published, holder, waiting, stored, memory, serving, pc, locals>>

BackoffEnds(e) ==
    /\ e \in waiting
    /\ waiting' = waiting \ {e}
    /\ UNCHANGED <<committed, published, holder, expired, stored, memory, serving, pc, locals,
                   faults>>

(***************************************************************************)
(* The API process.                                                        *)
(***************************************************************************)

\* submit: the command and its outbox row are committed, or were before if the
\* request is a retry, and the event is projected either way.
Submit(a, e) ==
    /\ serving
    /\ pc[a] = "idle"
    /\ committed' = committed \cup {e}
    /\ Begin(a, e)
    /\ UNCHANGED <<published, holder, expired, waiting, stored, memory, serving, batch,
                   observer, update, faults>>

ReadMind(a) ==
    /\ pc[a] = "observer"
    /\ \E o \in todo[a] :
         /\ observer' = [observer EXCEPT ![a] = o]
         /\ \E beliefs \in Revised(memory[o].beliefs, event[a]) :
              update' = [update EXCEPT ![a] = beliefs]
    /\ Goto(a, "check")
    /\ UNCHANGED <<outbox, stored, memory, serving, batch, event, todo, faults>>

CheckObserved(a) ==
    /\ pc[a] = "check"
    /\ IF event[a] \in memory[observer[a]].observed
         THEN Tick(a, observer[a])
         ELSE Goto(a, "save") /\ UNCHANGED todo
    /\ UNCHANGED <<outbox, stored, memory, serving, batch, event, observer, update, faults>>

\* Mutant: an error of the repository is swallowed.
SaveMindUnsure(a) ==
    /\ pc[a] = "save"
    /\ SaveUpdate(a) \/ UNCHANGED stored
    /\ Goto(a, "publish")
    /\ UNCHANGED <<outbox, memory, serving, locals, faults>>

SaveMind(a) ==
    /\ pc[a] = "save"
    /\ SaveUpdate(a)
    /\ Goto(a, "publish")
    /\ UNCHANGED <<outbox, memory, serving, locals, faults>>

\* apply_subjective_update: the mind in memory follows the durable one.
ApplyUpdate(a) ==
    /\ pc[a] = "publish"
    /\ memory' = [memory EXCEPT ![observer[a]] = Observe(@, event[a], update[a])]
    /\ Tick(a, observer[a])
    /\ UNCHANGED <<outbox, stored, serving, batch, event, observer, update, faults>>

Projected(a) ==
    /\ pc[a] = "observer"
    /\ todo[a] = {}
    /\ Forget(a)
    /\ Goto(a, IF serving THEN "idle" ELSE "next")
    /\ UNCHANGED <<outbox, stored, memory, serving, batch, faults>>

\* The error reaches the client of a command that stays committed.
RequestFails(a) ==
    /\ serving
    /\ pc[a] \in {"observer", "check", "save", "publish"}
    /\ Fault
    /\ Forget(a)
    /\ Goto(a, "idle")
    /\ UNCHANGED <<outbox, stored, memory, serving, batch>>

\* The process starts: it restores the stored minds and projects every event it
\* knows, before it takes a request.
Restart(a) ==
    /\ Fault
    /\ memory' = stored
    /\ serving' = FALSE
    /\ pc' = [x \in Writer |-> IF x \in Worker THEN pc[x] ELSE IF x = a THEN "next" ELSE "idle"]
    /\ batch' = [x \in Writer |-> IF x \in Worker THEN batch[x]
                                  ELSE IF x = a THEN committed ELSE {}]
    /\ event' = [x \in Writer |-> IF x \in Worker THEN event[x] ELSE None]
    /\ todo' = [x \in Writer |-> IF x \in Worker THEN todo[x] ELSE {}]
    /\ observer' = [x \in Writer |-> IF x \in Worker THEN observer[x] ELSE None]
    /\ update' = [x \in Writer |-> IF x \in Worker THEN update[x] ELSE {}]
    /\ UNCHANGED <<outbox, stored>>

CaughtUp(a) ==
    /\ pc[a] = "next"
    /\ batch[a] = {}
    /\ serving' = TRUE
    /\ Goto(a, "idle")
    /\ UNCHANGED <<outbox, stored, memory, locals, faults>>

(***************************************************************************)
(* The specification.                                                      *)
(***************************************************************************)
WorkerStep(w) ==
    \/ Take(w) \/ TakeNext(w) \/ BatchDone(w) \/ LoadObservations(w) \/ LoadBeliefs(w)
    \/ Save(w) \/ Complete(w) \/ Release(w)

RequestStep(a) ==
    \/ ReadMind(a) \/ CheckObserved(a) \/ SaveMind(a) \/ ApplyUpdate(a) \/ Projected(a)
    \/ TakeNext(a) \/ CaughtUp(a)

Time(e) == LeaseExpires(e) \/ BackoffEnds(e)

Next ==
    \/ \E w \in Worker : WorkerStep(w) \/ Fails(w) \/ Crash(w)
    \/ \E a \in Request : RequestStep(a) \/ RequestFails(a) \/ Restart(a)
    \/ \E a \in Request, e \in Event : Submit(a, e)
    \/ \E e \in Event : Time(e)

Spec == Init /\ [][Next]_vars

\* The projector runs, and time passes.  Nobody need send a request.
FairSpec ==
    /\ Spec
    /\ \A w \in Worker : WF_vars(WorkerStep(w))
    /\ \A e \in Event : WF_vars(LeaseExpires(e)) /\ WF_vars(BackoffEnds(e))
------------------------------------------------------------------------------
(***************************************************************************)
(* Properties.                                                             *)
(***************************************************************************)
TypeOK ==
    /\ committed \subseteq Event /\ published \subseteq Event
    /\ expired \subseteq Event /\ waiting \subseteq Event
    /\ holder \in [Event -> Worker \cup {None}]
    /\ stored \in [Observer -> Mind]
    /\ memory \in [Observer -> Mind]
    /\ serving \in BOOLEAN
    /\ pc \in [Writer -> Steps]
    /\ batch \in [Writer -> SUBSET Event]
    /\ event \in [Writer -> Event \cup {None}]
    /\ todo \in [Writer -> SUBSET Observer]
    /\ observer \in [Writer -> Observer \cup {None}]
    /\ update \in [Writer -> SUBSET Belief]
    /\ faults \in 0..MaxFaults

\* A row is marked published only after every observer has observed the event
\* (docs/SPATIAL_EPISTEMICS.md:66-67), whoever failed, died or was overtaken on the
\* way.
PublishedIsProjected ==
    \A e \in published : \A o \in Grants[e] : e \in stored[o].observed

\* The mind in the memory of the API never runs ahead of the durable one
\* (preview_subjective_update, cognition/store.py:123: "for durable
\* commit-before-publish flows").
MindsAreDurable ==
    \A o \in Observer :
      /\ memory[o].observed \subseteq stored[o].observed
      /\ \A b \in memory[o].beliefs : \E d \in stored[o].beliefs : Id(d) = Id(b)

Rests(b, seen) ==
    \A i \in DOMAIN b.sources : b.sources[i] \in seen /\ Claim[b.sources[i]] = b.value

\* A belief rests on events its holder has observed and that claim it.
EvidenceIsObserved ==
    \A o \in Observer : \A b \in stored[o].beliefs : Rests(b, stored[o].observed)

\* Every committed event is published in the end, although a worker may die with
\* it, stall beyond its lease, or fail and back off.
EventsArePublished == \A e \in Event : e \in committed ~> e \in published

===============================================================================
