---------------------------- MODULE TrialBranches ----------------------------
(***************************************************************************)
(* One world with its canonical branch and the trials branched from its    *)
(* snapshots, in the reference mode that keeps them in memory: the command *)
(* bus (kernel/command_bus.py) over InMemoryStateStore (kernel/state.py),  *)
(* snapshots and trial branches (kernel/application.py), promotion         *)
(* (kernel/branching.py and its route), and the trial engine with its      *)
(* executor (experiments/trial_engine.py, experiments/executor.py).        *)
(*                                                                         *)
(* Requests and experiment jobs run on threads.  Each call of the store    *)
(* holds its lock; between the calls other threads run.  What submit keeps *)
(* besides (replay bases, perceptions) is in DurableCommands.              *)
(***************************************************************************)
EXTENDS Integers, Sequences, FiniteSets

CONSTANTS
    Client,         \* threads that serve requests
    Worker,         \* threads that execute trial runs
    Key,            \* idempotency keys of clients
    Command,        \* commands clients send, with their parameters
    Entity,         \* entities a command may spawn
    Seed,           \* seeds of the trial branches clients ask for
    Run,            \* trial runs: a scenario's version, persona, seed and attempt
    Scenario,       \* Scenario[r]: the command of a run
    Projection, InitProjection,
    Delta,          \* lists of deltas
    Raises,         \* outcome of a handler that raises
    Canonical,      \* the canonical branch
    None,
    Handle(_, _),   \* Handle(c, p): the deltas c computes on p, or Raises
    Apply(_, _),    \* Apply(p, d): the projection the deltas d make of p
    Spawns(_),      \* Spawns(c): the entities c creates
    InitEntities,   \* entities the world is created with
    Sent(_, _),     \* bound: Sent(b, key) are the commands clients send to b under key
    MaxSnapshots,   \* bound: no snapshot is asked for once there are this many
    MaxTrials       \* bound: no trial branch is asked for once there are this many

Thread == Client \cup Worker

\* A snapshot is identified by its boundary and content; a trial branch by the
\* snapshot and the seed or the run it is for.
Snapshot == [through : Nat, state : Projection]
Trial == [snapshot : Snapshot, label : Seed \cup Run]
Branch == Trial \cup {Canonical}

\* A promotion package is a command, and its own idempotency key.
Package == [source : Trial, expected : Projection, deltas : Delta]

ASSUME SpaceAssumption == /\ InitProjection \in Projection
                          /\ Scenario \in [Run -> Command]
                          /\ InitEntities \subseteq Entity
                          /\ \A c \in Command : Spawns(c) \subseteq Entity
                          /\ MaxSnapshots \in Nat /\ MaxTrials \in Nat
ASSUME NameAssumption == /\ Canonical \notin Trial /\ Seed \cap Run = {}
                         /\ Command \cap Package = {} /\ Run \cap (Key \cup Package) = {}
                         /\ Key \cap Package = {} /\ Raises \notin Delta
                         /\ None \notin Projection /\ None \notin Run

\* A receipt: the key, the command and its deltas, and the state it left.
Entry == [key : Key \cup Package \cup Run, op : Command \cup Package,
          delta : Delta, after : Projection]

VARIABLES
    state,      \* the branches of the store, with their projections
    receipts,   \* the receipts of a branch, in the order of its commits
    history,    \* command_history of a branch
    index,      \* entities of a branch, in the entity index of the application
    snapshots,  \* snapshots of the canonical branch
    pc, req, mark, seen, receipt, final, \* what each thread is doing
    outcomes    \* what trial runs have ended with

store == <<state, receipts>>
locals == <<req, mark, seen, receipt, final>>
vars == <<store, history, index, snapshots, pc, locals, outcomes>>

Steps == {"idle", "write snapshot", "look up trial", "add trial", "index entities", "execute",
          "look up event", "record", "observe", "verify"}
Request == [branch : Branch, op : Command \cup Package \cup {None},
            key : Key \cup Package \cup Run \cup {None}]

Init ==
    /\ state = [b \in {Canonical} |-> InitProjection]
    /\ receipts = [b \in {Canonical} |-> <<>>]
    /\ history = [b \in {Canonical} |-> <<>>]
    /\ index = [b \in {Canonical} |-> InitEntities]
    /\ snapshots = {}
    /\ pc = [t \in Thread |-> "idle"]
    /\ req = [t \in Thread |-> None]
    /\ mark = [t \in Thread |-> 0]
    /\ seen = [t \in Thread |-> None]
    /\ receipt = [t \in Thread |-> None]
    /\ final = [t \in Thread |-> None]
    /\ outcomes = {}

Goto(t, step) == pc' = [pc EXCEPT ![t] = step]

Ask(t, b, op, key) == req' = [req EXCEPT ![t] = [branch |-> b, op |-> op, key |-> key]]

Leave(t) ==
    /\ Goto(t, "idle")
    /\ req' = [req EXCEPT ![t] = None]
    /\ mark' = [mark EXCEPT ![t] = 0]
    /\ seen' = [seen EXCEPT ![t] = None]
    /\ receipt' = [receipt EXCEPT ![t] = None]
    /\ final' = [final EXCEPT ![t] = None]

\* t executes a trial run.
IsRun(t) == req[t].key \in Run

\* The projection a branch was created with.
Origin(b) == IF b = Canonical THEN InitProjection ELSE b.snapshot.state

\* The projection the first n receipts of b leave.
StateAfter(b, n) == IF n = 0 THEN Origin(b) ELSE receipts[b][n].after

(***************************************************************************)
(* Snapshots.  The boundary and the projection are read one after the      *)
(* other.                                                                  *)
(***************************************************************************)
ReadBoundary(t) ==
    /\ pc[t] = "idle"
    /\ Cardinality(snapshots) < MaxSnapshots
    /\ mark' = [mark EXCEPT ![t] = Len(history[Canonical])]
    /\ Goto(t, "write snapshot")
    /\ UNCHANGED <<store, history, index, snapshots, req, seen, receipt, final, outcomes>>

WriteSnapshot(t) ==
    /\ pc[t] = "write snapshot"
    /\ snapshots' = snapshots \cup {[through |-> mark[t], state |-> state[Canonical]]}
    /\ Leave(t)
    /\ UNCHANGED <<store, history, index, outcomes>>

(***************************************************************************)
(* Trial branches.                                                         *)
(***************************************************************************)

\* SimulationApplication.create_trial, asked for by a client.
CreateTrial(t, s, seed) ==
    /\ pc[t] = "idle"
    /\ s \in snapshots
    /\ Cardinality(DOMAIN state) <= MaxTrials
    /\ Ask(t, [snapshot |-> s, label |-> seed], None, None)
    /\ Goto(t, "look up trial")
    /\ UNCHANGED <<store, history, index, snapshots, mark, seen, receipt, final, outcomes>>

\* TrialEngine.run: the hash of the canonical branch is read first.
StartRun(t, s, r) ==
    /\ pc[t] = "idle"
    /\ s \in snapshots
    /\ Cardinality(DOMAIN state) <= MaxTrials
    /\ seen' = [seen EXCEPT ![t] = state[Canonical]]
    /\ Ask(t, [snapshot |-> s, label |-> r], Scenario[r], r)
    /\ Goto(t, "look up trial")
    /\ UNCHANGED <<store, history, index, snapshots, mark, receipt, final, outcomes>>

LookUpTrial(t) ==
    /\ pc[t] = "look up trial"
    /\ Goto(t, IF req[t].branch \notin DOMAIN state THEN "add trial"
               ELSE IF IsRun(t) THEN "execute" ELSE "index entities")
    /\ UNCHANGED <<store, history, index, snapshots, locals, outcomes>>

Extended(f, b, value) == [c \in DOMAIN f \cup {b} |-> IF c = b THEN value ELSE f[c]]

\* Mutant: a trial starts from the canonical branch as it is, not from its snapshot.
BranchedProjection(b) == state[Canonical]

\* The projection of the snapshot artifact.
LoadedProjection(b) == b.snapshot.state

AddTrial(t) ==
    LET b == req[t].branch IN
    /\ pc[t] = "add trial"
    /\ b \notin DOMAIN state
    /\ state' = Extended(state, b, LoadedProjection(b))
    /\ receipts' = Extended(receipts, b, <<>>)
    /\ history' = Extended(history, b, <<>>)
    /\ index' = Extended(index, b, {})
    /\ Goto(t, IF IsRun(t) THEN "execute" ELSE "index entities")
    /\ UNCHANGED <<snapshots, locals, outcomes>>

\* "Branch already exists": another thread was faster.
AddFails(t) ==
    /\ pc[t] = "add trial"
    /\ req[t].branch \in DOMAIN state
    /\ Leave(t)
    /\ UNCHANGED <<store, history, index, snapshots, outcomes>>

\* The entities the canonical branch has by now are indexed for the trial too.
IndexEntities(t) ==
    /\ pc[t] = "index entities"
    /\ index' = [index EXCEPT ![req[t].branch] = @ \cup index[Canonical]]
    /\ Leave(t)
    /\ UNCHANGED <<store, history, snapshots, outcomes>>

(***************************************************************************)
(* Commands.                                                               *)
(***************************************************************************)

\* Branches of trial runs.
RunBranches == {b \in DOMAIN state \ {Canonical} : b.label \in Run}

\* A client's command.  Clients leave the branches of trial runs alone, and
\* scenarios are not allowed on the canonical branch.
Submit(t, b, c, key) ==
    /\ pc[t] = "idle"
    /\ b \in DOMAIN state \ RunBranches
    /\ b = Canonical => c \notin {Scenario[r] : r \in Run}
    /\ c \in Sent(b, key)
    /\ Spawns(c) \cap index[b] = {}
    /\ Ask(t, b, c, key)
    /\ Goto(t, "execute")
    /\ UNCHANGED <<store, history, index, snapshots, mark, seen, receipt, final, outcomes>>

\* Deltas a reviewer may promote: those of a command of the trial.
Consequences(b) == {receipts[b][i].delta : i \in 1..Len(receipts[b])}

\* The promotion route.  The package must expect the base of its trial.
Promote(t, source, expected, deltas) ==
    /\ pc[t] = "idle"
    /\ source \in DOMAIN state \ {Canonical}
    /\ deltas \in Consequences(source)
    /\ expected = Origin(source)
    /\ LET package == [source |-> source, expected |-> expected, deltas |-> deltas]
       IN  Ask(t, Canonical, package, package)
    /\ Goto(t, "execute")
    /\ UNCHANGED <<store, history, index, snapshots, mark, seen, receipt, final, outcomes>>

\* Mutant: the handler trusts the check of the route.
OutcomeUnchecked(op, p) == IF op \in Command THEN Handle(op, p) ELSE op.deltas

\* The handlers.  promote_consequences compares the branch with what the package
\* expects of it.
Outcome(op, p) ==
    IF op \in Command THEN Handle(op, p) ELSE IF p = op.expected THEN op.deltas ELSE Raises

\* Mutant: only the newest receipt of the branch is compared.
NewestReceiptFor(b, key) ==
    {r \in {receipts[b][i] : i \in {Len(receipts[b])} \ {0}} : r.key = key}

\* The receipt key has on branch b, if any.
ReceiptsFor(b, key) == {r \in {receipts[b][i] : i \in 1..Len(receipts[b])} : r.key = key}

\* execute_atomic returns the receipt of a duplicate.
Duplicate(t) ==
    /\ pc[t] = "execute"
    /\ \E r \in ReceiptsFor(req[t].branch, req[t].key) : receipt' = [receipt EXCEPT ![t] = r]
    /\ Goto(t, "look up event")
    /\ UNCHANGED <<store, history, index, snapshots, req, mark, seen, final, outcomes>>

\* Mutant: trials share the projection of the canonical branch.
PublishShared(b, p) ==
    state' = [c \in DOMAIN state |-> IF c = b \/ c = Canonical THEN p ELSE state[c]]

\* The working copy becomes the projection of the branch.
PublishCopy(b, p) == state' = [state EXCEPT ![b] = p]

\* execute_atomic evaluates the command on a copy and publishes it.
Commit(t) ==
    LET b == req[t].branch
        delta == Outcome(req[t].op, state[b])
        entry == [key |-> req[t].key, op |-> req[t].op, delta |-> delta,
                  after |-> Apply(state[b], delta)]
    IN  /\ pc[t] = "execute"
        /\ ReceiptsFor(b, req[t].key) = {}
        /\ delta # Raises
        /\ PublishCopy(b, entry.after)
        /\ receipts' = [receipts EXCEPT ![b] = Append(@, entry)]
        /\ receipt' = [receipt EXCEPT ![t] = entry]
        /\ Goto(t, "look up event")
        /\ UNCHANGED <<history, index, snapshots, req, mark, seen, final, outcomes>>

\* The handler raises.  A trial run still verifies the canonical branch.
Refuse(t) ==
    /\ pc[t] = "execute"
    /\ ReceiptsFor(req[t].branch, req[t].key) = {}
    /\ Outcome(req[t].op, state[req[t].branch]) = Raises
    /\ IF IsRun(t) THEN Goto(t, "verify") /\ UNCHANGED locals ELSE Leave(t)
    /\ UNCHANGED <<store, history, index, snapshots, outcomes>>

Submitted(t) == IF IsRun(t) THEN Goto(t, "observe") /\ UNCHANGED locals ELSE Leave(t)

\* submit looks the event of the receipt up, and records a new one afterwards.
LookUpEvent(t) ==
    LET known == {history[req[t].branch][i].key : i \in 1..Len(history[req[t].branch])} IN
    /\ pc[t] = "look up event"
    /\ IF receipt[t].key \in known THEN Submitted(t)
                                    ELSE Goto(t, "record") /\ UNCHANGED locals
    /\ UNCHANGED <<store, history, index, snapshots, outcomes>>

Created(op) == IF op \in Command THEN Spawns(op) ELSE {}

Record(t) ==
    LET b == req[t].branch IN
    /\ pc[t] = "record"
    /\ history' = [history EXCEPT ![b] = Append(@, receipt[t])]
    /\ index' = [index EXCEPT ![b] = @ \cup Created(receipt[t].op)]
    /\ Submitted(t)
    /\ UNCHANGED <<store, snapshots, outcomes>>

(***************************************************************************)
(* The end of a trial run.                                                 *)
(***************************************************************************)
Ended(t, status) ==
    outcomes' = outcomes \cup
        {[branch |-> req[t].branch, status |-> status, final |-> final[t]]}

\* execute reads the final state of the trial branch.
Observe(t) ==
    /\ pc[t] = "observe"
    /\ final' = [final EXCEPT ![t] = state[req[t].branch]]
    /\ Goto(t, "verify")
    /\ UNCHANGED <<store, history, index, snapshots, req, mark, seen, receipt, outcomes>>

\* The canonical branch must be as it was when the run began.
Verify(t) ==
    /\ pc[t] = "verify"
    /\ Ended(t, IF state[Canonical] # seen[t] THEN "isolation error"
                ELSE IF final[t] = None THEN "failed" ELSE "completed")
    /\ Leave(t)
    /\ UNCHANGED <<store, history, index, snapshots>>

(***************************************************************************)
(* The specification.                                                      *)
(***************************************************************************)
Serve(t) ==
    \/ ReadBoundary(t)
    \/ \E s \in snapshots, seed \in Seed : CreateTrial(t, s, seed)
    \/ \E b \in DOMAIN state, c \in Command, key \in Key : Submit(t, b, c, key)
    \/ \E source \in DOMAIN state \ {Canonical} :
         \E expected \in {Origin(source), state[Canonical]}, deltas \in Consequences(source) :
            Promote(t, source, expected, deltas)

Step(t) ==
    \/ WriteSnapshot(t)
    \/ LookUpTrial(t) \/ AddTrial(t) \/ AddFails(t) \/ IndexEntities(t)
    \/ Duplicate(t) \/ Commit(t) \/ Refuse(t)
    \/ LookUpEvent(t) \/ Record(t)
    \/ Observe(t) \/ Verify(t)

Next ==
    \/ \E t \in Client : Serve(t)
    \/ \E t \in Worker, s \in snapshots, r \in Run : StartRun(t, s, r)
    \/ \E t \in Thread : Step(t)

Spec == Init /\ [][Next]_vars

\* A reviewer promotes what deltas he likes.  So far they were always the ones that some
\* command computes of the base: the promotions do to the canonical branch what a command
\* could have done.
PromotedInContext ==
    \A i \in 1..Len(receipts[Canonical]) :
        LET op == receipts[Canonical][i].op IN
        op \notin Command => \E c \in Command : op.deltas = Handle(c, op.expected)
------------------------------------------------------------------------------
(***************************************************************************)
(* Properties.                                                             *)
(***************************************************************************)
TypeOK ==
    /\ Canonical \in DOMAIN state /\ DOMAIN state \subseteq Branch
    /\ state \in [DOMAIN state -> Projection]
    /\ receipts \in [DOMAIN state -> Seq(Entry)]
    /\ history \in [DOMAIN state -> Seq(Entry)]
    /\ index \in [DOMAIN state -> SUBSET Entity]
    /\ snapshots \subseteq Snapshot
    /\ pc \in [Thread -> Steps]
    /\ req \in [Thread -> Request \cup {None}]
    /\ mark \in [Thread -> Nat]
    /\ seen \in [Thread -> Projection \cup {None}]
    /\ receipt \in [Thread -> Entry \cup {None}]
    /\ final \in [Thread -> Projection \cup {None}]
    /\ outcomes \subseteq [branch : Branch, status : {"completed", "failed", "isolation error"},
                            final : Projection \cup {None}]

\* Every branch is what its own commands have made of its origin: each receipt
\* was computed from the state the one before left, and nothing done on another
\* branch, refused, or read in between shows ("Trials write only their own
\* projection and ledger", docs/ARCHITECTURE.md:80).
BranchesReplay ==
    \A b \in DOMAIN state :
        /\ state[b] = StateAfter(b, Len(receipts[b]))
        /\ \A i \in 1..Len(receipts[b]) :
             LET r == receipts[b][i] IN
             /\ r.delta = Outcome(r.op, StateAfter(b, i - 1)) /\ r.delta # Raises
             /\ r.after = Apply(StateAfter(b, i - 1), r.delta)

\* However often a command is sent and from whichever threads, its key commits
\* once on a branch (kernel/state.py:98-119).
OneCommitPerKey ==
    \A b \in DOMAIN state : \A i, j \in 1..Len(receipts[b]) :
        receipts[b][i].key = receipts[b][j].key => i = j

\* Consequences of a trial reach the canonical branch only while it is as the
\* trial found it, whatever was committed between the review and the promotion
\* ("the expected current canonical state hash", docs/ARCHITECTURE.md:81-86).
PromotionsMeetTheirBase ==
    \A i \in 1..Len(receipts[Canonical]) :
        LET r == receipts[Canonical][i] IN
        r.op \notin Command => StateAfter(Canonical, i - 1) = Origin(r.op.source)

\* A trial run ends where its scenario takes its snapshot, whatever happens to the
\* canonical branch meanwhile and however often the run is repeated ("reproducible
\* trials", docs/SIMULATION_KERNEL.md:24).
TrialsAreReproducible ==
    \A o \in outcomes : o.status = "completed" =>
        o.final = Apply(Origin(o.branch), Handle(Scenario[o.branch.label], Origin(o.branch)))

\* A run is reported to have changed the canonical branch only if it did, and none
\* does ("Trial executor changed the canonical snapshot state hash",
\* experiments/trial_engine.py:104).
NoFalseAlarm == \A o \in outcomes : o.status # "isolation error"

(***************************************************************************)
(* What a branch implements: every branch, the canonical one and each      *)
(* trial, is a CommandLedger of its own, as the branch that is kept in     *)
(* PostgreSQL is (DurableCommands).  Its receipts are the ledger, and what *)
(* is in its history is what clients were answered with.                   *)
(***************************************************************************)
Receipts(b) == IF b \in DOMAIN state THEN receipts[b] ELSE <<>>

Recorded(b) ==
    IF b \in DOMAIN state THEN {history[b][i] : i \in 1..Len(history[b])} ELSE {}

Ledger(b) == INSTANCE CommandLedger WITH
    Key <- Key \cup Package \cup Run, Op <- Command \cup Package,
    InitProjection <- Origin(b),
    Handler <- [op \in Command \cup Package |-> [p \in Projection |-> Outcome(op, p)]],
    Effect <- [d \in Delta |-> [p \in Projection |-> Apply(p, d)]],
    ledger <- Receipts(b), answered <- Recorded(b)

\* What Ledger(b)!Next allows.  The key and the command of a commit are those of the receipt
\* it leaves.
LedgerStep(b) ==
    \/ UNCHANGED <<Receipts(b), Recorded(b)>>
    \/ \E i \in 1..Len(Receipts(b)') :
           Ledger(b)!Commit(Receipts(b)'[i].key, Receipts(b)'[i].op)
    \/ \E i \in 1..Len(Receipts(b)) : Ledger(b)!Answer(i)

\* Whatever clients send, try out and promote and workers run, a step is to any branch one step
\* of its own ledger or none: a key is decided once, by its command's handler on what the
\* branch is at that moment, nothing is taken back, and only what was committed to a branch is
\* in its history (kernel/state.py:98-120, kernel/application.py:352-388).
BranchesAreLedgers == [][\A b \in DOMAIN state' : LedgerStep(b)]_vars
==============================================================================
