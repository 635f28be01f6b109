--------------------------- MODULE DurableCommands ---------------------------
(***************************************************************************)
(* Command submission with PostgreSQL as the store, for one branch and the *)
(* (run, actor) pairs that submit to it: SimulationApplication.submit      *)
(* (kernel/application.py) around PostgresCommandRepository.execute        *)
(* (kernel/postgres_repository.py), and the restart of the API process     *)
(* (PostgresControlPlane.hydrate, kernel/postgres_control_plane.py).       *)
(*                                                                         *)
(* The API process serves every request on a thread of its own.  A command *)
(* is committed by one transaction that locks the branch row, but the      *)
(* caches of the process (projection, command history, event index, entity *)
(* index, replay basis) are read and written before and after that         *)
(* transaction with no lock at all, so the steps of two threads interleave *)
(* there, and a crash or a lost connection may come between any two.       *)
(***************************************************************************)
EXTENDS Integers, Sequences, FiniteSets

CONSTANTS
    Thread,         \* request threads of the API process
    Key,            \* (run, actor, idempotency key) triples on this branch
    Op,             \* logical commands: a command type with its parameters
    Entity,         \* entities a command may create
    NoEntity,       \* "this command creates no entity"
    NoBase,         \* "this branch has no replay basis"
    Raises,         \* outcome of a handler that raises
    Projection,     \* projections of the branch
    InitProjection, \* the projection it is created with
    Delta,          \* lists of deltas a handler may return
    Handler,        \* Handler[op][p]: the deltas op computes on p, or Raises
    Apply,          \* Apply[d][p]: the projection the deltas d make of p
    Spawns,         \* Spawns[op]: the entity op creates, or NoEntity
    StoreMayFail,   \* whether a transaction after the commit may fail
    MaxSnapshots    \* bound: no snapshot is asked for once there are this many

ASSUME HandlerAssumption == Handler \in [Op -> [Projection -> Delta \cup {Raises}]]
ASSUME RaisesAssumption == Raises \notin Delta
ASSUME ApplyAssumption ==
    \A op \in Op, p \in Projection :
        Handler[op][p] # Raises => Apply[Handler[op][p]][p] \in Projection
ASSUME InitAssumption == InitProjection \in Projection
ASSUME SpawnsAssumption == Spawns \in [Op -> Entity \cup {NoEntity}]
ASSUME NoEntityAssumption == NoEntity \notin Entity
ASSUME NoBaseAssumption == NoBase \notin [state : Projection, version : Nat, offset : Nat]
ASSUME StoreAssumption == StoreMayFail \in BOOLEAN
ASSUME MaxSnapshotsAssumption == MaxSnapshots \in Nat

VARIABLES
    \* PostgreSQL.
    log,         \* sim.command_log with its sim.events rows, in seq_id order
    proj,        \* sim.branch_projections: the version and state of the branch
    entities,    \* sim.entities
    outbox,      \* events put in sim.outbox, named by their key
    snapshots,   \* sim.snapshots with their artifacts
    lock,        \* threads whose transaction holds the branch row lock
    \* The API process.
    mem,         \* the cached BranchState
    history,     \* command_history
    known,       \* the keys of the events in self.events
    memEntities, \* the entities in self.entities
    base,        \* replay_bases and replay_offsets
    \* Its threads.  A local is cleared once it has been used for the last time.
    pc, req, mark, manifest, receipt, loaded,
    \* The clients.
    acked,       \* ledger entries clients were answered with
    \* History.  No guard and no other variable depends on these.
    disturbed,   \* whether the process was disturbed since it was started (see Goto)
    everDisturbed \* whether this or an earlier process of the branch was

db == <<log, proj, entities, outbox, snapshots>>
caches == <<mem, history, known, memEntities, base>>
locals == <<req, mark, manifest, receipt, loaded>>
vars == <<log, proj, entities, outbox, snapshots, lock, mem, history, known,
          memEntities, base, pc, req, mark, manifest, receipt, loaded, acked,
          disturbed, everDisturbed>>

(***************************************************************************)
(* Values.                                                                 *)
(***************************************************************************)

Request == [key : Key, op : Op]

\* A row of the ledger.  The event of the row is determined by its key
\* (stable_event_id), and the resulting hash by the projection "after".
Record == [key : Key, op : Op, delta : Delta, after : Projection]

Image == [state : Projection, version : Nat]
Base == [state : Projection, version : Nat, offset : Nat]
Manifest == [state : Projection, through : Nat]
Snapshot == [state : Projection, through : Nat, version : Nat]

\* A receipt: the ledger row, and the entity the process still has to create.
\* A receipt read back from the ledger creates nothing, because
\* entity_mutations are left out of the stored result.
Receipt == [record : Record, creates : Entity \cup {NoEntity}]

\* Where a thread may be, each named for what it does next.
Steps == {"idle", "find basis", "set basis", "take boundary", "write snapshot",
          "save snapshot", "lock branch", "look up receipt", "commit", "load",
          "assign", "look up event", "record", "respond"}

\* Where a thread relies on what it has read of the caches or the tables with no
\* lock: about to write the caches, or to put what it has read in a snapshot.
Unlocked == {"set basis", "write snapshot", "save snapshot", "load", "assign",
             "look up event", "record"}

\* The projection after the first n rows of a ledger.
StateAfter(rows, n) == IF n = 0 THEN InitProjection ELSE rows[n].after

\* The projections the branch has had.
Reached == {StateAfter(log, n) : n \in 0..Len(log)}

Committed(key) == \E i \in 1..Len(log) : log[i].key = key

\* The rows a ledger holds.
Rows(rows) == {rows[i] : i \in 1..Len(rows)}

(***************************************************************************)
(* Initially the branch has just been created in the process and synced.   *)
(***************************************************************************)
Init ==
    /\ log = <<>>
    /\ proj = [state |-> InitProjection, version |-> 0]
    /\ entities = {}
    /\ outbox = {}
    /\ snapshots = {}
    /\ lock = {}
    /\ mem = [state |-> InitProjection, version |-> 0]
    /\ history = <<>>
    /\ known = {}
    /\ memEntities = {}
    /\ base = NoBase
    /\ pc = [t \in Thread |-> "idle"]
    /\ req = [t \in Thread |-> <<>>]
    /\ mark = [t \in Thread |-> 0]
    /\ manifest = [t \in Thread |-> <<>>]
    /\ receipt = [t \in Thread |-> <<>>]
    /\ loaded = [t \in Thread |-> <<>>]
    /\ acked = {}
    /\ disturbed = FALSE
    /\ everDisturbed = FALSE

\* t leaves a commit that the process does not know of.
CutsOff(t, step) == pc[t] = "load" /\ step = "idle" /\ receipt[t].record.key \notin known

\* The process is disturbed when a thread joins another one in the unlocked
\* sections, or fails between a commit and the caches.
Goto(t, step) ==
    /\ pc' = [pc EXCEPT ![t] = step]
    /\ disturbed' = \/ disturbed
                    \/ step \in Unlocked /\ \E u \in Thread \ {t} : pc[u] \in Unlocked
                    \/ CutsOff(t, step)
    /\ everDisturbed' = (everDisturbed \/ disturbed')

\* The request is over, with or without an answer.
Finish(t) ==
    /\ Goto(t, "idle")
    /\ req' = [req EXCEPT ![t] = <<>>]
    /\ mark' = [mark EXCEPT ![t] = 0]
    /\ manifest' = [manifest EXCEPT ![t] = <<>>]
    /\ receipt' = [receipt EXCEPT ![t] = <<>>]
    /\ loaded' = [loaded EXCEPT ![t] = <<>>]

(***************************************************************************)
(* Requests.  A client may send any command under any key, and the same    *)
(* one again at any time, on another thread too.                           *)
(***************************************************************************)

\* A spawn is refused at once when the process already knows the entity, before
\* any look at the idempotency key.  A refusal leaves no trace.
RefusedAtOnce(request) == Spawns[request.op] \in memEntities

Receive(t) ==
    /\ pc[t] = "idle"
    /\ \E r \in Request :
         /\ ~RefusedAtOnce(r)
         /\ req' = [req EXCEPT ![t] = r]
    /\ Goto(t, "find basis")
    /\ UNCHANGED <<db, lock, caches, mark, manifest, receipt, loaded, acked>>

\* POST /snapshots enters submit's code where the snapshot is taken.
ReceiveSnapshot(t) ==
    /\ pc[t] = "idle"
    /\ Cardinality(snapshots) < MaxSnapshots
    /\ Goto(t, "take boundary")
    /\ UNCHANGED <<db, lock, caches, locals, acked>>

(***************************************************************************)
(* The replay basis, created by the first command after a start that found *)
(* none: the history length is read, then the cached state is copied, then *)
(* a snapshot of it is persisted.                                          *)
(***************************************************************************)
HasBasis(t) ==
    /\ pc[t] = "find basis"
    /\ base # NoBase
    /\ Goto(t, "lock branch")
    /\ UNCHANGED <<db, lock, caches, locals, acked>>

LacksBasis(t) ==
    /\ pc[t] = "find basis"
    /\ base = NoBase
    /\ mark' = [mark EXCEPT ![t] = Len(history)]
    /\ Goto(t, "set basis")
    /\ UNCHANGED <<db, lock, caches, req, manifest, receipt, loaded, acked>>

SetBasis(t) ==
    /\ pc[t] = "set basis"
    /\ base' = [state |-> mem.state, version |-> mem.version, offset |-> mark[t]]
    /\ Goto(t, "take boundary")
    /\ UNCHANGED <<db, lock, mem, history, known, memEntities, locals, acked>>

\* Mutant: the boundary counts the command about to be executed.
TakeNextBoundary(t) ==
    /\ pc[t] = "take boundary"
    /\ mark' = [mark EXCEPT ![t] = Len(history) + 1]
    /\ Goto(t, "write snapshot")
    /\ UNCHANGED <<db, lock, caches, req, manifest, receipt, loaded, acked>>

\* create_branch_snapshot reads the command boundary before the projections.
TakeBoundary(t) ==
    /\ pc[t] = "take boundary"
    /\ mark' = [mark EXCEPT ![t] = Len(history)]
    /\ Goto(t, "write snapshot")
    /\ UNCHANGED <<db, lock, caches, req, manifest, receipt, loaded, acked>>

WriteSnapshot(t) ==
    /\ pc[t] = "write snapshot"
    /\ manifest' = [manifest EXCEPT ![t] = [state |-> mem.state, through |-> mark[t]]]
    /\ Goto(t, "save snapshot")
    /\ UNCHANGED <<db, lock, caches, req, mark, receipt, loaded, acked>>

\* persist_snapshot: ON CONFLICT DO NOTHING on an id made of the boundary and
\* the state hash, so the version of the first writer stays.
SaveSnapshot(t) ==
    /\ pc[t] = "save snapshot"
    /\ LET new == manifest[t]
           isNew == \A s \in snapshots : <<s.state, s.through>> # <<new.state, new.through>>
       IN  snapshots' = snapshots \cup
               {s \in {[state |-> new.state, through |-> new.through,
                        version |-> mem.version]} : isNew}
    /\ IF req[t] = <<>>
         THEN Finish(t)
         ELSE /\ Goto(t, "lock branch")
              /\ mark' = [mark EXCEPT ![t] = 0]
              /\ manifest' = [manifest EXCEPT ![t] = <<>>]
              /\ UNCHANGED <<req, receipt, loaded>>
    /\ UNCHANGED <<log, proj, entities, outbox, lock, caches, acked>>

(***************************************************************************)
(* The transaction of _execute_once.  Its first statement takes the branch *)
(* row lock, which is held to the end.  The version in the UPDATE and the  *)
(* UNIQUE keys of the tables are a second line of defence behind the lock. *)
(***************************************************************************)
LockBranch(t) ==
    /\ pc[t] = "lock branch"
    /\ lock = {}
    /\ lock' = {t}
    /\ Goto(t, "look up receipt")
    /\ UNCHANGED <<db, caches, locals, acked>>

\* The projection is read when the key is not in the ledger.
ReadProjection(t) ==
    /\ pc[t] = "look up receipt"
    /\ ~Committed(req[t].key)
    /\ loaded' = [loaded EXCEPT ![t] = proj]
    /\ Goto(t, "commit")
    /\ UNCHANGED <<db, lock, caches, req, mark, manifest, receipt, acked>>

\* The handler raises, or UPDATE ... WHERE version = ... finds no row.
Raised(t) ==
    \/ Handler[req[t].op][loaded[t].state] = Raises
    \/ proj.version # loaded[t].version

\* UniqueViolation, of sim.entities or of sim.command_log.
Conflicts(t) == Spawns[req[t].op] \in entities \/ Committed(req[t].key)

\* The key is in the ledger, at the first look or by the time of the insert:
\* its receipt is read back and nothing is written, whatever the actor's
\* capabilities are by now.
ReturnExisting(t) ==
    /\ pc[t] \in {"look up receipt", "commit"}
    /\ pc[t] = "commit" => ~Raised(t)
    /\ \E i \in 1..Len(log) :
         /\ log[i].key = req[t].key
         /\ receipt' = [receipt EXCEPT ![t] = [record |-> log[i], creates |-> NoEntity]]
    /\ lock' = lock \ {t}
    /\ req' = [req EXCEPT ![t] = <<>>]
    /\ loaded' = [loaded EXCEPT ![t] = <<>>]
    /\ Goto(t, "load")
    /\ UNCHANGED <<db, caches, mark, manifest, acked>>

\* Mutant: the error leaves the transaction, and its lock, open.
RefuseStillLocked(t) ==
    /\ pc[t] = "commit"
    /\ Finish(t)
    /\ UNCHANGED <<db, lock, caches, acked>>

\* The transaction rolls back and the error goes to the client.  The durable
\* capabilities and entity control are changed by other components at any
\* time, so a new command may always be denied.
Refuse(t) ==
    /\ pc[t] = "commit"
    /\ \E denied \in BOOLEAN :
         denied \/ Raised(t) \/ (Conflicts(t) /\ ~Committed(req[t].key))
    /\ lock' = lock \ {t}
    /\ Finish(t)
    /\ UNCHANGED <<db, caches, acked>>

\* Mutant: the hash is taken of the working copy made before the deltas.
NewRecordBefore(request, image) ==
    [key |-> request.key, op |-> request.op,
     delta |-> Handler[request.op][image.state], after |-> image.state]

\* The ledger row of a request, computed from the projection that was read.
NewRecord(request, image) ==
    LET delta == Handler[request.op][image.state]
    IN  [key |-> request.key, op |-> request.op, delta |-> delta,
         after |-> Apply[delta][image.state]]

\* Projection, command, event, entity and outbox rows, all in one transaction.
Commit(t) ==
    /\ pc[t] = "commit"
    /\ ~Raised(t)
    /\ ~Conflicts(t)
    /\ LET record == NewRecord(req[t], loaded[t])
           created == Spawns[record.op]
       IN  /\ log' = Append(log, record)
           /\ proj' = [state |-> record.after, version |-> loaded[t].version + 1]
           /\ entities' = entities \cup ({created} \ {NoEntity})
           /\ outbox' = outbox \cup {record.key}
           /\ receipt' = [receipt EXCEPT ![t] = [record |-> record, creates |-> created]]
    /\ lock' = lock \ {t}
    /\ req' = [req EXCEPT ![t] = <<>>]
    /\ loaded' = [loaded EXCEPT ![t] = <<>>]
    /\ Goto(t, "load")
    /\ UNCHANGED <<snapshots, caches, mark, manifest, acked>>

(***************************************************************************)
(* After the transaction: the projection is read in a transaction of its   *)
(* own and assigned to the cache, then the event is looked up and, if      *)
(* unknown, recorded.                                                      *)
(***************************************************************************)
Load(t) ==
    /\ pc[t] = "load"
    /\ loaded' = [loaded EXCEPT ![t] = proj]
    /\ Goto(t, "assign")
    /\ UNCHANGED <<db, lock, caches, req, mark, manifest, receipt, acked>>

\* Whatever other threads have loaded and assigned since.
Assign(t) ==
    /\ pc[t] = "assign"
    /\ mem' = loaded[t]
    /\ loaded' = [loaded EXCEPT ![t] = <<>>]
    /\ Goto(t, "look up event")
    /\ UNCHANGED <<db, lock, history, known, memEntities, base, req, mark, manifest,
                   receipt, acked>>

\* Mutant: only commands that create an entity are recorded.
LookUpCreation(t) ==
    /\ pc[t] = "look up event"
    /\ Goto(t, IF receipt[t].creates = NoEntity \/ receipt[t].record.key \in known
                 THEN "respond" ELSE "record")
    /\ UNCHANGED <<db, lock, caches, locals, acked>>

LookUpEvent(t) ==
    /\ pc[t] = "look up event"
    /\ Goto(t, IF receipt[t].record.key \in known THEN "respond" ELSE "record")
    /\ UNCHANGED <<db, lock, caches, locals, acked>>

\* Mutant: the entity is not created in the process.
RecordEventOnly(t) ==
    /\ pc[t] = "record"
    /\ known' = known \cup {receipt[t].record.key}
    /\ history' = Append(history, receipt[t].record)
    /\ Goto(t, "respond")
    /\ UNCHANGED <<db, lock, mem, memEntities, base, locals, acked>>

\* The entity, the event and the replay record.
RecordCommand(t) ==
    /\ pc[t] = "record"
    /\ memEntities' = memEntities \cup ({receipt[t].creates} \ {NoEntity})
    /\ known' = known \cup {receipt[t].record.key}
    /\ history' = Append(history, receipt[t].record)
    /\ Goto(t, "respond")
    /\ UNCHANGED <<db, lock, mem, base, locals, acked>>

Respond(t) ==
    /\ pc[t] = "respond"
    /\ acked' = acked \cup {receipt[t].record}
    /\ Finish(t)
    /\ UNCHANGED <<db, lock, caches>>

(***************************************************************************)
(* Failures.                                                               *)
(***************************************************************************)

\* Mutant: an error after the commit takes the command back.
FailAndTakeBack(t) ==
    /\ StoreMayFail
    /\ pc[t] \in {"save snapshot", "load", "respond"}
    /\ log' = IF pc[t] = "save snapshot" THEN log
              ELSE SelectSeq(log, LAMBDA r : r # receipt[t].record)
    /\ Finish(t)
    /\ UNCHANGED <<proj, entities, outbox, snapshots, lock, caches, acked>>

\* The transaction that saves a snapshot or loads the projection fails, or
\* the reply is lost: the client gets an error, the branch keeps its commit.
Fail(t) ==
    /\ StoreMayFail
    /\ pc[t] \in {"save snapshot", "load", "respond"}
    /\ Finish(t)
    /\ UNCHANGED <<db, lock, caches, acked>>

\* The snapshots hydrate may start from: those with the greatest boundary the
\* ledger reaches.
Newest ==
    LET usable == {s \in snapshots : s.through <= Len(log)}
    IN  {s \in usable : \A other \in usable : other.through <= s.through}

\* Mutant: a recovered snapshot is taken for the beginning of the history.
RecoveredFromStart ==
    IF Newest = {} THEN {NoBase}
    ELSE {[state |-> s.state, version |-> s.version, offset |-> 0] : s \in Newest}

\* The bases hydrate may choose: a newest snapshot; without one, the current
\* state of a ledger that is not empty.
Recovered ==
    IF Newest # {}
      THEN {[state |-> s.state, version |-> s.version, offset |-> s.through] : s \in Newest}
    ELSE IF Len(log) > 0
      THEN {[state |-> proj.state, version |-> proj.version, offset |-> Len(log)]}
    ELSE {NoBase}

\* The process dies and is started again: open transactions roll back, every
\* request is lost, and hydrate rebuilds the caches before the next request.
Restart ==
    /\ lock' = {}
    /\ mem' = proj
    /\ history' = log
    /\ known' = {log[i].key : i \in 1..Len(log)}
    /\ memEntities' = entities
    /\ base' \in Recovered
    /\ pc' = [t \in Thread |-> "idle"]
    /\ req' = [t \in Thread |-> <<>>]
    /\ mark' = [t \in Thread |-> 0]
    /\ manifest' = [t \in Thread |-> <<>>]
    /\ receipt' = [t \in Thread |-> <<>>]
    /\ loaded' = [t \in Thread |-> <<>>]
    /\ disturbed' = FALSE
    /\ UNCHANGED <<db, acked, everDisturbed>>

(***************************************************************************)
(* The specification.                                                      *)
(***************************************************************************)
Prepare(t) == HasBasis(t) \/ LacksBasis(t)
              \/ SetBasis(t) \/ TakeBoundary(t) \/ WriteSnapshot(t) \/ SaveSnapshot(t)

Transact(t) == LockBranch(t) \/ ReadProjection(t) \/ ReturnExisting(t) \/ Refuse(t)
               \/ Commit(t)

Publish(t) == Load(t) \/ Assign(t) \/ LookUpEvent(t)
              \/ RecordCommand(t) \/ Respond(t)

Next ==
    \/ \E t \in Thread : \/ Receive(t)
                         \/ ReceiveSnapshot(t)
                         \/ Prepare(t)
                         \/ Transact(t)
                         \/ Publish(t)
                         \/ Fail(t)
    \/ Restart

Spec == Init /\ [][Next]_vars

\* A thread that can run is scheduled, and PostgreSQL grants a row lock to its
\* waiters in turn.  Requests, failures and restarts need never happen.
Fairness ==
    \A t \in Thread : /\ WF_vars(Prepare(t) \/ Transact(t) \/ Publish(t))
                      /\ SF_vars(LockBranch(t))

FairSpec == Spec /\ Fairness
------------------------------------------------------------------------------
(***************************************************************************)
(* Properties.                                                             *)
(***************************************************************************)

\* The shape of every variable.
TypeOK ==
    /\ log \in Seq(Record)
    /\ proj \in Image
    /\ entities \subseteq Entity
    /\ outbox \subseteq Key
    /\ snapshots \subseteq Snapshot
    /\ lock \subseteq Thread
    /\ mem \in Image
    /\ history \in Seq(Record)
    /\ known \subseteq Key
    /\ memEntities \subseteq Entity
    /\ base \in Base \cup {NoBase}
    /\ pc \in [Thread -> Steps]
    /\ req \in [Thread -> Request \cup {<<>>}]
    /\ mark \in [Thread -> Nat]
    /\ manifest \in [Thread -> Manifest \cup {<<>>}]
    /\ receipt \in [Thread -> Receipt \cup {<<>>}]
    /\ loaded \in [Thread -> Image \cup {<<>>}]
    /\ acked \subseteq Record
    /\ disturbed \in BOOLEAN
    /\ everDisturbed \in BOOLEAN

\* Every entry of a list of replay records takes the projection before it to
\* the hash it was committed with: what ReplayEngine.replay verifies.
Replays(start, rows, from) ==
    \A i \in (from + 1)..Len(rows) :
        rows[i].after =
            Apply[rows[i].delta][IF i = from + 1 THEN start ELSE rows[i - 1].after]

\* The durable ledger always replays from the first projection of the branch,
\* record by record, and ends in the durable projection at the version that
\* counts its rows (the transaction of _execute_once).
LedgerReplays ==
    /\ Replays(InitProjection, log, 0)
    /\ proj = [state |-> StateAfter(log, Len(log)), version |-> Len(log)]

\* However often a command is sent, on however many threads and across however
\* many restarts, its key is committed at most once (UNIQUE (run_id, actor_id,
\* idempotency_key) and the receipt lookup under the branch lock).
OneCommitPerKey ==
    \A i, j \in 1..Len(log) : log[i].key = log[j].key => i = j

\* One transaction at a time is between its lock and its end, and what it read
\* is still so when it writes: neither the version check nor the unique keys
\* ever decide a race on a branch (SELECT ... FOR UPDATE on sim.branches).
TransactionsAreSerial ==
    /\ \A t, u \in lock : t = u
    /\ \A t \in Thread :
         pc[t] = "commit" => t \in lock /\ loaded[t] = proj /\ ~Committed(req[t].key)

\* What a client was answered is in the ledger and stays there: with
\* OneCommitPerKey, every answer for a key is the same receipt, also after the
\* process that gave it died.
AnswersAreDurable == acked \subseteq Rows(log)

\* The projector is handed exactly the committed events, and the entity table
\* holds exactly what committed commands created.
TablesAgree ==
    /\ outbox = {r.key : r \in Rows(log)}
    /\ entities = {Spawns[r.op] : r \in Rows(log)} \ {NoEntity}

\* The history, the event index and the receipts are rows of the ledger, and an
\* answered command is known to the process from then on (the answer comes after
\* the event is recorded).
HistoryIsCommitted ==
    /\ Rows(history) \subseteq Rows(log)
    /\ known = {r.key : r \in Rows(history)}
    /\ {r.key : r \in acked} \subseteq known
    /\ \A t \in Thread : receipt[t] # <<>> => receipt[t].record \in Rows(log)

\* An image the branch has had, at the version it had it.
WasReached(image) ==
    image.version <= Len(log) /\ image.state = StateAfter(log, image.version)

\* Nothing the process holds or serves was invented, however its threads cross:
\* neither what it records nor the projection it caches.
CachesAreCommitted == HistoryIsCommitted /\ WasReached(mem)

\* Every request ends: with an answer, a refusal or an error (submit waits for
\* nothing but the branch lock, which every transaction releases).
EveryRequestEnds == \A t \in Thread : pc[t] # "idle" ~> pc[t] = "idle"

\* No thread is serving a request.
Quiescent == \A t \in Thread : pc[t] = "idle"

\* Between requests the caches are the durable state, unless the process was
\* disturbed since it was started: a restart heals them.
CachesAreCurrent ==
    Quiescent /\ ~disturbed => /\ mem = proj
                               /\ history = log
                               /\ memEntities = entities

\* GET /branches/<id>/replay verifies: the recorded history replays from its
\* basis, each record to the committed hash (docs/ARCHITECTURE.md:88-89), and
\* ends in the cached projection, also after restarts from a snapshot, unless a
\* process of the branch was ever disturbed.
ReplayVerifies ==
    Quiescent /\ base # NoBase /\ ~everDisturbed =>
        /\ Replays(base.state, history, base.offset)
        /\ mem.state = IF Len(history) > base.offset THEN history[Len(history)].after
                                                     ELSE base.state

\* "A snapshot is a deterministic gzip artifact containing the projection, command
\* boundary, ..." (docs/ARCHITECTURE.md:76-77): the projection it holds is the one
\* at its boundary, so that replay may start from it.
AtBoundary(s) == /\ s.through <= Len(log)
                 /\ s.state = StateAfter(log, s.through)
                 /\ s.version = s.through

BoundariesMatch == \A s \in snapshots : AtBoundary(s)

\* They do, unless a process of the branch was ever disturbed; and whatever it
\* was, a snapshot holds a projection the ledger has reached, never a mixture.
SnapshotsMatchBoundary ==
    /\ ~everDisturbed => BoundariesMatch
    /\ \A s \in snapshots : s.state \in Reached

\* Submission implements the abstract ledger: a commit is one atomic entry, an
\* answer one of its entries, and every other step is invisible.
Ledger == INSTANCE CommandLedger WITH Effect <- Apply, ledger <- log, answered <- acked
ImplementsLedger == Ledger!Spec
==============================================================================
