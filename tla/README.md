# TableTop DM: specifications, model checking and proofs

TableTop DM is a deterministic simulation kernel for tabletop worlds: every change of a world is
a *command*, computed by a pure handler from the projection of a *branch*, committed together with
its event, and replayable.  Around the kernel stand a Flask API, a projector that turns committed
events into the beliefs of the characters who perceived them, experiment jobs, an identity
service, a population lifecycle and a tabletop portal.  This directory holds TLA+ models of those
parts, the TLC configurations that check them, and TLAPS proofs about the core.

Paths in this file are relative to the repository root.

## 1. The system

| Component | State | Operations | Hard because |
|---|---|---|---|
| durable submission (`kernel/application.py`, `kernel/postgres_repository.py`, `kernel/postgres_control_plane.py`) | tables `sim.command_log`, `events`, `branch_projections`, `entities`, `outbox`, `snapshots`; process caches: projection, history, event and entity index, replay basis | submit, snapshot, replay, hydrate on start | requests run on threads of their own, only the transaction is locked; answers are lost and commands retried; the process dies between steps |
| reference bus (`kernel/command_bus.py`, `kernel/state.py`) | branches and receipts in memory | execute, create trial | a working copy must not leak; duplicates |
| branches and trials (`kernel/branching.py`, `experiments/trial_engine.py`) | trial branches, promotion packages | create trial, run trial, promote | canonical state must not change under a trial; compare-and-set promotion |
| perception (`domains/tabletop/spatial`, `kernel/perception_contracts.py`) | grants per event and observer | resolve, grant | who may know what |
| tabletop handlers (`domains/tabletop/*`) | buckets of the projection | trade, attack, cast, move, spawn, quests, factions | conservation, bounds, one row used twice in one command |
| portal (`domains/tabletop/portal.py`) | characters, games, their members and sessions | create, update, delete; enter and leave a game; embody and bind a character; start and end a session | a row is read in one transaction and written, whole, in another; member, body and binding are three steps of one route |
| experiment jobs (`experiments/jobs.py`) | one record per job, worker threads, persisted copies | create, run, checkpoint, cancel, retry, resume, restore | a cancelled runner still runs; persistence happens outside the lock |
| experiment execution (`experiments/executor.py`, `trial_engine.py`, `scenario_lab.py`) | trial results, artifacts | run batch, resume from checkpoint | resumption after failure |
| outbox projector (`cognition/projector.py`) | claims, attempts, leases, beliefs | claim, project, complete, release | several workers, expiring leases, at-least-once delivery |
| minds (`cognition/store.py`, `cognition/postgres.py`) | beliefs, memories, relationships | project event, decay, inspect | two writers of one row |
| decision engine (`cognition/engine.py`, `planning.py`, `reflexes.py`) | none | decide, plan | bounded search |
| population lifecycle (`population/lifecycle.py`, `population/postgres.py`) | members, the history of their transitions, the rows of both, lists of materialized and active people | generate a pool; materialize, activate, deactivate, by person or in bulk; restore | memory is changed first and without a lock, then the row; the last transition of the history is taken for one's own |
| identity (`identity/service.py`, `identity/repository.py`) | accounts, failed logins, sessions, roles | login, logout, change roles, delete | lockout window, revoked sessions, the last administrator |
| control-plane sync (`kernel/postgres_control_plane.py`) | worlds, actors, roles, capabilities, runs | sync, hydrate | two copies of authority, each copied into the other: it must survive a restart, and stay revoked |
| personas (`persona/*`) | drafts, versions | compile, validate, publish | versioning |
| schema (`infra/sql/migrations`, `infra/migrate.py`) | applied migrations | apply | checksum and order |
| frontend, scripts, entry points | none of the system's | | |

How they interact: the API (`kernel/api/app.py`) calls `SimulationApplication.submit` on the thread
of the request; `submit` calls the repository, which commits the command, its event, its
perceptions and an outbox row in one transaction; the projector process claims outbox rows and
writes beliefs; the API process projects the same events itself for the interface.  Experiment
jobs run on threads of the API process and submit commands on trial branches.  The identity
service and the portal write their own tables and are synchronised with the authority of the
simulation.

## 2. What is modelled

### BranchState: projections and deltas

`BranchState.tla` is `BranchState.apply` (`kernel/state.py:55-67`): a projection is a function from
buckets to rows to attributes; `SET`, `MERGE`, `DELETE` and `INCREMENT` are the four operations of
a delta; `setdefault` creates the bucket, so even a `DELETE` may change the hash.  Attribute values
are integers.  `state_hash` is injective here: hashes are equal exactly when projections are.

### CommandLedger: what a branch promises

The abstract specification: a ledger in which a key is decided at most once, an entry is computed
by its command's handler from what the entry before it left, nothing is taken back, and clients
are answered only with entries of the ledger.  Both kernels implement it: `DurableCommands` for the
branch it keeps in PostgreSQL, `TrialBranches` for each of the branches it keeps in memory.

### DurableCommands: submission with PostgreSQL

One branch, any number of request threads, keys, commands and entities.  A thread goes through the
steps of `submit`, each named for what it does next:

| `pc` | Action | Code |
|---|---|---|
| `idle` | `Receive`, `ReceiveSnapshot` | `application.py:314-331` (with the spawn check made before anything else), `api/app.py:2118-2137` |
| `find basis`, `set basis` | `HasBasis`, `LacksBasis`, `SetBasis` | `application.py:332-336` |
| `take boundary`, `write snapshot`, `save snapshot` | `TakeBoundary`, `WriteSnapshot`, `SaveSnapshot` | `application.py:423-428`, `snapshots.py:35-76`, `postgres_control_plane.py:197-242` |
| `lock branch` | `LockBranch` | `postgres_repository.py:66-79` (`FOR UPDATE`) |
| `look up receipt` | `ReturnExisting`, `ReadProjection` | `postgres_repository.py:115-117`, `166-184` |
| `commit` | `Commit`, `Refuse`, `ReturnExisting` | `postgres_repository.py:185-285`, the error paths, `48-58` |
| `load`, `assign` | `Load`, `Assign` | `application.py:348-351` |
| `look up event`, `record` | `LookUpEvent`, `RecordCommand` | `application.py:352-388` |
| `respond` | `Respond` | `application.py:389-393` |

Two history variables note what no lock rules out: a process is `disturbed` when a thread joins
another one between two of its reads or writes of the caches (`Unlocked`), or when a thread ends
between its commit and the caches (`CutsOff`); `everDisturbed` is that for all processes the branch
has had.  No guard depends on them.

`Fail` is a transaction after the commit that fails, or a lost reply; `Restart` is the death and
the start of the process: `hydrate` rebuilds every cache from the tables (`Recovered` is its choice
of the replay basis).  The database transaction is split at the points where another thread can be
seen to run: taking the lock, reading, writing.  Rows read under the lock that another component
may change (capabilities, entity control) make `Refuse` possible for any new command.  A command is
an element of `Op`, its handler and `apply` are the constant functions `Handler` and `Apply`, and a
projection is an element of `Projection`: nothing in the module depends on what they are, which is
what lets the theorems hold for every handler of the repository.  `MCDurableCommands` gives them
values with `BranchState`: a hero who moves (a `MERGE` of a computed position), a spawn (a `SET`
that also creates an entity), a promotion package (an `INCREMENT` that is refused unless the state
is as expected) and a command without deltas.

Two simplifications: two fields that are assigned one after the other (`projections` and
`version`; `replay_bases` and `replay_offsets`) are assigned in one step, and the branch is
canonical, so it has no base snapshot of its own (`001_simulation_kernel.sql:80`).

### ExperimentJobs: launch, run, cancel, retry, restore

`ExperimentJobs.tla` is `JobManager` (`experiments/jobs.py`), the routes that drive it and the two
places a record is persisted in (`kernel/api/app.py`).  A job is run by the thread of the request
that launched or retried it, so a thread goes through the steps of `JobManager.run`:

| `pc` | Action | Code |
|---|---|---|
| `idle` | `Launch`, `Cancel`, `Retry` | a launch finds the record of the same request, in whatever state |
| `save file`, `save table` | `SaveFile`, `SaveTable`, `SaveFails` | `persist_job`, after the manager's lock is released |
| `start` | `StartEnded`, `StartRunning`, `StartQueued` | the first critical section of `run` |
| `working` | `RunTrial`, `CheckpointRaises`, `StopEarly`, `Return`, `Raise` | the runner and its checkpoints |
| `finish`, `publish` | `Finish`, `Publish` | how the run ended is decided in one critical section and published in another |
| `answer` | `Answer` | the response |

`Restart` kills every thread and restores the stored records: the row if there is one, else the
file; a `RUNNING` record becomes `FAILED` and is saved again.  The constant `Database` says whether
rows are kept and `StoreMayFail` whether saving may fail; `known` is any set of jobs, those whose
scenario a process that is started again knows, so that it attaches their runners.  `Retry` asks of
a record what the code asks of it, and nothing of the run that may be left.  The content of a
report is the number of trials it is about.

Four history variables say what has happened to a job: a client was answered with its completion
(`answered`), requests for it overlapped (`crossed`), it was retried while a run of it was left
(`raced`), or its record has changed since a save of it was given up or a start found no runner
(`unsaved`, which a restart ends).  No guard depends on them.

### SubjectiveProjection: from committed events to beliefs

`SubjectiveProjection.tla` has two kinds of writers of the same minds.  The projector processes
(`cognition/projector.py`): `Take` (a claim of at most `Limit` rows, skipping locked ones),
`TakeNext`, `LoadObservations` and `LoadBeliefs` (two reads), `Save` (one transaction), `Complete`
or `Release` (a no-op for a worker whose row was taken over), `Fails` and `Crash`; `LeaseExpires`
and `BackoffEnds` are the passing of time.  The API process (`kernel/api/app.py:459-503`):
`Submit`, `ReadMind`, `CheckObserved`, `SaveMind`, `ApplyUpdate`, `Projected`, `RequestFails`, and
`Restart` with `CaughtUp`: it restores the stored minds and projects every event it knows before it
serves.

The outbox is the sets `committed`, `published`, `expired` and `waiting` and the function `holder`;
how long a lease or a backoff lasts is abstracted to the step that ends it.  A mind is the events
its holder has observed and the beliefs about one subject and predicate.  A belief is its value,
the events it was merged from (its confidence is a function of them; the first is its identity, as
`belief_id` is computed from the first source) and the event that contradicted it.  The order in
which the observers of an event are visited is not fixed by the code and is free here.

### TrialBranches and TabletopRules: trials, promotion and the rules of the tabletop

`TrialBranches.tla` is the reference mode: branches and receipts in `InMemoryStateStore`, the
canonical branch among them, and the threads that work on them.  A client takes snapshots, creates
trials of them, sends commands to either kind of branch and promotes the consequences of a trial; a
worker executes trial runs of the experiment engine, which create or find their branch, send one
scenario command to it and look at its final state.

| `pc` | Action | Code |
|---|---|---|
| `idle` | `ReadBoundary`, `CreateTrial`, `Submit`, `Promote` | the routes (`kernel/api/app.py:2118-2215`), with the checks made before the command runs |
| `idle` | `StartRun` | `TrialEngine.run`, which keeps the hash of the canonical branch |
| `write snapshot` | `WriteSnapshot` | `application.py:426-428` |
| `look up trial`, `add trial` | `LookUpTrial`, `AddTrial`, `AddFails` | `application.py:437-460`, `executor.py:262-281`, `InMemoryStateStore.add` |
| `index entities` | `IndexEntities` | `application.py:461-482` |
| `execute` | `Commit`, `Duplicate`, `Refuse` | `InMemoryStateStore.execute_atomic` around `CommandBus.execute` |
| `look up event`, `record` | `LookUpEvent`, `Record` | `application.py:352-393` |
| `observe`, `verify` | `Observe`, `Verify` | `executor.py:375-387`, `trial_engine.py:101-175` |

What the store does under its lock is one step; between two of its calls any other thread may run.
A trial is identified by its snapshot and by the seed or the run it is for, since its identifier is
computed from them; a promotion package is its own idempotency key for the same reason.  A run is a
scenario's version, persona, seed and attempt.  Without a persona factory the cohort members of a
seed share all of these, hence one branch; two workers that execute one run are that case, and a
run that is executed again is a batch that is resumed.

Three things are assumed of the users of the reference mode.  Clients leave the branches of trial
runs alone, which nothing in the code enforces.  Scenarios are sent to trials only, as their
definition (`allowed_branch_kinds`) demands.  A reviewer promotes deltas that a command of the trial has made: the
route takes any list of deltas, and compares nothing but the base.

Left out: authorization (who may send a command, in the reference mode a table of capabilities),
the events and perceptions made of a receipt, cancellation inside a run, verifiers and metrics, and
`BranchState.clone_for_trial` with `InMemoryStateStore.create_trial`, which `BranchManager` and the
onboarding trials use.

`TabletopRules.tla` has the command handlers of the tabletop pack, each a function of a command and
a projection that yields a list of deltas or `Raises`: trade, attack, cast, move, spawn, quest
progress, squad orders, and the scenario command of the experiments.  They are pure operators on
the projections of `BranchState`.  `TabletopTrials.tla` puts the two together: it states what the
rules promise on every branch (`PositionsAgree`, `TradesConserve`) and what that asks of commands
(`WellFormed`) and of the first projection (`PlacesFit`, `Counted`); `Honest` are the commands that
move gold and goods without making or losing any.  `MCTrialBranches` is a
world of a hero and a merchant in which TLC checks both.  The dice are part of the command (the generator is seeded by
it), the plane has one axis and an inventory one kind of item.  Reputation, blessings and control
modes are not there yet.

### PopulationLifecycle: people between three levels

`PopulationLifecycle.tla` is one pool: `PopulationLifecycle` in memory, the rows of
`population.materialized_people` and `population.lifecycle_transitions`, and the routes that change
the one and then the other.  A request thread goes through these steps, once for every person of a
bulk request:

| `pc` | Action | Code |
|---|---|---|
| `idle` | `AskOne`, `MaterializeBulk`, `ActivateBulk` | the routes (`kernel/api/app.py:2385-2546`) up to the first call of the lifecycle; a bulk request computes its first step from the history here |
| `look` | `Skip`, `Look` | `materialize`, `activate`, `deactivate` (`lifecycle.py:89-174`) |
| `number` | `Number` | `_commit`: the step may not go back, and the transition gets the length of the history as its number (`lifecycle.py:183-190`) |
| `keep`, `append` | `Keep`, `AppendTransition` | `lifecycle.py:211-212` |
| `take` | `Take` | the lists of the pool's record, and `history[-1]` |
| `save` | `Save`, `SaveFails`, `AnswerLost` | `save_materialized`, `save_transition` with `_insert_transition`, one transaction |

`Regenerate` is a second `POST` of the same pool, `Restart` restores members and history from the
tables (transitions of one number in either order).  A state is a set of facts instead of a
dictionary, so that overwriting a field and keeping it are alike: what can be seen is losing it.
The row's activation state is a function of its version (`COMPRESSED` is what a deactivated person
is called there).  Bulk requests take people in any order, and any of those they may take.

Left out: the version of the persona that is saved with a person, the counters that clients are
shown (they are the sizes of the lists, late after a partial failure), and a pool that is generated
again while requests are served, which go on with the old lifecycle.

### WorldAuthority: from roles to capabilities

`WorldAuthority.tla` has the two stores of authority and what they follow from: the roles of
accounts, the capabilities in the tables that row-level security reads, and `world_authorities`,
the capabilities in the process that the kernel reads.  A route changes the first two in one
transaction and mirrors the account into the third afterwards.

| `pc` | Action | Code |
|---|---|---|
| `idle` | `AskGlobalRoles`, `AskWorldRoles`, `AskActive`, `AskDelete`, `AskLogin`, `AskWorld`, `AskActor`, `AskEntity` | the routes of `kernel/api/app.py`, by an administrator or by automation |
| `check`, `write` | `Check`, `WriteGlobalRoles`, `WriteWorldRoles`, `WriteActive`, `WriteDelete` | `identity/service.py` with `_admin_count`, then one transaction of `identity/repository.py` |
| `read`, `list`, `mirror` | `Read`, `List`, `Mirror`, `MirrorDone` | `sync_world_authority` of one account, or of all that were listed |
| `make world`, `make actor` | `MakeWorld`, `MakeActor` | `application.py`: `create_world`, `create_actor`, `grant_authority` |
| `sync`, `admins` | `Sync`, `SyncAdmins` | `PostgresControlPlane.sync`, which only ever inserts, and `sync_admin_world` |
| `spawn`, `control` | `Spawn`, `Control` | an entity is committed, and then `assign_control` |

`Restart` is `create_app`: `bootstrap_demo`, `sync`, `sync_admin_world` and `hydrate`.  `given` is a
history variable: what the roles of an account have ever given it in a world.  Capabilities come in
the three classes that roles tell apart.

### TabletopPortal: characters, games and bodies

`TabletopPortal.tla` is the workspace of players and Dungeon Masters with the foreign keys and
checks of its tables.  Every request reads its rows (`UpdateCharacter`, `AskDeleteCharacter`,
`UpdateGame`, `AskDeleteGame`, `AskMember`, `AskRemoveMember`, `AskSession`) and writes in a step of
its own.  The long one is `dm_game_member` (`kernel/api/app.py:1160-1217`):

| `pc` | Action | Code |
|---|---|---|
| `check character` | `CheckCharacter` | `set_member` looks whose the character is |
| `save member` | `SaveMember` | the upsert, with its foreign keys |
| `embody` | `Embody` | the route reads the character again and looks for its entity |
| `spawn` | `Spawn` | the spawn command, under a key made of sender, world and character: refused, answered with an earlier receipt, or committed |
| `bind` | `Bind` | `bind_character_entity` reads the character once more |
| `save character` | `SaveCharacter` | `save_character`, which is also how an update ends |

`gone` and `lost` are history variables: the characters that were deleted, and those whose entity
a late update has taken back.  Roles are constant here.

### Accounts: passwords, lockout and sessions

`Accounts.tla` is the identity service over PostgreSQL: a login reads the credentials (`AskLogin`,
`ReadAccount`), verifies the password (`VerifyWrong`, `VerifyRight`), records how it went
(`RecordFailure`, `RecordSuccess`) and opens a session (`Open`, `Answer`), in a transaction each;
`AskAct`, `Act`, `ReadCurrent`, `VerifyCurrent` and `SetPassword` are the authentication boundary
and the change of one's own password; `ResetPassword`, `SetActive` and `DeleteUser` are the
administrator's.  `Lapse` and `Close` are the passing of time and a logout.  Two history variables
say what should follow: `guesses` counts wrong passwords since the account was last free of a lock,
`era` counts new passwords and disablings.

### Minds, Relationships, Decisions and DecisionEngine: relationships, runtimes and decisions

`Minds.tla` is what clients do to minds: a change of a relationship (`AskChange`, `LookUpKnown`,
`LookUpStored`, `ReadLive`, `SaveChange`, `PublishChange`: `kernel/api/app.py:2016-2117`,
`cognition/postgres.py`, `cognition/store.py`), the choice of a runtime (`AskRuntime`,
`SaveRuntime`, `SetRuntime`) and a decision (`AskDecision`, `SaveTrace`, `RecordTrace`).  Each is
committed first and published in memory afterwards; answers get lost, transactions fail and the
process restarts.  Of the axes of a relationship one is modelled.  `Relationships.tla` has the state
this is about, vectors and their changes in PostgreSQL and in memory, and what is promised of it; a
history variable (`orderly`) notes whether two changes have overlapped or the process was restarted.

`DecisionEngine.tla` are the pure operators behind a decision (`cognition/engine.py`,
`cognition/planning.py`, `cognition/reflexes.py`): reflexes, the clear utility winner, the
uniform-cost search of the planner with its bounds, and the order of these tiers.  The search is a
recursive function of how many nodes were taken off the queue (`Search`), which is `Pops` at most.
A fact that is not there has the value `Null` for the planner (`dict.get`, `cognition/planning.py:118`)
and meets no condition of a reflex (`Matches`).
The children of a node are what its loop over the steps in the order of names leaves queued: those
no earlier step reached as cheaply (`Children`).  No model of language is configured, so that
deliberation ends in the scores.  `Decisions.tla` has what the threads are doing (`stage`, `job`,
`draft`) and what is promised of the decisions among it, without the planner's own words: the
situation after some steps of a path has for every fact the value the last of them gave it
(`Carried`).

## 3. What is checked

| Run | Instance | Shows |
|---|---|---|
| `durable` | 2 threads, 2 keys, 2 commands (a promotion, a spawn), failures, restarts, 1 snapshot | `LedgerReplays`, `CachesAreCommitted`, `CachesAreCurrent`, `ReplayVerifies`, `SnapshotsMatchBoundary` and the refinement `ImplementsLedger` |
| `durable_liveness` | 2 threads, 1 key, failures, restarts, 1 snapshot | `EveryRequestEnds` |
| `jobs` | 2 threads, 1 job, 2 attempts, 2 trials, files and rows, failing stores, scenarios known or not | `OneRunPerJob`, `CompletedIsComplete`, `StoredIsCurrent`, `AnsweredStands`, `RunningIsServed` |
| `jobs_second_run` | 2 threads, 1 job, 2 attempts, 1 trial | that `NoSecondRun` is violated |
| `projection` | 2 workers, 1 request, 2 events that contradict each other, 1 observer, claims of 2 rows, 1 fault | `PublishedIsProjected`, `MindsAreDurable`, `EvidenceIsObserved`, `EventsArePublished` |
| `trials` | 1 client, 2 workers, 2 keys, 10 commands, 1 seed, 1 run, 1 snapshot and 1 trial asked for | `BranchesReplay`, `PromotionsMeetTheirBase`, `TrialsAreReproducible`, `PositionsAgree`, `TradesConserve` and the refinement `BranchesAreLedgers` |
| `trials_self` | the same as `trials` | that `GoodsAreConserved` is violated |
| `population` | 2 threads, 2 people, 2 facts of which 1 is preserved, steps 0 and 1 from clients, 3 transitions, 2 pools | `RowsAdvance`, `MemoryIsNotBehind`, `StoredHistoryFits`, `FactsSurvive` |
| `authority` | 2 threads, 2 accounts and an actor without one, 2 worlds, 5 requests, 3 once they overlap | `GrantedByRoles`, `AuthorityFollowsRoles`, `AdministratorRemains` |
| `portal` | 2 threads, a director and a player, 2 worlds, 1 character, 2 games, 1 session, 6 requests, 5 once they overlap | `RosterOwns`, `OwnersControl`, `BoundHaveBodies`, `BindingsStay` |
| `accounts` | 2 threads, 2 accounts, 3 tokens, a threshold of 2, 6 requests, 5 once they overlap | `LockedAfterFailures`, `SessionsEndWithTheirEra` |
| `minds` | 2 threads, a player and a director, 1 relation, 2 events, 6 problems, 3 requests, 1 fault | `RowsAreExplained`, `MemoryIsCommitted`, `MemoryIsCloseBehind`, `PlansReachTheirGoal` |

The types of all modules are proved (section 4), and so are some more invariants that no run
repeats.  Two runs check what the code or its documents say and TLC refutes.  Several other
properties hold only of requests that do not overlap, or in processes that nothing has disturbed:
history variables say exactly which (`disturbed`, `crossed`, `raced`, `orderly` and so on), the runs contain the others
too, and what the code does then is told here, because it is where the code and its documents part.

Durable submission.  What the database keeps of the ledger holds whatever the threads do
(`LedgerReplays`, `ImplementsLedger`), and so does that the caches hold nothing but what was
committed, the cached projection being one the branch has had at that version
(`CachesAreCommitted`), and that a snapshot holds a projection the ledger has reached.  That caches
are *current*, that replay verifies and that boundaries match is true unless the process was
disturbed: a thread joined another one between unlocked steps, or failed between its commit and the
caches.  A restart heals the caches (`CachesAreCurrent` excepts only what happened since), but not
what was stored meanwhile.  Two threads and failures are in the run; without the exceptions TLC
finds each of these:

- Two commits are recorded in the opposite order (`kernel/application.py:382`), and the replay of the
  branch diverges, where `docs/ARCHITECTURE.md:88-89` says that every resulting hash equals the
  committed one.  A replay basis may likewise be taken after a command that overtook it.
- One thread reads the boundary, another commits and assigns, the first writes the projection
  (`kernel/application.py:423-426`): the snapshot has a later projection than its boundary says,
  where `docs/ARCHITECTURE.md:76-77` has it contain both (this refutes `BoundariesMatch`, the first part
  of `SnapshotsMatchBoundary` without its condition; it has no run of its own).
- A projection that was loaded before another commit is assigned after it
  (`kernel/application.py:348-351`), and the cache goes back.
- A transaction that fails after the commit leaves the projection cached by the process behind the
  table and the command out of its history.

Another disagreement needs no second thread and no failure: a committed spawn that is sent again is
refused, because `submit` asks whether the entity exists before it looks for a receipt
(`kernel/state.py:108` says "Duplicate submissions return the original receipt").

Jobs.  The run has clients that retry whenever the code lets them, saves that fail, and jobs whose
scenario no restarted process knows.

- `jobs_second_run` (a finding): `run` refuses a job that is running (`raise ValueError("job is
  already running")`, `experiments/jobs.py:152-153`), but a retry of a cancelled job does not wait for
  the cancelled run (`experiments/jobs.py:229-246`), so that the next run starts next to it and both
  write the checkpoints of one record.  `OneRunPerJob` says that nothing else makes a second run.
- The same retry wipes the cancellation out, so that the old runner's partial report may become the
  result of the job.  `CompletedIsComplete` says that nothing else does.
- A retry after a restart whose scenario is unknown marks the record `RUNNING` and raises
  (`experiments/jobs.py:161-165`); nobody will ever end that job.  `RunningIsServed` is about the jobs
  in `known`, and would be false of the others; it holds although saves fail inside and outside runs.
- A cancellation that comes between the decision of how a run ended and its publication is
  overwritten (`experiments/jobs.py:168-189`).  A second launch of a running job persists the record
  as it was when it looked, perhaps after the run has persisted its end.  `StoredIsCurrent` and
  `AnsweredStands` are therefore about jobs whose requests never overlapped (not in `crossed`),
  whatever the requests for other jobs do.
- A failed save leaves the record before it stored, and a job is excepted after one (`unsaved`) until
  the process restarts.

Projection.  The projector reads a mind in one transaction and writes it in another, and writes
every belief back (`cognition/projector.py:97`); if the API has superseded one of them in between,
the stale copy is active again, next to its successor, although `cognition/store.py:141` supersedes
it for good.  The same window lets one observation be counted twice in a belief (observations are
read before beliefs).  The properties hold in spite of both.

Trials.  The run interleaves a client that snapshots, branches, plays and promotes with two workers
that execute the same run, over the rules of the tabletop.  A promotion is checked twice, by the
route against the base of the trial and by the handler against the branch, and the mutant that
drops the second check shows that the first does not do: a command may be committed in between.
`PositionsAgree` and `TradesConserve` are about promotions *in context* (`PromotedInContext`): the
deltas are the ones some command computes of the base.  Nothing in the code demands that.  A
promotion carries whatever deltas the reviewer passes (`docs/ARCHITECTURE.md:80-86`), and those of
the second command of a trial set rows to what the first one had left: promoted alone, a gift that
followed a purchase sets the hero's gold to a value that the merchant's row knows nothing of, and a
gift to a scout who was called in the same trial gives the canonical branch an entity without a
position.  Without the condition TLC finds both.  That came out of the attempt to prove the two
properties; an earlier instance, in which a branch of a client got one command, could not show it.
Four disagreements.  A client's commit to the canonical branch during a run makes the engine report
that the run has changed the canonical state (`experiments/trial_engine.py:101-105`).  A trial of an
older snapshot is indexed with the entities the canonical branch has by now
(`kernel/application.py:461-482`), so that a spawn is refused there as existing although the state
of the trial lacks the entity; and the promotion of a spawn leaves the entity out of the canonical
index.  Two threads with one receipt may both find no event of it and both append it to the history
of the branch (`kernel/application.py:352-388`).  Last, a trade with oneself (`trials_self`, a finding) keeps the
second of two rows computed from one state (`domains/tabletop/economy/__init__.py:63-76`), so that
goods and gold are not conserved, although `docs/TESTING.md:51` has "economic conservation" among
what is tested: `GoodsAreConserved` is refuted by a hero who sells himself his herbs.
`TradesConserve`, in the run with the same commands, says that every branch without such a commit
conserves (`HonestlyTraded`), the others notwithstanding.  Reading the handlers showed two more asymmetries that nothing contradicts:
a spell that brings hit points to zero does not mark its target as defeated, an attack does; and a
quest is completed by the objective advanced last, whatever the others are at.

Population.  `RowsAdvance` holds whatever threads do, and so does `LevelsAlternate`, which is
proved: the version in the `WHERE` of the update is a compare-and-set.  The other three hold while
requests come one at a time and the pool is generated once, and failures, lost answers and restarts
do not break them.  Otherwise they are false, in ways that no test shows.

- A pool that is generated again (same name, seed and size) gets an empty lifecycle while its rows
  stay (`kernel/api/app.py:2335-2336`).  A person who is stored is materialized once more in memory,
  the row refuses that ("already differs"), and activating the person then passes the version check
  of the row and overwrites the persistent state, which `docs/ARCHITECTURE.md:153-154` says is
  preserved.
- Two threads each take `history[-1]` for their own transition (`kernel/api/app.py:2422`, `2458`,
  `2485`, `2520`, `2543`).  A row may so be saved with the transition of somebody else; the one that
  is then stored ahead of its own row refuses the transition that belongs there (`UNIQUE
  (population_id, persona_id, lifecycle_version)`), and another may never be stored at all.
- Also in order, a transition may go missing: after failed saves and a restart the length of the
  history, and with it the number of a transition, repeats.  If its person, levels, step and states
  do as well, its identifier is equal and `ON CONFLICT DO NOTHING` drops it.  No property claims
  that every version of a row has its transition.
- A failed save leaves memory ahead of the row, and every later save of that person is refused until
  the process restarts.  In bulk the person is not listed either, so the next bulk request picks it
  again and ends there.

Authority.  `GrantedByRoles` holds under every interleaving, failure and restart: stale copies of
authority are copied back and forth, but never across worlds and never more than roles once gave.
It does not say that what was revoked stays revoked: a process that mirrors a stale account, or
fails before it mirrors, writes the old capabilities into the tables with its next `sync`, which
only inserts.  `AuthorityFollowsRoles` says that this takes an overlap or a failure, and exempts two
accounts: a deleted one, whose capabilities stay in the tables, and a demo operator who is no
administrator any more, to whom every restart gives back all capabilities of the demo
(`bootstrap_demo`; `kernel/api/app.py:769-772` says that what an administrator decided stands).
`AdministratorRemains` is about a check in one transaction and a write in another
(`identity/service.py:196`): two administrators who remove each other at the same time both pass.

Portal.  `RosterOwns`, `OwnersControl` and `BoundHaveBodies` hold under every interleaving and
failure, with exemptions that say what a late write does.  An update that was read before a
deletion brings the character back, without its memberships (`gone`).  One that was read before the
binding takes the entity back (`lost`); the next binding may then be answered with the receipt of
another entity and leave the character bound to one that was never spawned.  The attempt to prove
`BoundHaveBodies` without this exemption showed that, and TLC confirmed it with nine overlapping
requests.  `BindingsStay` is therefore about requests that do not overlap.  Two smaller things: a
member's body is spawned before `bind_character_entity` refuses the binding
(`domains/tabletop/portal.py:583-586`), and stays; and an entity that exists by the time of the
spawn refuses a sender who would get its own receipt.

Accounts.  `SessionsEndWithTheirEra` holds under every interleaving: a session is of no use once
the password was set or the account disabled after it was opened.  What it does not forbid, and the
code does: a login that has verified the old password may open its session after the reset.
`LockedAfterFailures` is about requests that come one at a time: the count that is written follows
from one that was read before the password was verified, so that simultaneous failures count once.

Minds.  `RowsAreExplained` holds under every race, retry and failure: the row is locked and must be
as it was when the change was computed.  What memory knows is stored, and its vectors are ones that
stored changes ended with (`MemoryIsCommitted`).  As long as changes come one at a time and the
process lives, the vector in memory is at most one change behind (`MemoryIsCloseBehind`).
Otherwise it may stay behind.  A row is compared by value: a change computed from an old vector is
accepted when two others have meanwhile led the row back there.  If it is published before the
second of these, memory ends with what that one left, or refuses it for not continuing its vector
(`cognition/store.py:181`), so that the client gets an error for a change that is committed.  Every
later change of the relation is then computed from a vector that the row has left, and refused.
Repeating a change that memory already knows does not help, starting the process again does.  With
two threads this takes three requests and no failure.  After a restart memory does not know
earlier changes, and a retry of one is either refused or, if the vector has come back to where that
change began, published over a newer one.

`PlansReachTheirGoal` checks every plan of the planner by carrying it out.  It does not say that a
plan is found whenever there is one: a situation reached cheaply but too deep keeps a dearer,
shallower path to it out of the queue (`cognition/planning.py:83-95`), so that plans within the
bound are missed.  And the identifier of a decision trace names neither the entity nor the request
(`cognition/engine.py:317`): of two equal decisions only the first is recorded.

Bounds.  Two threads or workers are enough for every pair of steps to interleave.  In
`DurableCommands` two keys let a command overtake, or be retried next to, another, and give replay a
record before or after a basis; a promotion and a spawn, each computed from what the other left, tell
every projection from the others.  Keys bound the ledger: a key is
committed once.  Requests are unbounded (any key and command, again and again), so are restarts and
failures; snapshots asked for are bounded by `MaxSnapshots`.  Jobs are bounded by their attempts
and trials, which are theirs in the code too; two attempts are one retry, and with two trials the
report of a cancelled run may be partial and a checkpoint come between others.  One job is enough for
properties that are about each job alone; the theorems are about any number.
`MaxFaults` bounds failures, crashes, restarts and stalls of the projection: one lets a worker be
overtaken in the middle of a batch; two events that contradict each other show a revision.  (With
two observers the run passes as well, over 2,653,639 states, which is too long to repeat on every
change.)  In `trials` one snapshot may be taken at any moment between the
commands, one client trial and the run's branch make three branches.  The client has a command
under each of two keys on either of its branches, besides promotions and the run: that is a
promotion onto a canonical branch that has moved on, or has not, and in a trial a command after
another.  `Sent` bounds which: under the second key only the gift, on the canonical branch only the
move, the spawn and (to no effect) the scenario under the first, and fights, quests and
the trade with oneself only on trials of the first state.  `MaxTrials` counts when a
trial is asked for, so that the two workers and the client can be creating theirs at once.  In
`population` three transitions take one person through every level (`MaxHistory`), a second request
comes next to another while there are fewer than two (`MaxOverlap`), and after an overlap or with a
second pool requests come while there are none (`MaxAfter`): enough for two requests about a new or
a materialized person to interleave, fail and be restarted.  Clients send steps 0 and 1 and bulk
requests the steps after those of the history, so that steps can go backward.  In `authority`,
`portal` and `accounts` requests that come one at a time are bounded by `MaxRequests`, which is
where a long sequence of legal calls can go wrong, and all of them by `MaxOverlap` once two
overlapped or one failed halfway: three changes of roles with a restart, five requests about one
character (create it, a game, enter it, and two that overlap with that), five for two logins next
to a change of password.  `minds` needs two changes that race and a retry; the planner of its
problems expands at most 5 nodes, more than any plan to the goal needs.  Sets whose members are
interchangeable are symmetric in the runs that check no liveness.  The theorems of section 4 have no
such bounds.

Fairness.  `durable_liveness`: a thread that can take a step is scheduled eventually (the operating
system), and PostgreSQL queues the waiters of a row lock, so a thread that waits for the lock while
it is freed again and again gets it (strong fairness of `LockBranch`).  `projection`: weak fairness of the steps of each
worker (it polls for ever, and is restarted when it dies) and of the passing of time for each
event; none for the requests.  Nowhere need a request, a failure or a restart happen.  Deadlock is
checked in the runs of `DurableCommands`, `ExperimentJobs`, `SubjectiveProjection`, `TrialBranches`
and `PopulationLifecycle`, and switched off in the four others: once their bound on requests is
reached and every request has ended, nothing need happen any more.

## 4. What is proved

For every value of the constants that satisfies the ASSUMEs of the module, and no others:

| Module | Theorem | States |
|---|---|---|
| `DurableCommandsProofs` | `TypeCorrect`, `LedgerAlwaysReplays`, `KeysCommitOnce`, `BranchLockSerializes`, `AnswersStand`, `Refinement`, `CachesStayCurrent`, `ReplayAlwaysVerifies`, `SnapshotsAlwaysMatch` | `TypeOK`; `LedgerReplays`; `OneCommitPerKey`; `TransactionsAreSerial`; `AnswersAreDurable`, `TablesAgree` and `CachesAreCommitted`; `Spec` implements `CommandLedger`; `CachesAreCurrent`, `ReplayVerifies` and `SnapshotsMatchBoundary` |
| `ExperimentJobsProofs` | `TypeCorrect`, `OneRunUnlessRaced`, `ResultsAreComplete`, `RestartsLoseNothing`, `CompletionsStand`, `RunningIsAlwaysServed` | `TypeOK`, `OneRunPerJob`, `CompletedIsComplete`, `StoredIsCurrent`, `AnsweredStands`, `RunningIsServed` |
| `SubjectiveProjectionProofs` | `TypeCorrect`, `NothingIsPublishedEarly`, `MemoryIsBehindStorage`, `NoBeliefWithoutEvidence` | `TypeOK`, `PublishedIsProjected`, `MindsAreDurable`, `EvidenceIsObserved` |
| `SubjectiveProjectionProofs`, of `Minds` | `RegardTypeCorrect`, `RowsAlwaysExplained`, `MemoryAlwaysCommitted`, `MemoryAlwaysClose`, `PlansAlwaysReachTheirGoal` | `TypeOK`, `RowsAreExplained`, `MemoryIsCommitted`, `MemoryIsCloseBehind`, `PlansReachTheirGoal` |
| `TrialBranchesProofs` | `TypeCorrect`, `EveryBranchReplays`, `KeysCommitOncePerBranch`, `PromotionsKeepTheirBase`, `RunsReproduce`, `BranchesFollowTheirLedgers`, `EveryBranchIsALedger`, `LawsHoldOnEveryBranch`, `PositionsAlwaysAgree`, `HonestTradesConserve` | `TypeOK`, `BranchesReplay`, `OneCommitPerKey`, `PromotionsMeetTheirBase`, `TrialsAreReproducible`, `BranchesAreLedgers`, that each branch implements `CommandLedger`, that what no command breaks no branch breaks, under `RulesOK`; and, for the handlers of the tabletop, `PositionsAgree` and `TradesConserve` |
| `PopulationLifecycleProofs` | `TypeCorrect`, `LevelsAlways`, `RowsAlwaysAdvance`, `MemoryNeverBehind`, `StoredHistoryAlwaysFits`, `FactsAlwaysSurvive` | `TypeOK`, `LevelsAlternate`, `RowsAdvance`, `MemoryIsNotBehind`, `StoredHistoryFits`, `FactsSurvive` |
| `WorldAuthorityProofs` | `TypeCorrect`, `AuthorityIsGranted`, `StoresFollowRoles`, `NobodyLocksOut` | `TypeOK`, `GrantedByRoles`, `AuthorityFollowsRoles`, `AdministratorRemains` |
| `AccountsProofs` | `TypeCorrect`, `RevocationIsComplete`, `LockoutIsExact` | `TypeOK`, `SessionsEndWithTheirEra`, `LockedAfterFailures` |
| `TabletopPortalProofs` | `TypeCorrect`, `RosterAlwaysOwns`, `OwnersAlwaysControl`, `BoundAlwaysHaveBodies`, `BindingsAlwaysStay` | `TypeOK`, `RosterOwns`, `OwnersControl`, `BoundHaveBodies`, and the action property `BindingsStay` |

Durable submission.  The assumptions are those of `DurableCommands`: handlers return deltas or
raise, and deltas take a projection to a projection.  `TypeOK` is not inductive: a thread's receipt
must be a row of the ledger before it can be recorded, and what a thread has loaded must be there
before it is assigned.  `LocalsInv` says what each step may rely on, among it that a thread inside
a transaction holds the lock.  The inductive invariant is `IInv == TypeInv /\ LedgerInv /\
ServedInv`.  The lock is taken only when it is free and every thread in `commit` holds it, so there
is one such thread, and what it read is still so when it writes (`TransactionsAreSerial`); hence
the row it appends is computed from the last one (`LedgerReplays`) under a new key
(`OneCommitPerKey`), and a commit is a commit of `CommandLedger`.  The ledger only grows, so
receipts, histories and answers stay rows of it.  There is a lemma per action, and two lemmas
(`QuietLedger`, `QuietServed`) for the many actions that leave the ledger alone.

The caches are read and written around the transaction without a lock.  What survives every race is
`ImagesInv`: wherever a projection is held, in the cache, by a thread that is to assign it, in a
manifest or a snapshot, it is one the branch has had, and the ledger only grows
(`GrowthKeepsReached`).  The rest holds of undisturbed processes, and the theorems have no hypothesis
about scheduling or failures: `OrderlyInv` says what a process that is not `disturbed` is like.  One
thread at most is in the unlocked sections (`AtMostOne`), and the process is in step with the tables
(`InSync`) unless that thread has a commit to publish, and then exactly one row behind (`Behind`;
together `Calm`).  The steps of the other threads stay outside (`WaitsCalm`), or enter, and then
the process is disturbed from that step on (`MovesAlone`).  A branch that was never disturbed has,
besides, only snapshots and bases that are points of the ledger (`Sound`), so that its history
replays from whichever one a restart recovers.

Jobs.  That two runs exclude each other needs to know that the record of a job that is being run is
never `QUEUED` (`ExclusiveInv`): only a retry makes a record `QUEUED` again, and if a run of the job
is left then the job is `raced`; a start needs `QUEUED` and takes it away.  That results are
complete needs what a runner that returned knows (`CompleteInv`): it ran every trial, or it saw the
cancellation, and then the record still carries it when the end is decided, unless a retry has wiped
it out.  `RunningIsServed` rests on two facts (`ServedInv`): a run that is left publishes another
status, and a job in `known` with a record always has its runner.  What is stored agrees with the
record only between requests: `OrderlyInv` says of each job whose requests never overlapped that at
most one thread serves it (`ServedAlone`), that this thread, if it saves, has the record there is
(`Carries`), and that the job, when nobody serves it and no save was given up, is stored as it is;
threads that serve other jobs touch none of this (`OthersStay`).  None of the theorems assumes
anything of clients, stores or scenarios.

Projection.  `PublishedIsProjected` is not inductive: `Complete` publishes when nothing is left to
do, so the observers a writer is done with must have observed its event (`WriterInv`), and stored
observations never shrink.  `MindsAreDurable` and `EvidenceIsObserved` need what a pending update
holds: each of its beliefs rests on stored observations and the event at hand, whoever else has
written since it was computed (`MemoryInv` and the part of `WriterInv` about `update`).  The
inductive invariant is the conjunction of all of these with `TypeOK`.

Minds.  The proofs about what minds hold share a module: `SubjectiveProjectionProofs` has `Minds` as
its instance `Regard`, over the variables of `Relationships`, those of `Decisions` and others of its
own (`Happening` for `Event`, and so on), and its theorems assume `Bounded`: the bounds are naturals,
every cause asks for an integer and every problem satisfies `IsProblem`, which is part of what
`Minds` assumes.  `TypeOK` needs what a thread holds at each
step (`RegardLocals`), among it that a change about to be published is stored; hence
`MemoryIsCommitted`.  That rows are explained needs that a change is stored once (`StoredOnce`):
it is appended where its row is, so that the last change before it ended where it begins.
`MemoryIsCloseBehind` is not inductive.  Its invariant (`RegardOrder`) says, while changes come one
at a time, that one thread at most is in a change (`OneChange`); that memory has what the last
change of a relation ended with if that change is known, and what it began with if not
(`MemoryFollows`); that every change but the last of its relation is known, or else changed
nothing (`OnlyTheLastIsPending`); and that what a thread has looked up is still so when it
saves (`Prepared`).

Decisions.  `PlansReachTheirGoal` is proved for every problem, whatever its facts, steps, costs and
bounds: `IsProblem` asks that steps are finitely many, that their names are unique, which the planner
checks (`cognition/planning.py:55-57`), and that the bounds are naturals.  The invariant of the search
(`GoodSearch`) is that every node in the queue was reached by its path: each step of the path found
what it needs, and the situation of the node is the one the path leads to (`Reaches`).  A step added
to a path changes none of the situations on the way (`CarriedStays`) and gives its facts their
values (`CarriedNext`).  An induction over the number of nodes taken off the queue (`SearchGood`)
carries this to the node that is found; it and the existence of the recursive function
(`SearchingExists`) are inductions over the naturals, made from a set and the well-foundedness of
`<` (`CountUp`), since the provers cannot instantiate the library's rule.  What remains is that a
thread that stores a decision holds the problem it was made for (`PlansFollowed`).

Trials.  The theorems hold for any handlers that satisfy `RulesOK`: a handler returns deltas or
raises, and deltas make projections of projections.  That is what the kernel asks of a domain, and
the only thing it knows of one.  (The instance that is model-checked has a narrower `Projection`:
the rows that come about there, without negative hit points, mana or gold.)  Only two actions write the store: `AddTrial` adds a branch without
receipts (`NewBranch`), `Commit` appends a receipt computed from the state of its branch under a
new key (`LongerBranch`).  The inductive invariant `SafeInv` adds to that what threads may rely on
(`Legit`): a run works on its own branch with its own scenario, everybody else stays away from the
branches of runs, a command being executed expects the base of its trial if it is a promotion, and
a final state that was observed is the one the scenario makes of the snapshot (`Ideal`).  The last
follows from the others: the receipts of a run's branch all have the run as their key, so there is
one (`RunDone`).  A promotion meets its base because its handler raised otherwise, which the
receipt that replays shows.

That every branch is a `CommandLedger` of its own (`EveryBranchIsALedger`: any branch there can be
implements that specification, with its origin as the first projection; `BranchesFollowTheirLedgers`:
the same step by step, as TLC checks it) needs one invariant more.  `HeldInv` says that the receipt a
thread holds between `execute` and `record` is one of the branch it asked, and stays one, since
nothing takes receipts away (`NoneLost`).  Then there are three kinds of steps.  A commit is a commit
of the ledger of its branch (`CommitLedger`): the last receipt left the projection the branch has
(`LedgerCurrent`), and the key is new.  A step that records a receipt is the ledger's answer
(`RecordLedger`).  All others are none, the one that adds a branch included: a branch that is not
there yet has the empty ledger that a new one has (`AddTrialLedger`).

`LawsHoldOnEveryBranch` is about domains: let `L` be a set of projections that has the initial one
and that no command leads out of (`IsLaw`); then every branch stays in `L`.  The invariant (`LawInv`)
adds that snapshots are in `L`, since trials begin there, and `TargetsInv` what a thread works on:
a trial that is still to be created comes from a snapshot that was taken, and only the canonical
branch is sent promotions.  The hypothesis `PromotedInContext` is in the statement because the code
does not enforce it, and without it the theorem is false.

The tabletop has two such laws.  `Placed` are the projections in which the two rows of an entity say
the same place, `Steady` those of them in which gold and goods are counted in integers.  Any command
with the parameters that the request models let through (`Tabletop`) keeps both, for any number of
entities and any amounts; trades with oneself are among them.  `PositionsAlwaysAgree` is the first
law.  `HonestTradesConserve` is more than a law, since what there is of gold and herbs does depend on
the commands: its invariant (`Conserves`) says of each branch that if its commits were honest, and only
then, it is as rich as its origin, and a commit that is honest computes from a `Steady` projection one
that is as rich (`CommitConserves`).  Dishonest commits are not assumed away: they may be made on any
branch, and what they made may be the origin of a trial.  Hypotheses about the world are that the first
projection is in the law, and that the deltas that a scenario brings along keep it (`ScenariosKeep`,
`ScenariosConserve`), since the handler of scenarios commits whatever their author wrote.
`WorldAssumption` of `MCTrialBranches` has TLC check the first of the demo world.  Each handler has
a lemma that says what its deltas do.  They rest on what a fold does: `ApplyDeltas` is
`FoldLeft`, a recursive function on the subsets of the places of a list, and `ApplyAppended` shows
that the last delta changes what the ones before it have left; `Total` is a sum over a set that is
taken in an unknown order, and `SumSplits` shows that any element may be taken first
(`Additive` is the function the fold turns out to be).  Both are inductions over the naturals,
in the form the provers can use: `CountUp` says of a set, not of a predicate, that it has all of
them, and follows from the well-foundedness of `<` for sets (`WFMin`).

Population.  `Levelled` adds to the invariants `LevelsAlternate` what a thread carries between
reading a member and saving its successor: a legal member, one version after some member it was
allowed to leave, though perhaps not the one that is there by now.  That is why overlapping requests
cannot skip a level, and why the row, whose update demands the version before, advances by one.
`Ordered` is the invariant of requests that come one at a time: then what the thread carries is the
successor of the member in memory (`Successor`), and once it is kept, either the row's successor or
the row itself (`InPlace`), so that saving it forgets nothing (`MovedRemembers`) and the last
transition of the history is its own.

Authority.  `GrantedByRoles` speaks of the tables and the process, but authority also travels in
what threads have read: an account that is still to be mirrored, the set of listed accounts, the
operator that automation acts for.  The inductive invariant says of each that the capabilities it
stands for were given, and that `given` never shrinks; then copying in either direction, in any
order, stays within it.  `AuthorityFollowsRoles` is about the moments between requests; its
invariant (`OrderlyParts`) says what is true within one: roles, table and process agree except for
accounts the busy thread has yet to mirror (`Owes`), a world it has yet to store (`Creates`) and a
controller it has yet to note (`Notes`), and what it has read is still so.  `AdministratorRemains`
needs of a thread about to disable, delete or demote somebody that there is another administrator
(`AdminFits`), which the check has found and nobody has changed.

Accounts.  `SessionsEndWithTheirEra` is nearly inductive: every action that starts a new era revokes
every session of the account in the same step, and a session is opened in the era of that moment.
It needs that an account that is disabled or deleted has no open session that could come back with
it (a deleted account stays deleted, an enabled one has had its sessions revoked).
`LockedAfterFailures` is an equivalence: never too late and never too early.  With one request at a
time, the row counts the guesses of the account (`LockFits`) unless a thread has one to record, and
that thread has read the count and the lock as they still are (`ReadIsCurrent`), so that what it
writes is due (`CountIsDue`).

Portal.  Three facts carry the proof.  Owners never change while a character is there, so what a
request has found about the owner is still so when it writes (`OwnerFound`, for every step of it).
An entity, once bound, stays, or the character is `lost` (`Kept`).  And where there is a receipt of
a spawn for a settled character there is a body in that world, or the character is bound
(`ReceiptsCover`): so an earlier receipt is as good as a new spawn (`BodyFound`).  `Kept` is what
every step leaves alone, and a generic lemma (`ThreadsMove`) keeps what the other threads know.
`BindingsStay` is about single steps: with one request at a time, the character that a request is
about to write has the entity of the row it is written over (`EntityKept`), because nobody has bound
it since it was read.

Only model-checked: the liveness properties (`EveryRequestEnds`,
`EventsArePublished`), which need fairness, and `ENABLED` is beyond the provers.

## 5. Plan

Modelled, checked and, but for liveness, proved so far: durable submission,
experiment jobs, the projection of events into beliefs, trials with promotion over the tabletop
rules, the population lifecycle, roles and authority, accounts, the portal, and what clients do to
minds.  To come, in this order:

1. `TabletopRules`, completed: reputation, blessings, control modes; and the onboarding trials with
   `clone_for_trial`.
2. The portal composed with `WorldAuthority`: a director whose role is revoked between two steps of
   `dm_game_member`.
3. Memories and evidence records next to the beliefs of `SubjectiveProjection`; personas from draft
   to publication.
4. Pure algorithms as operators against reference definitions: perception grants, the pairing and
   folds of calibration, the order of migrations.

The project keeps to a dozen runs, so that all of them can be made on every change; none takes more
than a few minutes.

## 6. What is not modelled

Perception grants, lore retrieval, calibration, metrics and verifiers, and the sampling of pools are
pure computations over data (geometry, text, floating-point statistics, an immutable file) without
state of their own.  The scheduler is a priority queue that nothing in the process uses.  The
migration runner works before anything else does.  Request parsing and rendering of the API are left
out, its effects are in the components its routes call.  The frontend, the scripts and the entry
points keep no state of the system.  The text of personas and the language model behind
deliberation are external.  Telemetry and rendering are left out; wording, formatting and logging
everywhere.
