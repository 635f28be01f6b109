---------------------------- MODULE ExperimentJobs ----------------------------
(***************************************************************************)
(* Experiment jobs: JobManager (experiments/jobs.py), the routes of the    *)
(* API that drive it, and the two places a job record is persisted in      *)
(* (kernel/api/app.py): a file per job, and with PostgreSQL a row as well. *)
(*                                                                         *)
(* A job is run by the thread of the request that launched or retried it.  *)
(* Each method of JobManager holds the manager's lock, but a run takes it  *)
(* three times: to start, to decide how the run ended, and to publish that *)
(* decision; and records are persisted after the lock has been released.   *)
(***************************************************************************)
EXTENDS Integers, FiniteSets

CONSTANTS
    Thread,       \* request threads of the API process
    Job,          \* job identities: a type with its request
    MaxAttempts,  \* max_attempts of every job
    Trials,       \* trials of a job
    NoRecord,     \* "there is no such job"
    NoResult,     \* result of a job that has none
    Database,     \* whether records are kept in PostgreSQL too
    StoreMayFail  \* whether saving a record may fail

ASSUME AttemptsAssumption == MaxAttempts \in Nat \ {0}
ASSUME TrialsAssumption == Trials \in Nat
ASSUME FlagsAssumption == {Database, StoreMayFail} \subseteq BOOLEAN

\* A job record.  Its progress is the number of trials in its checkpoint, and
\* its result the number of trials the report of the run is about.
Status == {"QUEUED", "RUNNING", "COMPLETED", "FAILED", "CANCELLED"}
Terminal == {"COMPLETED", "FAILED", "CANCELLED"}
Record == [status : Status, attempt : 1..MaxAttempts, cancel : BOOLEAN,
           checkpoint : 0..Trials, result : 0..Trials \cup {NoResult}]

ASSUME NoRecordAssumption == NoRecord \notin Record
ASSUME NoResultAssumption == NoResult \notin 0..Trials

VARIABLES
    record,   \* the manager's records
    runner,   \* jobs with a runner attached
    file,     \* records in the history directory
    table,    \* records in experiments.jobs
    known,    \* jobs whose scenario a process that is started again knows
    pc, job,  \* what each thread does next, and for which job
    done,     \* trials its run has executed
    outcome,  \* how its runner ended
    out,      \* the record it has to save or publish
    then      \* what it does when the record is saved

\* History.  No guard and no other variable depends on these.
VARIABLES
    answered, \* jobs whose completion a client was answered with
    crossed,  \* jobs that were requested while another request for them was served
    raced,    \* jobs that were retried while a run of them was left
    unsaved   \* jobs whose record has changed since a save of it was given up

\* What outlives the process.
store == <<file, table, known>>

past == <<answered, crossed, raced, unsaved>>
vars == <<record, runner, store, pc, job, done, outcome, out, then, past>>

Steps == {"idle", "save file", "save table", "start", "working", "finish", "publish",
          "answer"}
Outcomes == {"none", "returned", "cancelled", "raised"}

Init ==
    /\ record = [j \in Job |-> NoRecord]
    /\ runner = {}
    /\ file = [j \in Job |-> NoRecord]
    /\ table = [j \in Job |-> NoRecord]
    /\ known \in SUBSET Job
    /\ pc = [t \in Thread |-> "idle"]
    /\ job \in [Thread -> Job]
    /\ done = [t \in Thread |-> 0]
    /\ outcome = [t \in Thread |-> "none"]
    /\ out = [t \in Thread |-> NoRecord]
    /\ then = [t \in Thread |-> "idle"]
    /\ answered = {} /\ crossed = {} /\ raced = {} /\ unsaved = {}

Goto(t, step) == pc' = [pc EXCEPT ![t] = step]

\* The request is over.
Leave(t) ==
    /\ Goto(t, "idle")
    /\ done' = [done EXCEPT ![t] = 0]
    /\ outcome' = [outcome EXCEPT ![t] = "none"]
    /\ out' = [out EXCEPT ![t] = NoRecord]
    /\ then' = [then EXCEPT ![t] = "idle"]

\* persist_job: the record as the caller got it is saved, outside the lock.
Save(t, saved, next) ==
    /\ out' = [out EXCEPT ![t] = saved]
    /\ then' = [then EXCEPT ![t] = next]
    /\ Goto(t, "save file")

\* t is inside a run of j: its runner was started and has not published its end.
Runs(t, j) ==
    /\ job[t] = j
    /\ \/ pc[t] \in {"working", "finish", "publish"}
       \/ pc[t] \in {"save file", "save table"} /\ then[t] = "working"

\* t is serving a request for j.
Serves(t, j) == pc[t] # "idle" /\ job[t] = j

\* A request for j is let in, whoever is serving another one for it.
Cross(j) == crossed' = crossed \cup {i \in {j} : \E u \in Thread : Serves(u, i)}

(***************************************************************************)
(* Requests.                                                               *)
(***************************************************************************)
NewRecord == [status |-> "QUEUED", attempt |-> 1, cancel |-> FALSE, checkpoint |-> 0,
              result |-> NoResult]

\* launch_scenario: the identity of a job is made of its request, so a launch
\* of the same scenario finds the record there is, in whatever state.
Launch(t, j) ==
    /\ pc[t] = "idle"
    /\ record' = [record EXCEPT ![j] = IF @ = NoRecord THEN NewRecord ELSE @]
    /\ runner' = runner \cup {j}
    /\ job' = [job EXCEPT ![t] = j]
    /\ Save(t, record'[j], "start")
    /\ Cross(j)
    /\ UNCHANGED <<store, done, outcome, answered, raced, unsaved>>

Cancel(t, j) ==
    /\ pc[t] = "idle"
    /\ record[j] # NoRecord
    /\ record[j].status \notin {"COMPLETED", "FAILED"}
    /\ record' = [record EXCEPT ![j] = [@ EXCEPT !.status = "CANCELLED", !.cancel = TRUE]]
    /\ job' = [job EXCEPT ![t] = j]
    /\ Save(t, record'[j], "answer")
    /\ Cross(j)
    /\ UNCHANGED <<runner, store, done, outcome, answered, raced, unsaved>>

\* Also while the run that was cancelled is still going on.
Retry(t, j) ==
    /\ pc[t] = "idle"
    /\ record[j] # NoRecord
    /\ record[j].status \in {"FAILED", "CANCELLED"}
    /\ record[j].attempt < MaxAttempts
    /\ record' = [record EXCEPT ![j] = [@ EXCEPT !.status = "QUEUED", !.result = NoResult,
                                                !.attempt = record[j].attempt + 1, !.cancel = FALSE]]
    /\ job' = [job EXCEPT ![t] = j]
    /\ Save(t, record'[j], "start")
    /\ Cross(j)
    /\ raced' = raced \cup {i \in {j} : \E u \in Thread : Runs(u, i)}
    /\ UNCHANGED <<runner, store, done, outcome, answered, unsaved>>

(***************************************************************************)
(* Persistence.                                                            *)
(***************************************************************************)
SaveFile(t) ==
    /\ pc[t] = "save file"
    /\ file' = [file EXCEPT ![job[t]] = out[t]]
    /\ Goto(t, IF Database THEN "save table" ELSE then[t])
    /\ UNCHANGED <<record, runner, table, known, job, done, outcome, out, then, past>>

\* Mutant: a row is inserted, and an existing one left as it is.
InsertTable(t) ==
    /\ pc[t] = "save table"
    /\ table' = [table EXCEPT ![job[t]] = IF @ = NoRecord THEN out[t] ELSE @]
    /\ Goto(t, then[t])
    /\ UNCHANGED <<record, runner, file, known, job, done, outcome, out, then, past>>

SaveTable(t) ==
    /\ pc[t] = "save table"
    /\ table' = [table EXCEPT ![job[t]] = out[t]]
    /\ Goto(t, then[t])
    /\ UNCHANGED <<record, runner, file, known, job, done, outcome, out, then, past>>

\* Inside a run the error ends the run; elsewhere it ends the request.
SaveFails(t) ==
    /\ StoreMayFail
    /\ pc[t] \in {"save file", "save table"}
    /\ IF then[t] = "working"
         THEN /\ outcome' = [outcome EXCEPT ![t] = "raised"]
              /\ Goto(t, "finish")
              /\ UNCHANGED <<done, out, then>>
         ELSE Leave(t)
    /\ unsaved' = unsaved \cup {job[t]}
    /\ UNCHANGED <<record, runner, store, job, answered, crossed, raced>>

(***************************************************************************)
(* JobManager.run: the start.                                              *)
(***************************************************************************)
\* A job that has ended is not run again, its record is the answer.
StartEnded(t) ==
    /\ pc[t] = "start"
    /\ record[job[t]].status \in Terminal
    /\ Save(t, record[job[t]], "answer")
    /\ UNCHANGED <<record, runner, store, job, done, outcome, past>>

\* "job is already running".
StartRunning(t) ==
    /\ pc[t] = "start"
    /\ record[job[t]].status = "RUNNING"
    /\ Leave(t)
    /\ UNCHANGED <<record, runner, store, job, past>>

\* Mutant: the record is left QUEUED until the first checkpoint.
StartUnmarked(t) ==
    /\ pc[t] = "start"
    /\ record[job[t]].status = "QUEUED"
    /\ \/ job[t] \in runner /\ Goto(t, "working") /\ UNCHANGED <<done, outcome, out, then>>
       \/ job[t] \notin runner /\ Leave(t)
    /\ UNCHANGED <<record, runner, store, job, past>>

\* The record is marked RUNNING before the runner is looked up; when there is
\* none, the request ends with an error and the record is left as it is.
StartQueued(t) ==
    /\ pc[t] = "start"
    /\ record[job[t]].status = "QUEUED"
    /\ record' = [record EXCEPT ![job[t]] = [@ EXCEPT !.status = "RUNNING", !.cancel = FALSE]]
    /\ \/ /\ job[t] \in runner
          /\ Goto(t, "working")
          /\ UNCHANGED <<done, outcome, out, then, unsaved>>
       \/ /\ job[t] \notin runner
          /\ Leave(t)
          /\ unsaved' = unsaved \cup {job[t]}
    /\ UNCHANGED <<runner, store, job, answered, crossed, raced>>

(***************************************************************************)
(* The runner.  It executes the trials from the first, whatever an earlier *)
(* attempt has checkpointed.                                               *)
(***************************************************************************)
End(t, how) ==
    /\ outcome' = [outcome EXCEPT ![t] = how]
    /\ Goto(t, "finish")

\* checkpoint_trial; a checkpoint of a job that is not RUNNING raises.
RunTrial(t) ==
    /\ pc[t] = "working"
    /\ done[t] < Trials
    /\ record[job[t]].status = "RUNNING"
    /\ done' = [done EXCEPT ![t] = @ + 1]
    /\ record' = [record EXCEPT ![job[t]] = [@ EXCEPT !.checkpoint = done[t] + 1]]
    /\ Save(t, record'[job[t]], "working")
    /\ UNCHANGED <<runner, store, job, outcome, past>>

CheckpointRaises(t) ==
    /\ pc[t] = "working"
    /\ done[t] < Trials
    /\ record[job[t]].status # "RUNNING"
    /\ End(t, "raised")
    /\ UNCHANGED <<record, runner, store, job, done, out, then, past>>

\* A runner that looks sees the cancellation: it reports what it has so far, or
\* raises JobCancelled.
IsCancelled(j) == record[j].cancel \/ record[j].status = "CANCELLED"

StopEarly(t) ==
    /\ pc[t] = "working"
    /\ IsCancelled(job[t])
    /\ \E how \in {"returned", "cancelled"} : End(t, how)
    /\ UNCHANGED <<record, runner, store, job, done, out, then, past>>

Return(t) ==
    /\ pc[t] = "working"
    /\ done[t] = Trials
    /\ End(t, "returned")
    /\ UNCHANGED <<record, runner, store, job, done, out, then, past>>

Raise(t) ==
    /\ pc[t] = "working"
    /\ End(t, "raised")
    /\ UNCHANGED <<record, runner, store, job, done, out, then, past>>

(***************************************************************************)
(* JobManager.run: the end, in two critical sections.                      *)
(***************************************************************************)

\* Mutant: a runner that returned has completed its job, cancelled or not.
FinishedAnyway(how, current, trials) ==
    CASE how = "returned"  -> [current EXCEPT !.status = "COMPLETED", !.result = trials]
      [] how = "cancelled" -> [current EXCEPT !.status = "CANCELLED"]
      [] OTHER             -> [current EXCEPT !.status = "FAILED"]

\* The record a run ends with, given the current one.
Finished(how, current, trials) ==
    CASE how = "returned" /\ (current.cancel \/ current.status = "CANCELLED") ->
             [current EXCEPT !.status = "CANCELLED", !.result = NoResult]
      [] how = "returned" /\ ~(current.cancel \/ current.status = "CANCELLED") ->
             [current EXCEPT !.status = "COMPLETED", !.result = trials]
      [] how = "cancelled" -> [current EXCEPT !.status = "CANCELLED"]
      [] OTHER             -> [current EXCEPT !.status = "FAILED"]

Finish(t) ==
    /\ pc[t] = "finish"
    /\ out' = [out EXCEPT ![t] = Finished(outcome[t], record[job[t]], done[t])]
    /\ Goto(t, "publish")
    /\ UNCHANGED <<record, runner, store, job, done, outcome, then, past>>

\* Mutant: the end of a run that raised is not published.
PublishUnlessRaised(t) ==
    /\ pc[t] = "publish"
    /\ record' = [record EXCEPT ![job[t]] = IF outcome[t] = "raised" THEN @ ELSE out[t]]
    /\ Save(t, out[t], "answer")
    /\ done' = [done EXCEPT ![t] = 0]
    /\ outcome' = [outcome EXCEPT ![t] = "none"]
    /\ UNCHANGED <<runner, store, job, past>>

\* Whatever has happened to the record since it was decided.
Publish(t) ==
    /\ pc[t] = "publish"
    /\ record' = [record EXCEPT ![job[t]] = out[t]]
    /\ Save(t, out[t], "answer")
    /\ done' = [done EXCEPT ![t] = 0]
    /\ outcome' = [outcome EXCEPT ![t] = "none"]
    /\ UNCHANGED <<runner, store, job, past>>

Answer(t) ==
    /\ pc[t] = "answer"
    /\ Leave(t)
    /\ answered' = answered \cup {j \in {job[t]} : out[t].status = "COMPLETED"}
    /\ UNCHANGED <<record, runner, store, job, crossed, raced, unsaved>>

(***************************************************************************)
(* Restart.                                                                *)
(***************************************************************************)

\* The stored record of a job: the row, or without one the file.
Stored(j) == IF table[j] # NoRecord THEN table[j] ELSE file[j]

\* A job that was stored as RUNNING is restored as FAILED.
Restored(stored) ==
    IF stored # NoRecord /\ stored.status = "RUNNING"
      THEN [stored EXCEPT !.status = "FAILED"] ELSE stored

\* Mutant: what a restoration changes is changed in memory only.
NotResaved(saved, saves) == saved

\* A record that is changed by its restoration is saved again.
Resaved(saved, saves) ==
    [j \in Job |-> IF Restored(Stored(j)) # Stored(j) /\ saves THEN Restored(Stored(j))
                                                              ELSE saved[j]]

Restart ==
    /\ record' = [j \in Job |-> Restored(Stored(j))]
    /\ runner' = {j \in known : Stored(j) # NoRecord}
    /\ file' = Resaved(file, TRUE)
    /\ table' = Resaved(table, Database)
    /\ pc' = [t \in Thread |-> "idle"]
    /\ done' = [t \in Thread |-> 0]
    /\ outcome' = [t \in Thread |-> "none"]
    /\ out' = [t \in Thread |-> NoRecord]
    /\ then' = [t \in Thread |-> "idle"]
    /\ unsaved' = {}
    /\ UNCHANGED <<known, job, answered, crossed, raced>>

(***************************************************************************)
(* The specification.                                                      *)
(***************************************************************************)
Request(t) == \E j \in Job : Launch(t, j) \/ Cancel(t, j) \/ Retry(t, j)

Step(t) ==
    \/ SaveFile(t) \/ SaveTable(t) \/ SaveFails(t)
    \/ StartEnded(t) \/ StartRunning(t) \/ StartQueued(t)
    \/ RunTrial(t) \/ CheckpointRaises(t) \/ StopEarly(t) \/ Return(t) \/ Raise(t)
    \/ Finish(t) \/ Publish(t) \/ Answer(t)

Next == (\E t \in Thread : Request(t) \/ Step(t)) \/ Restart

Spec == Init /\ [][Next]_vars
------------------------------------------------------------------------------
(***************************************************************************)
(* Properties.                                                             *)
(***************************************************************************)

TypeOK ==
    /\ record \in [Job -> Record \cup {NoRecord}]
    /\ runner \subseteq Job
    /\ file \in [Job -> Record \cup {NoRecord}]
    /\ table \in [Job -> Record \cup {NoRecord}]
    /\ known \subseteq Job
    /\ pc \in [Thread -> Steps]
    /\ job \in [Thread -> Job]
    /\ done \in [Thread -> 0..Trials]
    /\ outcome \in [Thread -> Outcomes]
    /\ out \in [Thread -> Record \cup {NoRecord}]
    /\ then \in [Thread -> {"idle", "start", "working", "answer"}]
    /\ answered \subseteq Job /\ crossed \subseteq Job
    /\ raced \subseteq Job /\ unsaved \subseteq Job

\* "job is already running" (experiments/jobs.py:152-153): at most one run of a
\* job is under way.
NoSecondRun == \A t, u \in Thread, j \in Job : Runs(t, j) /\ Runs(u, j) => t = u

\* It is so for every job that was never retried while a run of it was left.
OneRunPerJob ==
    \A j \in Job \ raced : \A t, u \in Thread : Runs(t, j) /\ Runs(u, j) => t = u

\* A completed job reports all of its trials: the partial report of a cancelled
\* run is not taken for the result (experiments/jobs.py:170-171), unless the job
\* was retried while that run was left, which wipes the cancellation out.
CompletedIsComplete ==
    \A j \in Job \ raced : record[j] # NoRecord /\ record[j].status = "COMPLETED" =>
        record[j].result = Trials

\* A RUNNING job is being run, so that it will end, if its scenario would be known
\* after a restart: no run leaves its record RUNNING behind, whatever requests
\* overlap, are cancelled or retried, and whatever saves fail in between.
RunningIsServed ==
    \A j \in known : record[j] # NoRecord /\ record[j].status = "RUNNING" =>
        \E t \in Thread : Runs(t, j)

\* When no request for it is being served, a restart would bring a job back
\* exactly as it is.  Excepted are a job that was requested while another request
\* for it was served, because a copy may be saved after a later one, and a job
\* that a failed save or a missing runner has left unsaved, until a restart.
StoredIsCurrent ==
    \A j \in Job \ (crossed \cup unsaved) :
        (\A t \in Thread : ~Serves(t, j)) => Stored(j) = record[j]

\* A completion that was answered stands, also after a restart
\* (docs/TESTING.md:123: "completed jobs and detailed ledgers remain visible
\* after a real application restart") and when saves fail, for every job whose
\* requests never overlapped.
AnsweredStands ==
    \A j \in answered \ crossed : record[j] # NoRecord /\ record[j].status = "COMPLETED"
==============================================================================
