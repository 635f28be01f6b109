------------------------- MODULE ExperimentJobsProofs -------------------------
(***************************************************************************)
(* Proofs about ExperimentJobs, for any number of threads, jobs, attempts  *)
(* and trials, with failing stores and restarts at any step.               *)
(***************************************************************************)
EXTENDS ExperimentJobs, TLAPS

USE AttemptsAssumption, TrialsAssumption, FlagsAssumption,
    NoRecordAssumption, NoResultAssumption
USE DEF store, past

(***************************************************************************)
(* Type correctness.                                                       *)
(***************************************************************************)

\* A thread with a request works on a job there is, and has the record it saves.
LocalsInv ==
    \A t \in Thread :
      /\ pc[t] # "idle" => record[job[t]] # NoRecord
      /\ pc[t] \in {"save file", "save table", "publish", "answer"} => out[t] # NoRecord

TypeInv == TypeOK /\ LocalsInv

LEMMA InitType == Init => TypeInv
  BY DEF Init, TypeInv, TypeOK, LocalsInv, Steps, Outcomes

LEMMA NewRecordType == NewRecord \in Record
  BY DEF NewRecord, Record, Status

\* A job gets a new record.
LEMMA NewRecords ==
    ASSUME TypeOK, NEW j \in Job, NEW r \in Record, record' = [record EXCEPT ![j] = r]
    PROVE  /\ record' \in [Job -> Record \cup {NoRecord}]
           /\ record'[j] = r
           /\ \A i \in Job : record[i] # NoRecord => record'[i] # NoRecord
  BY DEF TypeOK

LEMMA LaunchType ==
    ASSUME TypeInv, NEW t \in Thread, NEW j \in Job, Launch(t, j) PROVE TypeInv'
<1> DEFINE r == IF record[j] = NoRecord THEN NewRecord ELSE record[j]
<1>1. r \in Record
  BY NewRecordType DEF TypeInv, TypeOK
<1>2. record' = [record EXCEPT ![j] = r]
  BY DEF Launch
<1>3. /\ record' \in [Job -> Record \cup {NoRecord}]
      /\ record'[j] \in Record
      /\ \A i \in Job : record[i] # NoRecord => record'[i] # NoRecord
  BY <1>1, <1>2, NewRecords DEF TypeInv
<1>h. /\ answered' \subseteq Job /\ crossed' \subseteq Job
      /\ raced' \subseteq Job /\ unsaved' \subseteq Job
  BY DEF TypeInv, TypeOK, Launch, Cross
<1> QED
  BY <1>3, <1>h DEF TypeInv, TypeOK, LocalsInv, Launch, Save, Goto, Steps

LEMMA CancelType ==
    ASSUME TypeInv, NEW t \in Thread, NEW j \in Job, Cancel(t, j) PROVE TypeInv'
<1> DEFINE r == [record[j] EXCEPT !.status = "CANCELLED", !.cancel = TRUE]
<1>1. record[j] \in Record
  BY DEF TypeInv, TypeOK, Cancel
<1>2. r \in Record
  BY <1>1 DEF Record, Status
<1>3. /\ record' \in [Job -> Record \cup {NoRecord}]
      /\ record'[j] \in Record
      /\ \A i \in Job : record[i] # NoRecord => record'[i] # NoRecord
  BY <1>2, NewRecords DEF TypeInv, Cancel
<1>h. /\ answered' \subseteq Job /\ crossed' \subseteq Job
      /\ raced' \subseteq Job /\ unsaved' \subseteq Job
  BY DEF TypeInv, TypeOK, Cancel, Cross
<1> QED
  BY <1>3, <1>h DEF TypeInv, TypeOK, LocalsInv, Cancel, Save, Goto, Steps

LEMMA RetryType ==
    ASSUME TypeInv, NEW t \in Thread, NEW j \in Job, Retry(t, j) PROVE TypeInv'
<1> DEFINE r == [record[j] EXCEPT !.status = "QUEUED", !.result = NoResult,
                                  !.attempt = record[j].attempt + 1, !.cancel = FALSE]
<1>1. record[j] \in Record
  BY DEF TypeInv, TypeOK, Retry
<1>2. record[j].attempt + 1 \in 1..MaxAttempts
  BY <1>1 DEF Retry, Record
<1>3. r \in Record
  BY <1>1, <1>2 DEF Record, Status
<1>4. /\ record' \in [Job -> Record \cup {NoRecord}]
      /\ record'[j] \in Record
      /\ \A i \in Job : record[i] # NoRecord => record'[i] # NoRecord
  BY <1>3, NewRecords DEF TypeInv, Retry
<1>h. /\ answered' \subseteq Job /\ crossed' \subseteq Job
      /\ raced' \subseteq Job /\ unsaved' \subseteq Job
  BY DEF TypeInv, TypeOK, Retry, Cross
<1> QED
  BY <1>4, <1>h DEF TypeInv, TypeOK, LocalsInv, Retry, Save, Goto, Steps

\* A request that is over leaves its thread idle, and every other as it was.
LEMMA LeaveType ==
    ASSUME TypeOK, NEW t \in Thread, Leave(t)
    PROVE  /\ pc' \in [Thread -> Steps]
           /\ done' \in [Thread -> 0..Trials]
           /\ outcome' \in [Thread -> Outcomes]
           /\ out' \in [Thread -> Record \cup {NoRecord}]
           /\ then' \in [Thread -> {"idle", "start", "working", "answer"}]
           /\ pc'[t] = "idle"
           /\ \A u \in Thread \ {t} : pc'[u] = pc[u] /\ out'[u] = out[u]
<1>1. 0 \in 0..Trials
  OBVIOUS
<1>2. pc' \in [Thread -> Steps] /\ pc'[t] = "idle" /\ \A u \in Thread \ {t} : pc'[u] = pc[u]
  BY DEF TypeOK, Leave, Goto, Steps
<1>3. done' \in [Thread -> 0..Trials]
  BY <1>1 DEF TypeOK, Leave
<1>4. outcome' \in [Thread -> Outcomes]
  BY DEF TypeOK, Leave, Outcomes
<1>5. out' \in [Thread -> Record \cup {NoRecord}] /\ \A u \in Thread \ {t} : out'[u] = out[u]
  BY DEF TypeOK, Leave
<1>6. then' \in [Thread -> {"idle", "start", "working", "answer"}]
  BY DEF TypeOK, Leave
<1> QED
  BY <1>2, <1>3, <1>4, <1>5, <1>6

LEMMA PersistenceType ==
    ASSUME TypeInv, NEW t \in Thread, SaveFile(t) \/ SaveTable(t) \/ SaveFails(t)
    PROVE  TypeInv'
<1>1. CASE SaveFile(t)
  BY <1>1 DEF TypeInv, TypeOK, LocalsInv, SaveFile, Goto, Steps
<1>2. CASE SaveTable(t)
  <2>1. pc' \in [Thread -> Steps]
    BY <1>2 DEF TypeInv, TypeOK, SaveTable, Goto, Steps
  <2>2. LocalsInv'
    BY <1>2 DEF TypeInv, TypeOK, LocalsInv, SaveTable, Goto
  <2> QED
    BY <1>2, <2>1, <2>2 DEF TypeInv, TypeOK, LocalsInv, SaveTable
<1>3. CASE SaveFails(t)
  <2>1. CASE then[t] = "working"
    <3>1. /\ pc' = [pc EXCEPT ![t] = "finish"] /\ outcome' = [outcome EXCEPT ![t] = "raised"]
          /\ UNCHANGED <<record, runner, store, job, done, out, then>>
          /\ UNCHANGED <<answered, crossed, raced>> /\ unsaved' = unsaved \cup {job[t]}
          /\ pc[t] # "idle"
      BY <1>3, <2>1 DEF SaveFails, Goto, store
    <3>h. /\ answered' \subseteq Job /\ crossed' \subseteq Job
          /\ raced' \subseteq Job /\ unsaved' \subseteq Job
      BY <3>1 DEF TypeInv, TypeOK
    <3>2. TypeOK'
      BY <3>1, <3>h DEF TypeInv, TypeOK, Steps, Outcomes
    <3>3. LocalsInv'
      BY <3>1 DEF TypeInv, TypeOK, LocalsInv
    <3> QED
      BY <3>2, <3>3 DEF TypeInv
  <2>2. CASE then[t] # "working"
    <3>1. /\ Leave(t) /\ UNCHANGED <<record, runner, store, job, answered, crossed, raced>>
          /\ unsaved' = unsaved \cup {job[t]}
      BY <1>3, <2>2 DEF SaveFails
    <3>h. /\ answered' \subseteq Job /\ crossed' \subseteq Job
          /\ raced' \subseteq Job /\ unsaved' \subseteq Job
      BY <3>1 DEF TypeInv, TypeOK
    <3> QED
      BY <3>1, <3>h, LeaveType DEF TypeInv, TypeOK, LocalsInv, store
  <2> QED
    BY <2>1, <2>2
<1> QED
  BY <1>1, <1>2, <1>3

LEMMA StartType ==
    ASSUME TypeInv, NEW t \in Thread, StartEnded(t) \/ StartRunning(t) \/ StartQueued(t)
    PROVE  TypeInv'
<1>1. CASE StartEnded(t)
  BY <1>1 DEF TypeInv, TypeOK, LocalsInv, StartEnded, Save, Goto, Steps
<1>2. CASE StartRunning(t)
  BY <1>2, LeaveType DEF TypeInv, TypeOK, LocalsInv, StartRunning
<1>3. CASE StartQueued(t)
  <2>1. record[job[t]] \in Record
    BY <1>3 DEF TypeInv, TypeOK, LocalsInv, StartQueued
  <2> DEFINE r == [record[job[t]] EXCEPT !.status = "RUNNING", !.cancel = FALSE]
  <2>r. r \in Record
    BY <2>1 DEF Record, Status
  <2>2. /\ record' \in [Job -> Record \cup {NoRecord}]
        /\ \A i \in Job : record[i] # NoRecord => record'[i] # NoRecord
    BY <1>3, <2>r, NewRecords DEF TypeInv, TypeOK, StartQueued
  <2>3. CASE job[t] \in runner
    <3>1. /\ pc' = [pc EXCEPT ![t] = "working"]
          /\ UNCHANGED <<done, outcome, out, then, runner, store, job, past>>
      BY <1>3, <2>3 DEF StartQueued, Goto, store
    <3>2. TypeOK'
      BY <2>2, <3>1 DEF TypeInv, TypeOK, Steps
    <3>3. record[job[t]] # NoRecord
      BY <1>3 DEF TypeInv, LocalsInv, StartQueued
    <3>4. LocalsInv'
      BY <2>2, <3>1, <3>3 DEF TypeInv, TypeOK, LocalsInv
    <3> QED
      BY <3>2, <3>4 DEF TypeInv
  <2>4. CASE job[t] \notin runner
    <3>1. /\ Leave(t) /\ UNCHANGED <<runner, store, job, answered, crossed, raced>>
          /\ unsaved' = unsaved \cup {job[t]}
      BY <1>3, <2>4 DEF StartQueued
    <3>h. /\ answered' \subseteq Job /\ crossed' \subseteq Job
          /\ raced' \subseteq Job /\ unsaved' \subseteq Job
      BY <3>1 DEF TypeInv, TypeOK
    <3>2. TypeOK'
      BY <2>2, <3>1, <3>h, LeaveType DEF TypeInv, TypeOK
    <3>3. /\ pc'[t] = "idle"
          /\ \A u \in Thread \ {t} : pc'[u] = pc[u] /\ out'[u] = out[u] /\ job'[u] = job[u]
      BY <3>1, LeaveType DEF TypeInv
    <3>4. LocalsInv'
      BY <2>2, <3>3 DEF TypeInv, TypeOK, LocalsInv
    <3> QED
      BY <3>2, <3>4 DEF TypeInv
  <2> QED
    BY <2>3, <2>4
<1> QED
  BY <1>1, <1>2, <1>3

LEMMA RunTrialType == ASSUME TypeInv, NEW t \in Thread, RunTrial(t) PROVE TypeInv'
<1>0. record[job[t]] \in Record
  BY DEF TypeInv, TypeOK, LocalsInv, RunTrial
<1>1. done[t] + 1 \in 0..Trials
  BY DEF TypeInv, TypeOK, RunTrial
<1> DEFINE r == [record[job[t]] EXCEPT !.checkpoint = done[t] + 1]
<1>2. r \in Record
  BY <1>0, <1>1 DEF Record
<1>3. /\ record' \in [Job -> Record \cup {NoRecord}]
      /\ record'[job[t]] \in Record
      /\ \A i \in Job : record[i] # NoRecord => record'[i] # NoRecord
  BY <1>2, NewRecords DEF TypeInv, TypeOK, RunTrial
<1> QED
  BY <1>1, <1>3 DEF TypeInv, TypeOK, LocalsInv, RunTrial, Save, Goto, Steps

LEMMA EndType ==
    ASSUME TypeInv, NEW t \in Thread,
           CheckpointRaises(t) \/ StopEarly(t) \/ Return(t) \/ Raise(t)
    PROVE  TypeInv'
<1>1. /\ \E how \in Outcomes : outcome' = [outcome EXCEPT ![t] = how]
      /\ pc' = [pc EXCEPT ![t] = "finish"]
      /\ UNCHANGED <<record, runner, store, job, done, out, then, past>>
      /\ pc[t] = "working"
  <2>1. CASE CheckpointRaises(t)
    BY <2>1 DEF CheckpointRaises, End, Goto, Outcomes
  <2>2. CASE Return(t)
    BY <2>2 DEF Return, End, Goto, Outcomes
  <2>3. CASE StopEarly(t)
    BY <2>3 DEF StopEarly, End, Goto, Outcomes
  <2>4. CASE Raise(t)
    BY <2>4 DEF Raise, End, Goto, Outcomes
  <2> QED
    BY <2>1, <2>2, <2>3, <2>4
<1>2. PICK how \in Outcomes : outcome' = [outcome EXCEPT ![t] = how]
  BY <1>1
<1>4. pc' \in [Thread -> Steps] /\ outcome' \in [Thread -> Outcomes]
  BY <1>1, <1>2 DEF TypeInv, TypeOK, Steps
<1>5. LocalsInv'
  BY <1>1 DEF TypeInv, TypeOK, LocalsInv, store
<1> QED
  BY <1>1, <1>4, <1>5 DEF TypeInv, TypeOK, store

LEMMA FinishedType ==
    ASSUME NEW how, NEW current \in Record, NEW trials \in 0..Trials
    PROVE  Finished(how, current, trials) \in Record
  BY DEF Finished, Record, Status

LEMMA FinishType ==
    ASSUME TypeInv, NEW t \in Thread, Finish(t) \/ Publish(t) \/ Answer(t)
    PROVE  TypeInv'
<1>1. CASE Finish(t)
  <2>1. Finished(outcome[t], record[job[t]], done[t]) \in Record
    BY <1>1, FinishedType DEF TypeInv, TypeOK, LocalsInv, Finish
  <2> QED
    BY <1>1, <2>1 DEF TypeInv, TypeOK, LocalsInv, Finish, Goto, Steps
<1>2. CASE Publish(t)
  <2>0. 0 \in 0..Trials
    OBVIOUS
  <2>1. out[t] \in Record /\ job[t] \in Job
    BY <1>2 DEF TypeInv, TypeOK, LocalsInv, Publish
  <2>2. /\ record' \in [Job -> Record \cup {NoRecord}]
        /\ \A i \in Job : record[i] # NoRecord => record'[i] # NoRecord
    BY <1>2, <2>1, NewRecords DEF TypeInv, Publish
  <2>3. done' \in [Thread -> 0..Trials]
    BY <1>2, <2>0 DEF TypeInv, TypeOK, Publish
  <2>4. outcome' \in [Thread -> Outcomes]
    BY <1>2 DEF TypeInv, TypeOK, Publish, Outcomes
  <2> QED
    BY <1>2, <2>1, <2>2, <2>3, <2>4 DEF TypeInv, TypeOK, LocalsInv, Publish, Save, Goto, Steps
<1>3. CASE Answer(t)
  <2>1. /\ answered' \subseteq Job /\ crossed' \subseteq Job
        /\ raced' \subseteq Job /\ unsaved' \subseteq Job
    BY <1>3 DEF TypeInv, TypeOK, Answer
  <2> QED
    BY <1>3, <2>1, LeaveType DEF TypeInv, TypeOK, LocalsInv, Answer
<1> QED
  BY <1>1, <1>2, <1>3

LEMMA StoredType ==
    ASSUME TypeOK, NEW j \in Job
    PROVE  /\ Stored(j) \in Record \cup {NoRecord}
           /\ Restored(Stored(j)) \in Record \cup {NoRecord}
  BY DEF TypeOK, Stored, Restored, Record, Status

LEMMA RestartType == ASSUME TypeInv, Restart PROVE TypeInv'
<1>1. record' \in [Job -> Record \cup {NoRecord}]
  BY StoredType DEF TypeInv, Restart
<1>2. /\ file' \in [Job -> Record \cup {NoRecord}]
      /\ table' \in [Job -> Record \cup {NoRecord}]
  BY StoredType DEF TypeInv, TypeOK, Restart, Resaved
<1>3. 0 \in 0..Trials
  OBVIOUS
<1>4. /\ pc' \in [Thread -> Steps]
      /\ done' \in [Thread -> 0..Trials]
      /\ outcome' \in [Thread -> Outcomes]
      /\ out' \in [Thread -> Record \cup {NoRecord}]
      /\ then' \in [Thread -> {"idle", "start", "working", "answer"}]
      /\ runner' \subseteq Job
  BY <1>3 DEF Restart, Steps, Outcomes, TypeInv, TypeOK
<1> QED
  BY <1>1, <1>2, <1>4 DEF TypeInv, TypeOK, LocalsInv, Restart

LEMMA TypeStep == TypeInv /\ [Next]_vars => TypeInv'
<1> SUFFICES ASSUME TypeInv, [Next]_vars PROVE TypeInv'
  OBVIOUS
<1>1. ASSUME NEW t \in Thread, NEW j \in Job, Launch(t, j) \/ Cancel(t, j) \/ Retry(t, j)
      PROVE  TypeInv'
  BY <1>1, LaunchType, CancelType, RetryType
<1>2. ASSUME NEW t \in Thread, Step(t) PROVE TypeInv'
  BY <1>2, PersistenceType, StartType, RunTrialType, EndType, FinishType DEF Step
<1>3. CASE UNCHANGED vars
  BY <1>3 DEF vars, TypeInv, TypeOK, LocalsInv
<1> QED
  BY <1>1, <1>2, <1>3, RestartType DEF Next, Request

\* Every variable always has its type: in particular no record exceeds the limit
\* on attempts (experiments/jobs.py:234) or reports more trials than its job has.
THEOREM TypeCorrect == Spec => []TypeOK
<1>1. TypeInv => TypeOK
  BY DEF TypeInv
<1> QED
  BY <1>1, InitType, TypeStep, PTL DEF Spec

(***************************************************************************)
(* One run per job, unless the job was retried while a run of it was left. *)
(* The record of a job that is being run is otherwise never QUEUED,        *)
(* because only a retry makes it so again, and only a QUEUED job is        *)
(* started.                                                                *)
(***************************************************************************)
ExclusiveInv ==
    /\ OneRunPerJob
    /\ \A t \in Thread, j \in Job \ raced : Runs(t, j) => record[j].status # "QUEUED"
    /\ \A t \in Thread : pc[t] = "publish" => out[t].status \in Terminal

\* Nothing but the start of a QUEUED job makes a thread run one, and nothing but
\* a retry makes a record QUEUED.
LEMMA QuietExclusive ==
    ASSUME ExclusiveInv, raced \subseteq raced',
           \A u \in Thread, j \in Job : Runs(u, j)' => Runs(u, j),
           \A u \in Thread, j \in Job \ raced' :
               Runs(u, j)' /\ record'[j].status = "QUEUED" => record[j].status = "QUEUED",
           \A u \in Thread : pc'[u] = "publish" => out'[u].status \in Terminal
    PROVE  ExclusiveInv'
  BY DEF ExclusiveInv, OneRunPerJob

LEMMA InitExclusive == Init => ExclusiveInv
  BY DEF Init, ExclusiveInv, OneRunPerJob, Runs

\* A job that is run has a record.
LEMMA RunHasRecord ==
    ASSUME TypeInv, NEW t \in Thread, NEW j \in Job, Runs(t, j)
    PROVE  record[j] \in Record
  BY DEF TypeInv, TypeOK, LocalsInv, Runs

LEMMA LaunchExclusive ==
    ASSUME TypeInv, ExclusiveInv, NEW t \in Thread, NEW j \in Job, Launch(t, j)
    PROVE  ExclusiveInv'
<1>1. \A u \in Thread, i \in Job : Runs(u, i)' => Runs(u, i)
  BY DEF TypeInv, TypeOK, Launch, Save, Goto, Runs
<1>2. \A i \in Job : record[i] # NoRecord => record'[i] = record[i]
  BY DEF TypeInv, TypeOK, Launch
<1>3. \A u \in Thread, i \in Job : Runs(u, i)' => record'[i] = record[i]
  BY <1>1, <1>2, RunHasRecord
<1>4. \A u \in Thread : pc'[u] = "publish" => out'[u].status \in Terminal
  BY DEF ExclusiveInv, TypeInv, TypeOK, Launch, Save, Goto
<1>5. raced' = raced
  BY DEF Launch
<1> QED
  BY <1>1, <1>3, <1>4, <1>5, QuietExclusive

LEMMA CancelExclusive ==
    ASSUME TypeInv, ExclusiveInv, NEW t \in Thread, NEW j \in Job, Cancel(t, j)
    PROVE  ExclusiveInv'
<1>1. \A u \in Thread, i \in Job : Runs(u, i)' => Runs(u, i)
  BY DEF TypeInv, TypeOK, Cancel, Save, Goto, Runs
<1>2. record[j] \in Record
  BY DEF TypeInv, TypeOK, Cancel
<1>3. record'[j].status = "CANCELLED"
  BY <1>2 DEF TypeInv, TypeOK, Cancel, Record
<1>4. \A i \in Job \ {j} : record'[i] = record[i]
  BY DEF TypeInv, TypeOK, Cancel
<1>5. \A u \in Thread : pc'[u] = "publish" => out'[u].status \in Terminal
  BY DEF ExclusiveInv, TypeInv, TypeOK, Cancel, Save, Goto
<1>6. raced' = raced
  BY DEF Cancel
<1> QED
  BY <1>1, <1>3, <1>4, <1>5, <1>6, QuietExclusive

LEMMA RetryExclusive ==
    ASSUME TypeInv, ExclusiveInv, NEW t \in Thread, NEW j \in Job, Retry(t, j)
    PROVE  ExclusiveInv'
<1>1. \A u \in Thread, i \in Job : Runs(u, i)' => Runs(u, i)
  BY DEF TypeInv, TypeOK, Retry, Save, Goto, Runs
<1>2. raced \subseteq raced' /\ \A u \in Thread : Runs(u, j) => j \in raced'
  BY DEF Retry
<1>3. \A i \in Job \ {j} : record'[i] = record[i]
  BY DEF TypeInv, TypeOK, Retry
<1>4. \A u \in Thread : pc'[u] = "publish" => out'[u].status \in Terminal
  BY DEF ExclusiveInv, TypeInv, TypeOK, Retry, Save, Goto
<1>5. \A u \in Thread, i \in Job \ raced' : Runs(u, i)' => Runs(u, i) /\ i # j
  BY <1>1, <1>2
<1>6. \A u \in Thread, i \in Job \ raced' :
        Runs(u, i)' /\ record'[i].status = "QUEUED" => record[i].status = "QUEUED"
  BY <1>3, <1>5
<1> QED
  BY <1>1, <1>2, <1>4, <1>6, QuietExclusive

\* The steps of a thread that leave the records alone.
LEMMA OtherExclusive ==
    ASSUME TypeInv, ExclusiveInv, NEW t \in Thread,
           \/ SaveFile(t) \/ SaveTable(t) \/ SaveFails(t) \/ StartEnded(t) \/ StartRunning(t)
           \/ CheckpointRaises(t) \/ StopEarly(t) \/ Return(t) \/ Raise(t) \/ Answer(t)
    PROVE  ExclusiveInv'
<1>0. record' = record /\ raced' = raced
  BY DEF SaveFile, SaveTable, SaveFails, StartEnded, StartRunning, CheckpointRaises, StopEarly,
         Return, Raise, Answer
<1>1. CASE SaveFile(t) \/ SaveTable(t)
  <2>1. \A u \in Thread, i \in Job : Runs(u, i)' => Runs(u, i)
    BY <1>1 DEF TypeInv, TypeOK, SaveFile, SaveTable, Goto, Runs
  <2>2. \A u \in Thread : pc'[u] = "publish" => out'[u].status \in Terminal
    BY <1>1 DEF ExclusiveInv, TypeInv, TypeOK, SaveFile, SaveTable, Goto
  <2> QED
    BY <1>0, <2>1, <2>2, QuietExclusive
<1>2. CASE SaveFails(t) \/ StartEnded(t) \/ StartRunning(t) \/ Answer(t)
  <2>1. \A u \in Thread, i \in Job : Runs(u, i)' => Runs(u, i)
    <3>1. CASE SaveFails(t)
      <4>1. \A u \in Thread : job'[u] = job[u] /\ (u # t => pc'[u] = pc[u] /\ then'[u] = then[u])
        BY <3>1 DEF TypeInv, TypeOK, SaveFails, Leave, Goto
      <4>2. /\ pc[t] \in {"save file", "save table"}
            /\ then[t] = "working" => pc'[t] = "finish"
            /\ then[t] # "working" => pc'[t] = "idle"
        BY <3>1 DEF TypeInv, TypeOK, SaveFails, Leave, Goto
      <4>3. pc[t] = "save file" \/ pc[t] = "save table"
        BY <4>2
      <4>4. ASSUME NEW u \in Thread, NEW i \in Job, Runs(u, i)'
            PROVE  Runs(u, i)
        <5>1. CASE u = t
          BY <4>1, <4>2, <4>3, <4>4, <5>1 DEF Runs
        <5>2. CASE u # t
          BY <4>1, <4>4, <5>2 DEF Runs
        <5> QED
          BY <5>1, <5>2
      <4> QED
        BY <4>4
    <3>2. CASE StartEnded(t)
      BY <3>2 DEF TypeInv, TypeOK, StartEnded, Save, Goto, Runs
    <3>3. CASE StartRunning(t)
      BY <3>3 DEF TypeInv, TypeOK, StartRunning, Leave, Goto, Runs
    <3>4. CASE Answer(t)
      BY <3>4 DEF TypeInv, TypeOK, Answer, Leave, Goto, Runs
    <3> QED
      BY <1>2, <3>1, <3>2, <3>3, <3>4
  <2>2. \A u \in Thread : pc'[u] = "publish" => out'[u].status \in Terminal
    BY <1>2 DEF ExclusiveInv, TypeInv, TypeOK, SaveFails, StartEnded, StartRunning, Answer,
                Leave, Save, Goto
  <2> QED
    BY <1>0, <2>1, <2>2, QuietExclusive
<1>3. CASE CheckpointRaises(t) \/ StopEarly(t) \/ Return(t) \/ Raise(t)
  <2>1. \A u \in Thread, i \in Job : Runs(u, i)' => Runs(u, i)
    BY <1>3 DEF TypeInv, TypeOK, CheckpointRaises, StopEarly, Return, Raise, End, Goto, Runs
  <2>2. \A u \in Thread : pc'[u] = "publish" => out'[u].status \in Terminal
    BY <1>3 DEF ExclusiveInv, TypeInv, TypeOK, CheckpointRaises, StopEarly, Return, Raise, End,
                Goto
  <2> QED
    BY <1>0, <2>1, <2>2, QuietExclusive
<1> QED
  BY <1>1, <1>2, <1>3

\* A job is QUEUED when it is started, so nobody runs it.
LEMMA StartQueuedExclusive ==
    ASSUME TypeInv, ExclusiveInv, NEW t \in Thread, StartQueued(t)
    PROVE  ExclusiveInv'
<1>1. job[t] \in Job /\ record[job[t]] \in Record /\ job' = job /\ raced' = raced
  BY DEF TypeInv, TypeOK, LocalsInv, StartQueued
<1>2. job[t] \notin raced => \A u \in Thread : ~Runs(u, job[t])
  BY <1>1 DEF ExclusiveInv, StartQueued
<1>3. record'[job[t]].status = "RUNNING" /\ \A i \in Job \ {job[t]} : record'[i] = record[i]
  BY <1>1 DEF TypeInv, TypeOK, StartQueued, Record
<1>4. \A u \in Thread, i \in Job : Runs(u, i)' => Runs(u, i) \/ (u = t /\ i = job[t])
  BY <1>1 DEF TypeInv, TypeOK, StartQueued, Leave, Goto, Runs
<1>5. \A u \in Thread : pc'[u] = "publish" => out'[u].status \in Terminal
  BY DEF ExclusiveInv, TypeInv, TypeOK, StartQueued, Leave, Goto
<1> QED
  BY <1>1, <1>2, <1>3, <1>4, <1>5 DEF ExclusiveInv, OneRunPerJob

LEMMA RunTrialExclusive ==
    ASSUME TypeInv, ExclusiveInv, NEW t \in Thread, RunTrial(t)
    PROVE  ExclusiveInv'
<1>1. job[t] \in Job /\ record[job[t]] \in Record
  BY DEF TypeInv, TypeOK, LocalsInv, RunTrial
<1>2. \A u \in Thread, i \in Job : Runs(u, i)' => Runs(u, i)
  BY DEF TypeInv, TypeOK, RunTrial, Save, Goto, Runs
<1>3. \A i \in Job : record'[i].status = record[i].status
  BY <1>1 DEF TypeInv, TypeOK, RunTrial, Record
<1>4. \A u \in Thread : pc'[u] = "publish" => out'[u].status \in Terminal
  BY DEF ExclusiveInv, TypeInv, TypeOK, RunTrial, Save, Goto
<1>5. raced' = raced
  BY DEF RunTrial
<1> QED
  BY <1>2, <1>3, <1>4, <1>5, QuietExclusive

LEMMA FinishExclusive ==
    ASSUME TypeInv, ExclusiveInv, NEW t \in Thread, Finish(t) \/ Publish(t)
    PROVE  ExclusiveInv'
<1>1. CASE Finish(t)
  <2>1. record[job[t]] \in Record
    BY <1>1 DEF TypeInv, TypeOK, LocalsInv, Finish
  <2>2. Finished(outcome[t], record[job[t]], done[t]).status \in Terminal
    BY <2>1 DEF Finished, Terminal, Record
  <2>3. \A u \in Thread, i \in Job : Runs(u, i)' => Runs(u, i)
    BY <1>1 DEF TypeInv, TypeOK, Finish, Goto, Runs
  <2>4. \A u \in Thread : pc'[u] = "publish" => out'[u].status \in Terminal
    BY <1>1, <2>2 DEF ExclusiveInv, TypeInv, TypeOK, Finish, Goto
  <2> QED
    BY <1>1, <2>3, <2>4, QuietExclusive DEF Finish
<1>2. CASE Publish(t)
  <2>1. job[t] \in Job /\ out[t].status # "QUEUED"
    BY <1>2 DEF ExclusiveInv, TypeInv, TypeOK, Publish, Terminal
  <2>2. \A u \in Thread, i \in Job : Runs(u, i)' => Runs(u, i)
    BY <1>2 DEF TypeInv, TypeOK, Publish, Save, Goto, Runs
  <2>3. record'[job[t]] = out[t] /\ \A i \in Job \ {job[t]} : record'[i] = record[i]
    BY <1>2, <2>1 DEF TypeInv, TypeOK, Publish
  <2>4. \A u \in Thread : pc'[u] = "publish" => out'[u].status \in Terminal
    BY <1>2 DEF ExclusiveInv, TypeInv, TypeOK, Publish, Save, Goto
  <2> QED
    BY <1>2, <2>1, <2>2, <2>3, <2>4, QuietExclusive DEF Publish
<1> QED
  BY <1>1, <1>2

LEMMA RestartExclusive == ASSUME Restart PROVE ExclusiveInv'
  BY DEF Restart, ExclusiveInv, OneRunPerJob, Runs

LEMMA ExclusiveStep ==
    ASSUME TypeInv, ExclusiveInv, [Next]_vars PROVE ExclusiveInv'
<1>1. ASSUME NEW t \in Thread, NEW j \in Job, Launch(t, j) \/ Cancel(t, j) \/ Retry(t, j)
      PROVE  ExclusiveInv'
  BY <1>1, LaunchExclusive, CancelExclusive, RetryExclusive
<1>2. ASSUME NEW t \in Thread, Step(t) PROVE ExclusiveInv'
  BY <1>2, OtherExclusive, StartQueuedExclusive, RunTrialExclusive, FinishExclusive DEF Step
<1>3. CASE UNCHANGED vars
  BY <1>3, QuietExclusive DEF vars, ExclusiveInv, Runs
<1> QED
  BY <1>1, <1>2, <1>3, RestartExclusive DEF Next, Request

\* A job is run by one thread at a time (experiments/jobs.py:152), except one that
\* was retried while a run of it was left, whatever else threads, clients, stores
\* and restarts do.
THEOREM OneRunUnlessRaced == Spec => []OneRunPerJob
<1>1. TypeInv /\ ExclusiveInv /\ [Next]_vars => (TypeInv /\ ExclusiveInv)'
  BY TypeStep, ExclusiveStep
<1>2. ExclusiveInv => OneRunPerJob
  BY DEF ExclusiveInv
<1> QED
  BY <1>1, <1>2, InitType, InitExclusive, PTL DEF Spec

(***************************************************************************)
(* Completed jobs report all of their trials.  A runner that returns has   *)
(* run them all or has seen a cancellation, and a cancellation lasts until *)
(* the run has ended, unless the job is retried in between.                *)
(***************************************************************************)
Complete(r) == r # NoRecord /\ r.status = "COMPLETED" => r.result = Trials

CompleteInv ==
    /\ \A j \in Job \ raced : Complete(record[j]) /\ Complete(file[j]) /\ Complete(table[j])
    /\ \A t \in Thread : job[t] \notin raced => Complete(out[t])
    /\ \A t \in Thread : job[t] \notin raced /\ pc[t] = "finish" /\ outcome[t] = "returned" =>
                           done[t] = Trials \/ IsCancelled(job[t])

LEMMA InitComplete == Init => CompleteInv
  BY DEF Init, CompleteInv, Complete

\* A request, or another step that begins to save a record it has written.
LEMMA SavingComplete ==
    ASSUME TypeInv, CompleteInv, NEW t \in Thread, NEW j \in Job, NEW r \in Record,
           raced \subseteq raced',
           j \notin raced' => Complete(r),
           record' = [record EXCEPT ![j] = r],
           UNCHANGED <<file, table>>,
           out' = [out EXCEPT ![t] = r],
           pc'[t] # "finish", job'[t] = j,
           \A u \in Thread \ {t} : /\ pc'[u] = pc[u] /\ outcome'[u] = outcome[u]
                                   /\ done'[u] = done[u] /\ job'[u] = job[u],
           j \notin raced' => \A u \in Thread \ {t} :
               pc[u] = "finish" /\ job[u] = j /\ IsCancelled(j) => r.cancel \/ r.status = "CANCELLED"
    PROVE  CompleteInv'
<1>1. /\ record'[j] = r
      /\ \A i \in Job \ {j} : record'[i] = record[i]
      /\ out'[t] = r
      /\ \A u \in Thread \ {t} : out'[u] = out[u]
  BY DEF TypeInv, TypeOK
<1>2. \A i \in Job \ raced' : Complete(record[i])' /\ Complete(file[i])' /\ Complete(table[i])'
  BY <1>1 DEF CompleteInv, Complete
<1>3. \A u \in Thread : job'[u] \notin raced' => Complete(out[u])'
  BY <1>1 DEF CompleteInv, Complete
<1>4. ASSUME NEW u \in Thread, job'[u] \notin raced', pc'[u] = "finish", outcome'[u] = "returned"
      PROVE  done'[u] = Trials \/ IsCancelled(job[u])'
  <2>1. /\ u # t /\ pc[u] = "finish" /\ outcome[u] = "returned" /\ job'[u] = job[u]
        /\ job[u] \notin raced
    BY <1>4
  <2>2. job[u] \in Job
    BY DEF TypeInv, TypeOK
  <2>3. CASE done[u] = Trials
    BY <2>1, <2>3
  <2>4. CASE IsCancelled(job[u]) /\ job[u] = j
    BY <1>1, <1>4, <2>1, <2>4 DEF IsCancelled
  <2>5. CASE IsCancelled(job[u]) /\ job[u] # j
    BY <1>1, <2>1, <2>2, <2>5 DEF IsCancelled
  <2> QED
    BY <2>1, <2>3, <2>4, <2>5 DEF CompleteInv
<1> QED
  BY <1>2, <1>3, <1>4 DEF CompleteInv

LEMMA LaunchComplete ==
    ASSUME TypeInv, CompleteInv, NEW t \in Thread, NEW j \in Job, Launch(t, j)
    PROVE  CompleteInv'
<1> DEFINE r == IF record[j] = NoRecord THEN NewRecord ELSE record[j]
<1>1. r \in Record
  BY NewRecordType DEF TypeInv, TypeOK
<1>2. j \notin raced => Complete(r)
  BY DEF CompleteInv, Complete, NewRecord
<1>3. record' = [record EXCEPT ![j] = r] /\ out' = [out EXCEPT ![t] = r]
  BY DEF TypeInv, TypeOK, Launch, Save
<1>4. /\ UNCHANGED <<file, table>>
      /\ pc'[t] # "finish" /\ job'[t] = j /\ raced' = raced
      /\ \A u \in Thread \ {t} : /\ pc'[u] = pc[u] /\ outcome'[u] = outcome[u]
                                  /\ done'[u] = done[u] /\ job'[u] = job[u]
  BY DEF TypeInv, TypeOK, Launch, Save, Goto
<1>5. \A u \in Thread \ {t} :
         pc[u] = "finish" /\ job[u] = j /\ IsCancelled(j) => r.cancel \/ r.status = "CANCELLED"
  BY DEF TypeInv, LocalsInv, IsCancelled
<1> QED
  BY <1>1, <1>2, <1>3, <1>4, <1>5, SavingComplete

LEMMA CancelComplete ==
    ASSUME TypeInv, CompleteInv, NEW t \in Thread, NEW j \in Job, Cancel(t, j)
    PROVE  CompleteInv'
<1> DEFINE r == [record[j] EXCEPT !.status = "CANCELLED", !.cancel = TRUE]
<1>1. record[j] \in Record
  BY DEF TypeInv, TypeOK, Cancel
<1>2. r \in Record /\ r.status = "CANCELLED"
  BY <1>1 DEF Record, Status
<1>3. record' = [record EXCEPT ![j] = r] /\ out' = [out EXCEPT ![t] = r]
  BY DEF TypeInv, TypeOK, Cancel, Save
<1>4. /\ UNCHANGED <<file, table>>
      /\ pc'[t] # "finish" /\ job'[t] = j /\ raced' = raced
      /\ \A u \in Thread \ {t} : /\ pc'[u] = pc[u] /\ outcome'[u] = outcome[u]
                                  /\ done'[u] = done[u] /\ job'[u] = job[u]
  BY DEF TypeInv, TypeOK, Cancel, Save, Goto
<1>5. Complete(r)
  BY <1>2 DEF Complete
<1> QED
  BY <1>2, <1>3, <1>4, <1>5, SavingComplete

LEMMA RetryComplete ==
    ASSUME TypeInv, CompleteInv, NEW t \in Thread, NEW j \in Job, Retry(t, j)
    PROVE  CompleteInv'
<1> DEFINE r == [record[j] EXCEPT !.status = "QUEUED", !.result = NoResult,
                                  !.attempt = record[j].attempt + 1, !.cancel = FALSE]
<1>1. record[j] \in Record
  BY DEF TypeInv, TypeOK, Retry
<1>2. record[j].attempt + 1 \in 1..MaxAttempts
  BY <1>1 DEF Retry, Record
<1>3. r \in Record /\ r.status = "QUEUED"
  BY <1>1, <1>2 DEF Record, Status
<1>4. record' = [record EXCEPT ![j] = r] /\ out' = [out EXCEPT ![t] = r]
  BY DEF TypeInv, TypeOK, Retry, Save
<1>5. /\ UNCHANGED <<file, table>>
      /\ pc'[t] # "finish" /\ job'[t] = j /\ raced \subseteq raced'
      /\ \A u \in Thread \ {t} : /\ pc'[u] = pc[u] /\ outcome'[u] = outcome[u]
                                  /\ done'[u] = done[u] /\ job'[u] = job[u]
  BY DEF TypeInv, TypeOK, Retry, Save, Goto
<1>6. j \notin raced' => \A u \in Thread : ~(pc[u] = "finish" /\ job[u] = j)
  BY DEF Retry, Runs
<1>7. Complete(r)
  BY <1>3 DEF Complete
<1>8. j \notin raced' => \A u \in Thread \ {t} :
         pc[u] = "finish" /\ job[u] = j /\ IsCancelled(j) => r.cancel \/ r.status = "CANCELLED"
  BY <1>6
<1> HIDE DEF r
<1> QED
  BY <1>3, <1>4, <1>5, <1>7, <1>8, SavingComplete

\* A step of a thread that changes no record but the stored ones, which it takes
\* from what it had to save.
LEMMA OtherComplete ==
    ASSUME TypeInv, CompleteInv, NEW t \in Thread,
           \/ SaveFile(t) \/ SaveTable(t) \/ SaveFails(t) \/ StartEnded(t) \/ StartRunning(t)
           \/ CheckpointRaises(t) \/ StopEarly(t) \/ Return(t) \/ Raise(t) \/ Answer(t)
    PROVE  CompleteInv'
<1>0. job[t] \in Job /\ record' = record /\ job' = job /\ raced' = raced
  BY DEF TypeInv, TypeOK, SaveFile, SaveTable, SaveFails, StartEnded, StartRunning,
         CheckpointRaises, StopEarly, Return, Raise, Answer
<1>1. \A i \in Job : IsCancelled(i)' <=> IsCancelled(i)
  BY <1>0 DEF IsCancelled
<1>2. \A u \in Thread : job'[u] = job[u] /\ job[u] \in Job
  BY <1>0 DEF TypeInv, TypeOK
<1>3. CASE SaveFile(t) \/ SaveTable(t)
  <2>1. \A i \in Job : /\ file'[i] = file[i] \/ (i = job[t] /\ file'[i] = out[t])
                       /\ table'[i] = table[i] \/ (i = job[t] /\ table'[i] = out[t])
    BY <1>0, <1>3 DEF TypeInv, TypeOK, SaveFile, SaveTable
  <2>2. UNCHANGED <<done, outcome, out>>
    BY <1>3 DEF SaveFile, SaveTable
  <2>3. \A i \in Job \ raced : Complete(record[i])' /\ Complete(file[i])' /\ Complete(table[i])'
    <3>1. \A i \in Job \ raced : Complete(record[i]) /\ Complete(file[i]) /\ Complete(table[i])
      BY DEF CompleteInv
    <3>2. job[t] \notin raced => Complete(out[t])
      BY DEF CompleteInv
    <3> QED
      BY <1>0, <2>1, <3>1, <3>2 DEF Complete
  <2>4. then[t] # "finish"
    BY DEF TypeInv, TypeOK
  <2>5. \A u \in Thread : pc'[u] = "finish" => pc[u] = "finish"
    BY <1>3, <2>4 DEF TypeInv, TypeOK, SaveFile, SaveTable, Goto
  <2> QED
    BY <1>0, <1>1, <1>2, <2>2, <2>3, <2>5 DEF CompleteInv, Complete
<1>4. CASE SaveFails(t) \/ StartRunning(t) \/ Answer(t)
  <2>1. UNCHANGED <<file, table>>
    BY <1>4 DEF SaveFails, StartRunning, Answer, store
  <2>2. \A u \in Thread : out'[u] = out[u] \/ out'[u] = NoRecord
    BY <1>4 DEF TypeInv, TypeOK, SaveFails, StartRunning, Answer, Leave
  <2>3. \A u \in Thread : job[u] \notin raced => Complete(out[u])'
    BY <2>2 DEF CompleteInv, Complete
  <2>4. ASSUME NEW u \in Thread, pc'[u] = "finish", outcome'[u] = "returned"
        PROVE  pc[u] = "finish" /\ outcome[u] = "returned" /\ done'[u] = done[u]
    <3>1. CASE SaveFails(t)
      BY <2>4, <3>1 DEF TypeInv, TypeOK, SaveFails, Leave, Goto
    <3>2. CASE StartRunning(t) \/ Answer(t)
      <4>1. Leave(t)
        BY <3>2 DEF StartRunning, Answer
      <4> QED
        BY <2>4, <4>1 DEF TypeInv, TypeOK, Leave, Goto
    <3> QED
      BY <1>4, <3>1, <3>2
  <2> QED
    BY <1>0, <1>1, <1>2, <2>1, <2>3, <2>4 DEF CompleteInv, Complete
<1>5. CASE StartEnded(t)
  BY <1>0, <1>1, <1>2, <1>5 DEF CompleteInv, Complete, TypeInv, TypeOK, StartEnded, Save, Goto
<1>6. CASE CheckpointRaises(t) \/ StopEarly(t) \/ Return(t) \/ Raise(t)
  BY <1>0, <1>1, <1>2, <1>6 DEF CompleteInv, Complete, TypeInv, TypeOK, CheckpointRaises,
                                StopEarly, Return, Raise, End, Goto
<1> QED
  BY <1>3, <1>4, <1>5, <1>6

LEMMA StartQueuedComplete ==
    ASSUME TypeInv, ExclusiveInv, CompleteInv, NEW t \in Thread, StartQueued(t)
    PROVE  CompleteInv'
<1>1. job[t] \in Job /\ record[job[t]] \in Record /\ job' = job /\ raced' = raced
  BY DEF TypeInv, TypeOK, LocalsInv, StartQueued
<1>2. record'[job[t]].status = "RUNNING" /\ \A i \in Job \ {job[t]} : record'[i] = record[i]
  BY <1>1 DEF TypeInv, TypeOK, StartQueued, Record
<1>3. \A i \in Job \ raced : Complete(record[i])' /\ Complete(file[i])' /\ Complete(table[i])'
  BY <1>1, <1>2 DEF CompleteInv, Complete, StartQueued
<1>4. \A u \in Thread : job[u] \notin raced => Complete(out[u])'
  BY DEF CompleteInv, Complete, TypeInv, TypeOK, StartQueued, Leave
<1>5. ASSUME NEW u \in Thread, job[u] \notin raced, pc'[u] = "finish", outcome'[u] = "returned"
      PROVE  done'[u] = Trials \/ IsCancelled(job[u])'
  <2>1. u # t /\ pc[u] = "finish" /\ outcome[u] = "returned" /\ done'[u] = done[u]
    BY <1>5 DEF TypeInv, TypeOK, StartQueued, Leave, Goto
  <2>2. job[u] \in Job /\ job[u] # job[t]
    BY <1>1, <1>5, <2>1 DEF ExclusiveInv, Runs, TypeInv, TypeOK, StartQueued
  <2> QED
    BY <1>1, <1>2, <1>5, <2>1, <2>2 DEF CompleteInv, IsCancelled
<1> QED
  BY <1>1, <1>3, <1>4, <1>5 DEF CompleteInv

LEMMA RunTrialComplete ==
    ASSUME TypeInv, CompleteInv, NEW t \in Thread, RunTrial(t)
    PROVE  CompleteInv'
<1> DEFINE r == [record[job[t]] EXCEPT !.checkpoint = done[t] + 1]
<1>0. job[t] \in Job /\ record[job[t]] \in Record
  BY DEF TypeInv, TypeOK, LocalsInv, RunTrial
<1>1. done[t] + 1 \in 0..Trials
  BY DEF TypeInv, TypeOK, RunTrial
<1>2. /\ r \in Record /\ r.status = "RUNNING" /\ r.cancel = record[job[t]].cancel
      /\ r.status = record[job[t]].status
  BY <1>0, <1>1 DEF RunTrial, Record
<1>3. record' = [record EXCEPT ![job[t]] = r] /\ out' = [out EXCEPT ![t] = r]
  BY <1>0 DEF TypeInv, TypeOK, RunTrial, Save
<1>4. /\ UNCHANGED <<file, table>>
      /\ pc'[t] # "finish" /\ job'[t] = job[t] /\ raced' = raced
      /\ \A u \in Thread \ {t} : /\ pc'[u] = pc[u] /\ outcome'[u] = outcome[u]
                                  /\ done'[u] = done[u] /\ job'[u] = job[u]
  BY DEF TypeInv, TypeOK, RunTrial, Save, Goto
<1>5. IsCancelled(job[t]) => r.cancel \/ r.status = "CANCELLED"
  BY <1>2 DEF IsCancelled
<1>6. Complete(r)
  BY <1>2 DEF Complete
<1> QED
  BY <1>0, <1>2, <1>3, <1>4, <1>5, <1>6, SavingComplete

\* What a run ends with is complete if its runner returned after the last trial
\* or the job is cancelled.
LEMMA FinishedComplete ==
    ASSUME NEW how, NEW current \in Record, NEW trials \in 0..Trials,
           how = "returned" => \/ trials = Trials
                               \/ current.cancel \/ current.status = "CANCELLED"
    PROVE  Complete(Finished(how, current, trials))
  BY DEF Complete, Finished, Record

LEMMA FinishComplete ==
    ASSUME TypeInv, CompleteInv, NEW t \in Thread, Finish(t)
    PROVE  CompleteInv'
<1>1. job[t] \in Job /\ record[job[t]] \in Record /\ job' = job /\ record' = record
      /\ raced' = raced
  BY DEF TypeInv, TypeOK, LocalsInv, Finish
<1>2. done[t] \in 0..Trials
  BY DEF TypeInv, TypeOK
<1>3. job[t] \notin raced => Complete(Finished(outcome[t], record[job[t]], done[t]))
  BY <1>1, <1>2, FinishedComplete DEF CompleteInv, IsCancelled, Finish
<1>4. \A u \in Thread : job[u] \notin raced => Complete(out[u])'
  BY <1>3 DEF CompleteInv, Complete, TypeInv, TypeOK, Finish
<1>5. \A u \in Thread : pc'[u] = "finish" => pc[u] = "finish"
  BY DEF TypeInv, TypeOK, Finish, Goto
<1>6. UNCHANGED <<file, table, outcome, done>>
  BY DEF Finish, store
<1>7. \A i \in Job \ raced : Complete(record[i])' /\ Complete(file[i])' /\ Complete(table[i])'
  BY <1>1, <1>6 DEF CompleteInv, Complete
<1> QED
  BY <1>1, <1>4, <1>5, <1>6, <1>7 DEF CompleteInv, IsCancelled

LEMMA PublishComplete ==
    ASSUME TypeInv, ExclusiveInv, CompleteInv, NEW t \in Thread, Publish(t)
    PROVE  CompleteInv'
<1>1. job[t] \in Job /\ out[t] \in Record
  BY DEF TypeInv, TypeOK, LocalsInv, Publish
<1>2. out' = [out EXCEPT ![t] = out[t]] /\ record' = [record EXCEPT ![job[t]] = out[t]]
  BY DEF TypeInv, TypeOK, Publish, Save
<1>3. /\ UNCHANGED <<file, table>>
      /\ pc'[t] # "finish" /\ job'[t] = job[t] /\ raced' = raced
      /\ \A u \in Thread \ {t} : /\ pc'[u] = pc[u] /\ outcome'[u] = outcome[u]
                                  /\ done'[u] = done[u] /\ job'[u] = job[u]
  BY DEF TypeInv, TypeOK, Publish, Save, Goto
<1>4. job[t] \notin raced => \A u \in Thread \ {t} : ~(pc[u] = "finish" /\ job[u] = job[t])
  BY <1>1 DEF ExclusiveInv, OneRunPerJob, Runs, Publish
<1>5. job[t] \notin raced => Complete(out[t])
  BY DEF CompleteInv
<1> DEFINE j == job[t]
           r == out[t]
<1>6. j \notin raced => \A u \in Thread \ {t} :
         pc[u] = "finish" /\ job[u] = j /\ IsCancelled(j) => r.cancel \/ r.status = "CANCELLED"
  BY <1>4
<1>7. /\ j \in Job /\ r \in Record /\ (j \notin raced => Complete(r)) /\ job'[t] = j
      /\ out' = [out EXCEPT ![t] = r] /\ record' = [record EXCEPT ![j] = r]
  BY <1>1, <1>2, <1>3, <1>5
<1> HIDE DEF j, r
<1> QED
  BY <1>3, <1>6, <1>7, SavingComplete

LEMMA RestartComplete == ASSUME TypeInv, CompleteInv, Restart PROVE CompleteInv'
<1>1. ASSUME NEW j \in Job \ raced PROVE Complete(Stored(j)) /\ Complete(Restored(Stored(j)))
  <2>1. Stored(j) \in Record \cup {NoRecord} /\ Complete(Stored(j))
    BY StoredType DEF TypeInv, CompleteInv, Stored
  <2> QED
    BY <2>1 DEF Complete, Restored, Record
<1>2. \A j \in Job \ raced : Complete(record[j])' /\ Complete(file[j])' /\ Complete(table[j])'
  BY <1>1 DEF CompleteInv, Complete, Restart, Resaved
<1>3. \A t \in Thread : Complete(out[t])' /\ pc'[t] = "idle"
  BY DEF Complete, Restart
<1> QED
  BY <1>2, <1>3 DEF CompleteInv, Restart

LEMMA CompleteStep ==
    ASSUME TypeInv, ExclusiveInv, CompleteInv, [Next]_vars PROVE CompleteInv'
<1>1. ASSUME NEW t \in Thread, NEW j \in Job, Launch(t, j) \/ Cancel(t, j) \/ Retry(t, j)
      PROVE  CompleteInv'
  BY <1>1, LaunchComplete, CancelComplete, RetryComplete
<1>2. ASSUME NEW t \in Thread, Step(t) PROVE CompleteInv'
  BY <1>2, OtherComplete, StartQueuedComplete, RunTrialComplete, FinishComplete,
     PublishComplete DEF Step
<1>3. CASE UNCHANGED vars
  BY <1>3 DEF vars, CompleteInv, Complete, IsCancelled
<1> QED
  BY <1>1, <1>2, <1>3, RestartComplete DEF Next, Request

\* The partial report of a cancelled run is never taken for the result of its job
\* (experiments/jobs.py:170-171), before or after restarts, except of a job that
\* was retried while that run was left.
THEOREM ResultsAreComplete == Spec => []CompletedIsComplete
<1> DEFINE IInv == TypeInv /\ ExclusiveInv /\ CompleteInv
<1>1. IInv /\ [Next]_vars => IInv'
  BY TypeStep, ExclusiveStep, CompleteStep
<1>2. Init => IInv
  BY InitType, InitExclusive, InitComplete
<1>3. IInv => CompletedIsComplete
  BY DEF CompleteInv, Complete, CompletedIsComplete
<1> HIDE DEF IInv
<1> QED
  BY <1>1, <1>2, <1>3, PTL DEF Spec

(***************************************************************************)
(* RUNNING records are served.  Only the start of a run makes a record     *)
(* RUNNING, every run ends by publishing another status, and a job whose   *)
(* scenario is known never lacks a runner.                                 *)
(***************************************************************************)
ServedInv ==
    /\ \A j \in known : record[j] # NoRecord => j \in runner
    /\ RunningIsServed

LEMMA InitServed == Init => ServedInv
  BY DEF Init, ServedInv, RunningIsServed

\* A run goes on, or its job is RUNNING no longer, and what is made RUNNING is run.
LEMMA QuietServed ==
    ASSUME TypeOK, ServedInv, known' = known, runner \subseteq runner',
           \A j \in Job : record'[j] # NoRecord => record[j] # NoRecord \/ j \in runner',
           \A j \in known : record'[j] # NoRecord /\ record'[j].status = "RUNNING" =>
               \/ record[j] # NoRecord /\ record[j].status = "RUNNING"
               \/ \E t \in Thread : Runs(t, j)',
           \A t \in Thread, j \in Job :
               Runs(t, j) => Runs(t, j)' \/ record'[j].status # "RUNNING"
    PROVE  ServedInv'
<1>1. \A j \in known : j \in Job
  BY DEF TypeOK
<1>2. \A j \in known' : record'[j] # NoRecord => j \in runner'
  BY <1>1 DEF ServedInv
<1>3. RunningIsServed'
  BY <1>1 DEF ServedInv, RunningIsServed
<1> QED
  BY <1>2, <1>3 DEF ServedInv

LEMMA RequestServed ==
    ASSUME TypeInv, ServedInv, NEW t \in Thread, NEW j \in Job,
           Launch(t, j) \/ Cancel(t, j) \/ Retry(t, j)
    PROVE  ServedInv'
<1>1. /\ pc[t] = "idle" /\ pc' = [pc EXCEPT ![t] = "save file"]
      /\ job' = [job EXCEPT ![t] = j]
      /\ \E next \in {"start", "answer"} : then' = [then EXCEPT ![t] = next]
      /\ known' = known /\ runner \subseteq runner'
  BY DEF Launch, Cancel, Retry, Save, Goto
<1>2. \A u \in Thread, i \in Job : Runs(u, i) => Runs(u, i)'
  BY <1>1 DEF Runs, TypeInv, TypeOK
<1>3. /\ \A i \in Job \ {j} : record'[i] = record[i]
      /\ \/ record'[j].status # "RUNNING"
         \/ record[j] # NoRecord /\ record'[j] = record[j]
      /\ record[j] # NoRecord \/ j \in runner'
  <2>1. CASE Launch(t, j)
    BY <2>1 DEF Launch, NewRecord, TypeInv, TypeOK
  <2>2. CASE Cancel(t, j)
    <3>1. record[j] \in Record /\ record[j] # NoRecord
      BY <2>2 DEF Cancel, TypeInv, TypeOK
    <3> QED
      BY <2>2, <3>1 DEF Cancel, Record, TypeInv, TypeOK
  <2>3. CASE Retry(t, j)
    <3>1. record[j] \in Record /\ record[j] # NoRecord
      BY <2>3 DEF Retry, TypeInv, TypeOK
    <3> QED
      BY <2>3, <3>1 DEF Retry, Record, TypeInv, TypeOK
  <2> QED
    BY <2>1, <2>2, <2>3
<1>4. \A i \in Job : record'[i] # NoRecord => record[i] # NoRecord \/ i \in runner'
  BY <1>3
<1>5. \A i \in known : record'[i] # NoRecord /\ record'[i].status = "RUNNING" =>
                            record[i] # NoRecord /\ record[i].status = "RUNNING"
  BY <1>3 DEF TypeInv, TypeOK
<1> QED
  BY <1>1, <1>2, <1>4, <1>5, QuietServed DEF TypeInv

\* The steps of a thread that leave the records alone.
LEMMA OtherServed ==
    ASSUME TypeInv, ServedInv, NEW t \in Thread,
           \/ SaveFile(t) \/ SaveTable(t) \/ SaveFails(t) \/ StartEnded(t) \/ StartRunning(t)
           \/ CheckpointRaises(t) \/ StopEarly(t) \/ Return(t) \/ Raise(t) \/ Finish(t)
           \/ Answer(t)
    PROVE  ServedInv'
<1>1. /\ record' = record /\ runner' = runner /\ known' = known /\ job' = job
  BY DEF SaveFile, SaveTable, SaveFails, StartEnded, StartRunning, CheckpointRaises, StopEarly,
         Return, Raise, Finish, Answer
<1>2. ASSUME NEW u \in Thread, NEW i \in Job, Runs(u, i) PROVE Runs(u, i)'
  <2>1. CASE SaveFile(t) \/ SaveTable(t)
    <3>1. /\ pc[t] \in {"save file", "save table"} /\ pc'[t] \in {"save table", then[t]}
          /\ then' = then /\ \A v \in Thread \ {t} : pc'[v] = pc[v]
      BY <2>1 DEF SaveFile, SaveTable, Goto, TypeInv, TypeOK
    <3>2. CASE u = t
      BY <1>1, <1>2, <3>1, <3>2 DEF Runs
    <3>3. CASE u # t
      BY <1>1, <1>2, <3>1, <3>3 DEF Runs
    <3> QED
      BY <3>2, <3>3
  <2>2. CASE SaveFails(t)
    <3>1. CASE then[t] = "working"
      BY <1>1, <1>2, <2>2, <3>1 DEF SaveFails, Goto, Runs, TypeInv, TypeOK
    <3>2. CASE then[t] # "working"
      BY <1>1, <1>2, <2>2, <3>2 DEF SaveFails, Leave, Goto, Runs, TypeInv, TypeOK
    <3> QED
      BY <3>1, <3>2
  <2>3. CASE StartEnded(t) \/ StartRunning(t) \/ Answer(t)
    <3>1. pc[t] \in {"start", "answer"} /\ (\E step \in Steps : Goto(t, step))
      BY <2>3 DEF StartEnded, StartRunning, Answer, Save, Leave, Steps
    <3>2. u # t
      BY <1>2, <3>1 DEF Runs
    <3>3. pc'[u] = pc[u] /\ then'[u] = then[u]
      BY <2>3, <3>1, <3>2 DEF StartEnded, StartRunning, Answer, Save, Leave, Goto, TypeInv, TypeOK
    <3> QED
      BY <1>1, <1>2, <3>3 DEF Runs
  <2>4. CASE CheckpointRaises(t) \/ StopEarly(t) \/ Return(t) \/ Raise(t) \/ Finish(t)
    BY <1>2, <2>4 DEF CheckpointRaises, StopEarly, Return, Raise, Finish, End, Goto, Runs,
                      TypeInv, TypeOK
  <2> QED
    BY <2>1, <2>2, <2>3, <2>4
<1> QED
  BY <1>1, <1>2, QuietServed DEF TypeInv

\* The steps that write a record.
LEMMA WriteServed ==
    ASSUME TypeInv, ExclusiveInv, ServedInv, NEW t \in Thread,
           StartQueued(t) \/ RunTrial(t) \/ Publish(t)
    PROVE  ServedInv'
<1>1. /\ job[t] \in Job /\ record[job[t]] # NoRecord /\ record[job[t]] \in Record
      /\ runner' = runner /\ known' = known /\ job' = job
      /\ \A i \in Job \ {job[t]} : record'[i] = record[i]
  BY DEF StartQueued, RunTrial, Publish, TypeInv, TypeOK, LocalsInv
<1>2. CASE StartQueued(t)
  <2>1. \A u \in Thread, i \in Job : Runs(u, i) => Runs(u, i)'
    BY <1>1, <1>2 DEF StartQueued, Leave, Goto, Runs, TypeInv, TypeOK
  <2>2. job[t] \in known => Runs(t, job[t])'
    BY <1>1, <1>2 DEF StartQueued, Goto, Runs, ServedInv, TypeInv, TypeOK
  <2>3. \A i \in known : record'[i] # NoRecord /\ record'[i].status = "RUNNING" =>
            \/ record[i] # NoRecord /\ record[i].status = "RUNNING"
            \/ \E u \in Thread : Runs(u, i)'
    BY <1>1, <2>2 DEF TypeInv, TypeOK
  <2>4. \A i \in Job : record'[i] # NoRecord => record[i] # NoRecord
    BY <1>1
  <2> QED
    BY <1>1, <2>1, <2>3, <2>4, QuietServed DEF TypeInv
<1>3. CASE RunTrial(t)
  <2>1. \A u \in Thread, i \in Job : Runs(u, i) => Runs(u, i)'
    BY <1>1, <1>3 DEF RunTrial, Save, Goto, Runs, TypeInv, TypeOK
  <2>2. record[job[t]].status = "RUNNING"
    BY <1>3 DEF RunTrial
  <2>3. \A i \in known : record'[i] # NoRecord /\ record'[i].status = "RUNNING" =>
            record[i] # NoRecord /\ record[i].status = "RUNNING"
    BY <1>1, <2>2 DEF TypeInv, TypeOK
  <2>4. \A i \in Job : record'[i] # NoRecord => record[i] # NoRecord
    BY <1>1
  <2> QED
    BY <1>1, <2>1, <2>3, <2>4, QuietServed DEF TypeInv
<1>4. CASE Publish(t)
  <2>1. record'[job[t]] = out[t] /\ out[t].status # "RUNNING"
    BY <1>1, <1>4 DEF Publish, ExclusiveInv, Terminal, TypeInv, TypeOK
  <2>2. \A u \in Thread, i \in Job : Runs(u, i) => Runs(u, i)' \/ i = job[t]
    BY <1>1, <1>4 DEF Publish, Save, Goto, Runs, TypeInv, TypeOK
  <2>3. \A i \in known : record'[i] # NoRecord /\ record'[i].status = "RUNNING" =>
            record[i] # NoRecord /\ record[i].status = "RUNNING"
    BY <1>1, <2>1 DEF TypeInv, TypeOK
  <2>4. \A i \in Job : record'[i] # NoRecord => record[i] # NoRecord
    BY <1>1
  <2>5. \A u \in Thread, i \in Job : Runs(u, i) => Runs(u, i)' \/ record'[i].status # "RUNNING"
    BY <2>1, <2>2
  <2> QED
    BY <1>1, <2>3, <2>4, <2>5, QuietServed DEF TypeInv
<1> QED
  BY <1>2, <1>3, <1>4

\* What is restored is not RUNNING, and has a runner if its scenario is known.
LEMMA RestartServed == ASSUME TypeInv, Restart PROVE ServedInv'
<1>1. /\ record' = [j \in Job |-> Restored(Stored(j))]
      /\ runner' = {j \in known : Stored(j) # NoRecord}
      /\ known' = known /\ known \subseteq Job
  BY DEF Restart, TypeInv, TypeOK
<1>2. \A j \in Job : /\ Restored(Stored(j)) # NoRecord => Stored(j) # NoRecord
                     /\ Restored(Stored(j)).status # "RUNNING" \/ Stored(j) = NoRecord
  BY StoredType DEF TypeInv, Restored, Record, Status
<1> QED
  BY <1>1, <1>2 DEF ServedInv, RunningIsServed

LEMMA ServedStep ==
    ASSUME TypeInv, ExclusiveInv, ServedInv, [Next]_vars PROVE ServedInv'
<1>1. ASSUME NEW t \in Thread, NEW j \in Job, Launch(t, j) \/ Cancel(t, j) \/ Retry(t, j)
      PROVE  ServedInv'
  BY <1>1, RequestServed
<1>2. ASSUME NEW t \in Thread, Step(t) PROVE ServedInv'
  BY <1>2, OtherServed, WriteServed DEF Step
<1>3. CASE UNCHANGED vars
  BY <1>3, QuietServed DEF vars, Runs, TypeInv
<1> QED
  BY <1>1, <1>2, <1>3, RestartServed DEF Next, Request

\* A job whose scenario is known is RUNNING only while a thread runs it: no path
\* through JobManager.run (experiments/jobs.py:147-189) leaves its record RUNNING
\* behind, whatever requests overlap and whatever saves fail.
THEOREM RunningIsAlwaysServed == Spec => []RunningIsServed
<1> DEFINE IInv == TypeInv /\ ExclusiveInv /\ ServedInv
<1>1. IInv /\ [Next]_vars => IInv'
  BY TypeStep, ExclusiveStep, ServedStep
<1>2. Init => IInv
  BY InitType, InitExclusive, InitServed
<1>3. IInv => RunningIsServed
  BY DEF ServedInv
<1> HIDE DEF IInv
<1> QED
  BY <1>1, <1>2, <1>3, PTL DEF Spec

(***************************************************************************)
(* Requests for one job that never overlap.  Records are saved after the   *)
(* manager's lock is released, so what is stored of a job follows its      *)
(* record only while its requests are served one at a time; the requests   *)
(* for other jobs may overlap them.  Then what a thread has to save is the *)
(* record there is, and between requests the job is stored as it is,       *)
(* unless a save was given up.                                             *)
(***************************************************************************)
Saving == {"save file", "save table"}

Completed(r) == r # NoRecord /\ r.status = "COMPLETED"

\* What a thread knows of its job.
Carries(t) ==
    /\ pc[t] \in Saving => out[t] = record[job[t]] /\ then[t] # "idle"
    /\ pc[t] \in {"start", "answer"} => Stored(job[t]) = record[job[t]]
    /\ pc[t] = "answer" => out[t] = record[job[t]]
    /\ Runs(t, job[t]) => record[job[t]].status = "RUNNING"

\* One thread serves the requests for j.
ServedAlone(j) == \A t, u \in Thread : Serves(t, j) /\ Serves(u, j) => t = u

OrderlyInv ==
    /\ \A j \in Job : table[j] # NoRecord => Database
    /\ \A t \in Thread : pc[t] = "save table" => Database
    /\ \A j \in Job \ crossed : ServedAlone(j)
    /\ StoredIsCurrent
    /\ \A j \in answered \ crossed : Completed(record[j]) /\ Completed(Stored(j))
    /\ \A t \in Thread : job[t] \notin crossed => Carries(t)

LEMMA InitOrderly == Init => OrderlyInv
  BY DEF Init, OrderlyInv, ServedAlone, StoredIsCurrent, Serves, Stored, Carries, Runs, Saving

\* Every thread but t is where it was, with what it had.
OthersStay(t) ==
    \A u \in Thread \ {t} :
        pc'[u] = pc[u] /\ job'[u] = job[u] /\ out'[u] = out[u] /\ then'[u] = then[u]

LEMMA RequestStays ==
    ASSUME TypeInv, NEW t \in Thread, NEW j \in Job, Launch(t, j) \/ Cancel(t, j) \/ Retry(t, j)
    PROVE  OthersStay(t)
  BY DEF OthersStay, Launch, Cancel, Retry, Save, Goto, TypeInv, TypeOK

LEMMA StepStays == ASSUME TypeInv, NEW t \in Thread, Step(t) PROVE OthersStay(t)
<1>1. CASE SaveFile(t) \/ SaveTable(t) \/ SaveFails(t)
  BY <1>1 DEF OthersStay, SaveFile, SaveTable, SaveFails, Leave, Goto, TypeInv, TypeOK
<1>2. CASE StartEnded(t) \/ StartRunning(t) \/ StartQueued(t) \/ Answer(t)
  BY <1>2 DEF OthersStay, StartEnded, StartRunning, StartQueued, Answer, Save, Leave, Goto,
              TypeInv, TypeOK
<1>3. CASE RunTrial(t) \/ CheckpointRaises(t) \/ StopEarly(t) \/ Return(t) \/ Raise(t)
  BY <1>3 DEF OthersStay, RunTrial, CheckpointRaises, StopEarly, Return, Raise, Save, End, Goto,
              TypeInv, TypeOK
<1>4. CASE Finish(t) \/ Publish(t)
  BY <1>4 DEF OthersStay, Finish, Publish, Save, Goto, TypeInv, TypeOK
<1> QED
  BY <1>1, <1>2, <1>3, <1>4 DEF Step

\* A step of t about job j.  A request that is let in while another one for j is
\* served makes j a crossed job, of which nothing is claimed.
LEMMA OrderlyAlone ==
    ASSUME TypeInv, OrderlyInv, NEW t \in Thread, NEW j \in Job, OthersStay(t),
           pc[t] # "idle" => job[t] = j,
           job'[t] = j,
           crossed \subseteq crossed', unsaved \subseteq unsaved',
           pc[t] = "idle" => \A u \in Thread : Serves(u, j) => j \in crossed',
           \A i \in Job \ {j} : /\ record'[i] = record[i]
                                /\ file'[i] = file[i] /\ table'[i] = table[i],
           table'[j] # NoRecord \/ pc'[t] = "save table" => Database,
           answered' \subseteq answered \cup {j},
           j \notin crossed' =>
               /\ pc'[t] = "idle" /\ j \notin unsaved' => Stored(j)' = record'[j]
               /\ j \in answered' => Completed(record[j])' /\ Completed(Stored(j))'
               /\ Carries(t)'
    PROVE  OrderlyInv'
<1>1. \A i \in Job : table'[i] # NoRecord => Database
  BY DEF OrderlyInv
<1>d. \A u \in Thread : pc'[u] = "save table" => Database
  BY DEF OrderlyInv, OthersStay
<1>2. ASSUME NEW i \in Job, NEW u \in Thread \ {t}, Serves(u, i)' PROVE Serves(u, i)
  BY <1>2 DEF Serves, OthersStay
<1>3. \A i \in Job : i # j => Stored(i)' = Stored(i) /\ ~Serves(t, i) /\ ~Serves(t, i)'
  BY DEF Stored, Serves
<1>4. ASSUME NEW u \in Thread \ {t}, Serves(u, j), j \notin crossed' PROVE FALSE
  <2>1. pc[t] # "idle" /\ Serves(t, j)
    BY <1>4 DEF Serves
  <2> QED
    BY <1>4, <2>1 DEF OrderlyInv, ServedAlone
<1>5. ASSUME NEW i \in Job, i \notin crossed' PROVE ServedAlone(i)'
  <2>1. CASE i = j
    BY <1>2, <1>4, <1>5, <2>1 DEF ServedAlone
  <2>2. CASE i # j
    BY <1>2, <1>3, <1>5, <2>2 DEF OrderlyInv, ServedAlone
  <2> QED
    BY <2>1, <2>2
<1>6. ASSUME NEW i \in Job, i \notin crossed', i \notin unsaved',
             \A u \in Thread : ~Serves(u, i)'
      PROVE  Stored(i)' = record'[i]
  <2>1. CASE i = j
    <3>1. pc'[t] = "idle"
      BY <1>6, <2>1 DEF Serves
    <3> QED
      BY <1>6, <2>1, <3>1
  <2>2. CASE i # j
    <3>1. \A u \in Thread : ~Serves(u, i)
      BY <1>3, <1>6, <2>2 DEF Serves, OthersStay
    <3> QED
      BY <1>3, <1>6, <2>2, <3>1 DEF OrderlyInv, StoredIsCurrent
  <2> QED
    BY <2>1, <2>2
<1>7. ASSUME NEW i \in answered', i \notin crossed'
      PROVE  Completed(record[i])' /\ Completed(Stored(i))'
  <2>1. CASE i = j
    BY <1>7, <2>1
  <2>2. CASE i # j
    <3>1. i \in answered /\ i \in Job
      BY <1>7, <2>2 DEF TypeInv, TypeOK
    <3>2. Completed(record[i]) /\ Completed(Stored(i))
      BY <1>7, <3>1 DEF OrderlyInv
    <3>3. record'[i] = record[i] /\ Stored(i)' = Stored(i)
      BY <1>3, <2>2, <3>1
    <3> QED
      BY <3>2, <3>3 DEF Completed
  <2> QED
    BY <2>1, <2>2
<1>8. ASSUME NEW u \in Thread, job'[u] \notin crossed' PROVE Carries(u)'
  <2>1. CASE u = t
    BY <1>8, <2>1
  <2>2. CASE u # t /\ pc[u] = "idle"
    BY <2>2 DEF OthersStay, Carries, Runs, Saving
  <2>3. CASE u # t /\ pc[u] # "idle"
    <3>1. job[u] \in Job /\ job'[u] = job[u] /\ Carries(u)
      BY <1>8, <2>3 DEF OthersStay, OrderlyInv, TypeInv, TypeOK
    <3>2. job[u] # j
      BY <1>4, <1>8, <2>3, <3>1 DEF Serves
    <3>3. record'[job[u]] = record[job[u]] /\ Stored(job[u])' = Stored(job[u])
      BY <1>3, <3>1, <3>2
    <3>4. Runs(u, job[u])' <=> Runs(u, job[u])
      BY <2>3, <3>1 DEF OthersStay, Runs
    <3>5. pc'[u] = pc[u] /\ out'[u] = out[u] /\ then'[u] = then[u]
      BY <2>3 DEF OthersStay
    <3> QED
      BY <3>1, <3>3, <3>4, <3>5 DEF Carries
  <2> QED
    BY <2>1, <2>2, <2>3
<1>9. StoredIsCurrent'
  BY <1>6 DEF StoredIsCurrent
<1> QED
  BY <1>1, <1>d, <1>5, <1>7, <1>8, <1>9 DEF OrderlyInv

\* A request that begins to save a record.
LEMMA RequestOrderly ==
    ASSUME TypeInv, OrderlyInv, NEW t \in Thread, NEW j \in Job, OthersStay(t),
           pc[t] = "idle", pc'[t] = "save file",
           job' = [job EXCEPT ![t] = j],
           NEW r \in Record,
           record[j] # NoRecord /\ record[j].status = "COMPLETED" => r = record[j],
           record' = [record EXCEPT ![j] = r],
           out' = [out EXCEPT ![t] = r],
           NEW next \in {"start", "answer"}, then' = [then EXCEPT ![t] = next],
           Cross(j),
           UNCHANGED <<file, table, answered, unsaved>>
    PROVE  OrderlyInv'
<1>1. /\ record'[j] = r /\ \A i \in Job \ {j} : record'[i] = record[i]
      /\ job'[t] = j /\ out'[t] = r /\ then'[t] = next
  BY DEF TypeInv, TypeOK
<1>2. Carries(t)'
  BY <1>1 DEF Carries, Runs, Saving
<1>3. crossed \subseteq crossed' /\ \A u \in Thread : Serves(u, j) => j \in crossed'
  BY DEF Cross
<1>4. ASSUME j \in answered', j \notin crossed'
      PROVE  Completed(record[j])' /\ Completed(Stored(j))'
  <2>1. Completed(record[j]) /\ Completed(Stored(j))
    BY <1>3, <1>4 DEF OrderlyInv
  <2>2. Stored(j)' = Stored(j) /\ record'[j] = record[j]
    BY <1>1, <2>1 DEF Stored, Completed
  <2> QED
    BY <2>1, <2>2 DEF Completed
<1>5. table'[j] # NoRecord => Database
  BY DEF OrderlyInv
<1> QED
  BY <1>1, <1>2, <1>3, <1>4, <1>5, OrderlyAlone

LEMMA LaunchOrderly ==
    ASSUME TypeInv, OrderlyInv, NEW t \in Thread, NEW j \in Job, Launch(t, j)
    PROVE  OrderlyInv'
<1> DEFINE r == IF record[j] = NoRecord THEN NewRecord ELSE record[j]
<1>1. r \in Record
  BY NewRecordType DEF TypeInv, TypeOK
<1>2. /\ record' = [record EXCEPT ![j] = r] /\ out' = [out EXCEPT ![t] = r]
      /\ job' = [job EXCEPT ![t] = j] /\ then' = [then EXCEPT ![t] = "start"]
      /\ pc[t] = "idle" /\ pc'[t] = "save file" /\ Cross(j)
      /\ UNCHANGED <<file, table, answered, unsaved>>
  BY DEF Launch, Save, Goto, TypeInv, TypeOK
<1>3. record[j] # NoRecord => r = record[j]
  OBVIOUS
<1> HIDE DEF r
<1> QED
  BY <1>1, <1>2, <1>3, RequestStays, RequestOrderly

LEMMA CancelOrderly ==
    ASSUME TypeInv, OrderlyInv, NEW t \in Thread, NEW j \in Job, Cancel(t, j)
    PROVE  OrderlyInv'
<1> DEFINE r == [record[j] EXCEPT !.status = "CANCELLED", !.cancel = TRUE]
<1>1. record[j] \in Record /\ record[j].status # "COMPLETED"
  BY DEF TypeInv, TypeOK, Cancel
<1>2. r \in Record
  BY <1>1 DEF Record, Status
<1>3. /\ record' = [record EXCEPT ![j] = r] /\ out' = [out EXCEPT ![t] = r]
      /\ job' = [job EXCEPT ![t] = j] /\ then' = [then EXCEPT ![t] = "answer"]
      /\ pc[t] = "idle" /\ pc'[t] = "save file" /\ Cross(j)
      /\ UNCHANGED <<file, table, answered, unsaved>>
  BY DEF Cancel, Save, Goto, TypeInv, TypeOK
<1> HIDE DEF r
<1> QED
  BY <1>1, <1>2, <1>3, RequestStays, RequestOrderly

LEMMA RetryOrderly ==
    ASSUME TypeInv, OrderlyInv, NEW t \in Thread, NEW j \in Job, Retry(t, j)
    PROVE  OrderlyInv'
<1> DEFINE r == [record[j] EXCEPT !.status = "QUEUED", !.result = NoResult,
                                  !.attempt = record[j].attempt + 1, !.cancel = FALSE]
<1>1. /\ record[j] \in Record /\ record[j].status # "COMPLETED"
      /\ record[j].attempt + 1 \in 1..MaxAttempts
  BY DEF TypeInv, TypeOK, Retry, Record
<1>2. r \in Record
  BY <1>1 DEF Record, Status
<1>3. /\ record' = [record EXCEPT ![j] = r] /\ out' = [out EXCEPT ![t] = r]
      /\ job' = [job EXCEPT ![t] = j] /\ then' = [then EXCEPT ![t] = "start"]
      /\ pc[t] = "idle" /\ pc'[t] = "save file" /\ Cross(j)
      /\ UNCHANGED <<file, table, answered, unsaved>>
  BY DEF Retry, Save, Goto, TypeInv, TypeOK
<1> HIDE DEF r
<1> QED
  BY <1>1, <1>2, <1>3, RequestStays, RequestOrderly

\* What a thread may rely on that serves a request for a job that was not crossed.
LEMMA OwnJob ==
    ASSUME TypeInv, OrderlyInv, NEW t \in Thread, pc[t] # "idle"
    PROVE  /\ job[t] \in Job /\ record[job[t]] \in Record /\ record[job[t]] # NoRecord
           /\ table[job[t]] # NoRecord => Database
           /\ job[t] \notin crossed =>
                /\ Carries(t)
                /\ job[t] \in answered => /\ record[job[t]].status = "COMPLETED"
                                          /\ Completed(Stored(job[t]))
  BY DEF OrderlyInv, Completed, TypeInv, TypeOK, LocalsInv

LEMMA SaveFileOrderly ==
    ASSUME TypeInv, OrderlyInv, NEW t \in Thread, SaveFile(t)
    PROVE  OrderlyInv'
<1> PICK j \in Job : job[t] = j
  BY DEF TypeInv, TypeOK
<1>0. pc[t] = "save file" /\ then[t] \in {"idle", "start", "working", "answer"}
  BY DEF SaveFile, TypeInv, TypeOK
<1>1. /\ pc'[t] = IF Database THEN "save table" ELSE then[t]
      /\ file'[j] = out[t] /\ \A i \in Job \ {j} : file'[i] = file[i]
      /\ UNCHANGED <<record, table, job, out, then, answered, crossed, unsaved>>
  BY DEF SaveFile, Goto, TypeInv, TypeOK
<1>2. /\ record[j] # NoRecord
      /\ table[j] # NoRecord => Database
  BY <1>0, OwnJob
<1>3. ASSUME j \notin crossed'
      PROVE  /\ pc'[t] # "idle"
             /\ j \in answered' => Completed(record[j])' /\ Completed(Stored(j))'
             /\ Carries(t)'
  <2>1. /\ out[t] = record[j] /\ then[t] # "idle"
        /\ Runs(t, j) => record[j].status = "RUNNING"
        /\ j \in answered => record[j].status = "COMPLETED" /\ Completed(Stored(j))
    BY <1>0, <1>1, <1>3, OwnJob DEF Carries, Saving
  <2>2. Runs(t, j)' <=> Runs(t, j)
    BY <1>0, <1>1, <2>1 DEF Runs
  <2>3. Stored(j)' = IF table[j] # NoRecord THEN table[j] ELSE record[j]
    BY <1>1, <2>1 DEF Stored
  <2>4. ~Database => Stored(j)' = record[j]
    BY <1>2, <2>3
  <2>5. Carries(t)'
    BY <1>0, <1>1, <2>1, <2>2, <2>4 DEF Carries, Saving
  <2>6. j \in answered => Completed(Stored(j))'
    BY <1>2, <2>1, <2>3 DEF Completed, Stored
  <2> QED
    BY <1>0, <1>1, <1>2, <2>1, <2>5, <2>6 DEF Completed
<1> QED
  BY <1>0, <1>1, <1>2, <1>3, StepStays, OrderlyAlone DEF Step

LEMMA SaveTableOrderly ==
    ASSUME TypeInv, OrderlyInv, NEW t \in Thread, SaveTable(t)
    PROVE  OrderlyInv'
<1> PICK j \in Job : job[t] = j
  BY DEF TypeInv, TypeOK
<1>0. pc[t] = "save table" /\ then[t] \in {"idle", "start", "working", "answer"}
  BY DEF SaveTable, TypeInv, TypeOK
<1>1. /\ pc'[t] = then[t]
      /\ table'[j] = out[t] /\ \A i \in Job \ {j} : table'[i] = table[i]
      /\ UNCHANGED <<record, file, job, out, then, answered, crossed, unsaved>>
  BY DEF SaveTable, Goto, TypeInv, TypeOK
<1>2. record[j] # NoRecord
  BY <1>0, OwnJob
<1>3. ASSUME j \notin crossed'
      PROVE  /\ pc'[t] # "idle"
             /\ j \in answered' => Completed(record[j])' /\ Completed(Stored(j))'
             /\ Carries(t)'
  <2>1. /\ out[t] = record[j] /\ then[t] # "idle"
        /\ Runs(t, j) => record[j].status = "RUNNING"
        /\ j \in answered => record[j].status = "COMPLETED"
    BY <1>0, <1>1, <1>3, OwnJob DEF Carries, Saving
  <2>2. Runs(t, j)' <=> Runs(t, j)
    BY <1>0, <1>1, <2>1 DEF Runs
  <2>3. Stored(j)' = record[j]
    BY <1>1, <1>2, <2>1 DEF Stored
  <2>4. Carries(t)'
    BY <1>0, <1>1, <2>1, <2>2, <2>3 DEF Carries, Saving
  <2> QED
    BY <1>0, <1>1, <1>2, <2>1, <2>3, <2>4 DEF Completed
<1>4. Database
  BY <1>0 DEF OrderlyInv
<1> QED
  BY <1>0, <1>1, <1>3, <1>4, StepStays, OrderlyAlone DEF Step

\* A save that fails leaves its job unsaved; inside a run the run goes on to its end.
LEMMA SaveFailsOrderly ==
    ASSUME TypeInv, OrderlyInv, NEW t \in Thread, SaveFails(t)
    PROVE  OrderlyInv'
<1> PICK j \in Job : job[t] = j
  BY DEF TypeInv, TypeOK
<1>1. /\ pc[t] \in Saving
      /\ unsaved' = unsaved \cup {j}
      /\ UNCHANGED <<record, file, table, job, answered, crossed>>
  BY DEF SaveFails, Saving
<1>2. pc'[t] = IF then[t] = "working" THEN "finish" ELSE "idle"
  BY DEF SaveFails, Leave, Goto, TypeInv, TypeOK
<1>3. ASSUME j \notin crossed'
      PROVE  /\ j \in answered' => Completed(record[j])' /\ Completed(Stored(j))'
             /\ Carries(t)'
  <2>1. Carries(t) /\ (j \in answered => Completed(record[j]) /\ Completed(Stored(j)))
    BY <1>1, <1>3 DEF OrderlyInv
  <2>2. Runs(t, j)' => Runs(t, j)
    BY <1>1, <1>2 DEF Runs, Saving
  <2>3. Carries(t)'
    BY <1>1, <1>2, <2>1, <2>2 DEF Carries, Saving
  <2> QED
    BY <1>1, <2>1, <2>3 DEF Completed, Stored
<1>4. pc[t] # "idle" /\ j \in unsaved' /\ unsaved \subseteq unsaved'
  BY <1>1 DEF Saving
<1>5. table'[j] # NoRecord \/ pc'[t] = "save table" => Database
  BY <1>1, <1>2 DEF OrderlyInv
<1> QED
  BY <1>1, <1>3, <1>4, <1>5, StepStays, OrderlyAlone DEF Step

\* A start that finds no runner leaves its job unsaved.
LEMMA StartOrderly ==
    ASSUME TypeInv, OrderlyInv, NEW t \in Thread,
           StartEnded(t) \/ StartRunning(t) \/ StartQueued(t)
    PROVE  OrderlyInv'
<1> PICK j \in Job : job[t] = j
  BY DEF TypeInv, TypeOK
<1>1. /\ pc[t] = "start" /\ ~Runs(t, j)
      /\ UNCHANGED <<file, table, job, answered, crossed>>
  BY DEF StartEnded, StartRunning, StartQueued, Runs
<1>2. /\ record[j] \in Record /\ record[j] # NoRecord
      /\ table[j] # NoRecord => Database
      /\ j \notin crossed =>
           /\ Stored(j) = record[j]
           /\ j \in answered => record[j].status = "COMPLETED" /\ Completed(Stored(j))
  BY <1>1, OwnJob DEF Carries
<1>3. CASE StartEnded(t)
  <2>1. /\ pc'[t] = "save file" /\ out'[t] = record[j] /\ then'[t] = "answer"
        /\ UNCHANGED <<record, unsaved>>
    BY <1>3 DEF StartEnded, Save, Goto, TypeInv, TypeOK
  <2>2. Carries(t)'
    BY <1>1, <2>1 DEF Carries, Runs, Saving
  <2>3. j \notin crossed' /\ j \in answered' => Completed(record[j])' /\ Completed(Stored(j))'
    BY <1>1, <1>2, <2>1 DEF Completed, Stored
  <2> QED
    BY <1>1, <1>2, <1>3, <2>1, <2>2, <2>3, StepStays, OrderlyAlone DEF Step
<1>4. CASE StartRunning(t)
  <2>1. pc'[t] = "idle" /\ UNCHANGED <<record, unsaved>>
    BY <1>4 DEF StartRunning, Leave, Goto, TypeInv, TypeOK
  <2>2. Carries(t)'
    BY <2>1 DEF Carries, Runs, Saving
  <2>3. j \notin crossed' => Stored(j)' = record'[j]
    BY <1>1, <1>2, <2>1 DEF Stored
  <2>4. j \notin crossed' => j \notin answered'
    BY <1>1, <1>2, <1>4 DEF StartRunning
  <2> QED
    BY <1>1, <1>2, <1>4, <2>1, <2>2, <2>3, <2>4, StepStays, OrderlyAlone DEF Step
<1>5. CASE StartQueued(t)
  <2>1. /\ record[j].status = "QUEUED" /\ record'[j].status = "RUNNING"
        /\ \A i \in Job \ {j} : record'[i] = record[i]
        /\ \/ pc'[t] = "working" /\ unsaved' = unsaved
           \/ pc'[t] = "idle" /\ unsaved' = unsaved \cup {j}
    BY <1>2, <1>5 DEF StartQueued, Leave, Goto, TypeInv, TypeOK, Record
  <2>2. Carries(t)'
    BY <1>1, <2>1 DEF Carries, Runs, Saving
  <2>3. j \notin crossed' => j \notin answered'
    BY <1>1, <1>2, <2>1
  <2> QED
    BY <1>1, <1>2, <1>5, <2>1, <2>2, <2>3, StepStays, OrderlyAlone DEF Step
<1> QED
  BY <1>3, <1>4, <1>5

LEMMA RunOrderly ==
    ASSUME TypeInv, OrderlyInv, NEW t \in Thread,
           \/ RunTrial(t) \/ CheckpointRaises(t) \/ StopEarly(t) \/ Return(t) \/ Raise(t)
           \/ Finish(t) \/ Publish(t)
    PROVE  OrderlyInv'
<1> PICK j \in Job : job[t] = j
  BY DEF TypeInv, TypeOK
<1>1. /\ pc[t] \in {"working", "finish", "publish"} /\ Runs(t, j)
      /\ UNCHANGED <<file, table, job, answered, crossed, unsaved>>
  BY DEF RunTrial, CheckpointRaises, StopEarly, Return, Raise, Finish, Publish, Runs
<1>2. /\ record[j] \in Record
      /\ table[j] # NoRecord => Database
      /\ j \notin crossed => record[j].status = "RUNNING" /\ j \notin answered
  BY <1>1, OwnJob DEF Carries
<1>3. CASE RunTrial(t)
  <2>0. done[t] + 1 \in 0..Trials
    BY <1>3 DEF TypeInv, TypeOK, RunTrial
  <2>1. /\ pc'[t] = "save file" /\ out'[t] = record'[j] /\ then'[t] = "working"
        /\ record'[j] = [record[j] EXCEPT !.checkpoint = done[t] + 1]
        /\ \A i \in Job \ {j} : record'[i] = record[i]
    BY <1>3 DEF RunTrial, Save, Goto, TypeInv, TypeOK
  <2>2. record'[j].status = record[j].status
    BY <1>2, <2>0, <2>1 DEF Record
  <2>3. j \notin crossed' => Carries(t)'
    BY <1>1, <1>2, <2>1, <2>2 DEF Carries, Runs, Saving
  <2> QED
    BY <1>1, <1>2, <1>3, <2>1, <2>3, StepStays, OrderlyAlone DEF Step
<1>4. CASE CheckpointRaises(t) \/ StopEarly(t) \/ Return(t) \/ Raise(t) \/ Finish(t)
  <2>1. pc'[t] \in {"finish", "publish"} /\ record' = record
    BY <1>4 DEF CheckpointRaises, StopEarly, Return, Raise, Finish, End, Goto, TypeInv, TypeOK
  <2>2. j \notin crossed' => Carries(t)'
    BY <1>1, <1>2, <2>1 DEF Carries, Runs, Saving
  <2> QED
    BY <1>1, <1>2, <1>4, <2>1, <2>2, StepStays, OrderlyAlone DEF Step
<1>5. CASE Publish(t)
  <2>1. /\ pc'[t] = "save file" /\ out'[t] = out[t] /\ then'[t] = "answer"
        /\ record'[j] = out[t] /\ \A i \in Job \ {j} : record'[i] = record[i]
    BY <1>5 DEF Publish, Save, Goto, TypeInv, TypeOK
  <2>2. Carries(t)'
    BY <1>1, <2>1 DEF Carries, Runs, Saving
  <2> QED
    BY <1>1, <1>2, <1>5, <2>1, <2>2, StepStays, OrderlyAlone DEF Step
<1> QED
  BY <1>3, <1>4, <1>5

\* What is answered is stored.
LEMMA AnswerOrderly ==
    ASSUME TypeInv, OrderlyInv, NEW t \in Thread, Answer(t)
    PROVE  OrderlyInv'
<1> PICK j \in Job : job[t] = j
  BY DEF TypeInv, TypeOK
<1>1. /\ pc[t] = "answer" /\ pc'[t] = "idle"
      /\ answered' = answered \cup {i \in {j} : out[t].status = "COMPLETED"}
      /\ UNCHANGED <<record, file, table, job, crossed, unsaved>>
  BY DEF Answer, Leave, Goto, TypeInv, TypeOK
<1>2. /\ record[j] # NoRecord
      /\ table[j] # NoRecord => Database
      /\ j \notin crossed =>
           /\ Stored(j) = record[j] /\ out[t] = record[j]
           /\ j \in answered => record[j].status = "COMPLETED"
  BY <1>1, OwnJob DEF Carries
<1>3. Carries(t)'
  BY <1>1 DEF Carries, Runs, Saving
<1>4. Stored(j)' = Stored(j)
  BY <1>1 DEF Stored
<1>5. j \notin crossed' /\ j \in answered' => Completed(record[j])' /\ Completed(Stored(j))'
  BY <1>1, <1>2, <1>4 DEF Completed
<1> QED
  BY <1>1, <1>2, <1>3, <1>4, <1>5, StepStays, OrderlyAlone DEF Step

\* What is restored is stored again, so nothing is left unsaved.
LEMMA RestartOrderly == ASSUME TypeInv, OrderlyInv, Restart PROVE OrderlyInv'
<1>1. /\ record' = [j \in Job |-> Restored(Stored(j))]
      /\ file' = Resaved(file, TRUE) /\ table' = Resaved(table, Database)
      /\ \A t \in Thread : pc'[t] = "idle"
      /\ answered' = answered /\ crossed' = crossed
  BY DEF Restart
<1>2. \A j \in Job : /\ Restored(Stored(j)) # NoRecord <=> Stored(j) # NoRecord
                     /\ Completed(Stored(j)) => Restored(Stored(j)) = Stored(j)
  BY StoredType DEF TypeInv, Restored, Completed, Record, Status
<1>5. \A j \in Job : table[j] # NoRecord => Database
  BY DEF OrderlyInv
<1>6. \A j \in Job : table'[j] # NoRecord => Database
  BY <1>1, <1>5 DEF Resaved
<1>7. ASSUME NEW j \in Job PROVE Stored(j)' = record'[j]
  <2>1. CASE Restored(Stored(j)) = Stored(j)
    <3>1. file'[j] = file[j] /\ table'[j] = table[j]
      BY <1>1, <2>1 DEF Resaved
    <3> QED
      BY <1>1, <2>1, <3>1 DEF Stored
  <2>2. CASE Restored(Stored(j)) # Stored(j)
    <3>1. /\ file'[j] = Restored(Stored(j))
          /\ table'[j] = IF Database THEN Restored(Stored(j)) ELSE table[j]
      BY <1>1, <2>2 DEF Resaved
    <3> QED
      BY <1>1, <1>2, <1>5, <3>1 DEF Stored
  <2> QED
    BY <2>1, <2>2
<1>8. ASSUME NEW j \in answered', j \notin crossed'
      PROVE  Completed(record[j])' /\ Completed(Stored(j))'
  <2>1. j \in Job /\ Completed(Stored(j))
    BY <1>1, <1>8 DEF OrderlyInv, TypeInv, TypeOK
  <2> QED
    BY <1>1, <1>2, <1>7, <2>1 DEF Completed
<1>9. \A t \in Thread : Carries(t)'
  BY <1>1 DEF Carries, Runs, Saving
<1>10. /\ \A j \in Job : ServedAlone(j)'
       /\ \A t \in Thread : pc'[t] = "save table" => Database
  BY <1>1 DEF ServedAlone, Serves
<1>11. StoredIsCurrent'
  BY <1>7 DEF StoredIsCurrent
<1> QED
  BY <1>6, <1>8, <1>9, <1>10, <1>11 DEF OrderlyInv

LEMMA OrderlyStep == ASSUME TypeInv, OrderlyInv, [Next]_vars PROVE OrderlyInv'
<1>1. CASE UNCHANGED vars
  <2>1. \A j \in Job : Stored(j)' = Stored(j)
    BY <1>1 DEF vars, Stored
  <2>2. \A t \in Thread, j \in Job : Serves(t, j)' <=> Serves(t, j)
    BY <1>1 DEF vars, Serves
  <2>3. ASSUME NEW t \in Thread, job'[t] \notin crossed' PROVE Carries(t)'
    <3>1. Carries(t) /\ job[t] \in Job
      BY <1>1, <2>3 DEF vars, OrderlyInv, TypeInv, TypeOK
    <3> QED
      BY <1>1, <2>1, <3>1 DEF vars, Carries, Runs
  <2>4. answered \subseteq Job
    BY DEF TypeInv, TypeOK
  <2>5. \A j \in Job \ crossed : ServedAlone(j)'
    BY <2>2 DEF OrderlyInv, ServedAlone
  <2>6. StoredIsCurrent'
    BY <1>1, <2>1, <2>2 DEF vars, OrderlyInv, StoredIsCurrent
  <2> QED
    BY <1>1, <2>1, <2>3, <2>4, <2>5, <2>6 DEF vars, OrderlyInv, Completed
<1>2. ASSUME NEW t \in Thread, NEW j \in Job, Launch(t, j) \/ Cancel(t, j) \/ Retry(t, j)
      PROVE  OrderlyInv'
  BY <1>2, LaunchOrderly, CancelOrderly, RetryOrderly
<1>3. ASSUME NEW t \in Thread, Step(t) PROVE OrderlyInv'
  BY <1>3, SaveFileOrderly, SaveTableOrderly, SaveFailsOrderly, StartOrderly, RunOrderly,
     AnswerOrderly DEF Step
<1> QED
  BY <1>1, <1>2, <1>3, RestartOrderly DEF Next, Request

LEMMA OrderlyInvariance == Spec => []OrderlyInv
<1>1. TypeInv /\ OrderlyInv /\ [Next]_vars => OrderlyInv'
  BY OrderlyStep
<1> QED
  BY <1>1, InitType, InitOrderly, TypeStep, PTL DEF Spec

\* A restart between the requests for a job would bring it back exactly as it is,
\* from a file, a row or both (persist_job, kernel/api/app.py, and the restoration),
\* unless requests for it overlapped, or a failed save or a missing runner has left
\* it unsaved.  The requests for other jobs may overlap and fail as they like.
THEOREM RestartsLoseNothing == Spec => []StoredIsCurrent
<1>1. OrderlyInv => StoredIsCurrent
  BY DEF OrderlyInv
<1> QED
  BY <1>1, OrderlyInvariance, PTL

\* A completion that was answered stands, whatever is launched, cancelled, retried
\* or restarted later and whatever saves fail (docs/TESTING.md:123), for every job
\* whose requests never overlapped.
THEOREM CompletionsStand == Spec => []AnsweredStands
<1>1. OrderlyInv => AnsweredStands
  BY DEF OrderlyInv, AnsweredStands, Completed
<1> QED
  BY <1>1, OrderlyInvariance, PTL
==============================================================================
