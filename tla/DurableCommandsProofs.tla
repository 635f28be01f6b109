------------------------ MODULE DurableCommandsProofs ------------------------
(***************************************************************************)
(* Proofs about DurableCommands, for any number of threads, keys, commands *)
(* and projections, with failures and restarts at any step: its types, its *)
(* safety invariants and that it implements CommandLedger.  The argument   *)
(* is the branch row lock: whoever is about to write still holds it, and   *)
(* what it read is therefore still so (TransactionsAreSerial).  Everything *)
(* else about the ledger follows from that, and what the caches may hold   *)
(* from the ledger only ever growing.  What they do hold follows from      *)
(* nobody else being in an unlocked section (the last part).               *)
(***************************************************************************)
EXTENDS DurableCommands, TLAPS

\* The steps at which a thread holds a receipt, and those inside a transaction.
WithReceipt == {"load", "assign", "look up event", "record", "respond"}
InTransaction == {"look up receipt", "commit"}

\* What a thread's locals hold at each step.
LocalsInv ==
    \A t \in Thread :
      /\ pc[t] \in {"find basis", "set basis", "lock branch"} \cup InTransaction
             => req[t] \in Request
      /\ pc[t] \in InTransaction => t \in lock
      /\ pc[t] = "save snapshot" => manifest[t] \in Manifest
      /\ pc[t] \in {"commit", "assign"} => loaded[t] \in Image
      /\ pc[t] \in WithReceipt => /\ receipt[t] \in Receipt
                                  /\ receipt[t].record \in Rows(log)
      /\ pc[t] = "respond" => receipt[t].record.key \in known

USE DEF db, caches, locals

(***************************************************************************)
(* Type correctness.                                                       *)
(***************************************************************************)
TypeInv == TypeOK /\ LocalsInv

USE HandlerAssumption, RaisesAssumption, ApplyAssumption, InitAssumption,
    SpawnsAssumption, NoEntityAssumption, StoreAssumption, MaxSnapshotsAssumption

LEMMA InitType == ASSUME Init PROVE TypeInv
<1>1. disturbed \in BOOLEAN /\ everDisturbed \in BOOLEAN
  BY Zenon DEF Init
<1>2. /\ log \in Seq(Record) /\ history \in Seq(Record)
      /\ proj \in Image /\ mem \in Image
  BY DEF Init, Image
<1>3. TypeOK
  BY <1>1, <1>2 DEF Init, TypeOK, Steps
<1>4. LocalsInv
  BY DEF Init, LocalsInv, WithReceipt, InTransaction
<1> QED
  BY <1>3, <1>4 DEF TypeInv

\* A new row of the ledger has the type of a row.
LEMMA NewRecordType ==
    ASSUME NEW r \in Request, NEW image \in Image,
           Handler[r.op][image.state] # Raises
    PROVE  NewRecord(r, image) \in Record
<1>1. r.op \in Op /\ r.key \in Key /\ image.state \in Projection
  BY DEF Request, Image
<1>2. Handler[r.op][image.state] \in Delta
  BY <1>1
<1>3. Apply[Handler[r.op][image.state]][image.state] \in Projection
  BY <1>1
<1>4. NewRecord(r, image) =
        [key |-> r.key, op |-> r.op, delta |-> Handler[r.op][image.state],
         after |-> Apply[Handler[r.op][image.state]][image.state]]
  BY DEF NewRecord
<1> DEFINE d == Handler[r.op][image.state]
           s == Apply[d][image.state]
<1>5. d \in Delta /\ s \in Projection
  BY <1>2, <1>3
<1> HIDE DEF d, s
<1>6. [key |-> r.key, op |-> r.op, delta |-> d, after |-> s] \in Record
  BY <1>1, <1>5 DEF Record
<1> QED
  BY <1>4, <1>6 DEF d, s

LEMMA ReceiveType == ASSUME TypeInv, NEW t \in Thread, Receive(t) PROVE TypeInv'
<1>1. PICK r \in Request : req' = [req EXCEPT ![t] = r]
  BY DEF Receive
<1>2. /\ pc' = [pc EXCEPT ![t] = "find basis"]
      /\ disturbed' \in BOOLEAN /\ everDisturbed' \in BOOLEAN
      /\ UNCHANGED <<log, proj, entities, outbox, snapshots, lock, mem, history, known,
                     memEntities, base, mark, manifest, receipt, loaded, acked>>
  BY DEF Receive, Goto
<1>3. TypeOK'
  BY <1>1, <1>2 DEF TypeInv, TypeOK, Steps
<1>4. /\ pc'[t] = "find basis" /\ req'[t] \in Request
      /\ \A u \in Thread \ {t} : pc'[u] = pc[u] /\ req'[u] = req[u]
  BY <1>1, <1>2 DEF TypeInv, TypeOK
<1>5. LocalsInv'
  BY <1>2, <1>4 DEF TypeInv, LocalsInv, WithReceipt, InTransaction, Rows
<1> QED
  BY <1>3, <1>5 DEF TypeInv

LEMMA ReceiveSnapshotType ==
    ASSUME TypeInv, NEW t \in Thread, ReceiveSnapshot(t) PROVE TypeInv'
  BY DEF TypeInv, TypeOK, LocalsInv, ReceiveSnapshot, Goto, Steps, WithReceipt, InTransaction

LEMMA BasisType ==
    ASSUME TypeInv, NEW t \in Thread,
           HasBasis(t) \/ LacksBasis(t) \/ TakeBoundary(t) \/ LockBranch(t)
    PROVE  TypeInv'
<1>0. Len(history) \in Nat
  BY DEF TypeInv, TypeOK
<1>1. CASE HasBasis(t)
  BY <1>1 DEF TypeInv, TypeOK, LocalsInv, HasBasis, Goto, Steps, WithReceipt, InTransaction
<1>2. CASE LacksBasis(t)
  BY <1>0, <1>2 DEF TypeInv, TypeOK, LocalsInv, LacksBasis, Goto, Steps, WithReceipt, InTransaction
<1>3. CASE TakeBoundary(t)
  BY <1>0, <1>3 DEF TypeInv, TypeOK, LocalsInv, TakeBoundary, Goto, Steps, WithReceipt, InTransaction
<1>4. CASE LockBranch(t)
  BY <1>4 DEF TypeInv, TypeOK, LocalsInv, LockBranch, Goto, Steps, WithReceipt, InTransaction
<1> QED
  BY <1>1, <1>2, <1>3, <1>4

LEMMA SetBasisType == ASSUME TypeInv, NEW t \in Thread, SetBasis(t) PROVE TypeInv'
<1>1. base' \in Base
  BY DEF TypeInv, TypeOK, SetBasis, Image, Base
<1> QED
  BY <1>1 DEF TypeInv, TypeOK, LocalsInv, SetBasis, Goto, Steps, WithReceipt, InTransaction

LEMMA WriteSnapshotType == ASSUME TypeInv, NEW t \in Thread, WriteSnapshot(t) PROVE TypeInv'
<1>1. [state |-> mem.state, through |-> mark[t]] \in Manifest
  BY DEF TypeInv, TypeOK, Image, Manifest
<1> QED
  BY <1>1 DEF TypeInv, TypeOK, LocalsInv, WriteSnapshot, Goto, Steps, WithReceipt, InTransaction

LEMMA SaveSnapshotType == ASSUME TypeInv, NEW t \in Thread, SaveSnapshot(t) PROVE TypeInv'
<1> DEFINE row == [state |-> manifest[t].state, through |-> manifest[t].through,
                   version |-> mem.version]
<1>1. row \in Snapshot
  BY DEF TypeInv, TypeOK, LocalsInv, SaveSnapshot, Manifest, Image, Snapshot
<1>2. snapshots' \subseteq Snapshot
  BY <1>1 DEF TypeInv, TypeOK, SaveSnapshot
<1>3. CASE req[t] = <<>>
  <2>1. Finish(t)
    BY <1>3 DEF SaveSnapshot
  <2> QED
    BY <1>2, <2>1 DEF TypeInv, TypeOK, LocalsInv, SaveSnapshot, Finish, Goto, Steps,
                      WithReceipt, InTransaction
<1>4. CASE req[t] # <<>>
  <2>1. /\ Goto(t, "lock branch")
        /\ mark' = [mark EXCEPT ![t] = 0]
        /\ manifest' = [manifest EXCEPT ![t] = <<>>]
        /\ UNCHANGED <<req, receipt, loaded>>
    BY <1>4 DEF SaveSnapshot
  <2>2. req[t] \in Request
    BY <1>4 DEF TypeInv, TypeOK
  <2> QED
    BY <1>2, <2>1, <2>2 DEF TypeInv, TypeOK, LocalsInv, SaveSnapshot, Goto, Steps,
                            WithReceipt, InTransaction
<1> QED
  BY <1>3, <1>4

LEMMA ReadProjectionType == ASSUME TypeInv, NEW t \in Thread, ReadProjection(t) PROVE TypeInv'
  BY DEF TypeInv, TypeOK, LocalsInv, ReadProjection, Goto, Steps, WithReceipt, InTransaction

LEMMA ReturnExistingType ==
    ASSUME TypeInv, NEW t \in Thread, ReturnExisting(t) PROVE TypeInv'
<1>1. PICK i \in 1..Len(log) :
         receipt' = [receipt EXCEPT ![t] = [record |-> log[i], creates |-> NoEntity]]
  BY DEF ReturnExisting
<1>2. log[i] \in Record /\ log[i] \in Rows(log)
  BY DEF TypeInv, TypeOK, Rows
<1>3. [record |-> log[i], creates |-> NoEntity] \in Receipt
  BY <1>2 DEF Receipt
<1> QED
  BY <1>1, <1>2, <1>3 DEF TypeInv, TypeOK, LocalsInv, ReturnExisting, Goto, Steps,
                          WithReceipt, InTransaction

LEMMA RefuseType == ASSUME TypeInv, NEW t \in Thread, Refuse(t) PROVE TypeInv'
  BY DEF TypeInv, TypeOK, LocalsInv, Refuse, Finish, Goto, Steps, WithReceipt, InTransaction

\* A row appended to a sequence joins its rows.
LEMMA AppendRows ==
    ASSUME NEW S, NEW rows \in Seq(S), NEW row \in S
    PROVE  Rows(Append(rows, row)) = Rows(rows) \cup {row}
  BY DEF Rows

LEMMA CommitType == ASSUME TypeInv, NEW t \in Thread, Commit(t) PROVE TypeInv'
<1> DEFINE row == NewRecord(req[t], loaded[t])
           new == [record |-> row, creates |-> Spawns[row.op]]
<1>1. req[t] \in Request /\ loaded[t] \in Image
  BY DEF TypeInv, LocalsInv, Commit, InTransaction
<1>2. row \in Record
  BY <1>1, NewRecordType DEF Commit, Raised
<1>3. new \in Receipt /\ Spawns[row.op] \in Entity \cup {NoEntity}
  BY <1>2 DEF Receipt, Record
<1>4. /\ log' = Append(log, row)
      /\ proj' = [state |-> row.after, version |-> loaded[t].version + 1]
      /\ entities' = entities \cup ({Spawns[row.op]} \ {NoEntity})
      /\ outbox' = outbox \cup {row.key}
      /\ receipt' = [receipt EXCEPT ![t] = new]
      /\ lock' = lock \ {t}
      /\ pc' = [pc EXCEPT ![t] = "load"]
      /\ disturbed' \in BOOLEAN /\ everDisturbed' \in BOOLEAN
      /\ req' = [req EXCEPT ![t] = <<>>] /\ loaded' = [loaded EXCEPT ![t] = <<>>]
      /\ UNCHANGED <<snapshots, caches, mark, manifest, acked>>
  BY DEF Commit, Goto
<1>5. Rows(log') = Rows(log) \cup {row}
  BY <1>2, <1>4, AppendRows DEF TypeInv, TypeOK
<1>6. log' \in Seq(Record) /\ proj' \in Image /\ entities' \subseteq Entity /\ outbox' \subseteq Key
  BY <1>1, <1>2, <1>3, <1>4 DEF TypeInv, TypeOK, Image, Record
<1> HIDE DEF row, new
<1>7. TypeOK'
  BY <1>3, <1>4, <1>6 DEF TypeInv, TypeOK, Steps
<1>8. LocalsInv'
  <2>1. new.record = row
    BY DEF new
  <2> QED
    BY <1>3, <1>4, <1>5, <2>1 DEF TypeInv, TypeOK, LocalsInv, WithReceipt, InTransaction
<1> QED
  BY <1>7, <1>8 DEF TypeInv

LEMMA PublishType ==
    ASSUME TypeInv, NEW t \in Thread,
           Load(t) \/ Assign(t) \/ LookUpEvent(t)
    PROVE  TypeInv'
<1>1. CASE Load(t)
  BY <1>1 DEF TypeInv, TypeOK, LocalsInv, Load, Goto, Steps, WithReceipt, InTransaction
<1>2. CASE Assign(t)
  BY <1>2 DEF TypeInv, TypeOK, LocalsInv, Assign, Goto, Steps, WithReceipt, InTransaction
<1>3. CASE LookUpEvent(t)
  BY <1>3 DEF TypeInv, TypeOK, LocalsInv, LookUpEvent, Goto, Steps, WithReceipt, InTransaction
<1> QED
  BY <1>1, <1>2, <1>3

LEMMA RecordCommandType == ASSUME TypeInv, NEW t \in Thread, RecordCommand(t) PROVE TypeInv'
<1>1. /\ receipt[t] \in Receipt
      /\ receipt[t].record \in Record
      /\ receipt[t].record.key \in Key
      /\ receipt[t].creates \in Entity \cup {NoEntity}
  BY DEF TypeInv, LocalsInv, RecordCommand, WithReceipt, Receipt, Record
<1>2. history' \in Seq(Record) /\ known' \subseteq Key /\ memEntities' \subseteq Entity
  BY <1>1 DEF TypeInv, TypeOK, RecordCommand
<1>3. TypeOK'
  BY <1>2 DEF TypeInv, TypeOK, RecordCommand, Goto, Steps
<1>4. LocalsInv'
  BY <1>1 DEF TypeInv, TypeOK, LocalsInv, RecordCommand, Goto, WithReceipt, InTransaction
<1> QED
  BY <1>3, <1>4 DEF TypeInv

LEMMA EndType ==
    ASSUME TypeInv, NEW t \in Thread, Respond(t) \/ Fail(t) PROVE TypeInv'
<1>1. CASE Respond(t)
  <2>1. receipt[t].record \in Record
    BY <1>1 DEF TypeInv, LocalsInv, Respond, WithReceipt, Receipt
  <2> QED
    BY <1>1, <2>1 DEF TypeInv, TypeOK, LocalsInv, Respond, Finish, Goto, Steps,
                      WithReceipt, InTransaction
<1>2. CASE Fail(t)
  BY <1>2 DEF TypeInv, TypeOK, LocalsInv, Fail, Finish, Goto, Steps, WithReceipt, InTransaction
<1> QED
  BY <1>1, <1>2

LEMMA RestartType == ASSUME TypeInv, Restart PROVE TypeInv'
<1>1. base' \in Base \cup {NoBase}
  <2>1. Newest \subseteq Snapshot /\ Len(log) \in Nat
    BY DEF TypeInv, TypeOK, Newest
  <2>2. Recovered \subseteq Base \cup {NoBase}
    BY <2>1 DEF TypeInv, TypeOK, Recovered, Base, Snapshot, Image
  <2> QED
    BY <2>2 DEF Restart
<1>2. known' \subseteq Key
  <2>1. \A i \in 1..Len(log) : log[i] \in Record
    BY DEF TypeInv, TypeOK
  <2> QED
    BY <2>1 DEF Restart, Record
<1> QED
  BY <1>1, <1>2 DEF TypeInv, TypeOK, LocalsInv, Restart, Steps, WithReceipt, InTransaction

LEMMA StutterType == TypeInv /\ UNCHANGED vars => TypeInv'
  BY DEF TypeInv, TypeOK, LocalsInv, vars

LEMMA TypeStep == TypeInv /\ [Next]_vars => TypeInv'
  BY ReceiveType, ReceiveSnapshotType, BasisType, SetBasisType, WriteSnapshotType,
     SaveSnapshotType, ReadProjectionType, ReturnExistingType, RefuseType, CommitType,
     PublishType, RecordCommandType, EndType, RestartType, StutterType
     DEF Next, Prepare, Transact, Publish

\* Every variable always has its type, whatever fails, restarts or interleaves
\* (the actions of kernel/application.py and kernel/postgres_repository.py).
THEOREM TypeCorrect == Spec => []TypeOK
<1>1. TypeInv => TypeOK
  BY DEF TypeInv
<1> QED
  BY InitType, TypeStep, <1>1, PTL DEF Spec

(***************************************************************************)
(* The invariant.                                                          *)
(***************************************************************************)
LedgerInv == LedgerReplays /\ OneCommitPerKey /\ TransactionsAreSerial

ServedInv == AnswersAreDurable /\ TablesAgree /\ HistoryIsCommitted

(***************************************************************************)
(* The ledger.                                                             *)
(***************************************************************************)
LEMMA InitSafe == Init => LedgerInv /\ ServedInv
  BY DEF Init, LedgerInv, ServedInv, LedgerReplays, Replays, StateAfter, OneCommitPerKey,
         TransactionsAreSerial, AnswersAreDurable, TablesAgree, HistoryIsCommitted, Rows

\* A step that neither writes the ledger nor takes the lock nor enters "commit".
LEMMA QuietLedger ==
    ASSUME TypeInv, LedgerInv, UNCHANGED <<log, proj>>, lock' \subseteq lock,
           \A t \in Thread : pc'[t] = "commit" =>
               /\ t \in lock'
               /\ pc[t] = "commit" /\ loaded'[t] = loaded[t] /\ req'[t] = req[t]
    PROVE  LedgerInv'
<1>1. LedgerReplays' /\ OneCommitPerKey'
  BY DEF LedgerInv, LedgerReplays, Replays, StateAfter, OneCommitPerKey
<1>2. TransactionsAreSerial'
  BY DEF LedgerInv, TransactionsAreSerial, Committed
<1> QED
  BY <1>1, <1>2 DEF LedgerInv

LEMMA OwnStepLedger ==
    ASSUME TypeInv, LedgerInv, NEW t \in Thread, UNCHANGED <<log, proj, lock>>,
           NEW step \in Steps \ {"commit"}, Goto(t, step),
           \A u \in Thread \ {t} : loaded'[u] = loaded[u] /\ req'[u] = req[u]
    PROVE  LedgerInv'
<1>1. \A u \in Thread : pc'[u] = "commit" => u # t /\ pc[u] = "commit"
  BY DEF TypeInv, TypeOK, Goto, Steps
<1>2. \A u \in Thread : pc[u] = "commit" => u \in lock
  BY DEF TypeInv, LocalsInv, InTransaction
<1> QED
  BY <1>1, <1>2, QuietLedger

LEMMA PrepareLedger ==
    ASSUME TypeInv, LedgerInv, NEW t \in Thread,
           Receive(t) \/ ReceiveSnapshot(t) \/ Prepare(t)
    PROVE  LedgerInv'
<1>1. CASE Receive(t)
  BY <1>1, OwnStepLedger DEF Receive, Steps, TypeInv, TypeOK
<1>2. CASE ReceiveSnapshot(t)
  BY <1>2, OwnStepLedger DEF ReceiveSnapshot, Steps
<1>3. CASE HasBasis(t)
  BY <1>3, OwnStepLedger DEF HasBasis, Steps
<1>4. CASE LacksBasis(t)
  BY <1>4, OwnStepLedger DEF LacksBasis, Steps
<1>5. CASE SetBasis(t)
  BY <1>5, OwnStepLedger DEF SetBasis, Steps
<1>6. CASE TakeBoundary(t)
  BY <1>6, OwnStepLedger DEF TakeBoundary, Steps
<1>7. CASE WriteSnapshot(t)
  BY <1>7, OwnStepLedger DEF WriteSnapshot, Steps
<1>8. CASE SaveSnapshot(t)
  BY <1>8, OwnStepLedger DEF SaveSnapshot, Finish, Steps, TypeInv, TypeOK
<1> QED
  BY <1>1, <1>2, <1>3, <1>4, <1>5, <1>6, <1>7, <1>8 DEF Prepare

LEMMA PublishLedger ==
    ASSUME TypeInv, LedgerInv, NEW t \in Thread, Publish(t) \/ Fail(t)
    PROVE  LedgerInv'
<1>1. CASE Load(t)
  BY <1>1, OwnStepLedger DEF Load, Steps, TypeInv, TypeOK
<1>2. CASE Assign(t)
  BY <1>2, OwnStepLedger DEF Assign, Steps, TypeInv, TypeOK
<1>3. CASE LookUpEvent(t)
  BY <1>3, OwnStepLedger DEF LookUpEvent, Steps
<1>4. CASE RecordCommand(t)
  BY <1>4, OwnStepLedger DEF RecordCommand, Steps
<1>5. CASE Respond(t)
  BY <1>5, OwnStepLedger DEF Respond, Finish, Steps, TypeInv, TypeOK
<1>6. CASE Fail(t)
  BY <1>6, OwnStepLedger DEF Fail, Finish, Steps, TypeInv, TypeOK
<1> QED
  BY <1>1, <1>2, <1>3, <1>4, <1>5, <1>6 DEF Publish

\* A transaction that ends without writing.
LEMMA EndedLedger ==
    ASSUME TypeInv, LedgerInv, NEW t \in Thread, ReturnExisting(t) \/ Refuse(t)
    PROVE  LedgerInv'
<1>1. UNCHANGED <<log, proj>> /\ lock' = lock \ {t}
  BY DEF ReturnExisting, Refuse
<1>2. \A u \in Thread : pc'[u] = "commit" =>
         u # t /\ pc[u] = "commit" /\ loaded'[u] = loaded[u] /\ req'[u] = req[u]
  BY DEF ReturnExisting, Refuse, Finish, Goto, TypeInv, TypeOK
<1>3. \A u \in Thread : pc[u] = "commit" => u \in lock
  BY DEF TypeInv, LocalsInv, InTransaction
<1> QED
  BY <1>1, <1>2, <1>3, QuietLedger

\* The lock is only taken when it is free, so nobody is in "commit" then.
LEMMA LockLedger ==
    ASSUME TypeInv, LedgerInv, NEW t \in Thread, LockBranch(t) PROVE LedgerInv'
<1>1. LedgerReplays' /\ OneCommitPerKey'
  BY DEF LockBranch, LedgerInv, LedgerReplays, Replays, StateAfter, OneCommitPerKey
<1>2. \A u \in Thread : pc'[u] # "commit"
  BY DEF LockBranch, Goto, TypeInv, TypeOK, LocalsInv, InTransaction
<1>3. \A u, w \in lock' : u = w
  BY DEF LockBranch
<1> QED
  BY <1>1, <1>2, <1>3 DEF LedgerInv, TransactionsAreSerial

LEMMA ReadLedger ==
    ASSUME TypeInv, LedgerInv, NEW t \in Thread, ReadProjection(t) PROVE LedgerInv'
<1>1. LedgerReplays' /\ OneCommitPerKey'
  BY DEF ReadProjection, LedgerInv, LedgerReplays, Replays, StateAfter, OneCommitPerKey
<1>2. t \in lock
  BY DEF ReadProjection, TypeInv, LocalsInv, InTransaction
<1>3. TransactionsAreSerial'
  BY <1>2 DEF ReadProjection, Goto, LedgerInv, TransactionsAreSerial, Committed, TypeInv, TypeOK
<1> QED
  BY <1>1, <1>3 DEF LedgerInv

\* The row a commit appends was computed from the last one, under a new key.
LEMMA CommitLedger ==
    ASSUME TypeInv, LedgerInv, NEW t \in Thread, Commit(t) PROVE LedgerInv'
<1> DEFINE row == NewRecord(req[t], loaded[t])
<1>1. /\ log' = Append(log, row)
      /\ proj' = [state |-> row.after, version |-> loaded[t].version + 1]
      /\ lock' = lock \ {t}
      /\ pc' = [pc EXCEPT ![t] = "load"]
  BY DEF Commit, Goto
<1>2. /\ loaded[t] = [state |-> StateAfter(log, Len(log)), version |-> Len(log)]
      /\ \A i \in 1..Len(log) : log[i].key # req[t].key
      /\ t \in lock /\ \A u \in lock : u = t
  BY DEF Commit, LedgerInv, TransactionsAreSerial, LedgerReplays, Committed
<1>3. /\ row.key = req[t].key
      /\ row.after = Apply[row.delta][StateAfter(log, Len(log))]
  BY <1>2 DEF NewRecord
<1>4. log \in Seq(Record) /\ row \in Record
  BY NewRecordType DEF TypeInv, TypeOK, LocalsInv, InTransaction, Commit, Raised
<1> HIDE DEF row
<1>5. /\ Len(log') = Len(log) + 1 /\ Len(log) \in Nat
      /\ \A i \in 1..Len(log) : log'[i] = log[i]
      /\ log'[Len(log) + 1] = row
  BY <1>1, <1>4
<1>6. LedgerReplays'
  <2>1. \A i \in 1..Len(log) :
           log[i].after = Apply[log[i].delta][IF i = 1 THEN InitProjection ELSE log[i - 1].after]
    BY DEF LedgerInv, LedgerReplays, Replays
  <2>2. ASSUME NEW i \in 1..Len(log')
        PROVE  log'[i].after =
                 Apply[log'[i].delta][IF i = 1 THEN InitProjection ELSE log'[i - 1].after]
    <3>1. CASE i \in 1..Len(log)
      BY <1>5, <2>1, <3>1
    <3>2. CASE i = Len(log) + 1
      BY <1>3, <1>5, <3>2 DEF StateAfter
    <3> QED
      BY <1>5, <3>1, <3>2
  <2>3. proj' = [state |-> row.after, version |-> Len(log) + 1]
    BY <1>1, <1>2
  <2>4. StateAfter(log', Len(log')) = row.after
    BY <1>5 DEF StateAfter
  <2> QED
    BY <1>5, <2>2, <2>3, <2>4 DEF LedgerReplays, Replays
<1>7. OneCommitPerKey'
  BY <1>2, <1>3, <1>5 DEF LedgerInv, OneCommitPerKey
<1>8. \A u \in Thread : pc'[u] # "commit"
  BY <1>1, <1>2 DEF TypeInv, TypeOK, LocalsInv, InTransaction
<1>9. TransactionsAreSerial'
  BY <1>1, <1>8 DEF LedgerInv, TransactionsAreSerial
<1> QED
  BY <1>6, <1>7, <1>9 DEF LedgerInv

LEMMA RestartLedger == ASSUME TypeInv, LedgerInv, Restart PROVE LedgerInv'
  BY QuietLedger DEF Restart

(***************************************************************************)
(* What is answered, derived and cached.                                   *)
(***************************************************************************)

\* A step that neither writes nor answers, records nothing, and gives no thread
\* a receipt but of a row of the ledger.
LEMMA QuietServed ==
    ASSUME ServedInv, UNCHANGED <<log, entities, outbox, history, known, acked>>,
           \A t \in Thread : receipt'[t] # <<>> => receipt'[t].record \in Rows(log)
    PROVE  ServedInv'
<1>1. Rows(log') = Rows(log) /\ Rows(history') = Rows(history)
  BY Zenon
<1>2. AnswersAreDurable'
  BY <1>1, Zenon DEF ServedInv, AnswersAreDurable
<1>3. TablesAgree'
  BY <1>1, Zenon DEF ServedInv, TablesAgree
<1>4. HistoryIsCommitted'
  BY <1>1, Zenon DEF ServedInv, HistoryIsCommitted
<1> QED
  BY <1>2, <1>3, <1>4 DEF ServedInv

LEMMA QuietStepServed ==
    ASSUME TypeInv, ServedInv, NEW t \in Thread,
           \/ Receive(t) \/ ReceiveSnapshot(t) \/ Prepare(t) \/ LockBranch(t)
           \/ ReadProjection(t) \/ Refuse(t) \/ Load(t) \/ Assign(t) \/ LookUpEvent(t)
           \/ Fail(t)
    PROVE  ServedInv'
<1>1. UNCHANGED <<log, entities, outbox, history, known, acked>>
  BY DEF Receive, ReceiveSnapshot, Prepare, HasBasis, LacksBasis, SetBasis, TakeBoundary,
         WriteSnapshot, SaveSnapshot, LockBranch, ReadProjection, Refuse, Load, Assign,
         LookUpEvent, Fail
<1>2. receipt' \in {receipt, [receipt EXCEPT ![t] = <<>>]}
  <2>1. CASE Receive(t) \/ ReceiveSnapshot(t) \/ LockBranch(t) \/ ReadProjection(t) \/ Load(t)
    BY <2>1, Zenon DEF Receive, ReceiveSnapshot, LockBranch, ReadProjection, Load
  <2>2. CASE Prepare(t)
    BY <2>2, Zenon DEF Prepare, HasBasis, LacksBasis, SetBasis, TakeBoundary, WriteSnapshot,
         SaveSnapshot, Finish
  <2>3. CASE Refuse(t) \/ Assign(t) \/ LookUpEvent(t) \/ Fail(t)
    BY <2>3, Zenon DEF Refuse, Assign, LookUpEvent, Fail, Finish
  <2> QED
    BY <2>1, <2>2, <2>3
<1>3. \A u \in Thread : receipt'[u] \in {receipt[u], <<>>}
  BY <1>2 DEF TypeInv, TypeOK
<1>4. \A u \in Thread : receipt'[u] # <<>> => receipt'[u].record \in Rows(log)
  BY <1>3, Zenon DEF ServedInv, HistoryIsCommitted
<1> QED
  BY <1>1, <1>4, QuietServed, Zenon

LEMMA ReturnExistingServed ==
    ASSUME TypeInv, ServedInv, NEW t \in Thread, ReturnExisting(t) PROVE ServedInv'
<1>1. UNCHANGED <<log, entities, outbox, history, known, acked>>
  BY DEF ReturnExisting
<1>2. PICK i \in 1..Len(log) :
         receipt' = [receipt EXCEPT ![t] = [record |-> log[i], creates |-> NoEntity]]
  BY DEF ReturnExisting
<1>3. \A u \in Thread : receipt'[u] # <<>> => receipt'[u].record \in Rows(log)
  <2>1. log[i] \in Rows(log)
    BY DEF Rows
  <2>2. \A u \in Thread : receipt[u] # <<>> => receipt[u].record \in Rows(log)
    BY Zenon DEF ServedInv, HistoryIsCommitted
  <2>3. TAKE u \in Thread
  <2>4. CASE u = t
    BY <1>2, <2>1, <2>4, Zenon DEF TypeInv, TypeOK
  <2>5. CASE u # t
    BY <1>2, <2>2, <2>5, Zenon DEF TypeInv, TypeOK
  <2> QED
    BY <2>4, <2>5
<1> QED
  BY <1>1, <1>3, QuietServed, Zenon

LEMMA CommitServed ==
    ASSUME TypeInv, ServedInv, NEW t \in Thread, Commit(t) PROVE ServedInv'
<1> DEFINE row == NewRecord(req[t], loaded[t])
           new == [record |-> row, creates |-> Spawns[row.op]]
<1>1. /\ log' = Append(log, row)
      /\ entities' = entities \cup ({Spawns[row.op]} \ {NoEntity})
      /\ outbox' = outbox \cup {row.key}
      /\ receipt' = [receipt EXCEPT ![t] = new]
      /\ UNCHANGED <<history, known, acked>>
  BY DEF Commit
<1>2. log \in Seq(Record) /\ row \in Record
  BY NewRecordType DEF TypeInv, TypeOK, LocalsInv, InTransaction, Commit, Raised
<1>3. Rows(log') = Rows(log) \cup {row}
  BY <1>1, <1>2, AppendRows
<1>4. \A u \in Thread : receipt'[u] # <<>> => receipt'[u].record \in Rows(log')
  BY <1>1, <1>3 DEF ServedInv, HistoryIsCommitted, TypeInv, TypeOK
<1> HIDE DEF row, new
<1>5. AnswersAreDurable'
  BY <1>1, <1>3 DEF ServedInv, AnswersAreDurable
<1>6. TablesAgree'
  BY <1>1, <1>3 DEF ServedInv, TablesAgree
<1>7. Rows(history') = Rows(history)
  BY <1>1
<1>8. HistoryIsCommitted'
  BY <1>1, <1>3, <1>4, <1>7 DEF ServedInv, HistoryIsCommitted
<1> QED
  BY <1>5, <1>6, <1>8 DEF ServedInv

LEMMA RecordCommandServed ==
    ASSUME TypeInv, ServedInv, NEW t \in Thread, RecordCommand(t) PROVE ServedInv'
<1> DEFINE row == receipt[t].record
<1>1. /\ history' = Append(history, row)
      /\ known' = known \cup {row.key}
      /\ UNCHANGED <<log, entities, outbox, acked, receipt>>
  BY DEF RecordCommand
<1>2. row \in Record /\ row \in Rows(log)
  BY DEF RecordCommand, TypeInv, LocalsInv, WithReceipt, Receipt
<1>3. Rows(history') = Rows(history) \cup {row}
  BY <1>1, <1>2, AppendRows DEF TypeInv, TypeOK
<1> HIDE DEF row
<1>4. Rows(log') = Rows(log)
  BY <1>1
<1>5. AnswersAreDurable' /\ TablesAgree'
  BY <1>1, <1>4 DEF ServedInv, AnswersAreDurable, TablesAgree
<1>6. HistoryIsCommitted'
  BY <1>1, <1>2, <1>3, <1>4 DEF ServedInv, HistoryIsCommitted
<1> QED
  BY <1>5, <1>6 DEF ServedInv

\* The event of the answer was recorded, or found recorded, before.
LEMMA RespondServed ==
    ASSUME TypeInv, ServedInv, NEW t \in Thread, Respond(t) PROVE ServedInv'
<1>1. /\ acked' = acked \cup {receipt[t].record}
      /\ receipt' = [receipt EXCEPT ![t] = <<>>]
      /\ UNCHANGED <<log, entities, outbox, history, known>>
  BY DEF Respond, Finish
<1>2. receipt[t].record \in Rows(log) /\ receipt[t].record.key \in known
  BY DEF Respond, TypeInv, LocalsInv, WithReceipt
<1>3. Rows(log') = Rows(log) /\ Rows(history') = Rows(history)
  BY <1>1
<1>4. AnswersAreDurable' /\ TablesAgree'
  BY <1>1, <1>2, <1>3 DEF ServedInv, AnswersAreDurable, TablesAgree
<1>5. \A u \in Thread : receipt'[u] # <<>> => receipt'[u].record \in Rows(log')
  BY <1>1, <1>3 DEF ServedInv, HistoryIsCommitted, TypeInv, TypeOK
<1>6. HistoryIsCommitted'
  BY <1>1, <1>2, <1>3, <1>5 DEF ServedInv, HistoryIsCommitted
<1> QED
  BY <1>4, <1>6 DEF ServedInv

\* hydrate reads the whole ledger back, every answered entry with it.
LEMMA RestartServed == ASSUME TypeInv, ServedInv, Restart PROVE ServedInv'
<1>1. /\ UNCHANGED <<log, entities, outbox, acked>>
      /\ history' = log
      /\ known' = {log[i].key : i \in 1..Len(log)}
      /\ receipt' = [t \in Thread |-> <<>>]
  BY DEF Restart
<1>2. Rows(log') = Rows(log) /\ Rows(history') = Rows(log)
  BY <1>1
<1>3. known' = {r.key : r \in Rows(log)}
  BY <1>1 DEF Rows
<1>4. AnswersAreDurable' /\ TablesAgree'
  BY <1>1, <1>2 DEF ServedInv, AnswersAreDurable, TablesAgree
<1>5. HistoryIsCommitted'
  BY <1>1, <1>2, <1>3 DEF ServedInv, AnswersAreDurable, HistoryIsCommitted
<1> QED
  BY <1>4, <1>5 DEF ServedInv

(***************************************************************************)
(* What is cached and saved.                                               *)
(***************************************************************************)

\* Wherever a projection is held, it is one the branch has had.
ImagesInv ==
    /\ WasReached(mem)
    /\ \A t \in Thread : pc[t] = "assign" => WasReached(loaded[t])
    /\ \A t \in Thread : pc[t] = "save snapshot" => manifest[t].state \in Reached
    /\ \A s \in snapshots : s.state \in Reached

\* A ledger that grows keeps the projections it has reached.
LEMMA GrowthKeepsReached ==
    ASSUME TypeInv, log' = log \/ \E row \in Record : log' = Append(log, row)
    PROVE  /\ Reached \subseteq Reached'
           /\ \A image \in Image :
                WasReached(image) => /\ image.version <= Len(log')
                                     /\ image.state = StateAfter(log', image.version)
<1>1. /\ Len(log) \in Nat /\ Len(log') \in Nat /\ Len(log) <= Len(log')
      /\ \A i \in 1..Len(log) : log'[i] = log[i]
  <2>1. log \in Seq(Record)
    BY DEF TypeInv, TypeOK
  <2>2. CASE log' = log
    BY <2>1, <2>2
  <2>3. ASSUME NEW row \in Record, log' = Append(log, row)
        PROVE  /\ Len(log) \in Nat /\ Len(log') \in Nat /\ Len(log) <= Len(log')
               /\ \A i \in 1..Len(log) : log'[i] = log[i]
    BY <2>1, <2>3
  <2> QED
    BY <2>2, <2>3
<1>2. ASSUME NEW n \in 0..Len(log) PROVE StateAfter(log', n) = StateAfter(log, n)
  <2>1. n = 0 \/ n \in 1..Len(log)
    BY <1>1
  <2> QED
    BY <1>1, <2>1 DEF StateAfter
<1>3. Reached \subseteq Reached'
  BY <1>1, <1>2 DEF Reached
<1>4. ASSUME NEW image \in Image, WasReached(image)
      PROVE  image.version <= Len(log') /\ image.state = StateAfter(log', image.version)
  <2>1. /\ image.version \in Nat
        /\ image.version <= Len(log) /\ image.state = StateAfter(log, image.version)
    BY <1>4 DEF Image, WasReached
  <2>2. image.version \in 0..Len(log)
    BY <1>1, <2>1
  <2>3. StateAfter(log', image.version) = StateAfter(log, image.version)
    BY <1>2, <2>2
  <2>4. image.version <= Len(log')
    BY <1>1, <2>1
  <2> QED
    BY <2>1, <2>3, <2>4
<1> QED
  BY <1>3, <1>4

LEMMA ImageReached ==
    ASSUME TypeInv, NEW image \in Image, WasReached(image) PROVE image.state \in Reached
<1>1. log \in Seq(Record)
  BY DEF TypeInv, TypeOK
<1>2. Len(log) \in Nat /\ image.version \in Nat
  BY <1>1 DEF Image
<1>3. image.version \in 0..Len(log)
  BY <1>2 DEF WasReached
<1> QED
  BY <1>3 DEF Reached, WasReached

\* The durable projection is the last one reached.
LEMMA DurableReached == ASSUME TypeInv, LedgerInv PROVE WasReached(proj) /\ proj \in Image
  BY DEF TypeInv, TypeOK, LedgerInv, LedgerReplays, WasReached

\* Projections only pass from the table to a thread, from a thread to the cache,
\* and from the cache to a snapshot.
LEMMA ImagesPass ==
    ASSUME TypeInv, LedgerInv, ImagesInv,
           log' = log \/ \E row \in Record : log' = Append(log, row),
           mem' \in {mem, proj} \/ \E t \in Thread : pc[t] = "assign" /\ mem' = loaded[t],
           \A t \in Thread : pc'[t] = "assign" =>
               (pc[t] = "assign" /\ loaded'[t] = loaded[t]) \/ loaded'[t] = proj,
           \A t \in Thread : pc'[t] = "save snapshot" =>
               \/ pc[t] = "save snapshot" /\ manifest'[t] = manifest[t]
               \/ manifest'[t].state = mem.state,
           \A s \in snapshots' :
               s \in snapshots
               \/ \E t \in Thread : pc[t] = "save snapshot" /\ s.state = manifest[t].state
    PROVE  ImagesInv'
<1>1. \A image \in Image :
        WasReached(image) => /\ image.version <= Len(log')
                             /\ image.state = StateAfter(log', image.version)
  BY GrowthKeepsReached
<1>2. WasReached(proj) /\ proj \in Image /\ mem \in Image /\ WasReached(mem)
  BY DurableReached DEF TypeInv, TypeOK, ImagesInv
<1>3. \A t \in Thread : pc[t] = "assign" => loaded[t] \in Image /\ WasReached(loaded[t])
  BY DEF TypeInv, LocalsInv, ImagesInv
<1>4. WasReached(mem)'
  BY <1>1, <1>2, <1>3 DEF WasReached
<1>5. ASSUME NEW t \in Thread, pc'[t] = "assign" PROVE WasReached(loaded[t])'
  <2>1. CASE loaded'[t] = proj
    BY <1>1, <1>2, <2>1 DEF WasReached
  <2>2. CASE pc[t] = "assign" /\ loaded'[t] = loaded[t]
    <3>1. loaded[t] \in Image /\ WasReached(loaded[t])
      BY <1>3, <2>2
    <3> QED
      BY <1>1, <2>2, <3>1 DEF WasReached
  <2> QED
    BY <1>5, <2>1, <2>2
<1>6. mem.state \in Reached
  BY <1>2, ImageReached
<1>7. Reached \subseteq Reached'
  BY GrowthKeepsReached
<1>8. \A t \in Thread : pc'[t] = "save snapshot" => manifest'[t].state \in Reached'
  BY <1>6, <1>7 DEF ImagesInv
<1>9. \A s \in snapshots' : s.state \in Reached'
  BY <1>7 DEF ImagesInv
<1> QED
  BY <1>4, <1>5, <1>8, <1>9 DEF ImagesInv

LEMMA PrepareImages ==
    ASSUME TypeInv, LedgerInv, ImagesInv, NEW t \in Thread,
           Receive(t) \/ ReceiveSnapshot(t) \/ Prepare(t)
    PROVE  ImagesInv'
<1>1. CASE Receive(t) \/ ReceiveSnapshot(t) \/ HasBasis(t) \/ LacksBasis(t)
           \/ SetBasis(t) \/ TakeBoundary(t)
  BY <1>1, ImagesPass DEF Receive, ReceiveSnapshot, HasBasis, LacksBasis, SetBasis,
     TakeBoundary, Goto, TypeInv, TypeOK
<1>2. CASE WriteSnapshot(t)
  BY <1>2, ImagesPass DEF WriteSnapshot, Goto, TypeInv, TypeOK
<1>3. CASE SaveSnapshot(t)
  <2> DEFINE row == [state |-> manifest[t].state, through |-> manifest[t].through,
                     version |-> mem.version]
  <2>0. snapshots' \subseteq snapshots \cup {row} /\ row.state = manifest[t].state
    BY <1>3 DEF SaveSnapshot
  <2> HIDE DEF row
  <2>1. /\ pc[t] = "save snapshot"
        /\ \A s \in snapshots' : s \in snapshots \/ s.state = manifest[t].state
        /\ UNCHANGED <<log, mem>>
    BY <1>3, <2>0 DEF SaveSnapshot
  <2>2. /\ pc'[t] \in {"idle", "lock branch"}
        /\ \A u \in Thread \ {t} : pc'[u] = pc[u] /\ loaded'[u] = loaded[u]
                                   /\ manifest'[u] = manifest[u]
    BY <1>3 DEF SaveSnapshot, Finish, Goto, TypeInv, TypeOK
  <2> QED
    BY <2>1, <2>2, ImagesPass
<1> QED
  BY <1>1, <1>2, <1>3 DEF Prepare

LEMMA TransactImages ==
    ASSUME TypeInv, LedgerInv, ImagesInv, NEW t \in Thread, Transact(t)
    PROVE  ImagesInv'
<1>1. log' = log \/ \E row \in Record : log' = Append(log, row)
  <2>1. CASE Commit(t)
    <3>1. NewRecord(req[t], loaded[t]) \in Record
      BY <2>1, NewRecordType DEF TypeInv, LocalsInv, InTransaction, Commit, Raised
    <3> QED
      BY <2>1, <3>1 DEF Commit
  <2>2. CASE ~Commit(t)
    BY <2>2 DEF Transact, LockBranch, ReadProjection, ReturnExisting, Refuse
  <2> QED
    BY <2>1, <2>2
<1>2. UNCHANGED <<mem, snapshots>>
  BY DEF Transact, LockBranch, ReadProjection, ReturnExisting, Refuse, Commit
<1>3. /\ pc'[t] \notin {"assign", "save snapshot"}
      /\ \A u \in Thread \ {t} : pc'[u] = pc[u] /\ loaded'[u] = loaded[u]
                                 /\ manifest'[u] = manifest[u]
  BY DEF Transact, LockBranch, ReadProjection, ReturnExisting, Refuse, Commit, Finish, Goto,
         TypeInv, TypeOK
<1> QED
  BY <1>1, <1>2, <1>3, ImagesPass

LEMMA PublishImages ==
    ASSUME TypeInv, LedgerInv, ImagesInv, NEW t \in Thread, Publish(t) \/ Fail(t)
    PROVE  ImagesInv'
<1>1. UNCHANGED <<log, snapshots>>
  BY DEF Publish, Load, Assign, LookUpEvent, RecordCommand, Respond, Fail
<1>2. mem' = mem \/ (pc[t] = "assign" /\ mem' = loaded[t])
  BY DEF Publish, Load, Assign, LookUpEvent, RecordCommand, Respond, Fail
<1>3. /\ pc'[t] = "assign" => loaded'[t] = proj
      /\ pc'[t] # "save snapshot"
      /\ \A u \in Thread \ {t} : pc'[u] = pc[u] /\ loaded'[u] = loaded[u]
                                 /\ manifest'[u] = manifest[u]
  BY DEF Publish, Load, Assign, LookUpEvent, RecordCommand, Respond, Fail, Finish, Goto,
         TypeInv, TypeOK
<1> QED
  BY <1>1, <1>2, <1>3, ImagesPass

LEMMA ImagesStep ==
    ASSUME TypeInv, LedgerInv, ImagesInv, [Next]_vars PROVE ImagesInv'
<1>1. CASE UNCHANGED vars
  BY <1>1, ImagesPass DEF vars
<1>2. CASE Restart
  BY <1>2, ImagesPass DEF Restart
<1> QED
  BY <1>1, <1>2, PrepareImages, TransactImages, PublishImages DEF Next

(***************************************************************************)
(* The theorems.                                                           *)
(***************************************************************************)

\* The inductive invariant.
IInv == TypeInv /\ LedgerInv /\ ServedInv /\ ImagesInv

LEMMA Inductive == ASSUME IInv, [Next]_vars PROVE IInv'
<1>1. TypeInv'
  BY TypeStep DEF IInv
<1>2. LedgerInv'
  <2>1. CASE UNCHANGED vars
    <3>1. \A t \in Thread : pc[t] = "commit" => t \in lock
      BY DEF IInv, TypeInv, LocalsInv, InTransaction
    <3> QED
      BY <2>1, <3>1, QuietLedger DEF IInv, vars
  <2>2. CASE Restart
    BY <2>2, RestartLedger DEF IInv
  <2>3. ASSUME NEW t \in Thread,
               \/ Receive(t) \/ ReceiveSnapshot(t) \/ Prepare(t) \/ Transact(t)
               \/ Publish(t) \/ Fail(t)
        PROVE  LedgerInv'
    BY <2>3, PrepareLedger, PublishLedger, EndedLedger, LockLedger, ReadLedger, CommitLedger
       DEF Transact, IInv
  <2> QED
    BY <2>1, <2>2, <2>3 DEF Next
<1>3. ServedInv'
  <2>1. CASE UNCHANGED vars
    <3>1. UNCHANGED <<log, entities, outbox, history, known, acked, receipt>>
      BY <2>1 DEF vars
    <3>2. \A t \in Thread : receipt'[t] # <<>> => receipt'[t].record \in Rows(log)
      BY <3>1, Zenon DEF IInv, ServedInv, HistoryIsCommitted
    <3> QED
      BY <3>1, <3>2, QuietServed, Zenon DEF IInv
  <2>2. CASE Restart
    BY <2>2, RestartServed DEF IInv
  <2>3. ASSUME NEW t \in Thread,
               \/ Receive(t) \/ ReceiveSnapshot(t) \/ Prepare(t) \/ Transact(t)
               \/ Publish(t) \/ Fail(t)
        PROVE  ServedInv'
    BY <2>3, QuietStepServed, ReturnExistingServed, CommitServed, RecordCommandServed,
       RespondServed DEF Transact, Publish, IInv
  <2> QED
    BY <2>1, <2>2, <2>3 DEF Next
<1>4. ImagesInv'
  BY ImagesStep DEF IInv
<1> QED
  BY <1>1, <1>2, <1>3, <1>4 DEF IInv

LEMMA Invariance == Spec => []IInv
<1>1. Init => ImagesInv
  BY DEF Init, ImagesInv, WasReached, StateAfter
<1>2. Init => IInv
  BY <1>1, InitType, InitSafe DEF IInv
<1> QED
  BY <1>2, Inductive, PTL DEF Spec

\* The durable ledger replays record by record and ends in the durable
\* projection (the transaction of _execute_once, postgres_repository.py).
THEOREM LedgerAlwaysReplays == Spec => []LedgerReplays
<1>1. IInv => LedgerReplays
  BY DEF IInv, LedgerInv
<1> QED
  BY <1>1, Invariance, PTL

\* No key is ever committed twice (the receipt lookup under the branch lock).
THEOREM KeysCommitOnce == Spec => []OneCommitPerKey
<1>1. IInv => OneCommitPerKey
  BY DEF IInv, LedgerInv
<1> QED
  BY <1>1, Invariance, PTL

\* The branch lock makes transactions serial (SELECT ... FOR UPDATE).
THEOREM BranchLockSerializes == Spec => []TransactionsAreSerial
<1>1. IInv => TransactionsAreSerial
  BY DEF IInv, LedgerInv
<1> QED
  BY <1>1, Invariance, PTL

\* What clients were answered, the tables derived from the ledger, and what the
\* process holds all agree with the ledger, across failures and restarts.
THEOREM AnswersStand == Spec => [](AnswersAreDurable /\ TablesAgree /\ CachesAreCommitted)
<1>1. IInv => AnswersAreDurable /\ TablesAgree /\ CachesAreCommitted
  BY DEF IInv, ServedInv, ImagesInv, CachesAreCommitted
<1> QED
  BY <1>1, Invariance, PTL

(***************************************************************************)
(* Submission implements the abstract ledger.                              *)
(***************************************************************************)
LEMMA InitRefines == Init => Ledger!Init
  BY DEF Init, Ledger!Init

\* The only step that writes the ledger is an abstract commit: it reads the
\* last projection of the ledger, under the lock.
LEMMA CommitRefines ==
    ASSUME IInv, NEW t \in Thread, Commit(t)
    PROVE  Ledger!Commit(req[t].key, req[t].op) /\ req[t].key \in Key /\ req[t].op \in Op
<1>1. req[t] \in Request
  BY DEF IInv, TypeInv, LocalsInv, InTransaction, Commit
<1>2. loaded[t].state = Ledger!Current(log)
  BY DEF IInv, LedgerInv, TransactionsAreSerial, LedgerReplays, StateAfter, Commit,
         Ledger!Current
<1>3. NewRecord(req[t], loaded[t]) = Ledger!Entry(req[t].key, req[t].op, Ledger!Current(log))
  BY <1>2 DEF NewRecord, Ledger!Entry
<1>4. Handler[req[t].op][Ledger!Current(log)] # Raises
  BY <1>2 DEF Commit, Raised
<1>5. \A i \in 1..Len(log) : log[i].key # req[t].key
  BY DEF Commit, Conflicts, Committed
<1>6. log' = Append(log, NewRecord(req[t], loaded[t])) /\ UNCHANGED acked
  BY DEF Commit
<1> QED
  BY <1>1, <1>3, <1>4, <1>5, <1>6 DEF Ledger!Commit, Request

LEMMA RespondRefines ==
    ASSUME IInv, NEW t \in Thread, Respond(t)
    PROVE  \E i \in 1..Len(log) : Ledger!Answer(i)
<1>1. receipt[t].record \in Rows(log)
  BY DEF IInv, TypeInv, LocalsInv, WithReceipt, Respond
<1> QED
  BY <1>1 DEF Rows, Respond, Ledger!Answer

\* Every other step leaves both alone.
LEMMA OthersStutter ==
    ASSUME NEW t \in Thread,
           \/ Receive(t) \/ ReceiveSnapshot(t) \/ Prepare(t) \/ LockBranch(t)
           \/ ReadProjection(t) \/ ReturnExisting(t) \/ Refuse(t) \/ Load(t) \/ Assign(t)
           \/ LookUpEvent(t) \/ RecordCommand(t) \/ Fail(t)
    PROVE  UNCHANGED <<log, acked>>
  BY DEF Receive, ReceiveSnapshot, Prepare, HasBasis, LacksBasis, SetBasis, TakeBoundary,
         WriteSnapshot, SaveSnapshot, LockBranch, ReadProjection, ReturnExisting, Refuse,
         Load, Assign, LookUpEvent, RecordCommand, Fail

\* A client of the API cannot tell submission, with its threads, caches,
\* failures and restarts, from one atomic ledger (kernel/application.py submit,
\* kernel/postgres_repository.py execute).
THEOREM Refinement == Spec => ImplementsLedger
<1>1. ASSUME IInv, [Next]_vars PROVE [Ledger!Next]_(Ledger!vars)
  <2>1. CASE UNCHANGED vars \/ Restart
    BY <2>1 DEF vars, Restart, Ledger!vars
  <2>2. ASSUME NEW t \in Thread,
               \/ Receive(t) \/ ReceiveSnapshot(t) \/ Prepare(t) \/ Transact(t)
               \/ Publish(t) \/ Fail(t)
        PROVE  [Ledger!Next]_(Ledger!vars)
    <3>1. CASE Commit(t)
      BY <1>1, <3>1, CommitRefines DEF Ledger!Next
    <3>2. CASE Respond(t)
      BY <1>1, <3>2, RespondRefines DEF Ledger!Next
    <3>3. CASE ~Commit(t) /\ ~Respond(t)
      BY <2>2, <3>3, OthersStutter DEF Transact, Publish, Ledger!vars
    <3> QED
      BY <3>1, <3>2, <3>3
  <2> QED
    BY <1>1, <2>1, <2>2 DEF Next
<1> QED
  BY <1>1, InitRefines, Invariance, PTL DEF Spec, ImplementsLedger, Ledger!Spec

(***************************************************************************)
(* What the caches hold, whoever fails, restarts or interleaves.  They are *)
(* read and written around the transaction with no lock, so a process that *)
(* was disturbed may serve anything the branch has had.  One that was not  *)
(* has at most one thread in the unlocked sections; the others are waiting *)
(* for the branch, or hold it, or are about to answer, and move nothing    *)
(* the process holds.  It is then in step with the tables whenever no      *)
(* commit is still to be published, and whoever publishes is exactly one   *)
(* row behind (Behind).  A branch none of whose processes was disturbed    *)
(* has, besides, only bases and snapshots that are points of the ledger,   *)
(* so its history replays from whichever one hydrate recovers.             *)
(***************************************************************************)

\* The steps between a commit and the end of its publication in the process.
Unpublished == {"load", "assign", "look up event", "record"}

InSync == mem = proj /\ history = log /\ memEntities = entities

\* The replay basis is a point of the history.
BaseFits ==
    base # NoBase => /\ base.offset \in 0..Len(history)
                     /\ base.state = StateAfter(history, base.offset)

\* The process lacks at most the row of the receipt that t is about to record.
Behind(t) ==
    IF receipt[t].record.key \in known
      THEN InSync
      ELSE /\ log = Append(history, receipt[t].record)
           /\ entities = memEntities \cup ({receipt[t].creates} \ {NoEntity})

\* What a thread knows that nobody disturbs.
Carries(t) ==
    /\ pc[t] \in {"set basis", "write snapshot"} => mark[t] = Len(history)
    /\ pc[t] = "save snapshot"
           => manifest[t] = [state |-> mem.state, through |-> Len(history)]
    /\ pc[t] \in Unpublished => Behind(t)
    /\ pc[t] = "assign" => loaded[t] = proj
    /\ pc[t] \in {"look up event", "record"} => mem = proj
    /\ pc[t] = "record" => receipt[t].record.key \notin known

AtMostOne ==
    \A t, u \in Thread : pc[t] \in Unlocked /\ pc[u] \in Unlocked => t = u

\* A process that was not disturbed.
Calm ==
    /\ (\A t \in Thread : pc[t] \notin Unpublished) => InSync
    /\ \A t \in Thread : Carries(t)

\* A branch none of whose processes was.
Sound == BoundariesMatch /\ BaseFits

OrderlyInv ==
    /\ disturbed => everDisturbed
    /\ ~disturbed => AtMostOne /\ Calm
    /\ ~everDisturbed => Sound

\* The actions of one thread that touch nothing the process or the tables hold
\* and enter no unlocked section, and the others.
Waits(t) ==
    \/ Receive(t) \/ ReceiveSnapshot(t) \/ HasBasis(t) \/ LockBranch(t) \/ ReadProjection(t)
    \/ Refuse(t) \/ Respond(t) \/ (Fail(t) /\ pc[t] = "respond")

Moves(t) ==
    \/ LacksBasis(t) \/ SetBasis(t) \/ TakeBoundary(t) \/ WriteSnapshot(t)
    \/ SaveSnapshot(t) \/ ReturnExisting(t) \/ Commit(t) \/ Load(t) \/ Assign(t)
    \/ LookUpEvent(t) \/ RecordCommand(t) \/ (Fail(t) /\ pc[t] # "respond")

\* Every other thread is outside the unlocked sections, before and after.
Alone(t) == \A u \in Thread \ {t} : pc[u] \notin Unlocked /\ pc'[u] \notin Unlocked

LEMMA InitOrderly == Init => OrderlyInv
<1> SUFFICES ASSUME Init PROVE OrderlyInv
  OBVIOUS
<1>1. ~disturbed /\ ~everDisturbed
  BY Zenon DEF Init
<1>2. AtMostOne /\ Calm /\ Sound
  BY NoBaseAssumption DEF Init, AtMostOne, Unlocked, Calm, Sound, BoundariesMatch, BaseFits,
     InSync, Carries, Unpublished
<1> QED
  BY <1>1, <1>2, Zenon DEF OrderlyInv

\* The last projection of the ledger is the durable one.
LEMMA LastRow ==
    ASSUME IInv
    PROVE  /\ Len(log) \in Nat
           /\ proj.state = StateAfter(log, Len(log))
           /\ proj.version = Len(log)
  BY DEF IInv, TypeInv, TypeOK, LedgerInv, LedgerReplays

\* The only unlocked thread publishes nothing yet: the process is in step.
LEMMA WasInSync ==
    ASSUME Calm, NEW t \in Thread, Alone(t), pc[t] \notin Unpublished
    PROVE  InSync
  BY DEF Calm, Alone, Unlocked, Unpublished

\* What one thread carries and what is shared make the invariant when all
\* others are outside.
LEMMA CalmAlone ==
    ASSUME NEW t \in Thread, Alone(t), pc'[t] \notin Unpublished => InSync', Carries(t)'
    PROVE  Calm'
<1>1. \A u \in Thread \ {t} : Carries(u)'
  BY DEF Carries, Unpublished, Alone, Unlocked
<1> QED
  BY <1>1 DEF Calm

\* Steps that change neither the tables nor the process.
LEMMA QuietSound ==
    ASSUME UNCHANGED <<log, snapshots, history, base>> PROVE Sound => Sound'
  BY DEF Sound, BoundariesMatch, AtBoundary, BaseFits, StateAfter

LEMMA QuietCalm ==
    ASSUME NEW t \in Thread, Alone(t),
           UNCHANGED <<log, proj, entities, snapshots, mem, history, memEntities, base>>,
           pc'[t] \notin Unpublished => InSync,
           Carries(t)'
    PROVE  Calm' /\ (Sound => Sound')
<1>1. pc'[t] \notin Unpublished => InSync'
  BY DEF InSync
<1> QED
  BY <1>1, CalmAlone, QuietSound

\* Whatever the others carry, a thread that waits leaves it as it is.
LEMMA WaitsCalm ==
    ASSUME IInv, Calm, NEW t \in Thread, Waits(t)
    PROVE  /\ pc[t] \notin Unlocked /\ pc'[t] \notin Unlocked
           /\ Calm' /\ (Sound => Sound')
<1>1. UNCHANGED <<log, proj, entities, snapshots, mem, history, known, memEntities, base>>
  BY DEF Waits, Receive, ReceiveSnapshot, HasBasis, LockBranch, ReadProjection, Refuse,
         Respond, Fail
<1>2. /\ pc[t] \notin Unlocked /\ pc'[t] \notin Unlocked
      /\ \A u \in Thread \ {t} : /\ pc'[u] = pc[u] /\ mark'[u] = mark[u]
                                 /\ manifest'[u] = manifest[u]
                                 /\ receipt'[u] = receipt[u] /\ loaded'[u] = loaded[u]
  BY DEF Waits, Receive, ReceiveSnapshot, HasBasis, LockBranch, ReadProjection, Refuse,
         Respond, Fail, Finish, Goto, Unlocked, IInv, TypeInv, TypeOK
<1>3. InSync' <=> InSync
  BY <1>1 DEF InSync
<1>4. (\A u \in Thread : pc'[u] \notin Unpublished) => InSync'
  <2>1. Unpublished \subseteq Unlocked
    BY DEF Unpublished, Unlocked
  <2> QED
    BY <1>2, <1>3, <2>1 DEF Calm
<1>5. ASSUME NEW u \in Thread PROVE Carries(u)'
  <2>1. CASE u = t
    BY <1>2, <2>1 DEF Carries, Unlocked, Unpublished
  <2>2. CASE u # t
    <3>1. Carries(u)
      BY DEF Calm
    <3>2. Behind(u)' <=> Behind(u)
      BY <1>1, <1>2, <1>3, <2>2 DEF Behind
    <3> QED
      BY <1>1, <1>2, <2>2, <3>1, <3>2 DEF Carries
  <2> QED
    BY <2>1, <2>2
<1>6. Sound => Sound'
  BY <1>1, QuietSound
<1> QED
  BY <1>2, <1>4, <1>5, <1>6 DEF Calm

LEMMA BasisCalm ==
    ASSUME IInv, Calm, NEW t \in Thread, Alone(t), LacksBasis(t) \/ TakeBoundary(t)
    PROVE  Calm' /\ (Sound => Sound')
<1>1. pc[t] \in {"find basis", "take boundary"}
  BY DEF LacksBasis, TakeBoundary
<1>2. InSync
  BY <1>1, WasInSync DEF Unpublished
<1>3. UNCHANGED <<log, proj, entities, snapshots, mem, history, memEntities, base>>
  BY DEF LacksBasis, TakeBoundary
<1>4. Carries(t)'
  BY DEF LacksBasis, TakeBoundary, Goto, Carries, Unpublished, IInv, TypeInv, TypeOK
<1> QED
  BY <1>2, <1>3, <1>4, QuietCalm

\* The basis is the point the mark was taken at, for nobody has moved on since.
LEMMA SetBasisCalm ==
    ASSUME IInv, Calm, NEW t \in Thread, Alone(t), SetBasis(t)
    PROVE  Calm' /\ (Sound => Sound')
<1>1. /\ pc[t] = "set basis" /\ pc'[t] = "take boundary"
      /\ base' = [state |-> mem.state, version |-> mem.version, offset |-> mark[t]]
      /\ UNCHANGED <<log, proj, entities, snapshots, mem, history, memEntities>>
  BY DEF SetBasis, Goto, IInv, TypeInv, TypeOK
<1>2. InSync /\ mark[t] = Len(history)
  BY <1>1, WasInSync DEF Calm, Unpublished, Carries
<1>3. /\ base'.offset = Len(history') /\ Len(history') \in Nat
      /\ base'.state = StateAfter(history', Len(history'))
  BY <1>1, <1>2, LastRow DEF InSync, StateAfter
<1>4. BaseFits'
  BY <1>3 DEF BaseFits
<1>5. Sound => Sound'
  BY <1>1, <1>4 DEF Sound, BoundariesMatch, AtBoundary, StateAfter
<1>6. Carries(t)' /\ InSync'
  BY <1>1, <1>2 DEF Carries, Unpublished, InSync
<1> QED
  BY <1>5, <1>6, CalmAlone

LEMMA WriteSnapshotCalm ==
    ASSUME IInv, Calm, NEW t \in Thread, Alone(t), WriteSnapshot(t)
    PROVE  Calm' /\ (Sound => Sound')
<1>1. /\ pc[t] = "write snapshot" /\ pc'[t] = "save snapshot"
      /\ manifest'[t] = [state |-> mem.state, through |-> mark[t]]
      /\ UNCHANGED <<log, proj, entities, snapshots, mem, history, memEntities, base>>
  BY DEF WriteSnapshot, Goto, IInv, TypeInv, TypeOK
<1>2. InSync /\ mark[t] = Len(history)
  BY <1>1, WasInSync DEF Calm, Unpublished, Carries
<1>3. Carries(t)'
  BY <1>1, <1>2 DEF Carries, Unpublished
<1> QED
  BY <1>1, <1>2, <1>3, QuietCalm

\* The snapshot that is saved is the projection at the end of the ledger.
LEMMA SaveSnapshotCalm ==
    ASSUME IInv, Calm, NEW t \in Thread, Alone(t), SaveSnapshot(t)
    PROVE  Calm' /\ (Sound => Sound')
<1> DEFINE row == [state |-> manifest[t].state, through |-> manifest[t].through,
                   version |-> mem.version]
<1>1. /\ pc[t] = "save snapshot" /\ pc'[t] \in {"idle", "lock branch"}
      /\ snapshots' \subseteq snapshots \cup {row}
      /\ UNCHANGED <<log, proj, entities, mem, history, memEntities, base>>
  BY DEF SaveSnapshot, Finish, Goto, IInv, TypeInv, TypeOK
<1>2. /\ InSync
      /\ manifest[t] = [state |-> mem.state, through |-> Len(history)]
  BY <1>1, WasInSync DEF Calm, Unpublished, Carries
<1>3. row.state = StateAfter(log, Len(log)) /\ row.through = Len(log) /\ row.version = Len(log)
  BY <1>2, LastRow DEF InSync
<1> HIDE DEF row
<1>4. Sound => Sound'
  <2> SUFFICES ASSUME Sound PROVE Sound'
    OBVIOUS
  <2>1. \A s \in snapshots \cup {row} : AtBoundary(s)
    BY <1>3, LastRow DEF Sound, BoundariesMatch, AtBoundary
  <2>2. \A s \in snapshots' : AtBoundary(s)'
    BY <1>1, <2>1 DEF AtBoundary, StateAfter
  <2> QED
    BY <1>1, <2>2 DEF Sound, BoundariesMatch, BaseFits, StateAfter
<1>5. Carries(t)' /\ InSync'
  BY <1>1, <1>2 DEF Carries, Unpublished, InSync
<1> QED
  BY <1>4, <1>5, CalmAlone

\* What was committed before is known to the process.
LEMMA ReturnExistingCalm ==
    ASSUME IInv, Calm, NEW t \in Thread, Alone(t), ReturnExisting(t)
    PROVE  Calm' /\ (Sound => Sound')
<1>1. /\ pc[t] \in {"look up receipt", "commit"} /\ pc'[t] = "load"
      /\ UNCHANGED <<log, proj, entities, snapshots, mem, history, known, memEntities, base>>
  BY DEF ReturnExisting, Goto, IInv, TypeInv, TypeOK
<1>2. PICK i \in 1..Len(log) : receipt'[t] = [record |-> log[i], creates |-> NoEntity]
  BY DEF ReturnExisting, IInv, TypeInv, TypeOK
<1>3. InSync
  BY <1>1, WasInSync DEF Unpublished
<1>4. InSync'
  BY <1>1, <1>3 DEF InSync
<1>5. log[i].key \in known
  <2>1. log[i] \in Rows(log)
    BY DEF Rows
  <2>2. Rows(history) = Rows(log)
    BY <1>3 DEF InSync
  <2>3. \A r \in Rows(history) : r.key \in known
    BY DEF IInv, ServedInv, HistoryIsCommitted
  <2> QED
    BY <2>1, <2>2, <2>3
<1>6. receipt'[t].record.key \in known'
  <2>1. receipt'[t].record = log[i]
    BY <1>2
  <2>2. known' = known
    BY <1>1
  <2> QED
    BY <1>5, <2>1, <2>2, Zenon
<1>7. Behind(t)'
  BY <1>4, <1>6, Zenon DEF Behind
<1>8. Carries(t)'
  BY <1>1, <1>7 DEF Carries
<1> QED
  BY <1>1, <1>3, <1>8, QuietCalm

\* What is committed now is not: its key is new to the ledger.
LEMMA CommitCalm ==
    ASSUME IInv, Calm, NEW t \in Thread, Alone(t), Commit(t)
    PROVE  Calm' /\ (Sound => Sound')
<1> DEFINE row == NewRecord(req[t], loaded[t])
<1>1. /\ pc[t] = "commit" /\ pc'[t] = "load"
      /\ log' = Append(log, row)
      /\ entities' = entities \cup ({Spawns[row.op]} \ {NoEntity})
      /\ receipt'[t] = [record |-> row, creates |-> Spawns[row.op]]
      /\ UNCHANGED <<snapshots, mem, history, known, memEntities, base>>
  BY DEF Commit, Goto, IInv, TypeInv, TypeOK
<1>2. row.key = req[t].key /\ ~Committed(req[t].key)
  BY DEF NewRecord, Commit, Conflicts
<1>3. log \in Seq(Record) /\ row \in Record
  BY NewRecordType DEF IInv, TypeInv, TypeOK, LocalsInv, InTransaction, Commit, Raised
<1> HIDE DEF row
<1>4. InSync
  BY <1>1, WasInSync DEF Unpublished
<1>5. row.key \notin known
  BY <1>2, <1>4 DEF IInv, ServedInv, HistoryIsCommitted, InSync, Rows, Committed
<1>6. Behind(t)'
  BY <1>1, <1>4, <1>5 DEF Behind, InSync
<1>7. Carries(t)'
  BY <1>1, <1>6 DEF Carries
<1>8. Sound => Sound'
  <2> SUFFICES ASSUME Sound PROVE Sound'
    OBVIOUS
  <2>1. /\ Len(log') = Len(log) + 1 /\ Len(log) \in Nat
        /\ \A i \in 1..Len(log) : log'[i] = log[i]
    BY <1>1, <1>3
  <2>2. \A s \in snapshots : s.through \in Nat
    BY DEF IInv, TypeInv, TypeOK, Snapshot
  <2>3. \A s \in snapshots : s.through <= Len(log) /\ s.state = StateAfter(log, s.through)
                              /\ s.version = s.through
    BY DEF Sound, BoundariesMatch, AtBoundary
  <2>4. \A s \in snapshots : StateAfter(log', s.through) = StateAfter(log, s.through)
    BY <2>1, <2>2, <2>3 DEF StateAfter
  <2>5. BoundariesMatch'
    BY <1>1, <2>1, <2>2, <2>3, <2>4 DEF BoundariesMatch, AtBoundary
  <2>6. BaseFits'
    BY <1>1 DEF Sound, BaseFits, StateAfter
  <2> QED
    BY <2>5, <2>6 DEF Sound
<1> QED
  BY <1>1, <1>7, <1>8, CalmAlone DEF Unpublished

LEMMA LoadCalm ==
    ASSUME IInv, Calm, NEW t \in Thread, Alone(t), Load(t) \/ LookUpEvent(t)
    PROVE  Calm' /\ (Sound => Sound')
<1>1. UNCHANGED <<log, proj, entities, snapshots, mem, history, known, memEntities, base>>
  BY DEF Load, LookUpEvent
<1>2. InSync' <=> InSync
  BY <1>1 DEF InSync
<1>3. CASE Load(t)
  <2>1. pc[t] = "load" /\ pc'[t] = "assign" /\ receipt' = receipt /\ loaded'[t] = proj
    BY <1>3 DEF Load, Goto, IInv, TypeInv, TypeOK
  <2>2. Behind(t)
    BY <2>1 DEF Calm, Carries, Unpublished
  <2>3. Behind(t)'
    BY <1>1, <1>2, <2>1, <2>2 DEF Behind
  <2>4. Carries(t)'
    BY <1>1, <2>1, <2>3 DEF Carries
  <2> QED
    BY <1>1, <2>1, <2>4, QuietCalm DEF Unpublished
<1>4. CASE LookUpEvent(t)
  <2>1. /\ pc[t] = "look up event" /\ receipt' = receipt
        /\ pc'[t] = IF receipt[t].record.key \in known THEN "respond" ELSE "record"
    BY <1>4 DEF LookUpEvent, Goto, IInv, TypeInv, TypeOK
  <2>2. Behind(t) /\ mem = proj
    BY <2>1 DEF Calm, Carries, Unpublished
  <2>3. Behind(t)'
    BY <1>1, <1>2, <2>1, <2>2 DEF Behind
  <2>4. Carries(t)'
    BY <1>1, <2>1, <2>2, <2>3 DEF Carries, Unpublished
  <2>5. pc'[t] \notin Unpublished => InSync
    BY <2>1, <2>2 DEF Behind, Unpublished
  <2> QED
    BY <1>1, <2>4, <2>5, QuietCalm
<1> QED
  BY <1>3, <1>4

LEMMA AssignCalm ==
    ASSUME IInv, Calm, NEW t \in Thread, Alone(t), Assign(t)
    PROVE  Calm' /\ (Sound => Sound')
<1>1. /\ pc[t] = "assign" /\ pc'[t] = "look up event" /\ mem' = loaded[t]
      /\ UNCHANGED <<log, proj, entities, snapshots, history, known, memEntities, base, receipt>>
  BY DEF Assign, Goto, IInv, TypeInv, TypeOK
<1>2. Behind(t) /\ loaded[t] = proj
  BY <1>1 DEF Calm, Carries, Unpublished
<1>3. Behind(t)'
  BY <1>1, <1>2 DEF Behind, InSync
<1>4. Carries(t)'
  BY <1>1, <1>2, <1>3 DEF Carries
<1>5. Sound => Sound'
  BY <1>1, QuietSound
<1> QED
  BY <1>1, <1>4, <1>5, CalmAlone DEF Unpublished

\* The process catches up with the row it was behind.
LEMMA RecordCommandCalm ==
    ASSUME IInv, Calm, NEW t \in Thread, Alone(t), RecordCommand(t)
    PROVE  Calm' /\ (Sound => Sound')
<1> DEFINE row == receipt[t].record
<1>1. /\ pc[t] = "record" /\ pc'[t] = "respond"
      /\ memEntities' = memEntities \cup ({receipt[t].creates} \ {NoEntity})
      /\ history' = Append(history, row)
      /\ UNCHANGED <<log, proj, entities, snapshots, mem, base>>
  BY DEF RecordCommand, Goto, IInv, TypeInv, TypeOK
<1>2. Behind(t) /\ mem = proj /\ row.key \notin known
  BY <1>1 DEF Calm, Carries, Unpublished
<1>3. InSync'
  BY <1>1, <1>2 DEF Behind, InSync
<1>4. history \in Seq(Record) /\ row \in Record
  BY <1>1 DEF IInv, TypeInv, TypeOK, LocalsInv, WithReceipt, Receipt
<1> HIDE DEF row
<1>5. Sound => Sound'
  <2> SUFFICES ASSUME Sound PROVE Sound'
    OBVIOUS
  <2>1. BoundariesMatch'
    BY <1>1 DEF Sound, BoundariesMatch, AtBoundary, StateAfter
  <2>2. /\ Len(history') = Len(history) + 1 /\ Len(history) \in Nat
        /\ \A i \in 1..Len(history) : history'[i] = history[i]
    BY <1>1, <1>4
  <2>3. BaseFits'
    BY <1>1, <2>2 DEF Sound, BaseFits, StateAfter
  <2> QED
    BY <2>1, <2>3 DEF Sound
<1>6. Carries(t)'
  BY <1>1 DEF Carries, Unpublished
<1> QED
  BY <1>3, <1>5, <1>6, CalmAlone

\* A thread that fails after a commit the process knows of leaves it in step.
LEMMA FailCalm ==
    ASSUME IInv, Calm, NEW t \in Thread, Alone(t), Fail(t), ~CutsOff(t, "idle"),
           pc[t] # "respond"
    PROVE  Calm' /\ (Sound => Sound')
<1>1. /\ pc[t] \in {"save snapshot", "load"} /\ pc'[t] = "idle"
      /\ UNCHANGED <<log, proj, entities, snapshots, mem, history, memEntities, base>>
  BY DEF Fail, Finish, Goto, IInv, TypeInv, TypeOK
<1>2. InSync
  <2>1. CASE pc[t] = "save snapshot"
    BY <2>1, WasInSync DEF Unpublished
  <2>2. CASE pc[t] = "load"
    <3>1. Behind(t) /\ receipt[t].record.key \in known
      BY <2>2 DEF Calm, Carries, Unpublished, CutsOff
    <3> QED
      BY <3>1 DEF Behind
  <2> QED
    BY <1>1, <2>1, <2>2
<1>3. Carries(t)'
  BY <1>1 DEF Carries, Unpublished
<1> QED
  BY <1>1, <1>2, <1>3, QuietCalm

\* hydrate chooses a point of the ledger: a snapshot or its end.
LEMMA RestartCalm ==
    ASSUME IInv, Restart PROVE AtMostOne' /\ Calm' /\ (Sound => Sound')
<1>1. /\ UNCHANGED <<log, proj, entities, snapshots>>
      /\ mem' = proj /\ history' = log /\ memEntities' = entities
      /\ base' \in Recovered
      /\ \A t \in Thread : pc'[t] = "idle"
  BY DEF Restart
<1>2. AtMostOne' /\ Calm'
  BY <1>1 DEF AtMostOne, Unlocked, Calm, InSync, Carries, Unpublished
<1>3. Sound => Sound'
  <2> SUFFICES ASSUME Sound PROVE Sound'
    OBVIOUS
  <2>1. BoundariesMatch'
    BY <1>1 DEF Sound, BoundariesMatch, AtBoundary, StateAfter
  <2>2. BaseFits'
    <3>1. CASE Newest # {}
      <4>1. PICK s \in Newest :
               base' = [state |-> s.state, version |-> s.version, offset |-> s.through]
        BY <1>1, <3>1 DEF Recovered
      <4>2. s \in Snapshot /\ s.through <= Len(log) /\ s.state = StateAfter(log, s.through)
        BY DEF Newest, Sound, BoundariesMatch, AtBoundary, IInv, TypeInv, TypeOK
      <4> QED
        BY <1>1, <4>1, <4>2, LastRow DEF BaseFits, StateAfter, Snapshot
    <3>2. CASE Newest = {}
      <4>1. base' \in {NoBase,
               [state |-> proj.state, version |-> proj.version, offset |-> Len(log)]}
        BY <1>1, <3>2 DEF Recovered
      <4> QED
        BY <1>1, <4>1, LastRow DEF BaseFits, StateAfter
    <3> QED
      BY <3>1, <3>2
  <2> QED
    BY <2>1, <2>2 DEF Sound
<1> QED
  BY <1>2, <1>3

\* A thread that moves goes from or to an unlocked section, and in a process that
\* stays undisturbed nobody else is in one.
LEMMA MovesAlone ==
    ASSUME TypeInv, AtMostOne, NEW t \in Thread, Moves(t), ~disturbed'
    PROVE  Alone(t) /\ AtMostOne' /\ (Fail(t) => ~CutsOff(t, "idle"))
<1>1. PICK step \in Steps : Goto(t, step) /\ (pc[t] \in Unlocked \/ step \in Unlocked)
                            /\ (Fail(t) => step = "idle")
  BY DEF Moves, LacksBasis, SetBasis, TakeBoundary, WriteSnapshot, SaveSnapshot,
         ReturnExisting, Commit, Load, Assign, LookUpEvent, RecordCommand, Fail, Finish,
         Steps, Unlocked
<1>2. pc'[t] = step /\ \A u \in Thread \ {t} : pc'[u] = pc[u]
  BY <1>1 DEF Goto, TypeInv, TypeOK
<1>3. /\ step \in Unlocked => \A u \in Thread \ {t} : pc[u] \notin Unlocked
      /\ ~CutsOff(t, step)
  BY <1>1 DEF Goto
<1>4. \A u \in Thread \ {t} : pc[u] \notin Unlocked
  BY <1>1, <1>3 DEF AtMostOne
<1> QED
  BY <1>1, <1>2, <1>3, <1>4 DEF Alone, AtMostOne

\* Once disturbed, a process stays so, and the branch remembers it.
LEMMA DisturbedStays ==
    ASSUME TypeInv, NEW t \in Thread, Waits(t) \/ Moves(t)
    PROVE  (disturbed => disturbed') /\ (everDisturbed' <=> (everDisturbed \/ disturbed'))
<1>1. \E step \in Steps : Goto(t, step)
  BY DEF Waits, Moves, Receive, ReceiveSnapshot, HasBasis, LockBranch, ReadProjection, Refuse,
         Respond, LacksBasis, SetBasis, TakeBoundary, WriteSnapshot, SaveSnapshot,
         ReturnExisting, Commit, Load, Assign, LookUpEvent, RecordCommand, Fail, Finish, Steps
<1> QED
  BY <1>1, Zenon DEF Goto

LEMMA ThreadOrderly ==
    ASSUME IInv, OrderlyInv, NEW t \in Thread, Waits(t) \/ Moves(t)
    PROVE  OrderlyInv'
<1>1. /\ disturbed => disturbed'
      /\ everDisturbed' <=> (everDisturbed \/ disturbed')
      /\ disturbed => everDisturbed
  BY DisturbedStays DEF IInv, OrderlyInv
<1>2. ASSUME ~disturbed' PROVE AtMostOne' /\ Calm' /\ (Sound => Sound')
  <2>1. AtMostOne /\ Calm
    BY <1>1, <1>2 DEF OrderlyInv
  <2>2. CASE Waits(t)
    <3>1. \A u \in Thread \ {t} : pc'[u] = pc[u]
      BY <2>2 DEF Waits, Receive, ReceiveSnapshot, HasBasis, LockBranch, ReadProjection,
         Refuse, Respond, Fail, Finish, Goto, IInv, TypeInv, TypeOK
    <3>2. pc'[t] \notin Unlocked /\ Calm' /\ (Sound => Sound')
      BY <2>1, <2>2, WaitsCalm
    <3>3. AtMostOne'
      BY <2>1, <3>1, <3>2 DEF AtMostOne
    <3> QED
      BY <3>2, <3>3
  <2>3. CASE Moves(t)
    <3>1. Alone(t) /\ AtMostOne' /\ (Fail(t) => ~CutsOff(t, "idle"))
      BY <1>2, <2>1, <2>3, MovesAlone DEF IInv
    <3> QED
      BY <2>1, <2>3, <3>1, BasisCalm, SetBasisCalm, WriteSnapshotCalm, SaveSnapshotCalm,
         ReturnExistingCalm, CommitCalm, LoadCalm, AssignCalm, RecordCommandCalm, FailCalm
         DEF Moves
  <2> QED
    BY <2>2, <2>3
<1>3. ~everDisturbed' => Sound'
  BY <1>1, <1>2 DEF OrderlyInv
<1> QED
  BY <1>1, <1>2, <1>3 DEF OrderlyInv

LEMMA OrderlyStep == ASSUME IInv, OrderlyInv, [Next]_vars PROVE OrderlyInv'
<1>1. CASE UNCHANGED vars
  BY <1>1 DEF vars, OrderlyInv, AtMostOne, Calm, Sound, BoundariesMatch, AtBoundary, BaseFits,
              StateAfter, InSync, Carries, Behind
<1>2. CASE Restart
  <2>1. ~disturbed' /\ (everDisturbed' <=> everDisturbed)
    BY <1>2, Zenon DEF Restart
  <2> QED
    BY <1>2, <2>1, RestartCalm DEF OrderlyInv
<1>3. ASSUME NEW t \in Thread,
             \/ Receive(t) \/ ReceiveSnapshot(t) \/ Prepare(t) \/ Transact(t)
             \/ Publish(t) \/ Fail(t)
      PROVE  Waits(t) \/ Moves(t)
  BY <1>3 DEF Prepare, Transact, Publish, Waits, Moves
<1> QED
  BY <1>1, <1>2, <1>3, ThreadOrderly DEF Next

\* A history that is the ledger replays from any point of it.
LEMMA OrderlyVerifies ==
    ASSUME IInv, OrderlyInv
    PROVE  CachesAreCurrent /\ ReplayVerifies /\ SnapshotsMatchBoundary
<1>1. ASSUME Quiescent, ~disturbed PROVE InSync
  BY <1>1 DEF Quiescent, OrderlyInv, Calm, Unpublished
<1>2. CachesAreCurrent
  BY <1>1 DEF CachesAreCurrent, InSync
<1>3. ReplayVerifies
  <2> SUFFICES ASSUME Quiescent, base # NoBase, ~everDisturbed
               PROVE  /\ Replays(base.state, history, base.offset)
                      /\ mem.state = IF Len(history) > base.offset
                                       THEN history[Len(history)].after ELSE base.state
    BY DEF ReplayVerifies
  <2>0. InSync /\ Sound
    BY <1>1 DEF OrderlyInv
  <2>1. /\ history = log /\ mem = proj /\ Len(log) \in Nat
        /\ base.offset \in 0..Len(log) /\ base.state = StateAfter(log, base.offset)
    BY <2>0, LastRow DEF InSync, Sound, BaseFits
  <2>2. \A i \in 1..Len(log) :
           log[i].after = Apply[log[i].delta][IF i = 1 THEN InitProjection ELSE log[i - 1].after]
    BY DEF IInv, LedgerInv, LedgerReplays, Replays
  <2>3. Replays(base.state, history, base.offset)
    BY <2>1, <2>2 DEF Replays, StateAfter
  <2>4. proj.state = StateAfter(log, Len(log))
    BY LastRow
  <2> QED
    BY <2>1, <2>3, <2>4 DEF StateAfter
<1>4. SnapshotsMatchBoundary
  BY DEF SnapshotsMatchBoundary, OrderlyInv, Sound, IInv, ImagesInv
<1> QED
  BY <1>2, <1>3, <1>4

\* The invariant of overlapping requests.
LEMMA OrderlyInvariance == Spec => [](IInv /\ OrderlyInv)
<1>1. Init => OrderlyInv
  BY InitOrderly
<1>2. IInv /\ OrderlyInv /\ [Next]_vars => OrderlyInv'
  BY OrderlyStep
<1> QED
  BY <1>1, <1>2, Invariance, PTL DEF Spec

\* Whenever a process is idle and no two of its requests have met in the unlocked
\* sections, nor one failed between a commit and its caches, since it was started,
\* its caches are the tables (what submit, kernel/application.py:348-388, assigns
\* and records, and hydrate restores); other requests may have run into each
\* other everywhere else, and earlier processes may have been disturbed.
THEOREM CachesStayCurrent == Spec => []CachesAreCurrent
<1>1. IInv /\ OrderlyInv => CachesAreCurrent
  BY OrderlyVerifies
<1> QED
  BY <1>1, OrderlyInvariance, PTL

\* If no process of the branch was so disturbed, the recorded history also
\* replays from the basis there is, record by record, and ends in the cached
\* projection, after any number of restarts and whichever snapshot they recovered
\* (the replay route; hydrate's choice of a basis,
\* kernel/postgres_control_plane.py).
THEOREM ReplayAlwaysVerifies == Spec => []ReplayVerifies
<1>1. IInv /\ OrderlyInv => ReplayVerifies
  BY OrderlyVerifies
<1> QED
  BY <1>1, OrderlyInvariance, PTL

\* Then every stored snapshot, of a basis or asked for by a client, is the
\* projection at its command boundary (create_branch_snapshot,
\* kernel/snapshots.py:35-76; persist_snapshot); and however disturbed, a
\* snapshot never holds a projection the branch has not had.
THEOREM SnapshotsAlwaysMatch == Spec => []SnapshotsMatchBoundary
<1>1. IInv /\ OrderlyInv => SnapshotsMatchBoundary
  BY OrderlyVerifies
<1> QED
  BY <1>1, OrderlyInvariance, PTL
==============================================================================
