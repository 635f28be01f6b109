----------------------------- MODULE AccountsProofs -----------------------------
(***************************************************************************)
(* No session outlives the password or the account it was opened under:    *)
(* a session is opened in the era the account is in, and whatever begins   *)
(* another era closes every session of the account with it.                *)
(*                                                                         *)
(* And failed logins lock an account when they should, while requests come *)
(* one at a time: the count in the row is that of the wrong passwords, and *)
(* whoever is about to write it has read the row as it is.                 *)
(***************************************************************************)
EXTENDS Accounts, TLAPS

\* A request that is under way is about an account, and whoever has read the
\* credentials holds them.
Holding == {"account", "verify", "record failure", "verify current"}

LocalsInv ==
    \A t \in Thread :
        /\ pc[t] # "idle" => job[t] \in Job
        /\ pc[t] \in Holding => seen[t] \in Credentials

TypeInv == TypeOK /\ LocalsInv

\* An open session is of the era its account is in, whether or not it can be used.
OpenIsCurrent ==
    \A k \in Token :
        session[k] # None /\ session[k].open => session[k].era = era[session[k].user]

IInv == TypeInv /\ OpenIsCurrent

(***************************************************************************)
(* Types.                                                                  *)
(***************************************************************************)
LocalsOK ==
    /\ pc \in [Thread -> Steps]
    /\ job \in [Thread -> Job \cup {None}]
    /\ seen \in [Thread -> Credentials \cup {None}]
    /\ LocalsInv

AccountsOK == account \in [User -> Account]
SessionsOK == session \in [Token -> UserSession \cup {None}]
CountsOK == requests \in Nat /\ orderly \in BOOLEAN
HistoryOK == guesses \in [User -> Nat] /\ era \in [User -> Nat]

LEMMA TypesSplit == TypeInv <=> LocalsOK /\ AccountsOK /\ SessionsOK /\ CountsOK /\ HistoryOK
  BY DEF TypeInv, TypeOK, LocalsOK, AccountsOK, SessionsOK, CountsOK, HistoryOK

LEMMA Successor == ASSUME NEW n \in Nat PROVE n + 1 \in Nat
  OBVIOUS

\* A thread that is done holds nothing.
LEMMA LeaveTyped ==
    ASSUME LocalsOK, NEW t \in Thread, Leave(t)
    PROVE  LocalsOK'
<1>1. "idle" \in Steps
  BY DEF Steps
<1>2. /\ pc' \in [Thread -> Steps]
      /\ job' \in [Thread -> Job \cup {None}]
      /\ seen' \in [Thread -> Credentials \cup {None}]
  BY <1>1 DEF LocalsOK, Leave, Goto
<1>3. LocalsInv'
  BY DEF LocalsOK, LocalsInv, Holding, Leave, Goto
<1>4. QED BY <1>2, <1>3 DEF LocalsOK

\* A thread goes on with its request, and holds credentials where it needs them.
LEMMA GotoTyped ==
    ASSUME LocalsOK, NEW t \in Thread, pc[t] # "idle", NEW step \in Steps, Goto(t, step),
           job' = job, NEW c \in Credentials \cup {None}, seen' = [seen EXCEPT ![t] = c],
           step \in Holding => c \in Credentials
    PROVE  LocalsOK'
<1>1. /\ pc' \in [Thread -> Steps]
      /\ job' \in [Thread -> Job \cup {None}]
      /\ seen' \in [Thread -> Credentials \cup {None}]
  BY DEF LocalsOK, Goto
<1>2. LocalsInv'
  BY DEF LocalsOK, LocalsInv, Holding, Goto
<1>3. QED BY <1>1, <1>2 DEF LocalsOK

\* The same, with what it holds already.
LEMMA GoOnTyped ==
    ASSUME LocalsOK, NEW t \in Thread, pc[t] # "idle", NEW step \in Steps, Goto(t, step),
           job' = job, seen' = seen,
           step \in Holding => seen[t] \in Credentials
    PROVE  LocalsOK'
<1>1. seen[t] \in Credentials \cup {None} /\ seen' = [seen EXCEPT ![t] = seen[t]]
  BY DEF LocalsOK
<1>2. QED BY <1>1, GotoTyped

LEMMA AdmittedTyped ==
    ASSUME CountsOK, NEW t \in Thread, Admitted(t)
    PROVE  CountsOK'
<1>1. requests' \in Nat
  <2>1. requests' = requests + 1
    BY Zenon DEF Admitted
  <2>2. requests + 1 \in Nat
    BY Successor, Zenon DEF CountsOK
  <2>3. QED BY <2>1, <2>2, Zenon
<1>2. orderly' \in BOOLEAN
  BY Zenon DEF CountsOK, Admitted
<1>3. QED BY <1>1, <1>2 DEF CountsOK

LEMMA ClosedSession ==
    ASSUME NEW s \in UserSession
    PROVE  /\ [s EXCEPT !.open = FALSE] \in UserSession
           /\ ~[s EXCEPT !.open = FALSE].open
  BY Zenon DEF UserSession

LEMMA RevokedTyped ==
    ASSUME SessionsOK, NEW u
    PROVE  Revoked(u) \in [Token -> UserSession \cup {None}]
<1>1. \A k \in Token : session[k] # None => [session[k] EXCEPT !.open = FALSE] \in UserSession
  BY ClosedSession, Zenon DEF SessionsOK
<1>2. \A k \in Token : session[k] \in UserSession \cup {None}
  BY Zenon DEF SessionsOK
<1>3. QED BY <1>1, <1>2, Zenon DEF Revoked

LEMMA AccountTyped ==
    ASSUME AccountsOK, NEW u \in User, NEW a \in Account, account' = [account EXCEPT ![u] = a]
    PROVE  AccountsOK'
  BY DEF AccountsOK

\* What a user's credentials say.
LEMMA CredentialsRead ==
    ASSUME AccountsOK, NEW u \in User
    PROVE  [active |-> FALSE, failed |-> account[u].failed, lock |-> account[u].lock]
             \in Credentials
  BY DEF AccountsOK, Account, Credentials

LEMMA JobsUser ==
    ASSUME LocalsOK, NEW t \in Thread, pc[t] # "idle"
    PROVE  job[t] \in Job /\ job[t].user \in User
  BY DEF LocalsOK, LocalsInv, Holding, Job

(***************************************************************************)
(* Eras.                                                                   *)
(***************************************************************************)

\* Steps that leave sessions and eras alone.
LEMMA StillCurrent ==
    ASSUME OpenIsCurrent, session' = session, era' = era
    PROVE  OpenIsCurrent'
  BY DEF OpenIsCurrent

\* A new era begins with no open session.
LEMMA RevokedCurrent ==
    ASSUME OpenIsCurrent, SessionsOK, HistoryOK, NEW u \in User, session' = Revoked(u),
           era' = [era EXCEPT ![u] = era[u] + 1]
    PROVE  OpenIsCurrent'
<1> SUFFICES ASSUME NEW k \in Token, session'[k] # None, session'[k].open
             PROVE  session'[k].era = era'[session'[k].user]
  BY DEF OpenIsCurrent
<1>1. CASE session[k] # None /\ session[k].user = u
  <2>1. session'[k] = [session[k] EXCEPT !.open = FALSE]
    BY <1>1, Zenon DEF Revoked
  <2>2. session[k] \in UserSession
    BY <1>1, Zenon DEF SessionsOK
  <2>3. ~session'[k].open
    BY <2>1, <2>2, ClosedSession, Zenon
  <2>4. QED BY <2>3
<1>2. CASE session[k] = None \/ session[k].user # u
  <2>1. session'[k] = session[k]
    BY <1>2, Zenon DEF Revoked
  <2>2. session[k] \in UserSession
    BY <2>1, Zenon DEF SessionsOK
  <2>3. session[k].era = era[session[k].user]
    BY <2>1, Zenon DEF OpenIsCurrent
  <2>4. session[k].user \in User /\ session[k].user # u
    BY <1>2, <2>1, <2>2, Zenon DEF UserSession
  <2>5. era'[session[k].user] = era[session[k].user]
    BY <2>4, Zenon DEF HistoryOK
  <2>6. QED BY <2>1, <2>3, <2>5, Zenon
<1>3. QED BY <1>1, <1>2

LEMMA NextEraTyped ==
    ASSUME HistoryOK, NEW u \in User, era' = [era EXCEPT ![u] = era[u] + 1]
    PROVE  era' \in [User -> Nat]
<1>1. era[u] + 1 \in Nat
  BY Successor, Zenon DEF HistoryOK
<1>2. QED BY <1>1, Zenon DEF HistoryOK

LEMMA ForgivenTyped ==
    ASSUME HistoryOK, NEW u \in User, guesses' = [guesses EXCEPT ![u] = 0]
    PROVE  guesses' \in [User -> Nat]
<1>1. 0 \in Nat
  OBVIOUS
<1>2. QED BY <1>1, Zenon DEF HistoryOK

LEMMA ClosedCurrent ==
    ASSUME OpenIsCurrent, SessionsOK, NEW k \in Token, session[k] # None,
           session' = [session EXCEPT ![k] = [session[k] EXCEPT !.open = FALSE]], era' = era
    PROVE  SessionsOK' /\ OpenIsCurrent'
<1>1. session[k] \in UserSession
  BY Zenon DEF SessionsOK
<1>2. [session[k] EXCEPT !.open = FALSE] \in UserSession /\ ~[session[k] EXCEPT !.open = FALSE].open
  BY <1>1, ClosedSession, Zenon
<1>3. SessionsOK'
  BY <1>2, Zenon DEF SessionsOK
<1>4. \A j \in Token : (j = k /\ ~session'[j].open) \/ session'[j] = session[j]
  BY <1>2, Zenon DEF SessionsOK
<1>5. OpenIsCurrent'
  BY <1>4, Zenon DEF OpenIsCurrent
<1>6. QED BY <1>3, <1>5

(***************************************************************************)
(* The first step: accounts are as create_user makes them, and no session  *)
(* is open.                                                                *)
(***************************************************************************)
LEMMA InitInv == Init => IInv
<1> SUFFICES ASSUME Init PROVE IInv
  OBVIOUS
<1>1. Fresh \in Account
  BY DEF Fresh, Account, Lock
<1>2. LocalsOK
  BY DEF Init, LocalsOK, LocalsInv, Holding, Steps
<1>3. AccountsOK
  BY <1>1 DEF Init, AccountsOK
<1>4. SessionsOK /\ CountsOK /\ HistoryOK
  BY DEF Init, SessionsOK, CountsOK, HistoryOK
<1>5. OpenIsCurrent
  BY DEF Init, OpenIsCurrent
<1>6. QED BY <1>2, <1>3, <1>4, <1>5, TypesSplit DEF IInv

(***************************************************************************)
(* The steps.                                                              *)
(***************************************************************************)

\* Steps that leave accounts, sessions and eras alone.
LEMMA LocalStep ==
    ASSUME IInv, LocalsOK', CountsOK', guesses' \in [User -> Nat], UNCHANGED <<tables, era>>
    PROVE  IInv'
<1>1. AccountsOK' /\ SessionsOK'
  BY TypesSplit DEF IInv, AccountsOK, SessionsOK, tables
<1>2. HistoryOK'
  BY TypesSplit DEF IInv, HistoryOK
<1>3. OpenIsCurrent'
  BY StillCurrent DEF IInv, tables
<1>4. TypeInv'
  BY <1>1, <1>2 DEF TypeInv, TypeOK, LocalsOK, AccountsOK, SessionsOK, CountsOK, HistoryOK
<1>5. QED BY <1>3, <1>4 DEF IInv

LEMMA SessionStep ==
    ASSUME IInv, LocalsOK', CountsOK', UNCHANGED <<account, guesses, era>>, SessionsOK',
           OpenIsCurrent'
    PROVE  IInv'
<1>1. AccountsOK' /\ HistoryOK'
  BY TypesSplit DEF IInv, AccountsOK, HistoryOK
<1>2. TypeInv'
  BY <1>1 DEF TypeInv, TypeOK, LocalsOK, AccountsOK, SessionsOK, CountsOK, HistoryOK
<1>3. QED BY <1>2 DEF IInv

LEMMA AccountStep ==
    ASSUME IInv, LocalsOK', CountsOK', AccountsOK', guesses' \in [User -> Nat],
           UNCHANGED <<session, era>>
    PROVE  IInv'
<1>1. SessionsOK' /\ HistoryOK'
  BY TypesSplit DEF IInv, SessionsOK, HistoryOK
<1>2. OpenIsCurrent'
  BY StillCurrent DEF IInv
<1>3. TypeInv'
  BY <1>1 DEF TypeInv, TypeOK, LocalsOK, AccountsOK, SessionsOK, CountsOK, HistoryOK
<1>4. QED BY <1>2, <1>3 DEF IInv

\* Steps that begin another era of an account.
LEMMA EraStep ==
    ASSUME IInv, LocalsOK', CountsOK', AccountsOK', guesses' \in [User -> Nat], NEW u \in User,
           session' = Revoked(u), era' = [era EXCEPT ![u] = era[u] + 1]
    PROVE  IInv'
<1>1. SessionsOK /\ HistoryOK /\ OpenIsCurrent
  BY TypesSplit DEF IInv
<1>2. SessionsOK'
  BY <1>1, RevokedTyped DEF SessionsOK
<1>3. HistoryOK'
  BY <1>1, NextEraTyped DEF HistoryOK
<1>4. OpenIsCurrent'
  BY <1>1, RevokedCurrent
<1>5. TypeInv'
  BY <1>2, <1>3 DEF TypeInv, TypeOK, LocalsOK, AccountsOK, SessionsOK, CountsOK, HistoryOK
<1>6. QED BY <1>4, <1>5 DEF IInv

LEMMA Parts ==
    ASSUME IInv
    PROVE  /\ LocalsOK /\ AccountsOK /\ SessionsOK /\ CountsOK /\ HistoryOK
           /\ guesses \in [User -> Nat]
  BY TypesSplit DEF IInv, HistoryOK

LEMMA CountsStay ==
    ASSUME CountsOK, UNCHANGED <<requests, orderly>>
    PROVE  CountsOK'
  BY DEF CountsOK

\* A login, and a request of somebody who is signed in.
LEMMA AskStep ==
    ASSUME IInv, NEW t \in Thread,
           \/ \E u \in User : AskLogin(t, u)
           \/ \E k \in Token : AskAct(t, k)
    PROVE  IInv'
<1>1. CASE \E u \in User : AskLogin(t, u)
  <2>1. PICK u \in User : AskLogin(t, u)
    BY <1>1
  <2> DEFINE c == [active |-> FALSE, failed |-> account[u].failed, lock |-> account[u].lock]
  <2>2. c \in Credentials
    BY Parts, CredentialsRead
  <2>3. [user |-> u, token |-> None] \in Job /\ "account" \in Steps
    BY DEF Job, Steps
  <2>4. /\ job' = [job EXCEPT ![t] = [user |-> u, token |-> None]]
        /\ seen' = [seen EXCEPT ![t] = c]
        /\ pc' = [pc EXCEPT ![t] = "account"]
        /\ UNCHANGED <<tables, guesses, era>> /\ Admitted(t)
    BY <2>1, Zenon DEF AskLogin, Goto
  <2> HIDE DEF c
  <2>5. LocalsOK'
    BY <2>2, <2>3, <2>4, Parts DEF LocalsOK, LocalsInv, Holding
  <2>6. CountsOK' /\ guesses' \in [User -> Nat]
    BY <2>4, AdmittedTyped, Parts
  <2>7. QED BY <2>4, <2>5, <2>6, LocalStep
<1>2. CASE \E k \in Token : AskAct(t, k)
  <2>1. PICK k \in Token : AskAct(t, k)
    BY <1>2
  <2>2. session[k] \in UserSession
    BY <2>1, Parts, Zenon DEF AskAct, Usable, SessionsOK
  <2>3. [user |-> session[k].user, token |-> k] \in Job /\ "act" \in Steps
    BY <2>2 DEF UserSession, Job, Steps
  <2>4. LocalsOK'
    BY <2>1, <2>3, Parts DEF AskAct, Goto, LocalsOK, LocalsInv, Holding
  <2>5. CountsOK' /\ guesses' \in [User -> Nat] /\ UNCHANGED <<tables, era>>
    BY <2>1, AdmittedTyped, Parts DEF AskAct
  <2>6. QED BY <2>4, <2>5, LocalStep
<1>3. QED BY <1>1, <1>2

\* Steps of a request that only read.
LEMMA ReadingStep ==
    ASSUME IInv, NEW t \in Thread,
           ReadAccount(t) \/ VerifyRight(t) \/ Answer(t) \/ Act(t) \/ ReadCurrent(t)
             \/ VerifyCurrent(t) \/ Refuse(t) \/ Fail(t)
    PROVE  IInv'
<1>1. UNCHANGED <<tables, requests, guesses, era>> /\ guesses' \in [User -> Nat]
  BY Parts DEF ReadAccount, VerifyRight, Answer, Act, ReadCurrent, VerifyCurrent, Refuse, Fail
<1>2. CountsOK'
  <2>1. orderly' \in BOOLEAN
    BY Parts, Zenon DEF CountsOK, ReadAccount, VerifyRight, Answer, Act, ReadCurrent,
       VerifyCurrent, Refuse, Fail
  <2>2. QED BY <1>1, <2>1, Parts DEF CountsOK
<1>3. LocalsOK'
  <2>1. LocalsOK /\ AccountsOK
    BY Parts
  <2>2. CASE ReadAccount(t)
    <3> DEFINE c == [seen[t] EXCEPT !.active = account[job[t].user].active]
               step == IF job[t].token = None THEN "verify" ELSE "verify current"
    <3>1. pc[t] = "account" /\ seen[t] \in Credentials /\ job[t].user \in User
      BY <2>1, <2>2, JobsUser DEF ReadAccount, LocalsOK, LocalsInv, Holding
    <3>2. account[job[t].user].active \in BOOLEAN
      BY <2>1, <3>1 DEF AccountsOK, Account
    <3>3. c \in Credentials
      BY <3>1, <3>2, Zenon DEF Credentials
    <3>4. \/ Leave(t)
          \/ seen' = [seen EXCEPT ![t] = c] /\ job' = job /\ Goto(t, step)
      BY <2>2, Zenon DEF ReadAccount
    <3>5. step \in Steps /\ pc[t] # "idle"
      BY <3>1 DEF Steps
    <3> HIDE DEF c, step
    <3>6. CASE Leave(t)
      BY <2>1, <3>6, LeaveTyped, Zenon
    <3>7. CASE seen' = [seen EXCEPT ![t] = c] /\ job' = job /\ Goto(t, step)
      BY <2>1, <3>3, <3>5, <3>7, GotoTyped, Zenon
    <3>8. QED BY <3>4, <3>6, <3>7, Zenon
  <2>3. CASE VerifyRight(t)
    <3>1. Leave(t) \/ (Goto(t, "record success") /\ job' = job /\ seen' = seen)
      BY <2>3, Zenon DEF VerifyRight
    <3>2. pc[t] # "idle" /\ "record success" \in Steps /\ "record success" \notin Holding
      BY <2>3 DEF VerifyRight, Steps, Holding
    <3>3. QED BY <2>1, <3>1, <3>2, LeaveTyped, GoOnTyped, Zenon
  <2>4. CASE Answer(t) \/ Act(t) \/ Refuse(t) \/ Fail(t)
    BY <2>1, <2>4, LeaveTyped DEF Answer, Act, Refuse, Fail
  <2>5. CASE ReadCurrent(t)
    <3> DEFINE u == job[t].user
               c == [active |-> FALSE, failed |-> account[u].failed, lock |-> account[u].lock]
    <3>1. pc[t] # "idle" /\ "account" \in Steps /\ u \in User
      BY <2>1, <2>5, JobsUser DEF ReadCurrent, Steps
    <3>2. c \in Credentials
      BY <2>1, <3>1, CredentialsRead
    <3>3. Leave(t) \/ (Goto(t, "account") /\ job' = job /\ seen' = [seen EXCEPT ![t] = c])
      BY <2>5, Zenon DEF ReadCurrent
    <3> HIDE DEF c
    <3>4. CASE Leave(t)
      BY <2>1, <3>4, LeaveTyped, Zenon
    <3>5. CASE Goto(t, "account") /\ job' = job /\ seen' = [seen EXCEPT ![t] = c]
      BY <2>1, <3>1, <3>2, <3>5, GotoTyped, Zenon
    <3>6. QED BY <3>3, <3>4, <3>5, Zenon
  <2>6. CASE VerifyCurrent(t)
    <3>1. pc[t] # "idle" /\ "set password" \in Steps /\ "set password" \notin Holding
      BY <2>6 DEF VerifyCurrent, Steps, Holding
    <3>2. QED BY <2>1, <2>6, <3>1, GoOnTyped, Zenon DEF VerifyCurrent
  <2>7. QED BY <2>2, <2>3, <2>4, <2>5, <2>6
<1>4. QED BY <1>1, <1>2, <1>3, LocalStep

LEMMA WrongPasswordStep ==
    ASSUME IInv, NEW t \in Thread, VerifyWrong(t)
    PROVE  IInv'
<1>1. pc[t] = "verify" /\ seen[t] \in Credentials /\ job[t].user \in User
  BY Parts, JobsUser DEF VerifyWrong, LocalsOK, LocalsInv, Holding
<1>2. \/ Leave(t) /\ guesses' = guesses
      \/ /\ guesses' = [guesses EXCEPT ![job[t].user] = guesses[job[t].user] + 1]
         /\ Goto(t, "record failure") /\ job' = job /\ seen' = seen
  BY Zenon DEF VerifyWrong
<1>3. guesses[job[t].user] + 1 \in Nat
  BY <1>1, Parts, Successor, Zenon
<1>4. guesses' \in [User -> Nat]
  BY <1>2, <1>3, Parts, Zenon
<1>5. "record failure" \in Steps
  BY DEF Steps
<1>6. LocalsOK'
  BY <1>1, <1>2, <1>5, Parts, LeaveTyped, GoOnTyped
<1>7. UNCHANGED <<tables, requests, orderly, era>>
  BY DEF VerifyWrong
<1>8. QED BY <1>4, <1>6, <1>7, Parts, CountsStay, LocalStep

LEMMA RecordFailureStep ==
    ASSUME IInv, NEW t \in Thread, RecordFailure(t)
    PROVE  IInv'
<1> DEFINE u == job[t].user
           n == Counted(seen[t])
           l == IF n >= Threshold THEN "live" ELSE "none"
           a == [account[u] EXCEPT !.failed = n, !.lock = l]
<1>1. seen[t] \in Credentials /\ u \in User
  BY Parts, JobsUser DEF RecordFailure, LocalsOK, LocalsInv, Holding
<1>2. n \in Nat
  BY <1>1, Successor DEF Counted, Credentials
<1>3. l \in Lock
  BY DEF Lock
<1>4. account[u] \in Account
  BY <1>1, Parts DEF AccountsOK
<1>5. a \in Account
  <2> HIDE DEF n, l
  <2>1. QED BY <1>2, <1>3, <1>4, Zenon DEF Account
<1>6. account' = [account EXCEPT ![u] = a] /\ Leave(t)
  BY Zenon DEF RecordFailure
<1> HIDE DEF a
<1>7. AccountsOK' /\ LocalsOK'
  BY <1>1, <1>5, <1>6, Parts, AccountTyped, LeaveTyped
<1>8. UNCHANGED <<session, requests, orderly, guesses, era>>
  BY DEF RecordFailure
<1>9. QED BY <1>7, <1>8, Parts, CountsStay, AccountStep

LEMMA RecordSuccessStep ==
    ASSUME IInv, NEW t \in Thread, RecordSuccess(t)
    PROVE  IInv'
<1> DEFINE u == job[t].user
           a == [account[u] EXCEPT !.failed = 0, !.lock = "none"]
<1>1. u \in User /\ pc[t] # "idle"
  BY Parts, JobsUser DEF RecordSuccess
<1>2. account[u] \in Account
  BY <1>1, Parts DEF AccountsOK
<1>3. 0 \in Nat /\ "none" \in Lock /\ "open" \in Steps /\ "open" \notin Holding
  BY DEF Lock, Steps, Holding
<1>4. a \in Account
  BY <1>2, <1>3, Zenon DEF Account
<1>5. /\ account' = [account EXCEPT ![u] = a]
      /\ guesses' = [guesses EXCEPT ![u] = 0]
      /\ Goto(t, "open")
      /\ UNCHANGED <<session, job, seen, requests, orderly, era>>
  BY Zenon DEF RecordSuccess
<1> HIDE DEF a
<1>6. AccountsOK' /\ guesses' \in [User -> Nat]
  BY <1>1, <1>4, <1>5, Parts, AccountTyped, ForgivenTyped
<1>7. LocalsOK'
  BY <1>1, <1>3, <1>5, Parts, GoOnTyped, Zenon
<1>8. QED BY <1>5, <1>6, <1>7, Parts, CountsStay, AccountStep

LEMMA OpenStep ==
    ASSUME IInv, NEW t \in Thread, Open(t)
    PROVE  IInv'
<1> DEFINE u == job[t].user
           s == [user |-> u, open |-> TRUE, era |-> era[u]]
<1>1. u \in User /\ pc[t] # "idle" /\ "answer" \in Steps /\ "answer" \notin Holding
  BY Parts, JobsUser DEF Open, Steps, Holding
<1>2. PICK k \in Token : session' = [session EXCEPT ![k] = s]
  BY Zenon DEF Open
<1>3. s \in UserSession
  BY <1>1, Parts DEF UserSession, HistoryOK
<1>4. SessionsOK'
  <2> HIDE DEF s
  <2>1. QED BY <1>2, <1>3, Parts DEF SessionsOK
<1>5. Goto(t, "answer") /\ UNCHANGED <<account, job, seen, requests, orderly, guesses, era>>
  BY Zenon DEF Open
<1>6. OpenIsCurrent'
  <2>1. OpenIsCurrent /\ SessionsOK
    BY Parts DEF IInv
  <2>2. \A j \in Token : session'[j] = s \/ session'[j] = session[j]
    <3> HIDE DEF s
    <3>1. QED BY <1>2, <2>1 DEF SessionsOK
  <2>3. s.era = era[s.user]
    OBVIOUS
  <2> HIDE DEF s
  <2>4. QED BY <1>5, <2>1, <2>2, <2>3, Zenon DEF OpenIsCurrent
<1>7. LocalsOK'
  BY <1>1, <1>5, Parts, GoOnTyped, Zenon
<1>8. QED BY <1>4, <1>5, <1>6, <1>7, Parts, CountsStay, SessionStep

\* set_password, of the one who is signed in or of an administrator.
LEMMA NewPasswordStep ==
    ASSUME IInv, LocalsOK', CountsOK', NEW u \in User, NEW change \in BOOLEAN,
           NewPassword(u, change)
    PROVE  IInv'
<1> DEFINE a == [account[u] EXCEPT !.change = change, !.failed = 0, !.lock = "none"]
<1>1. account[u] \in Account
  BY Parts DEF AccountsOK
<1>2. 0 \in Nat /\ "none" \in Lock
  BY DEF Lock
<1>3. a \in Account
  BY <1>1, <1>2, Zenon DEF Account
<1>4. /\ account' = [account EXCEPT ![u] = a] /\ session' = Revoked(u)
      /\ guesses' = [guesses EXCEPT ![u] = 0] /\ era' = [era EXCEPT ![u] = era[u] + 1]
  BY Zenon DEF NewPassword
<1> HIDE DEF a
<1>5. AccountsOK' /\ guesses' \in [User -> Nat]
  BY <1>3, <1>4, Parts, AccountTyped, ForgivenTyped
<1>6. QED BY <1>4, <1>5, EraStep

LEMMA SetPasswordStep ==
    ASSUME IInv, NEW t \in Thread, SetPassword(t)
    PROVE  IInv'
<1>1. job[t].user \in User /\ pc[t] # "idle" /\ "open" \in Steps /\ "open" \notin Holding
  BY Parts, JobsUser DEF SetPassword, Steps, Holding
<1>2. NewPassword(job[t].user, FALSE) /\ Goto(t, "open") /\ UNCHANGED <<job, seen, requests, orderly>>
  BY Zenon DEF SetPassword
<1>3. LocalsOK' /\ CountsOK'
  <2>1. LocalsOK'
    BY <1>1, <1>2, Parts, GoOnTyped, Zenon
  <2>2. QED BY <1>2, <2>1, Parts, CountsStay
<1>4. QED BY <1>1, <1>2, <1>3, NewPasswordStep

LEMMA AdministersTyped ==
    ASSUME IInv, NEW t \in Thread, Administers(t)
    PROVE  LocalsOK' /\ CountsOK'
<1>1. Admitted(t) /\ pc' = pc /\ job' = job /\ seen' = seen
  BY DEF Administers, locals
<1>2. CountsOK'
  BY <1>1, Parts, AdmittedTyped
<1>3. LocalsOK'
  BY <1>1, Parts DEF LocalsOK, LocalsInv, Holding
<1>4. QED BY <1>2, <1>3

LEMMA SetActiveStep ==
    ASSUME IInv, NEW t \in Thread, NEW u \in User, NEW active \in BOOLEAN, SetActive(t, u, active)
    PROVE  IInv'
<1> DEFINE a == [account[u] EXCEPT !.active = active]
<1>1. account[u] \in Account
  BY Parts DEF AccountsOK
<1>2. a \in Account
  BY <1>1, Zenon DEF Account
<1>3. account' = [account EXCEPT ![u] = a] /\ guesses' = guesses /\ Administers(t)
  BY Zenon DEF SetActive
<1>4. \/ active /\ session' = session /\ era' = era
      \/ session' = Revoked(u) /\ era' = [era EXCEPT ![u] = era[u] + 1]
  BY Zenon DEF SetActive
<1> HIDE DEF a
<1>5. AccountsOK' /\ guesses' \in [User -> Nat] /\ LocalsOK' /\ CountsOK'
  BY <1>2, <1>3, Parts, AccountTyped, AdministersTyped
<1>6. CASE session' = session /\ era' = era
  BY <1>5, <1>6, AccountStep
<1>7. CASE session' = Revoked(u) /\ era' = [era EXCEPT ![u] = era[u] + 1]
  BY <1>5, <1>7, EraStep
<1>8. QED BY <1>4, <1>6, <1>7

LEMMA DeleteUserStep ==
    ASSUME IInv, NEW t \in Thread, NEW u \in User, DeleteUser(t, u)
    PROVE  IInv'
<1> DEFINE a == [account[u] EXCEPT !.active = FALSE, !.deleted = TRUE]
<1>1. account[u] \in Account
  BY Parts DEF AccountsOK
<1>2. a \in Account
  BY <1>1, Zenon DEF Account
<1>3. /\ account' = [account EXCEPT ![u] = a] /\ guesses' = guesses /\ Administers(t)
      /\ session' = Revoked(u) /\ era' = [era EXCEPT ![u] = era[u] + 1]
  BY Zenon DEF DeleteUser
<1> HIDE DEF a
<1>4. AccountsOK' /\ guesses' \in [User -> Nat] /\ LocalsOK' /\ CountsOK'
  BY <1>2, <1>3, Parts, AccountTyped, AdministersTyped
<1>5. QED BY <1>3, <1>4, EraStep

\* A request of an administrator.
LEMMA AdministerStep ==
    ASSUME IInv, NEW t \in Thread, NEW u \in User,
           \/ ResetPassword(t, u) \/ DeleteUser(t, u)
           \/ \E active \in BOOLEAN : SetActive(t, u, active)
    PROVE  IInv'
<1>1. CASE ResetPassword(t, u)
  BY <1>1, AdministersTyped, NewPasswordStep DEF ResetPassword
<1>2. CASE DeleteUser(t, u)
  BY <1>2, DeleteUserStep
<1>3. CASE \E active \in BOOLEAN : SetActive(t, u, active)
  BY <1>3, SetActiveStep
<1>4. QED BY <1>1, <1>2, <1>3

\* The time of a lock passes for the row and for the copies of it.
LEMMA LapseStep ==
    ASSUME IInv, NEW u \in User, Lapse(u)
    PROVE  IInv'
<1> DEFINE a == [account[u] EXCEPT !.lock = "lapsed"]
           c(t) == [seen[t] EXCEPT !.lock = "lapsed"]
<1>1. account[u] \in Account /\ "lapsed" \in Lock
  BY Parts DEF AccountsOK, Lock
<1>2. a \in Account
  BY <1>1, Zenon DEF Account
<1>3. account' = [account EXCEPT ![u] = a] /\ guesses' = [guesses EXCEPT ![u] = 0]
  BY Zenon DEF Lapse
<1>4. AccountsOK' /\ guesses' \in [User -> Nat]
  <2> HIDE DEF a
  <2>1. QED BY <1>2, <1>3, Parts, AccountTyped, ForgivenTyped
<1>5. \A t \in Thread : seen[t] \in Credentials => c(t) \in Credentials
  BY <1>1, Zenon DEF Credentials
<1>6. seen' = [t \in Thread |-> IF seen[t] # None /\ job[t].user = u /\ seen[t].lock = "live"
                                  THEN c(t) ELSE seen[t]]
  BY Zenon DEF Lapse
<1>7. UNCHANGED <<session, pc, job, requests, orderly, era>>
  BY DEF Lapse
<1>8. LocalsOK'
  <2> HIDE DEF c
  <2>1. LocalsOK
    BY Parts
  <2>2. \A t \in Thread : \/ seen'[t] = seen[t]
                          \/ seen'[t] = c(t) /\ seen[t] \in Credentials
    BY <1>6, <2>1, Zenon DEF LocalsOK
  <2>3. \A t \in Thread : /\ seen'[t] \in Credentials \cup {None}
                          /\ seen[t] \in Credentials => seen'[t] \in Credentials
    BY <1>5, <2>1, <2>2, Zenon DEF LocalsOK
  <2>4. seen' \in [Thread -> Credentials \cup {None}]
    BY <1>6, <2>3
  <2>5. LocalsInv'
    BY <1>7, <2>1, <2>3, Zenon DEF LocalsOK, LocalsInv, Holding
  <2>6. QED BY <1>7, <2>1, <2>4, <2>5 DEF LocalsOK
<1>9. QED BY <1>4, <1>7, <1>8, Parts, CountsStay, AccountStep

LEMMA CloseStep ==
    ASSUME IInv, NEW k \in Token, Close(k)
    PROVE  IInv'
<1>1. /\ session[k] # None
      /\ session' = [session EXCEPT ![k] = [session[k] EXCEPT !.open = FALSE]]
      /\ UNCHANGED <<account, locals, requests, orderly, guesses, era>>
  BY Zenon DEF Close
<1>2. SessionsOK' /\ OpenIsCurrent'
  BY <1>1, Parts, ClosedCurrent DEF IInv
<1>3. LocalsOK' /\ CountsOK'
  BY <1>1, Parts DEF LocalsOK, LocalsInv, Holding, CountsOK, locals
<1>4. QED BY <1>1, <1>2, <1>3, SessionStep

LEMMA StutterStep ==
    ASSUME IInv, UNCHANGED vars
    PROVE  IInv'
<1>1. LocalsOK' /\ CountsOK' /\ guesses' \in [User -> Nat] /\ UNCHANGED <<tables, era>>
  BY Parts DEF LocalsOK, LocalsInv, Holding, CountsOK, vars, locals
<1>2. QED BY <1>1, LocalStep

LEMMA NextInv == IInv /\ [Next]_vars => IInv'
<1> SUFFICES ASSUME IInv, [Next]_vars PROVE IInv'
  OBVIOUS
<1>1. CASE \E t \in Thread : Request(t) \/ Step(t)
  <2>1. PICK t \in Thread : Request(t) \/ Step(t)
    BY <1>1
  <2>2. CASE Request(t)
    BY <2>2, AskStep, AdministerStep DEF Request
  <2>3. CASE Step(t)
    BY <2>3, ReadingStep, WrongPasswordStep, RecordFailureStep, RecordSuccessStep, OpenStep,
       SetPasswordStep DEF Step
  <2>4. QED BY <2>1, <2>2, <2>3
<1>2. CASE \E u \in User : Lapse(u)
  BY <1>2, LapseStep
<1>3. CASE \E k \in Token : Close(k)
  BY <1>3, CloseStep
<1>4. CASE UNCHANGED vars
  BY <1>4, StutterStep
<1>5. QED BY <1>1, <1>2, <1>3, <1>4 DEF Next

(***************************************************************************)
(* The theorems.                                                           *)
(***************************************************************************)

\* Every variable of the account model has its type (identity/repository.py).
THEOREM TypeCorrect == Spec => []TypeOK
<1>1. IInv => TypeOK
  BY DEF IInv, TypeInv
<1>2. QED BY <1>1, InitInv, NextInv, PTL DEF Spec

\* However many accounts, sessions and threads there are, a session is of no use once
\* the password was set anew or the account disabled or deleted after it was opened:
\* set_password, update_account and delete_user revoke sessions with what they write.
THEOREM RevocationIsComplete == Spec => []SessionsEndWithTheirEra
<1>1. IInv => SessionsEndWithTheirEra
  BY DEF IInv, OpenIsCurrent, SessionsEndWithTheirEra, Usable
<1>2. QED BY <1>1, InitInv, NextInv, PTL DEF Spec

(***************************************************************************)
(* The lockout, as long as requests come one at a time: the row counts the *)
(* guesses that were made, and whoever is about to count another one holds *)
(* what the row still says.                                                *)
(***************************************************************************)

\* The steps that go by the credentials that were read.
Checking == {"account", "verify", "record failure"}

OneBusy == \A s, t \in Thread : pc[s] # "idle" /\ pc[t] # "idle" => s = t

\* Nobody has guessed at the account without having it recorded.
Recorded(u) == \A t \in Thread : pc[t] = "record failure" => job[t].user # u

\* The lock and the count of the row, against the guesses.
LockFits(u) ==
    /\ account[u].lock = "none" =>
          account[u].failed = guesses[u] /\ guesses[u] < Threshold
    /\ account[u].lock = "live" => guesses[u] >= Threshold
    /\ account[u].lock = "lapsed" => guesses[u] = 0

RecordedFit == \A u \in User : Recorded(u) => LockFits(u)

\* The credentials that were read are the ones of the row.
ReadIsCurrent ==
    \A t \in Thread : pc[t] \in Checking =>
        /\ seen[t].failed = account[job[t].user].failed
        /\ seen[t].lock = account[job[t].user].lock

\* The count that is about to be written is the one of the guesses.
CountIsDue ==
    \A t \in Thread : pc[t] = "record failure" =>
        /\ guesses[job[t].user] = Counted(seen[t])
        /\ seen[t].lock # "live"

LockInv == orderly => OneBusy /\ RecordedFit /\ ReadIsCurrent /\ CountIsDue

\* Requests that overlap never come to be orderly again.
LEMMA OrderlyBefore == ASSUME [Next]_vars, orderly' PROVE orderly
<1>1. CASE UNCHANGED vars
  BY <1>1 DEF vars
<1>2. CASE \E t \in Thread : Request(t)
  BY <1>2, Zenon DEF Request, AskLogin, AskAct, ResetPassword, SetActive, DeleteUser, Administers,
     Admitted
<1>3. CASE \E t \in Thread : Step(t)
  <2>1. PICK t \in Thread : Step(t)
    BY <1>3
  <2>2. orderly' = orderly \/ Fail(t)
    BY <2>1, Zenon DEF Step, ReadAccount, VerifyWrong, VerifyRight, RecordFailure, RecordSuccess,
       Open, Answer, Act, ReadCurrent, VerifyCurrent, SetPassword, Refuse
  <2>3. QED BY <2>2, Zenon DEF Fail
<1>4. CASE (\E u \in User : Lapse(u)) \/ (\E k \in Token : Close(k))
  BY <1>4, Zenon DEF Lapse, Close
<1>5. QED BY <1>1, <1>2, <1>3, <1>4 DEF Next

OrderlyParts == OneBusy /\ RecordedFit /\ ReadIsCurrent /\ CountIsDue

\* A thread goes on, or begins when all are idle, and leaves accounts and guesses alone.
LEMMA ReadingKeeps ==
    ASSUME OrderlyParts, UNCHANGED <<account, guesses>>, NEW t \in Thread,
           \A s \in Thread \ {t} : pc'[s] = pc[s] /\ job'[s] = job[s] /\ seen'[s] = seen[s],
           pc[t] # "idle" \/ AllIdle,
           pc[t] # "record failure", pc'[t] # "record failure",
           pc'[t] \in Checking =>
               /\ seen'[t].failed = account[job'[t].user].failed
               /\ seen'[t].lock = account[job'[t].user].lock
    PROVE  OrderlyParts'
<1>1. OneBusy'
  BY DEF OrderlyParts, OneBusy, AllIdle
<1>2. RecordedFit'
  <2>1. \A u \in User : Recorded(u)' => Recorded(u)
    BY DEF Recorded
  <2>2. \A u \in User : LockFits(u) => LockFits(u)'
    BY DEF LockFits
  <2>3. QED BY <2>1, <2>2, Zenon DEF OrderlyParts, RecordedFit
<1>3. ReadIsCurrent'
  BY DEF OrderlyParts, ReadIsCurrent
<1>4. CountIsDue'
  BY DEF OrderlyParts, CountIsDue, Counted
<1>5. QED BY <1>1, <1>2, <1>3, <1>4, Zenon DEF OrderlyParts

\* The only thread that is busy, or an administrator when none is, writes a row.
LEMMA WritingKeeps ==
    ASSUME OrderlyParts, AccountsOK, HistoryOK, NEW t \in Thread, NEW u \in User, NEW a, NEW g,
           account' = [account EXCEPT ![u] = a], guesses' = [guesses EXCEPT ![u] = g],
           \A s \in Thread \ {t} : pc[s] = "idle" /\ pc'[s] = "idle",
           pc'[t] \notin Checking,
           pc[t] = "record failure" => job[t].user = u,
           LockFits(u)'
    PROVE  OrderlyParts'
<1>1. OneBusy'
  BY DEF OneBusy
<1>2. RecordedFit'
  <2> SUFFICES ASSUME NEW v \in User, v # u PROVE LockFits(v)'
    BY DEF RecordedFit
  <2>1. Recorded(v)
    BY DEF Recorded
  <2>2. account'[v] = account[v] /\ guesses'[v] = guesses[v]
    BY DEF AccountsOK, HistoryOK
  <2>3. LockFits(v)
    BY <2>1 DEF OrderlyParts, RecordedFit
  <2>4. QED BY <2>2, <2>3 DEF LockFits
<1>3. ReadIsCurrent' /\ CountIsDue'
  BY DEF ReadIsCurrent, CountIsDue, Checking
<1>4. QED BY <1>1, <1>2, <1>3, Zenon DEF OrderlyParts

\* A row with no failures and no lock, when the guesses are forgiven.
LEMMA ForgivenFits ==
    ASSUME AccountsOK, HistoryOK, NEW u \in User, NEW a, a.failed = 0, a.lock = "none",
           account' = [account EXCEPT ![u] = a], guesses' = [guesses EXCEPT ![u] = 0]
    PROVE  LockFits(u)'
<1>1. account'[u] = a /\ guesses'[u] = 0
  BY DEF AccountsOK, HistoryOK
<1>2. QED BY <1>1, ThresholdAssumption DEF LockFits

LEMMA OthersIdle ==
    ASSUME OneBusy, NEW t \in Thread, pc[t] # "idle"
    PROVE  \A s \in Thread \ {t} : pc[s] = "idle"
  BY DEF OneBusy

\* A request that is admitted in order comes when nobody is busy.
LEMMA AdmittedAlone ==
    ASSUME NEW t \in Thread, Admitted(t), orderly'
    PROVE  AllIdle
  BY DEF Admitted

LEMMA AskKeeps ==
    ASSUME IInv, OrderlyParts, orderly', NEW t \in Thread,
           \/ \E u \in User : AskLogin(t, u)
           \/ \E k \in Token : AskAct(t, k)
    PROVE  OrderlyParts'
<1>1. AllIdle /\ LocalsOK
  BY AdmittedAlone, Parts DEF AskLogin, AskAct
<1>2. pc[t] = "idle"
  BY <1>1 DEF AllIdle
<1>3. CASE \E u \in User : AskLogin(t, u)
  <2>1. PICK u \in User : AskLogin(t, u)
    BY <1>3
  <2>2. /\ job' = [job EXCEPT ![t] = [user |-> u, token |-> None]]
        /\ seen' = [seen EXCEPT ![t] = [active |-> FALSE, failed |-> account[u].failed,
                                        lock |-> account[u].lock]]
        /\ pc' = [pc EXCEPT ![t] = "account"]
        /\ UNCHANGED <<account, guesses>>
    BY <2>1, Zenon DEF AskLogin, Goto, tables
  <2>3. job'[t].user = u /\ seen'[t].failed = account[u].failed /\ seen'[t].lock = account[u].lock
    BY <1>1, <2>2 DEF LocalsOK
  <2>4. /\ \A s \in Thread \ {t} : pc'[s] = pc[s] /\ job'[s] = job[s] /\ seen'[s] = seen[s]
        /\ pc'[t] = "account"
    BY <1>1, <2>2 DEF LocalsOK
  <2>5. QED BY <1>1, <1>2, <2>2, <2>3, <2>4, ReadingKeeps
<1>4. CASE \E k \in Token : AskAct(t, k)
  <2>1. PICK k \in Token : AskAct(t, k)
    BY <1>4
  <2>2. /\ \A s \in Thread \ {t} : pc'[s] = pc[s] /\ job'[s] = job[s] /\ seen'[s] = seen[s]
        /\ pc'[t] = "act" /\ UNCHANGED <<account, guesses>>
    BY <1>1, <2>1 DEF LocalsOK, AskAct, Goto, tables
  <2>3. QED BY <1>1, <1>2, <2>2, ReadingKeeps DEF Checking
<1>5. QED BY <1>3, <1>4

\* Leaving forgets nothing but what the thread held.
LEMMA LeaveKeeps ==
    ASSUME IInv, OrderlyParts, NEW t \in Thread, Leave(t), UNCHANGED <<account, guesses>>,
           pc[t] \notin {"idle", "record failure"}
    PROVE  OrderlyParts'
<1>1. /\ \A s \in Thread \ {t} : pc'[s] = pc[s] /\ job'[s] = job[s] /\ seen'[s] = seen[s]
      /\ pc'[t] = "idle"
  BY Parts DEF LocalsOK, Leave, Goto
<1>2. QED BY <1>1, ReadingKeeps DEF Checking

\* Going on to a step where the credentials do not matter, or with those that were read.
LEMMA GoOnKeeps ==
    ASSUME IInv, OrderlyParts, NEW t \in Thread, NEW step \in Steps, Goto(t, step), job' = job,
           \A s \in Thread \ {t} : seen'[s] = seen[s],
           UNCHANGED <<account, guesses>>,
           pc[t] \notin {"idle", "record failure"}, step # "record failure",
           step \in Checking =>
               /\ seen'[t].failed = account[job[t].user].failed
               /\ seen'[t].lock = account[job[t].user].lock
    PROVE  OrderlyParts'
<1>1. (\A s \in Thread \ {t} : pc'[s] = pc[s] /\ job'[s] = job[s]) /\ pc'[t] = step
  BY Parts DEF LocalsOK, Goto
<1>2. QED BY <1>1, ReadingKeeps

LEMMA ReadingStepKeeps ==
    ASSUME IInv, OrderlyParts, orderly', NEW t \in Thread,
           ReadAccount(t) \/ VerifyRight(t) \/ Open(t) \/ Answer(t) \/ Act(t) \/ ReadCurrent(t)
             \/ VerifyCurrent(t) \/ Refuse(t) \/ Fail(t)
    PROVE  OrderlyParts'
<1>1. UNCHANGED <<account, guesses>> /\ pc[t] \notin {"idle", "record failure"}
  BY DEF ReadAccount, VerifyRight, Open, Answer, Act, ReadCurrent, VerifyCurrent, Refuse, Fail,
     tables
<1>2. LocalsOK
  BY Parts
<1>3. CASE Leave(t)
  BY <1>1, <1>3, LeaveKeeps
<1>4. CASE ReadAccount(t) /\ ~Leave(t)
  <2> DEFINE c == [seen[t] EXCEPT !.active = account[job[t].user].active]
             step == IF job[t].token = None THEN "verify" ELSE "verify current"
  <2>1. pc[t] = "account" /\ seen' = [seen EXCEPT ![t] = c] /\ job' = job /\ Goto(t, step)
    BY <1>4, Zenon DEF ReadAccount
  <2>2. seen[t] \in Credentials
    BY <1>2, <2>1 DEF LocalsOK, LocalsInv, Holding
  <2>3. c.failed = seen[t].failed /\ c.lock = seen[t].lock
    BY <2>2 DEF Credentials
  <2> HIDE DEF c
  <2>4. seen'[t] = c /\ (\A s \in Thread \ {t} : seen'[s] = seen[s])
    BY <1>2, <2>1 DEF LocalsOK
  <2>5. seen[t].failed = account[job[t].user].failed /\ seen[t].lock = account[job[t].user].lock
    BY <2>1 DEF OrderlyParts, ReadIsCurrent, Checking
  <2>6. step \in Steps /\ step # "record failure"
    BY DEF Steps
  <2> HIDE DEF step
  <2>7. QED BY <1>1, <2>1, <2>3, <2>4, <2>5, <2>6, GoOnKeeps
<1>5. CASE ReadCurrent(t) /\ ~Leave(t)
  <2> DEFINE u == job[t].user
             c == [active |-> FALSE, failed |-> account[u].failed, lock |-> account[u].lock]
  <2>1. seen' = [seen EXCEPT ![t] = c] /\ job' = job /\ Goto(t, "account")
    BY <1>5, Zenon DEF ReadCurrent
  <2>2. c.failed = account[u].failed /\ c.lock = account[u].lock
    OBVIOUS
  <2> HIDE DEF c
  <2>3. seen'[t] = c /\ (\A s \in Thread \ {t} : seen'[s] = seen[s])
    BY <1>2, <2>1 DEF LocalsOK
  <2>4. "account" \in Steps
    BY DEF Steps
  <2>5. QED BY <1>1, <2>1, <2>2, <2>3, <2>4, GoOnKeeps
<1>6. CASE (VerifyRight(t) \/ Open(t) \/ VerifyCurrent(t)) /\ ~Leave(t)
  <2>1. PICK step \in {"record success", "answer", "set password"} :
             Goto(t, step) /\ job' = job /\ seen' = seen
    BY <1>6, Zenon DEF VerifyRight, Open, VerifyCurrent
  <2>2. step \in Steps /\ step \notin Checking /\ step # "record failure"
    BY <2>1 DEF Steps, Checking
  <2>3. QED BY <1>1, <2>1, <2>2, GoOnKeeps
<1>7. Leave(t) \/ ReadAccount(t) \/ ReadCurrent(t) \/ VerifyRight(t) \/ Open(t) \/ VerifyCurrent(t)
  BY Zenon DEF Answer, Act, Refuse, Fail
<1>8. QED BY <1>3, <1>4, <1>5, <1>6, <1>7, Zenon

\* A wrong password is a guess that is not recorded yet.
LEMMA WrongPasswordKeeps ==
    ASSUME IInv, OrderlyParts, NEW t \in Thread, VerifyWrong(t)
    PROVE  OrderlyParts'
<1> DEFINE u == job[t].user
<1>1. pc[t] = "verify" /\ u \in User /\ seen[t] \in Credentials /\ LocalsOK /\ HistoryOK
  BY Parts, JobsUser DEF VerifyWrong, LocalsOK, LocalsInv, Holding
<1>2. account' = account
  BY DEF VerifyWrong, tables
<1>3. CASE Leave(t) /\ guesses' = guesses
  BY <1>1, <1>2, <1>3, LeaveKeeps
<1>4. CASE /\ guesses' = [guesses EXCEPT ![u] = guesses[u] + 1]
           /\ Goto(t, "record failure") /\ job' = job /\ seen' = seen
           /\ seen[t].lock # "live"
  <2>1. \A s \in Thread \ {t} : pc[s] = "idle"
    BY <1>1, OthersIdle DEF OrderlyParts
  <2>2. pc'[t] = "record failure" /\ (\A s \in Thread \ {t} : pc'[s] = "idle")
    BY <1>1, <1>4, <2>1 DEF LocalsOK, Goto
  <2>3. seen[t].failed = account[u].failed /\ seen[t].lock = account[u].lock
    BY <1>1 DEF OrderlyParts, ReadIsCurrent, Checking
  <2>4. LockFits(u)
    BY <1>1, <2>1 DEF OrderlyParts, RecordedFit, Recorded
  <2>5. guesses[u] + 1 = Counted(seen[t])
    <3>1. seen[t].lock \in {"none", "lapsed"} /\ guesses[u] \in Nat
      BY <1>1, <1>4 DEF Credentials, Lock, HistoryOK
    <3>2. CASE seen[t].lock = "none"
      BY <2>3, <2>4, <3>2 DEF LockFits, Counted
    <3>3. CASE seen[t].lock = "lapsed"
      BY <2>3, <2>4, <3>3 DEF LockFits, Counted
    <3>4. QED BY <3>1, <3>2, <3>3
  <2>6. OneBusy'
    BY <2>2 DEF OneBusy
  <2>7. RecordedFit'
    <3> SUFFICES ASSUME NEW v \in User, Recorded(v)' PROVE LockFits(v)'
      BY DEF RecordedFit
    <3>1. v # u
      BY <1>4, <2>2 DEF Recorded
    <3>2. LockFits(v)
      BY <1>1, <2>1 DEF OrderlyParts, RecordedFit, Recorded
    <3>3. guesses'[v] = guesses[v]
      BY <1>1, <1>4, <3>1 DEF HistoryOK
    <3>4. QED BY <1>2, <3>2, <3>3 DEF LockFits
  <2>8. ReadIsCurrent'
    BY <1>2, <1>4, <2>2, <2>3 DEF ReadIsCurrent, Checking
  <2>9. CountIsDue'
    <3>1. guesses'[u] = Counted(seen[t])
      BY <1>1, <1>4, <2>5 DEF HistoryOK
    <3>2. QED BY <1>4, <2>2, <3>1 DEF CountIsDue, Counted
  <2>10. QED BY <2>6, <2>7, <2>8, <2>9, Zenon DEF OrderlyParts
<1>5. QED BY <1>3, <1>4, Zenon DEF VerifyWrong

\* Recording it brings the count up to the guesses, and locks at the threshold.
LEMMA RecordFailureKeeps ==
    ASSUME IInv, OrderlyParts, NEW t \in Thread, RecordFailure(t)
    PROVE  OrderlyParts'
<1>1. /\ pc[t] = "record failure" /\ job[t].user \in User
      /\ LocalsOK /\ AccountsOK /\ HistoryOK
  BY Parts, JobsUser DEF RecordFailure
<1>2. PICK u \in User : u = job[t].user
  BY <1>1
<1>3. PICK n \in Nat : n = guesses[u]
  BY <1>1 DEF HistoryOK
<1> DEFINE l == IF n >= Threshold THEN "live" ELSE "none"
           a == [account[u] EXCEPT !.failed = n, !.lock = l]
<1>4. n = Counted(seen[t])
  BY <1>1, <1>2, <1>3 DEF OrderlyParts, CountIsDue
<1>5. account' = [account EXCEPT ![u] = a] /\ guesses' = guesses /\ Leave(t)
  BY <1>2, <1>4, Zenon DEF RecordFailure
<1>6. a.failed = n /\ a.lock = l
  <2>1. account[u] \in Account
    BY <1>1 DEF AccountsOK
  <2> HIDE DEF l
  <2>2. QED BY <2>1 DEF Account
<1> HIDE DEF a
<1>7. account'[u] = a /\ guesses'[u] = n
  BY <1>1, <1>3, <1>5 DEF AccountsOK
<1>8. LockFits(u)'
  <2>1. account'[u].failed = n /\ account'[u].lock = l
    BY <1>6, <1>7
  <2>2. CASE n >= Threshold
    BY <1>7, <2>1, <2>2 DEF LockFits
  <2>3. CASE ~(n >= Threshold)
    BY <1>7, <2>1, <2>3, ThresholdAssumption DEF LockFits
  <2>4. QED BY <2>2, <2>3
<1>9. guesses' = [guesses EXCEPT ![u] = n]
  BY <1>1, <1>3, <1>5 DEF HistoryOK
<1>10. \A s \in Thread \ {t} : pc[s] = "idle"
  BY <1>1, OthersIdle DEF OrderlyParts
<1>11. pc'[t] = "idle" /\ (\A s \in Thread \ {t} : pc[s] = "idle" /\ pc'[s] = "idle")
  BY <1>1, <1>5, <1>10 DEF LocalsOK, Leave, Goto
<1>12. QED BY <1>1, <1>2, <1>5, <1>8, <1>9, <1>11, WritingKeeps DEF Checking

LEMMA RecordSuccessKeeps ==
    ASSUME IInv, OrderlyParts, NEW t \in Thread, RecordSuccess(t)
    PROVE  OrderlyParts'
<1>1. /\ pc[t] = "record success" /\ job[t].user \in User
      /\ LocalsOK /\ AccountsOK /\ HistoryOK
  BY Parts, JobsUser DEF RecordSuccess
<1>2. PICK u \in User : u = job[t].user
  BY <1>1
<1> DEFINE a == [account[u] EXCEPT !.failed = 0, !.lock = "none"]
<1>3. account' = [account EXCEPT ![u] = a] /\ guesses' = [guesses EXCEPT ![u] = 0] /\ Goto(t, "open")
  BY <1>2, Zenon DEF RecordSuccess
<1>4. a.failed = 0 /\ a.lock = "none"
  <2>1. account[u] \in Account
    BY <1>1 DEF AccountsOK
  <2>2. QED BY <2>1 DEF Account
<1> HIDE DEF a
<1>5. LockFits(u)'
  BY <1>1, <1>3, <1>4, ForgivenFits
<1>6. \A s \in Thread \ {t} : pc[s] = "idle"
  BY <1>1, OthersIdle DEF OrderlyParts
<1>7. pc'[t] = "open" /\ (\A s \in Thread \ {t} : pc[s] = "idle" /\ pc'[s] = "idle")
  BY <1>1, <1>3, <1>6 DEF LocalsOK, Goto
<1>8. QED BY <1>1, <1>3, <1>5, <1>7, WritingKeeps DEF Checking

LEMMA NewPasswordKeeps ==
    ASSUME IInv, OrderlyParts, NEW t \in Thread, NEW u \in User, NEW change \in BOOLEAN,
           NewPassword(u, change), pc[t] # "record failure", pc'[t] \notin Checking,
           \A s \in Thread \ {t} : pc[s] = "idle" /\ pc'[s] = "idle"
    PROVE  OrderlyParts'
<1> DEFINE a == [account[u] EXCEPT !.change = change, !.failed = 0, !.lock = "none"]
<1>1. AccountsOK /\ HistoryOK
  BY Parts
<1>2. account' = [account EXCEPT ![u] = a] /\ guesses' = [guesses EXCEPT ![u] = 0]
  BY Zenon DEF NewPassword
<1>3. a.failed = 0 /\ a.lock = "none"
  <2>1. account[u] \in Account
    BY <1>1 DEF AccountsOK
  <2>2. QED BY <2>1 DEF Account
<1> HIDE DEF a
<1>4. LockFits(u)'
  BY <1>1, <1>2, <1>3, ForgivenFits
<1>5. QED BY <1>1, <1>2, <1>4, WritingKeeps

LEMMA SetPasswordKeeps ==
    ASSUME IInv, OrderlyParts, NEW t \in Thread, SetPassword(t)
    PROVE  OrderlyParts'
<1>1. pc[t] = "set password" /\ job[t].user \in User /\ LocalsOK
  BY Parts, JobsUser DEF SetPassword
<1>2. NewPassword(job[t].user, FALSE) /\ Goto(t, "open")
  BY Zenon DEF SetPassword
<1>3. pc'[t] = "open" /\ (\A s \in Thread \ {t} : pc[s] = "idle" /\ pc'[s] = "idle")
  BY <1>1, <1>2, OthersIdle DEF OrderlyParts, LocalsOK, Goto
<1>4. QED BY <1>1, <1>2, <1>3, NewPasswordKeeps DEF Checking

\* Disabling, enabling and deleting an account leave its lock and its count alone.
LEMMA StatusKeeps ==
    ASSUME IInv, OrderlyParts, NEW u \in User, NEW a, account' = [account EXCEPT ![u] = a],
           a.failed = account[u].failed, a.lock = account[u].lock,
           UNCHANGED <<guesses, pc, job, seen>>
    PROVE  OrderlyParts'
<1>1. AccountsOK
  BY Parts
<1>2. \A v \in User : account'[v].failed = account[v].failed /\ account'[v].lock = account[v].lock
  BY <1>1 DEF AccountsOK
<1>3. OneBusy'
  BY DEF OrderlyParts, OneBusy
<1>4. RecordedFit'
  BY <1>2 DEF OrderlyParts, RecordedFit, Recorded, LockFits
<1>5. ReadIsCurrent'
  <2>1. \A t \in Thread : pc[t] \in Checking => job[t].user \in User
    BY Parts, JobsUser DEF Checking
  <2>2. QED BY <1>2, <2>1 DEF OrderlyParts, ReadIsCurrent
<1>6. CountIsDue'
  BY DEF OrderlyParts, CountIsDue, Counted
<1>7. QED BY <1>3, <1>4, <1>5, <1>6, Zenon DEF OrderlyParts

LEMMA AdministerKeeps ==
    ASSUME IInv, OrderlyParts, orderly', NEW t \in Thread, NEW u \in User,
           \/ ResetPassword(t, u) \/ DeleteUser(t, u)
           \/ \E active \in BOOLEAN : SetActive(t, u, active)
    PROVE  OrderlyParts'
<1>1. Administers(t)
  BY DEF ResetPassword, DeleteUser, SetActive
<1>2. AllIdle /\ pc' = pc /\ job' = job /\ seen' = seen
  BY <1>1, AdmittedAlone DEF Administers, locals
<1>3. account[u] \in Account
  BY Parts DEF AccountsOK
<1>4. CASE ResetPassword(t, u)
  <2>1. NewPassword(u, TRUE)
    BY <1>4 DEF ResetPassword
  <2>2. /\ pc[t] # "record failure" /\ pc'[t] \notin Checking
        /\ \A s \in Thread \ {t} : pc[s] = "idle" /\ pc'[s] = "idle"
    BY <1>2 DEF AllIdle, Checking
  <2>3. QED BY <2>1, <2>2, NewPasswordKeeps
<1>5. CASE DeleteUser(t, u)
  <2> DEFINE a == [account[u] EXCEPT !.active = FALSE, !.deleted = TRUE]
  <2>1. account' = [account EXCEPT ![u] = a] /\ guesses' = guesses
    BY <1>5, Zenon DEF DeleteUser
  <2>2. a.failed = account[u].failed /\ a.lock = account[u].lock
    BY <1>3 DEF Account
  <2> HIDE DEF a
  <2>3. QED BY <1>2, <2>1, <2>2, StatusKeeps
<1>6. CASE \E active \in BOOLEAN : SetActive(t, u, active)
  <2>1. PICK active \in BOOLEAN : SetActive(t, u, active)
    BY <1>6
  <2> DEFINE a == [account[u] EXCEPT !.active = active]
  <2>2. account' = [account EXCEPT ![u] = a] /\ guesses' = guesses
    BY <2>1, Zenon DEF SetActive
  <2>3. a.failed = account[u].failed /\ a.lock = account[u].lock
    BY <1>3 DEF Account
  <2> HIDE DEF a
  <2>4. QED BY <1>2, <2>2, <2>3, StatusKeeps
<1>7. QED BY <1>4, <1>5, <1>6

\* A lock lapses when no failure is about to be counted, and for the copies as well.
LEMMA LapseKeeps ==
    ASSUME IInv, OrderlyParts, NEW u \in User, Lapse(u)
    PROVE  OrderlyParts'
<1> DEFINE a == [account[u] EXCEPT !.lock = "lapsed"]
           c(t) == [seen[t] EXCEPT !.lock = "lapsed"]
<1>1. LocalsOK /\ AccountsOK /\ HistoryOK
  BY Parts
<1>2. /\ account[u].lock = "live" /\ account' = [account EXCEPT ![u] = a]
      /\ guesses' = [guesses EXCEPT ![u] = 0] /\ pc' = pc /\ job' = job
      /\ seen' = [t \in Thread |-> IF seen[t] # None /\ job[t].user = u /\ seen[t].lock = "live"
                                     THEN c(t) ELSE seen[t]]
  BY Zenon DEF Lapse
<1>3. a.failed = account[u].failed /\ a.lock = "lapsed"
  BY <1>1 DEF AccountsOK, Account
<1>4. \A t \in Thread : seen[t] \in Credentials => c(t).failed = seen[t].failed /\ c(t).lock = "lapsed"
  BY DEF Credentials
<1> HIDE DEF a, c
<1>5. /\ account'[u] = a /\ guesses'[u] = 0
      /\ \A v \in User \ {u} : account'[v] = account[v] /\ guesses'[v] = guesses[v]
  BY <1>1, <1>2 DEF AccountsOK, HistoryOK
<1>6. \A t \in Thread : pc[t] \in Checking =>
          seen[t] \in Credentials /\ seen[t] # None /\ job[t].user \in User
  BY <1>1, JobsUser, NoneAssumption DEF LocalsOK, LocalsInv, Holding, Checking
<1>7. \A t \in Thread : pc[t] \in Checking /\ job[t].user = u =>
          seen'[t].failed = seen[t].failed /\ seen'[t].lock = "lapsed"
  BY <1>2, <1>4, <1>6 DEF OrderlyParts, ReadIsCurrent
<1>8. \A t \in Thread : job[t].user # u => seen'[t] = seen[t]
  BY <1>2
<1>9. OneBusy'
  BY <1>2 DEF OrderlyParts, OneBusy
<1>10. RecordedFit'
  <2> SUFFICES ASSUME NEW v \in User, Recorded(v)' PROVE LockFits(v)'
    BY DEF RecordedFit
  <2>1. CASE v = u
    BY <1>3, <1>5, <2>1 DEF LockFits
  <2>2. CASE v # u
    <3>1. LockFits(v)
      BY <1>2 DEF OrderlyParts, RecordedFit, Recorded
    <3>2. QED BY <1>5, <2>2, <3>1 DEF LockFits
  <2>3. QED BY <2>1, <2>2
<1>11. ReadIsCurrent'
  <2> SUFFICES ASSUME NEW t \in Thread, pc[t] \in Checking
               PROVE  /\ seen'[t].failed = account'[job[t].user].failed
                      /\ seen'[t].lock = account'[job[t].user].lock
    BY <1>2 DEF ReadIsCurrent
  <2>1. seen[t].failed = account[job[t].user].failed /\ seen[t].lock = account[job[t].user].lock
    BY DEF OrderlyParts, ReadIsCurrent
  <2>2. QED BY <1>3, <1>5, <1>6, <1>7, <1>8, <2>1
<1>12. CountIsDue'
  <2> SUFFICES ASSUME NEW t \in Thread, pc[t] = "record failure"
               PROVE  guesses'[job[t].user] = Counted(seen[t])' /\ seen'[t].lock # "live"
    BY <1>2 DEF CountIsDue
  <2>1. guesses[job[t].user] = Counted(seen[t]) /\ seen[t].lock # "live"
    BY DEF OrderlyParts, CountIsDue
  <2>2. seen[t].lock = account[job[t].user].lock
    BY DEF OrderlyParts, ReadIsCurrent, Checking
  <2>3. job[t].user # u
    BY <1>2, <2>1, <2>2
  <2>4. job[t].user \in User
    BY <1>6 DEF Checking
  <2>5. QED BY <1>5, <1>8, <2>1, <2>3, <2>4 DEF Counted
<1>13. QED BY <1>9, <1>10, <1>11, <1>12, Zenon DEF OrderlyParts

LEMMA UntouchedKeeps ==
    ASSUME OrderlyParts, UNCHANGED <<account, guesses, pc, job, seen>>
    PROVE  OrderlyParts'
  BY DEF OrderlyParts, OneBusy, RecordedFit, Recorded, LockFits, ReadIsCurrent, CountIsDue, Counted

LEMMA LockStep == IInv /\ LockInv /\ [Next]_vars => LockInv'
<1> SUFFICES ASSUME IInv, LockInv, [Next]_vars, orderly' PROVE OrderlyParts'
  BY DEF LockInv, OrderlyParts
<1>1. OrderlyParts
  BY OrderlyBefore DEF LockInv, OrderlyParts
<1>2. CASE \E t \in Thread : Request(t) \/ Step(t)
  <2>1. PICK t \in Thread : Request(t) \/ Step(t)
    BY <1>2
  <2>2. CASE Request(t)
    BY <1>1, <2>2, AskKeeps, AdministerKeeps DEF Request
  <2>3. CASE Step(t)
    BY <1>1, <2>3, ReadingStepKeeps, WrongPasswordKeeps, RecordFailureKeeps, RecordSuccessKeeps,
       SetPasswordKeeps DEF Step
  <2>4. QED BY <2>1, <2>2, <2>3
<1>3. CASE \E u \in User : Lapse(u)
  BY <1>1, <1>3, LapseKeeps
<1>4. CASE (\E k \in Token : Close(k)) \/ UNCHANGED vars
  <2>1. UNCHANGED <<account, guesses, pc, job, seen>>
    BY <1>4 DEF Close, vars, tables, locals
  <2>2. QED BY <1>1, <2>1, UntouchedKeeps
<1>5. QED BY <1>2, <1>3, <1>4 DEF Next

LEMMA LockInit == Init => LockInv
<1> SUFFICES ASSUME Init PROVE OrderlyParts
  BY DEF LockInv, OrderlyParts
<1>1. OneBusy /\ ReadIsCurrent /\ CountIsDue
  BY DEF Init, OneBusy, ReadIsCurrent, CountIsDue, Checking
<1>2. \A u \in User : account[u].lock = "none" /\ account[u].failed = 0 /\ guesses[u] = 0
  BY DEF Init, Fresh
<1>3. RecordedFit
  BY <1>2, ThresholdAssumption DEF RecordedFit, LockFits
<1>4. QED BY <1>1, <1>3, Zenon DEF OrderlyParts

\* "A lapsed lock starts the count over" (identity/service.py:47-49): whatever the threshold
\* and however many accounts there are, an account is locked exactly if as many wrong passwords
\* came as it takes since it was last free, as long as requests come one at a time and every
\* failure is recorded.
THEOREM LockoutIsExact == Spec => []LockedAfterFailures
<1>1. IInv /\ LockInv => LockedAfterFailures
  <2> SUFFICES ASSUME IInv, LockInv, orderly, AllIdle, NEW u \in User
               PROVE  account[u].lock = "live" <=> guesses[u] >= Threshold
    BY DEF LockedAfterFailures
  <2>1. LockFits(u)
    BY DEF LockInv, RecordedFit, Recorded, AllIdle
  <2>2. account[u].lock \in Lock /\ guesses[u] \in Nat
    BY Parts DEF AccountsOK, Account
  <2>3. QED BY <2>1, <2>2, ThresholdAssumption DEF LockFits, Lock
<1>2. QED BY <1>1, InitInv, NextInv, LockInit, LockStep, PTL DEF Spec
=============================================================================
