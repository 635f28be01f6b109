------------------------------- MODULE Accounts -------------------------------
(***************************************************************************)
(* Signing in: passwords, lockout and sessions (identity/service.py with   *)
(* the PostgreSQL repository of identity/repository.py), and the boundary  *)
(* every request passes (kernel/api/app.py).  A login reads the            *)
(* credentials, verifies the password, records how it went and opens a     *)
(* session, each in a transaction of its own.                              *)
(*                                                                         *)
(* A password is known by whether it is the right one for the hash that    *)
(* was read.  The last three variables are history: nothing reads them.    *)
(***************************************************************************)
EXTENDS Integers, FiniteSets

CONSTANTS
    Thread,       \* request threads
    User,         \* accounts
    Token,        \* session tokens, none of them given out twice
    Threshold,    \* LOCKOUT_THRESHOLD
    MaxRequests,  \* bound: requests while they come one at a time,
    MaxOverlap,   \* bound: and in all once they have overlapped or one has failed halfway
    None

ASSUME ThresholdAssumption == Threshold \in Nat \ {0}
ASSUME BoundsAssumption == MaxRequests \in Nat /\ MaxOverlap \in Nat

\* A lock is live until its time has passed, and then stays in the row.
Lock == {"none", "live", "lapsed"}
Account == [active : BOOLEAN, deleted : BOOLEAN, change : BOOLEAN, failed : Nat, lock : Lock]
UserSession == [user : User, open : BOOLEAN, era : Nat]

\* What a thread holds: the credentials as it read them.
Credentials == [active : BOOLEAN, failed : Nat, lock : Lock]

ASSUME NoneAssumption == None \notin User /\ None \notin Token /\ None \notin Credentials

VARIABLES
    account, session,  \* identity.users and identity.sessions
    pc, job, seen,     \* each thread's step, request and credentials
    requests,
    orderly,           \* requests came one at a time, and none was left halfway
    guesses,           \* wrong passwords since the account was last free of a lock
    era                \* how often the password was set or the account disabled

tables == <<account, session>>
locals == <<pc, job, seen>>
vars == <<tables, locals, requests, orderly, guesses, era>>

Steps == {"idle", "account", "verify", "record failure", "record success", "open", "answer",
          "act", "verify current", "set password"}

Job == [user : User, token : Token \cup {None}]

Fresh == [active |-> TRUE, deleted |-> FALSE, change |-> TRUE, failed |-> 0, lock |-> "none"]

\* ensure_bootstrap and create_user: accounts have a password that is to be changed.
Init ==
    /\ account = [u \in User |-> Fresh]
    /\ session = [k \in Token |-> None]
    /\ pc = [t \in Thread |-> "idle"]
    /\ job = [t \in Thread |-> None]
    /\ seen = [t \in Thread |-> None]
    /\ requests = 0
    /\ orderly = TRUE
    /\ guesses = [u \in User |-> 0]
    /\ era = [u \in User |-> 0]

Goto(t, step) == pc' = [pc EXCEPT ![t] = step]

Leave(t) ==
    /\ Goto(t, "idle")
    /\ job' = [job EXCEPT ![t] = None]
    /\ seen' = [seen EXCEPT ![t] = None]

AllIdle == \A t \in Thread : pc[t] = "idle"

Admitted(t) ==
    /\ pc[t] = "idle"
    /\ requests < (IF orderly /\ AllIdle THEN MaxRequests ELSE MaxOverlap)
    /\ requests' = requests + 1
    /\ orderly' = (orderly /\ AllIdle)

(***************************************************************************)
(* Sessions.                                                               *)
(***************************************************************************)

\* account_for_session accepts it.
Usable(k) ==
    /\ session[k] # None
    /\ session[k].open
    /\ account[session[k].user].active /\ ~account[session[k].user].deleted

\* Mutant: nothing is revoked.
NothingRevoked(u) == [k \in Token |-> session[k]]

\* The sessions after all those of an account were revoked.
Revoked(u) ==
    [k \in Token |-> IF session[k] # None /\ session[k].user = u
                       THEN [session[k] EXCEPT !.open = FALSE] ELSE session[k]]

\* logout, or the end of SESSION_TTL.
Close(k) ==
    /\ session[k] # None /\ session[k].open
    /\ session' = [session EXCEPT ![k] = [session[k] EXCEPT !.open = FALSE]]
    /\ UNCHANGED <<account, locals, requests, orderly, guesses, era>>

\* create_session, whatever has become of the account.
Open(t) ==
    LET u == job[t].user IN
    /\ pc[t] = "open"
    /\ \E k \in Token :
          /\ session[k] = None
          /\ session' = [session EXCEPT ![k] = [user |-> u, open |-> TRUE, era |-> era[u]]]
    /\ Goto(t, "answer")
    /\ UNCHANGED <<account, job, seen, requests, orderly, guesses, era>>

\* The account is read again for the answer; one that is deleted by now raises.
Answer(t) ==
    /\ pc[t] = "answer"
    /\ Leave(t)
    /\ UNCHANGED <<tables, requests, orderly, guesses, era>>

(***************************************************************************)
(* Logging in.                                                             *)
(***************************************************************************)

\* get_credentials: the row, and in another transaction the account.
AskLogin(t, u) ==
    /\ Admitted(t)
    /\ ~account[u].deleted
    /\ job' = [job EXCEPT ![t] = [user |-> u, token |-> None]]
    /\ seen' = [seen EXCEPT ![t] = [active |-> FALSE, failed |-> account[u].failed,
                                    lock |-> account[u].lock]]
    /\ Goto(t, "account")
    /\ UNCHANGED <<tables, guesses, era>>

ReadAccount(t) ==
    LET u == job[t].user IN
    /\ pc[t] = "account"
    /\ IF account[u].deleted
         THEN Leave(t)
         ELSE /\ seen' = [seen EXCEPT ![t] = [seen[t] EXCEPT !.active = account[u].active]]
              /\ Goto(t, IF job[t].token = None THEN "verify" ELSE "verify current")
              /\ UNCHANGED job
    /\ UNCHANGED <<tables, requests, orderly, guesses, era>>

\* A wrong password is recorded, unless the account is locked.
VerifyWrong(t) ==
    LET u == job[t].user IN
    /\ pc[t] = "verify"
    /\ IF seen[t].lock = "live"
         THEN Leave(t) /\ UNCHANGED guesses
         ELSE /\ guesses' = [guesses EXCEPT ![u] = guesses[u] + 1]
              /\ Goto(t, "record failure")
              /\ UNCHANGED <<job, seen>>
    /\ UNCHANGED <<tables, requests, orderly, era>>

VerifyRight(t) ==
    /\ pc[t] = "verify"
    /\ IF ~seen[t].active \/ seen[t].lock = "live"
         THEN Leave(t)
         ELSE Goto(t, "record success") /\ UNCHANGED <<job, seen>>
    /\ UNCHANGED <<tables, requests, orderly, guesses, era>>

\* Mutant: a lapsed lock does not start the count over.
CountedThrough(c) == c.failed + 1

\* The count after another failure: a lapsed lock starts it over.
Counted(c) == IF c.lock = "lapsed" THEN 1 ELSE c.failed + 1

\* record_login_failure writes the count that follows from the one that was read.
RecordFailure(t) ==
    LET count == Counted(seen[t]) IN
    /\ pc[t] = "record failure"
    /\ account' = [account EXCEPT ![job[t].user] =
                     [account[job[t].user] EXCEPT !.failed = count,
                          !.lock = IF count >= Threshold THEN "live" ELSE "none"]]
    /\ Leave(t)
    /\ UNCHANGED <<session, requests, orderly, guesses, era>>

\* record_login_success.
RecordSuccess(t) ==
    LET u == job[t].user IN
    /\ pc[t] = "record success"
    /\ account' = [account EXCEPT ![u] = [account[u] EXCEPT !.failed = 0, !.lock = "none"]]
    /\ guesses' = [guesses EXCEPT ![u] = 0]
    /\ Goto(t, "open")
    /\ UNCHANGED <<session, job, seen, requests, orderly, era>>

\* The time of a lock passes, for the row and for whoever has read it.
Lapse(u) ==
    /\ account[u].lock = "live"
    /\ account' = [account EXCEPT ![u] = [account[u] EXCEPT !.lock = "lapsed"]]
    /\ seen' = [t \in Thread |->
                  IF seen[t] # None /\ job[t].user = u /\ seen[t].lock = "live"
                    THEN [seen[t] EXCEPT !.lock = "lapsed"] ELSE seen[t]]
    /\ guesses' = [guesses EXCEPT ![u] = 0]
    /\ UNCHANGED <<session, pc, job, requests, orderly, era>>

(***************************************************************************)
(* Requests of those who are signed in.                                    *)
(***************************************************************************)

\* authentication_boundary: the session is accepted in one transaction, the account
\* read in the next.
AskAct(t, k) ==
    /\ Admitted(t)
    /\ Usable(k)
    /\ job' = [job EXCEPT ![t] = [user |-> session[k].user, token |-> k]]
    /\ Goto(t, "act")
    /\ UNCHANGED <<tables, seen, guesses, era>>

\* Whoever has to change the password may do nothing else.
Act(t) ==
    LET u == job[t].user IN
    /\ pc[t] = "act"
    /\ ~account[u].deleted /\ ~account[u].change
    /\ Leave(t)
    /\ UNCHANGED <<tables, requests, orderly, guesses, era>>

\* change_password reads the credentials of the one who is signed in.
ReadCurrent(t) ==
    LET u == job[t].user IN
    /\ pc[t] = "act"
    /\ IF account[u].deleted
         THEN Leave(t)
         ELSE /\ seen' = [seen EXCEPT ![t] = [active |-> FALSE, failed |-> account[u].failed,
                                              lock |-> account[u].lock]]
              /\ Goto(t, "account")
              /\ UNCHANGED job
    /\ UNCHANGED <<tables, requests, orderly, guesses, era>>

\* The current password is right; whether the account is locked does not matter.
VerifyCurrent(t) ==
    /\ pc[t] = "verify current"
    /\ Goto(t, "set password")
    /\ UNCHANGED <<tables, job, seen, requests, orderly, guesses, era>>

\* set_password: a new password ends the lock and all sessions.
NewPassword(u, change) ==
    /\ account' = [account EXCEPT ![u] =
                     [account[u] EXCEPT !.change = change, !.failed = 0, !.lock = "none"]]
    /\ session' = Revoked(u)
    /\ guesses' = [guesses EXCEPT ![u] = 0]
    /\ era' = [era EXCEPT ![u] = era[u] + 1]

SetPassword(t) ==
    LET u == job[t].user IN
    /\ pc[t] = "set password"
    /\ NewPassword(u, FALSE)
    /\ Goto(t, "open")
    /\ UNCHANGED <<job, seen, requests, orderly>>

\* A wrong password, or one like the current one, or a request that was refused.
Refuse(t) ==
    /\ pc[t] \in {"act", "verify current"}
    /\ Leave(t)
    /\ UNCHANGED <<tables, requests, orderly, guesses, era>>

(***************************************************************************)
(* Administration, one transaction each.                                   *)
(***************************************************************************)
Administers(t) == Admitted(t) /\ UNCHANGED locals

ResetPassword(t, u) == Administers(t) /\ NewPassword(u, TRUE)

\* update_account; disabling revokes the sessions.
SetActive(t, u, active) ==
    /\ Administers(t)
    /\ active \/ ~account[u].deleted
    /\ account' = [account EXCEPT ![u] = [account[u] EXCEPT !.active = active]]
    /\ session' = IF active THEN session ELSE Revoked(u)
    /\ era' = IF active THEN era ELSE [era EXCEPT ![u] = era[u] + 1]
    /\ UNCHANGED guesses

DeleteUser(t, u) ==
    /\ Administers(t)
    /\ ~account[u].deleted
    /\ account' = [account EXCEPT ![u] = [account[u] EXCEPT !.active = FALSE, !.deleted = TRUE]]
    /\ session' = Revoked(u)
    /\ era' = [era EXCEPT ![u] = era[u] + 1]
    /\ UNCHANGED guesses

(***************************************************************************)
(* The specification.                                                      *)
(***************************************************************************)

\* The request raises, or the process dies, between two steps.
Fail(t) ==
    /\ pc[t] # "idle"
    /\ orderly' = (orderly /\ pc[t] # "record failure")
    /\ Leave(t)
    /\ UNCHANGED <<tables, requests, guesses, era>>

Request(t) ==
    \/ \E u \in User : \/ AskLogin(t, u) \/ ResetPassword(t, u) \/ DeleteUser(t, u)
                       \/ \E active \in BOOLEAN : SetActive(t, u, active)
    \/ \E k \in Token : AskAct(t, k)

Step(t) ==
    \/ ReadAccount(t) \/ VerifyWrong(t) \/ VerifyRight(t) \/ RecordFailure(t) \/ RecordSuccess(t)
    \/ Open(t) \/ Answer(t) \/ Act(t) \/ ReadCurrent(t) \/ VerifyCurrent(t) \/ SetPassword(t)
    \/ Refuse(t) \/ Fail(t)

Next ==
    \/ \E t \in Thread : Request(t) \/ Step(t)
    \/ \E u \in User : Lapse(u)
    \/ \E k \in Token : Close(k)

Spec == Init /\ [][Next]_vars
------------------------------------------------------------------------------
(***************************************************************************)
(* Properties.                                                             *)
(***************************************************************************)
TypeOK ==
    /\ account \in [User -> Account]
    /\ session \in [Token -> UserSession \cup {None}]
    /\ pc \in [Thread -> Steps]
    /\ job \in [Thread -> Job \cup {None}]
    /\ seen \in [Thread -> Credentials \cup {None}]
    /\ requests \in Nat
    /\ orderly \in BOOLEAN
    /\ guesses \in [User -> Nat]
    /\ era \in [User -> Nat]

\* "A lapsed lock starts the count over" (identity/service.py:47-49): an account is
\* locked exactly if there were as many wrong passwords as it takes since it was last
\* free, as long as requests come one at a time and every failure is recorded.
LockedAfterFailures ==
    orderly /\ AllIdle =>
        \A u \in User : account[u].lock = "live" <=> guesses[u] >= Threshold

\* However requests overlap, a session is of no use once the password was set anew or
\* the account was disabled after it was opened, not even when the account is enabled
\* again (repository.py: set_password, update_account and delete_user revoke them all).
\* A login that has verified the old password by then opens its session afterwards.
SessionsEndWithTheirEra == \A k \in Token : Usable(k) => session[k].era = era[session[k].user]
==============================================================================
