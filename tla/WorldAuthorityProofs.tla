------------------------- MODULE WorldAuthorityProofs -------------------------
(***************************************************************************)
(* Nobody holds a capability that roles have never given.  What roles have *)
(* given only grows, so it is enough that every way of writing authority   *)
(* takes it from there: from an account, from a copy of an account that a  *)
(* thread has read, from the other store, or, for a new world, from an     *)
(* administrator, to whom everything was given.                            *)
(*                                                                         *)
(* While requests come one at a time and none fails halfway, more is true: *)
(* between them roles, tables and process agree, and within one it is the  *)
(* busy thread that knows where they do not yet.                           *)
(***************************************************************************)
EXTENDS WorldAuthority, TLAPS

\* A request that is under way is about somebody: an account where accounts are
\* written, and somebody sends for a new world.
LocalsInv ==
    \A t \in Thread :
        /\ pc[t] # "idle" => job[t] \in Job
        /\ pc[t] \in {"check", "write", "read"} => job[t].who \in User
        /\ pc[t] = "make world" => job[t].by \in User

TypeInv == TypeOK /\ LocalsInv

\* Everything was given to this account.
GivenAll(u) == \A w \in World : given[<<w, u>>] = Capability

\* What the roles of `a` amount to was given to this account.
GivenTo(a, u) == \A w \in World : RoleCapabilities(a, w) \subseteq given[<<w, u>>]

\* What accounts say, and what threads have read of them.
AccountsGiven == \A u \in User : GivenTo(account[u], u)

LocalsGiven ==
    \A t \in Thread :
        /\ \A u \in todo[t] : seen[t][u] \in Account /\ GivenTo(seen[t][u], u)
        /\ pc[t] # "idle" /\ job[t].by \in User => GivenAll(job[t].by)

\* Automation, and the demo operator whom every start grants everything again.
OperatorGiven == (operator.admin => GivenAll(operator.user)) /\ given[<<Demo, Root>>] = Capability

\* GrantedByRoles, store by store.
TableGranted == \A w \in World, u \in User : table[<<w, u>>] \subseteq given[<<w, u>>]
HeldGranted == \A w \in World, u \in User : Caps(<<w, u>>) \subseteq given[<<w, u>>]

GivenInv == AccountsGiven /\ LocalsGiven /\ OperatorGiven /\ TableGranted /\ HeldGranted

IInv == TypeInv /\ GivenInv

LEMMA RolesAreCapabilities ==
    ASSUME NEW a, NEW w
    PROVE  RoleCapabilities(a, w) \subseteq Capability
  BY DEF RoleCapabilities, Capability

LEMMA AdminsHaveAll ==
    ASSUME NEW a, NEW w, a.admin
    PROVE  RoleCapabilities(a, w) = Capability
  BY DEF RoleCapabilities, Capability

LEMMA PairsAreKeys ==
    ASSUME NEW w \in World, NEW u \in User
    PROVE  <<w, u>> \in Keys /\ <<w, u>>[1] = w /\ <<w, u>>[2] = u /\ <<w, u>> \in World \X User
  BY DEF Keys, Actor

LEMMA SyncedTyped ==
    ASSUME NEW tab \in [Keys -> SUBSET Capability], NEW u, NEW a, NEW scope
    PROVE  Synced(tab, u, a, scope) \in [Keys -> SUBSET Capability]
  BY RolesAreCapabilities DEF Synced

LEMMA MirroredTyped ==
    ASSUME NEW h \in [Keys -> Entry \cup {None}], NEW u, NEW a
    PROVE  Mirrored(h, u, a) \in [Keys -> Entry \cup {None}]
<1>1. \A k \in Keys : RoleCapabilities(a, k[1]) \in SUBSET Capability
  BY RolesAreCapabilities
<1>2. \A k \in Keys : [caps |-> RoleCapabilities(a, k[1]),
                       controls |-> h[k] # None /\ h[k].controls] \in Entry
  BY <1>1 DEF Entry
<1>3. QED BY <1>2 DEF Mirrored

LEMMA HydratedTyped ==
    ASSUME NEW tab \in [Keys -> SUBSET Capability], NEW dead
    PROVE  Hydrated(tab, dead) \in [Keys -> Entry \cup {None}]
<1>1. \A k \in Keys : [caps |-> tab[k], controls |-> k \in controller] \in Entry
  BY DEF Entry
<1>2. QED BY <1>1 DEF Hydrated

LEMMA WithAdminsTyped ==
    ASSUME NEW tab \in [Keys -> SUBSET Capability], NEW scope
    PROVE  WithAdmins(tab, scope) \in [Keys -> SUBSET Capability]
  BY RolesAreCapabilities DEF WithAdmins

(***************************************************************************)
(* Types.                                                                  *)
(***************************************************************************)
LocalsOK ==
    /\ pc \in [Thread -> Steps]
    /\ job \in [Thread -> Job \cup {None}]
    /\ seen \in [Thread -> [User -> Account \cup {None}]]
    /\ todo \in [Thread -> SUBSET User]
    /\ LocalsInv

DataOK ==
    /\ account \in [User -> Account]
    /\ given \in [World \X User -> SUBSET Capability]
    /\ table \in [Keys -> SUBSET Capability]
    /\ stored \subseteq World /\ worlds \subseteq World
    /\ controller \subseteq Keys
    /\ held \in [Keys -> Entry \cup {None}]
    /\ operator \in [user : User, admin : BOOLEAN]
    /\ requests \in Nat
    /\ orderly \in BOOLEAN

LEMMA TypesSplit == TypeInv <=> LocalsOK /\ DataOK
  BY DEF TypeInv, TypeOK, LocalsOK, DataOK

LEMMA LeaveTyped ==
    ASSUME LocalsOK, NEW t \in Thread, Leave(t)
    PROVE  LocalsOK'
<1>1. Nobody \in [User -> Account \cup {None}] /\ "idle" \in Steps
  BY DEF Nobody, Steps
<1>2. /\ pc' \in [Thread -> Steps]
      /\ job' \in [Thread -> Job \cup {None}]
      /\ seen' \in [Thread -> [User -> Account \cup {None}]]
      /\ todo' \in [Thread -> SUBSET User]
  BY <1>1 DEF LocalsOK, Leave, Goto
<1>3. LocalsInv'
  BY DEF LocalsOK, LocalsInv, Leave, Goto
<1>4. QED BY <1>2, <1>3 DEF LocalsOK

\* A thread goes on with the request it serves.
LEMMA GotoTyped ==
    ASSUME LocalsOK, NEW t \in Thread, pc[t] # "idle", NEW step \in Steps,
           step \in {"check", "write", "read"} => job[t].who \in User,
           step # "make world", Goto(t, step), job' = job,
           seen' \in [Thread -> [User -> Account \cup {None}]],
           todo' \in [Thread -> SUBSET User]
    PROVE  LocalsOK'
<1>1. pc' \in [Thread -> Steps]
  BY DEF LocalsOK, Goto
<1>2. LocalsInv'
  BY DEF LocalsOK, LocalsInv, Goto
<1>3. QED BY <1>1, <1>2 DEF LocalsOK

LEMMA Successor == ASSUME NEW n \in Nat PROVE n + 1 \in Nat
  OBVIOUS

LEMMA AskTyped ==
    ASSUME TypeInv, NEW t \in Thread, NEW q \in Job, NEW step \in Steps,
           step \in {"check", "write", "read"} => q.who \in User,
           step = "make world" => q.by \in User, Ask(t, q, step)
    PROVE  TypeInv'
<1>1. LocalsOK /\ DataOK
  BY TypesSplit
<1>2. /\ pc' \in [Thread -> Steps]
      /\ job' \in [Thread -> Job \cup {None}]
      /\ seen' \in [Thread -> [User -> Account \cup {None}]]
      /\ todo' \in [Thread -> SUBSET User]
  BY <1>1 DEF LocalsOK, Ask, Goto
<1>3. LocalsInv'
  BY <1>1 DEF LocalsOK, LocalsInv, Ask, Goto
<1>4. requests' \in Nat
  <2>1. requests' = requests + 1
    BY Zenon DEF Ask
  <2>2. requests + 1 \in Nat
    BY <1>1, Successor, Zenon DEF DataOK
  <2>3. QED BY <2>1, <2>2, Zenon
<1>5. orderly' \in BOOLEAN
  BY <1>1, Zenon DEF DataOK, Ask
<1>6. DataOK'
  BY <1>1, <1>4, <1>5 DEF DataOK, Ask, accounts, tables, process, Keys
<1>7. QED BY <1>2, <1>3, <1>6 DEF TypeInv, TypeOK, LocalsOK, DataOK

LEMMA GiveTyped ==
    ASSUME DataOK, NEW u \in User, NEW a \in Account, Give(u, a)
    PROVE  account' \in [User -> Account] /\ given' \in [World \X User -> SUBSET Capability]
<1>1. account' \in [User -> Account]
  BY DEF DataOK, Give
<1>2. given' \in [World \X User -> SUBSET Capability]
  BY RolesAreCapabilities DEF DataOK, Give
<1>3. QED BY <1>1, <1>2

LEMMA InitTyped == Init => TypeInv
<1> SUFFICES ASSUME Init PROVE TypeInv
  OBVIOUS
<1>1. \A u \in User : [admin |-> u = Root, active |-> TRUE, deleted |-> FALSE,
                       roles |-> NoRoles] \in Account
  BY DEF NoRoles, Account
<1>2. LocalsOK
  BY DEF Init, LocalsOK, LocalsInv, Nobody, Steps
<1>3. account \in [User -> Account] /\ given \in [World \X User -> SUBSET Capability]
  BY <1>1 DEF Init
<1>4. table \in [Keys -> SUBSET Capability] /\ stored \subseteq World /\ worlds \subseteq World
  BY RootAssumption DEF Init
<1>5. controller \subseteq Keys
  BY RootAssumption DEF Init, Keys, Actor
<1>6. [caps |-> Capability, controls |-> TRUE] \in Entry
  BY DEF Entry
<1>7. held \in [Keys -> Entry \cup {None}]
  BY <1>6 DEF Init
<1>8. operator \in [user : User, admin : BOOLEAN] /\ requests \in Nat /\ orderly \in BOOLEAN
  BY RootAssumption DEF Init
<1>9. DataOK
  BY <1>3, <1>4, <1>5, <1>7, <1>8 DEF DataOK
<1>10. QED BY <1>2, <1>9, TypesSplit

(***************************************************************************)
(* Every step keeps the types.                                             *)
(***************************************************************************)
LEMMA AdministratorsAreUsers == ASSUME DataOK PROVE Administrators \subseteq User
  BY DEF Administrators, DataOK

\* What Administer and AskLogin say of the requests they send.
LEMMA SendTyped ==
    ASSUME TypeInv, NEW t \in Thread,
           NEW kind \in {"global", "roles", "active", "delete", "login", "world", "actor", "spawn"},
           NEW by \in User \cup {None}, NEW who \in Actor, NEW w \in World,
           NEW roles \in SUBSET {"DM", "PLAYER"}, NEW caps \in SUBSET Capability,
           NEW flag \in BOOLEAN, NEW step \in Steps,
           step \in {"check", "write", "read"} => who \in User,
           step = "make world" => by \in User,
           Ask(t, Request(kind, by, who, w, roles, caps, flag), step)
    PROVE  TypeInv'
<1> DEFINE q == Request(kind, by, who, w, roles, caps, flag)
<1>1. q \in Job /\ q.who = who /\ q.by = by
  BY DEF Request, Job
<1>2. Ask(t, q, step)
  OBVIOUS
<1> HIDE DEF q
<1>3. QED BY <1>1, <1>2, AskTyped

LEMMA AdministerTyped ==
    ASSUME TypeInv, NEW t \in Thread, NEW by \in Administrators, Administer(t, by)
    PROVE  TypeInv'
<1> by \in User \cup {None} /\ by \in User /\ by \in Actor
  BY TypesSplit, AdministratorsAreUsers DEF Actor
<1> /\ \A u \in User : u \in Actor
    /\ Bot \in Actor /\ Demo \in World
    /\ {} \in SUBSET {"DM", "PLAYER"} /\ {} \in SUBSET Capability /\ FALSE \in BOOLEAN
    /\ {"check", "write", "make world", "make actor", "spawn"} \subseteq Steps
  BY RootAssumption DEF Actor, Steps
<1>1. ASSUME NEW u \in User, NEW flag \in BOOLEAN, AskGlobalRoles(t, by, u, flag) PROVE TypeInv'
  BY <1>1, SendTyped DEF AskGlobalRoles
<1>2. ASSUME NEW u \in User, NEW flag \in BOOLEAN, AskActive(t, by, u, flag) PROVE TypeInv'
  <2>1. CASE flag
    BY <1>2, <2>1, SendTyped DEF AskActive
  <2>2. CASE ~flag
    BY <1>2, <2>2, SendTyped DEF AskActive
  <2>3. QED BY <2>1, <2>2
<1>3. ASSUME NEW u \in User, NEW w \in World, NEW roles \in Roles, AskWorldRoles(t, by, u, w, roles)
      PROVE  TypeInv'
  <2> roles \in SUBSET {"DM", "PLAYER"}
    BY RolesAssumption
  <2>1. QED BY <1>3, SendTyped DEF AskWorldRoles
<1>4. ASSUME NEW u \in User, AskDelete(t, by, u) PROVE TypeInv'
  BY <1>4, SendTyped DEF AskDelete
<1>5. ASSUME NEW w \in World, AskWorld(t, by, w) PROVE TypeInv'
  BY <1>5, SendTyped DEF AskWorld
<1>6. ASSUME NEW w \in World, NEW caps \in BotGrants, AskActor(t, by, w, caps) PROVE TypeInv'
  <2> caps \in SUBSET Capability
    BY GrantsAssumption
  <2>1. QED BY <1>6, SendTyped DEF AskActor
<1>7. ASSUME NEW w \in World, NEW u \in Actor, AskEntity(t, by, w, u) PROVE TypeInv'
  BY <1>7, SendTyped DEF AskEntity
<1>8. QED BY <1>1, <1>2, <1>3, <1>4, <1>5, <1>6, <1>7 DEF Administer

LEMMA LoginTyped ==
    ASSUME TypeInv, NEW t \in Thread, NEW u \in User, AskLogin(t, u)
    PROVE  TypeInv'
<1> /\ Demo \in World /\ "read" \in Steps /\ u \in Actor /\ None \in User \cup {None}
    /\ {} \in SUBSET {"DM", "PLAYER"} /\ {} \in SUBSET Capability /\ FALSE \in BOOLEAN
  BY RootAssumption DEF Steps, Actor
<1>1. Ask(t, Request("login", None, u, Demo, {}, {}, FALSE), "read")
  BY DEF AskLogin
<1>2. "login" \in {"global", "roles", "active", "delete", "login", "world", "actor", "spawn"}
  OBVIOUS
<1>3. "read" # "make world"
  OBVIOUS
<1>4. QED BY <1>1, <1>2, <1>3, SendTyped, ZenonT(40)

LEMMA Combine == ASSUME LocalsOK', DataOK' PROVE TypeInv'
  BY DEF TypeInv, TypeOK, LocalsOK, DataOK

LEMMA DataKept ==
    ASSUME DataOK, UNCHANGED <<accounts, tables, process>>, requests' \in Nat, orderly' \in BOOLEAN
    PROVE  DataOK'
  BY DEF DataOK, accounts, tables, process

LEMMA CheckTyped == ASSUME TypeInv, NEW t \in Thread, Check(t) PROVE TypeInv'
<1>1. LocalsOK /\ DataOK
  BY TypesSplit
<1>2. /\ Leave(t) \/ (Goto(t, "write") /\ UNCHANGED <<job, seen, todo>>)
      /\ pc[t] = "check"
      /\ UNCHANGED <<accounts, tables, process, requests, orderly>>
  BY Zenon DEF Check
<1>3. job[t].who \in User /\ "write" \in Steps
  BY <1>1, <1>2 DEF LocalsOK, LocalsInv, Steps
<1>4. DataOK'
  BY <1>1, <1>2, DataKept DEF DataOK
<1>5. CASE Leave(t)
  BY <1>1, <1>4, <1>5, LeaveTyped, Combine
<1>6. CASE Goto(t, "write") /\ UNCHANGED <<job, seen, todo>>
  <2>1. LocalsOK'
    BY <1>1, <1>2, <1>3, <1>6, GotoTyped DEF LocalsOK
  <2>2. QED BY <1>4, <2>1, Combine
<1>7. QED BY <1>2, <1>5, <1>6

LEMMA WriteGlobalRolesTyped ==
    ASSUME TypeInv, NEW t \in Thread, WriteGlobalRoles(t)
    PROVE  TypeInv'
<1> DEFINE a == [account[job[t].who] EXCEPT !.admin = job[t].flag]
<1>1. LocalsOK /\ DataOK
  BY TypesSplit
<1>2. job[t] \in Job /\ job[t].who \in User /\ "read" \in Steps
  BY <1>1 DEF LocalsOK, LocalsInv, Steps, WriteGlobalRoles
<1>3. account[job[t].who] \in Account /\ job[t].flag \in BOOLEAN
  BY <1>1, <1>2 DEF DataOK, Job
<1>4. a \in Account
  BY <1>3 DEF Account
<1>5. /\ Give(job[t].who, a) /\ table' = Synced(table, job[t].who, a, World)
      /\ Goto(t, "read") /\ pc[t] = "write"
      /\ UNCHANGED <<stored, controller, process, job, seen, todo, requests, orderly>>
  BY DEF WriteGlobalRoles
<1> HIDE DEF a
<1>6. LocalsOK'
  BY <1>1, <1>2, <1>5, GotoTyped DEF LocalsOK
<1>7. table' \in [Keys -> SUBSET Capability]
  BY <1>1, <1>5, SyncedTyped DEF DataOK
<1>8. account' \in [User -> Account] /\ given' \in [World \X User -> SUBSET Capability]
  BY <1>1, <1>2, <1>4, <1>5, GiveTyped
<1>9. DataOK'
  BY <1>1, <1>5, <1>7, <1>8 DEF DataOK, process
<1>10. QED BY <1>6, <1>9, Combine

LEMMA WriteWorldRolesTyped ==
    ASSUME TypeInv, NEW t \in Thread, WriteWorldRoles(t)
    PROVE  TypeInv'
<1> DEFINE q == job[t]
           a == [account[q.who] EXCEPT !.roles = [account[q.who].roles EXCEPT ![q.world] = q.roles]]
<1>1. LocalsOK /\ DataOK
  BY TypesSplit
<1>2. q \in Job /\ q.who \in User /\ "read" \in Steps
  BY <1>1 DEF LocalsOK, LocalsInv, Steps, WriteWorldRoles
<1>3. account[q.who] \in Account /\ q.roles \in SUBSET {"DM", "PLAYER"}
  BY <1>1, <1>2 DEF DataOK, Job
<1>4. [account[q.who].roles EXCEPT ![q.world] = q.roles] \in [World -> SUBSET {"DM", "PLAYER"}]
  BY <1>3 DEF Account
<1>5. a \in Account
  BY <1>3, <1>4 DEF Account
<1>6. /\ \/ /\ Give(q.who, a) /\ table' = Synced(table, q.who, a, {q.world})
            /\ Goto(t, "read") /\ UNCHANGED <<job, seen, todo>>
         \/ Leave(t) /\ UNCHANGED <<accounts, table>>
      /\ pc[t] = "write"
      /\ UNCHANGED <<stored, controller, process, requests, orderly>>
  BY Zenon DEF WriteWorldRoles
<1> HIDE DEF a
<1>7. CASE /\ Give(q.who, a) /\ table' = Synced(table, q.who, a, {q.world})
           /\ Goto(t, "read") /\ UNCHANGED <<job, seen, todo>>
  <2>1. LocalsOK'
    BY <1>1, <1>2, <1>6, <1>7, GotoTyped DEF LocalsOK
  <2>2. table' \in [Keys -> SUBSET Capability]
    BY <1>1, <1>7, SyncedTyped DEF DataOK
  <2>3. account' \in [User -> Account] /\ given' \in [World \X User -> SUBSET Capability]
    BY <1>1, <1>2, <1>5, <1>7, GiveTyped
  <2>4. DataOK'
    BY <1>1, <1>6, <2>2, <2>3 DEF DataOK, process
  <2>5. QED BY <2>1, <2>4, Combine
<1>8. CASE Leave(t) /\ UNCHANGED <<accounts, table>>
  <2>1. LocalsOK'
    BY <1>1, <1>8, LeaveTyped
  <2>2. DataOK'
    BY <1>1, <1>6, <1>8, DataKept DEF DataOK, tables
  <2>3. QED BY <2>1, <2>2, Combine
<1>9. QED BY <1>6, <1>7, <1>8

LEMMA WriteActiveTyped == ASSUME TypeInv, NEW t \in Thread, WriteActive(t) PROVE TypeInv'
<1> DEFINE a == [account[job[t].who] EXCEPT !.active = job[t].flag]
<1>1. LocalsOK /\ DataOK
  BY TypesSplit
<1>2. job[t] \in Job /\ job[t].who \in User
  BY <1>1 DEF LocalsOK, LocalsInv, WriteActive
<1>3. account[job[t].who] \in Account /\ job[t].flag \in BOOLEAN
  BY <1>1, <1>2 DEF DataOK, Job
<1>4. a \in Account
  BY <1>3 DEF Account
<1>5. Give(job[t].who, a) /\ Leave(t) /\ UNCHANGED <<tables, process, requests, orderly>>
  BY DEF WriteActive
<1> HIDE DEF a
<1>6. LocalsOK'
  BY <1>1, <1>5, LeaveTyped
<1>7. account' \in [User -> Account] /\ given' \in [World \X User -> SUBSET Capability]
  BY <1>1, <1>2, <1>4, <1>5, GiveTyped
<1>8. DataOK'
  BY <1>1, <1>5, <1>7 DEF DataOK, tables, process
<1>9. QED BY <1>6, <1>8, Combine

LEMMA WriteDeleteTyped == ASSUME TypeInv, NEW t \in Thread, WriteDelete(t) PROVE TypeInv'
<1> DEFINE a == [admin |-> FALSE, active |-> FALSE, deleted |-> TRUE, roles |-> NoRoles]
<1>1. LocalsOK /\ DataOK
  BY TypesSplit
<1>2. job[t].who \in User
  BY <1>1 DEF LocalsOK, LocalsInv, WriteDelete
<1>3. a \in Account
  BY DEF Account, NoRoles
<1>4. Give(job[t].who, a) /\ Leave(t) /\ UNCHANGED <<tables, process, requests, orderly>>
  BY DEF WriteDelete
<1> HIDE DEF a
<1>5. LocalsOK'
  BY <1>1, <1>4, LeaveTyped
<1>6. account' \in [User -> Account] /\ given' \in [World \X User -> SUBSET Capability]
  BY <1>1, <1>2, <1>3, <1>4, GiveTyped
<1>7. DataOK'
  BY <1>1, <1>4, <1>6 DEF DataOK, tables, process
<1>8. QED BY <1>5, <1>7, Combine

LEMMA ReadTyped == ASSUME TypeInv, NEW t \in Thread, Read(t) PROVE TypeInv'
<1> DEFINE u == job[t].who
           row == [v \in User |-> IF v = u THEN account[u] ELSE None]
<1>1. LocalsOK /\ DataOK
  BY TypesSplit
<1>2. u \in User /\ "mirror" \in Steps
  BY <1>1 DEF LocalsOK, LocalsInv, Steps, Read
<1>3. row \in [User -> Account \cup {None}]
  BY <1>1, <1>2 DEF DataOK
<1>4. /\ \/ Leave(t)
         \/ /\ seen' = [seen EXCEPT ![t] = row]
            /\ todo' = [todo EXCEPT ![t] = {u}]
            /\ Goto(t, "mirror")
            /\ UNCHANGED job
      /\ pc[t] = "read"
      /\ UNCHANGED <<accounts, tables, process, requests, orderly>>
  BY Zenon DEF Read
<1>5. DataOK'
  BY <1>1, <1>4, DataKept DEF DataOK
<1>6. CASE Leave(t)
  BY <1>1, <1>5, <1>6, LeaveTyped, Combine
<1> HIDE DEF row
<1>7. CASE /\ seen' = [seen EXCEPT ![t] = row]
           /\ todo' = [todo EXCEPT ![t] = {u}]
           /\ Goto(t, "mirror")
           /\ UNCHANGED job
  <2>1. /\ seen' \in [Thread -> [User -> Account \cup {None}]]
        /\ todo' \in [Thread -> SUBSET User]
    BY <1>1, <1>2, <1>3, <1>7 DEF LocalsOK
  <2>2. LocalsOK'
    BY <1>1, <1>2, <1>4, <1>7, <2>1, GotoTyped
  <2>3. QED BY <1>5, <2>2, Combine
<1>8. QED BY <1>4, <1>6, <1>7

LEMMA ListTyped == ASSUME TypeInv, NEW t \in Thread, List(t) PROVE TypeInv'
<1> DEFINE rows == [u \in User |-> IF account[u].deleted THEN None ELSE account[u]]
<1>1. LocalsOK /\ DataOK
  BY TypesSplit
<1>2. rows \in [User -> Account \cup {None}]
  BY <1>1 DEF DataOK
<1>3. /\ pc[t] = "list" /\ Goto(t, "mirror") /\ UNCHANGED job
      /\ seen' = [seen EXCEPT ![t] = rows]
      /\ todo' = [todo EXCEPT ![t] = User \ Deleted]
      /\ UNCHANGED <<accounts, tables, process, requests, orderly>>
  BY DEF List
<1> HIDE DEF rows
<1>4. /\ seen' \in [Thread -> [User -> Account \cup {None}]]
      /\ todo' \in [Thread -> SUBSET User]
  BY <1>1, <1>2, <1>3 DEF LocalsOK
<1>5. "mirror" \in Steps
  BY DEF Steps
<1>6. LocalsOK'
  BY <1>1, <1>3, <1>4, <1>5, GotoTyped
<1>7. DataOK'
  BY <1>1, <1>3, DataKept DEF DataOK
<1>8. QED BY <1>6, <1>7, Combine

LEMMA MirrorTyped ==
    ASSUME TypeInv, NEW t \in Thread, NEW u \in User, Mirror(t, u)
    PROVE  TypeInv'
<1>1. LocalsOK /\ DataOK
  BY TypesSplit
<1>2. held' = Mirrored(held, u, seen[t][u])
  BY DEF Mirror
<1>3. held' \in [Keys -> Entry \cup {None}]
  BY <1>1, <1>2, MirroredTyped DEF DataOK
<1>4. DataOK'
  BY <1>1, <1>3 DEF DataOK, Mirror, accounts, tables
<1>5. todo' \in [Thread -> SUBSET User]
  BY <1>1 DEF LocalsOK, Mirror
<1>6. LocalsOK'
  BY <1>1, <1>5 DEF LocalsOK, LocalsInv, Mirror
<1>7. QED BY <1>4, <1>6, Combine

LEMMA MirrorDoneTyped == ASSUME TypeInv, NEW t \in Thread, MirrorDone(t) PROVE TypeInv'
<1>1. LocalsOK /\ DataOK
  BY TypesSplit
<1>2. /\ Leave(t) \/ (Goto(t, "sync") /\ UNCHANGED <<job, seen, todo>>)
      /\ pc[t] = "mirror"
      /\ UNCHANGED <<accounts, tables, process, requests, orderly>>
  BY Zenon DEF MirrorDone
<1>3. DataOK'
  BY <1>1, <1>2, DataKept DEF DataOK
<1>4. CASE Leave(t)
  BY <1>1, <1>3, <1>4, LeaveTyped, Combine
<1>5. CASE Goto(t, "sync") /\ UNCHANGED <<job, seen, todo>>
  <2>1. "sync" \in Steps
    BY DEF Steps
  <2>2. LocalsOK'
    BY <1>1, <1>2, <1>5, <2>1, GotoTyped DEF LocalsOK
  <2>3. QED BY <1>3, <2>2, Combine
<1>6. QED BY <1>2, <1>4, <1>5

LEMMA MakeWorldTyped == ASSUME TypeInv, NEW t \in Thread, MakeWorld(t) PROVE TypeInv'
<1> DEFINE q == job[t]
           mine == held[<<Demo, q.by>>]
           entry == [caps |-> mine.caps, controls |-> FALSE]
<1>1. LocalsOK /\ DataOK
  BY TypesSplit
<1>2. q \in Job /\ q.by \in User /\ "list" \in Steps
  BY <1>1 DEF LocalsOK, LocalsInv, Steps, MakeWorld
<1>3. mine \in Entry \cup {None}
  BY <1>1, <1>2, RootAssumption, PairsAreKeys DEF DataOK
<1>4. mine # None => entry \in Entry
  BY <1>3 DEF Entry
<1>5. /\ \/ Leave(t) /\ UNCHANGED <<held, worlds>>
         \/ /\ mine # None
            /\ worlds' = worlds \cup {q.world}
            /\ held' = [held EXCEPT ![<<q.world, q.by>>] = entry]
            /\ Goto(t, "list")
            /\ UNCHANGED <<job, seen, todo>>
      /\ pc[t] = "make world"
      /\ UNCHANGED <<accounts, tables, operator, requests, orderly>>
  BY Zenon DEF MakeWorld
<1>6. CASE Leave(t) /\ UNCHANGED <<held, worlds>>
  <2>1. DataOK'
    BY <1>1, <1>5, <1>6, DataKept DEF DataOK, process
  <2>2. QED BY <1>1, <1>6, <2>1, LeaveTyped, Combine
<1> HIDE DEF entry
<1>7. CASE /\ mine # None
           /\ worlds' = worlds \cup {q.world}
           /\ held' = [held EXCEPT ![<<q.world, q.by>>] = entry]
           /\ Goto(t, "list")
           /\ UNCHANGED <<job, seen, todo>>
  <2>1. LocalsOK'
    BY <1>1, <1>2, <1>5, <1>7, GotoTyped DEF LocalsOK
  <2>2. held' \in [Keys -> Entry \cup {None}]
    BY <1>1, <1>4, <1>7 DEF DataOK
  <2>3. worlds' \subseteq World
    BY <1>1, <1>2, <1>7 DEF DataOK, Job
  <2>4. DataOK'
    BY <1>1, <1>5, <2>2, <2>3 DEF DataOK, accounts, tables
  <2>5. QED BY <2>1, <2>4, Combine
<1>8. QED BY <1>5, <1>6, <1>7

LEMMA MakeActorTyped == ASSUME TypeInv, NEW t \in Thread, MakeActor(t) PROVE TypeInv'
<1> DEFINE q == job[t]
           entry == [caps |-> q.caps, controls |-> FALSE]
<1>1. LocalsOK /\ DataOK
  BY TypesSplit
<1>2. q \in Job /\ "sync" \in Steps
  BY <1>1 DEF LocalsOK, LocalsInv, Steps, MakeActor
<1>3. entry \in Entry
  BY <1>2 DEF Job, Entry
<1>4. /\ held' = [held EXCEPT ![<<q.world, Bot>>] = entry]
      /\ Goto(t, "sync") /\ pc[t] = "make actor"
      /\ UNCHANGED <<accounts, tables, worlds, operator, job, seen, todo, requests, orderly>>
  BY DEF MakeActor
<1> HIDE DEF entry
<1>5. LocalsOK'
  BY <1>1, <1>2, <1>4, GotoTyped DEF LocalsOK
<1>6. held' \in [Keys -> Entry \cup {None}]
  BY <1>1, <1>3, <1>4 DEF DataOK
<1>7. DataOK'
  BY <1>1, <1>4, <1>6 DEF DataOK, accounts, tables
<1>8. QED BY <1>5, <1>7, Combine

LEMMA CopiedTyped ==
    ASSUME table \in [Keys -> SUBSET Capability], NEW h \in [Keys -> Entry \cup {None}]
    PROVE  Copied(h) \in [Keys -> SUBSET Capability]
<1>1. \A k \in Keys : h[k] # None => h[k].caps \subseteq Capability
  BY DEF Entry
<1>2. QED BY <1>1 DEF Copied

LEMMA SyncTyped == ASSUME TypeInv, NEW t \in Thread, Sync(t) PROVE TypeInv'
<1>1. LocalsOK /\ DataOK
  BY TypesSplit
<1>2. /\ pc[t] = "sync"
      /\ \/ table' = Copied(held) /\ stored' = stored \cup worlds /\ orderly' = orderly
         \/ orderly' = FALSE /\ UNCHANGED <<table, stored>>
      /\ Leave(t) \/ (Goto(t, "admins") /\ UNCHANGED <<job, seen, todo>>)
      /\ UNCHANGED <<accounts, controller, process, requests>>
  BY Zenon DEF Sync
<1>3. table' \in [Keys -> SUBSET Capability] /\ stored' \subseteq World /\ orderly' \in BOOLEAN
  <2>1. CASE table' = Copied(held) /\ stored' = stored \cup worlds /\ orderly' = orderly
    BY <1>1, <2>1, CopiedTyped DEF DataOK
  <2>2. CASE orderly' = FALSE /\ UNCHANGED <<table, stored>>
    BY <1>1, <2>2 DEF DataOK
  <2>3. QED BY <1>2, <2>1, <2>2
<1>4. DataOK'
  BY <1>1, <1>2, <1>3 DEF DataOK, accounts, process
<1>5. CASE Leave(t)
  BY <1>1, <1>4, <1>5, LeaveTyped, Combine
<1>6. CASE Goto(t, "admins") /\ UNCHANGED <<job, seen, todo>>
  <2>1. "admins" \in Steps
    BY DEF Steps
  <2>2. LocalsOK'
    BY <1>1, <1>2, <1>6, <2>1, GotoTyped DEF LocalsOK
  <2>3. QED BY <1>4, <2>2, Combine
<1>7. QED BY <1>2, <1>5, <1>6

LEMMA SyncAdminsTyped == ASSUME TypeInv, NEW t \in Thread, SyncAdmins(t) PROVE TypeInv'
<1>1. LocalsOK /\ DataOK
  BY TypesSplit
<1>2. table' \in [Keys -> SUBSET Capability]
  BY <1>1, WithAdminsTyped DEF DataOK, SyncAdmins
<1>3. DataOK'
  BY <1>1, <1>2 DEF DataOK, SyncAdmins, accounts, process
<1>4. LocalsOK'
  BY <1>1, LeaveTyped DEF SyncAdmins
<1>5. QED BY <1>3, <1>4, Combine

LEMMA SpawnTyped == ASSUME TypeInv, NEW t \in Thread, Spawn(t) PROVE TypeInv'
<1>1. LocalsOK /\ DataOK
  BY TypesSplit
<1>2. job[t] \in Job /\ "control" \in Steps
  BY <1>1 DEF LocalsOK, LocalsInv, Steps, Spawn
<1>3. /\ pc[t] = "spawn"
      /\ controller' \in {controller, controller \cup {<<job[t].world, job[t].who>>}}
      /\ Leave(t) \/ (Goto(t, "control") /\ UNCHANGED <<job, seen, todo>>)
      /\ UNCHANGED <<accounts, table, stored, process, requests, orderly>>
  BY Zenon DEF Spawn
<1>4. controller' \subseteq Keys
  BY <1>1, <1>2, <1>3 DEF DataOK, Job, Keys
<1>5. DataOK'
  BY <1>1, <1>3, <1>4 DEF DataOK, accounts, process
<1>6. CASE Leave(t)
  BY <1>1, <1>5, <1>6, LeaveTyped, Combine
<1>7. CASE Goto(t, "control") /\ UNCHANGED <<job, seen, todo>>
  <2>1. LocalsOK'
    BY <1>1, <1>2, <1>3, <1>7, GotoTyped DEF LocalsOK
  <2>2. QED BY <1>5, <2>1, Combine
<1>8. QED BY <1>3, <1>6, <1>7

LEMMA ControlTyped == ASSUME TypeInv, NEW t \in Thread, Control(t) PROVE TypeInv'
<1> DEFINE k == <<job[t].world, job[t].who>>
           entry == [caps |-> held[k].caps, controls |-> TRUE]
<1>1. LocalsOK /\ DataOK
  BY TypesSplit
<1>2. k \in Keys
  BY <1>1 DEF LocalsOK, LocalsInv, Control, Job, Keys
<1>3. held[k] # None => entry \in Entry
  BY <1>1, <1>2 DEF DataOK, Entry
<1>4. /\ \/ held[k] # None /\ held' = [held EXCEPT ![k] = entry] /\ orderly' = orderly
         \/ held' = held /\ orderly' = FALSE
      /\ Leave(t)
      /\ UNCHANGED <<accounts, tables, worlds, operator, requests>>
  BY Zenon DEF Control
<1> HIDE DEF entry, k
<1>5. held' \in [Keys -> Entry \cup {None}] /\ orderly' \in BOOLEAN
  <2>1. CASE held[k] # None /\ held' = [held EXCEPT ![k] = entry] /\ orderly' = orderly
    BY <1>1, <1>3, <2>1 DEF DataOK
  <2>2. CASE held' = held /\ orderly' = FALSE
    BY <1>1, <2>2 DEF DataOK
  <2>3. QED BY <1>4, <2>1, <2>2
<1>6. DataOK'
  BY <1>1, <1>4, <1>5 DEF DataOK, accounts, tables
<1>7. LocalsOK'
  BY <1>1, <1>4, LeaveTyped
<1>8. QED BY <1>6, <1>7, Combine

LEMMA FailTyped == ASSUME TypeInv, NEW t \in Thread, Fail(t) PROVE TypeInv'
<1>1. LocalsOK /\ DataOK
  BY TypesSplit
<1>2. orderly' \in BOOLEAN
  BY <1>1, Zenon DEF DataOK, Fail
<1>3. requests' \in Nat
  BY <1>1, Zenon DEF DataOK, Fail
<1>4. UNCHANGED <<accounts, tables, process>> /\ Leave(t)
  BY DEF Fail
<1>5. DataOK'
  BY <1>1, <1>2, <1>3, <1>4, DataKept
<1>6. LocalsOK'
  BY <1>1, <1>4, LeaveTyped
<1>7. QED BY <1>5, <1>6, Combine

LEMMA RestartTyped == ASSUME TypeInv, Restart PROVE TypeInv'
<1> DEFINE demo == [table EXCEPT ![<<Demo, Root>>] = Capability]
           tab == WithAdmins(demo, {Demo})
<1>1. LocalsOK /\ DataOK
  BY TypesSplit
<1>2. demo \in [Keys -> SUBSET Capability]
  BY <1>1 DEF DataOK
<1>3. tab \in [Keys -> SUBSET Capability]
  BY <1>2, WithAdminsTyped
<1>4. /\ table' = tab /\ held' = Hydrated(tab, Deleted) /\ worlds' = stored
      /\ requests' = requests + 1
      /\ UNCHANGED <<accounts, stored, controller, orderly>>
  BY DEF Restart
<1>5. operator' \in [user : User, admin : BOOLEAN]
  <2>1. PICK u \in User : operator' = [user |-> u, admin |-> account[u].admin]
    BY RootAssumption, Zenon DEF Restart
  <2>2. account[u].admin \in BOOLEAN
    BY <1>1 DEF DataOK, Account
  <2>3. QED BY <2>1, <2>2
<1> HIDE DEF tab
<1>6. held' \in [Keys -> Entry \cup {None}]
  BY <1>3, <1>4, HydratedTyped
<1>7. requests' \in Nat
  <2>1. requests \in Nat
    BY <1>1 DEF DataOK
  <2>2. QED BY <1>4, <2>1, Successor, Zenon
<1>8. DataOK'
  BY <1>1, <1>3, <1>4, <1>5, <1>6, <1>7 DEF DataOK, accounts
<1>9. LocalsOK'
  BY DEF Restart, LocalsOK, LocalsInv, Nobody, Steps
<1>10. QED BY <1>8, <1>9, Combine

LEMMA StutterTyped == ASSUME TypeInv, UNCHANGED vars PROVE TypeInv'
<1>1. LocalsOK /\ DataOK
  BY TypesSplit
<1>2. LocalsOK' /\ DataOK'
  BY <1>1 DEF vars, accounts, tables, process, locals, LocalsOK, LocalsInv, DataOK
<1>3. QED BY <1>2, Combine

LEMMA NextTyped == ASSUME TypeInv, [Next]_vars PROVE TypeInv'
<1>1. ASSUME NEW t \in Thread, Step(t) PROVE TypeInv'
  BY <1>1, CheckTyped, WriteGlobalRolesTyped, WriteWorldRolesTyped, WriteActiveTyped,
     WriteDeleteTyped, ReadTyped, ListTyped, MirrorTyped, MirrorDoneTyped, MakeWorldTyped,
     MakeActorTyped, SyncTyped, SyncAdminsTyped, SpawnTyped, ControlTyped, FailTyped DEF Step
<1>2. QED BY <1>1, AdministerTyped, LoginTyped, RestartTyped, StutterTyped DEF Next

\* Every variable keeps its type, whatever the constants are.
THEOREM TypeCorrect == Spec => []TypeOK
<1>1. TypeInv => TypeOK
  BY DEF TypeInv
<1>2. QED BY <1>1, InitTyped, NextTyped, PTL DEF Spec

(***************************************************************************)
(* What was given.                                                         *)
(***************************************************************************)
Grows == \A w \in World, u \in User : given[<<w, u>>] \subseteq given'[<<w, u>>]

LEMMA GiveGrows ==
    ASSUME DataOK, NEW u \in User, NEW a \in Account, Give(u, a)
    PROVE  Grows /\ \A w \in World : RoleCapabilities(a, w) \subseteq given'[<<w, u>>]
<1>1. \A w \in World, v \in User :
         given'[<<w, v>>] = IF v = u THEN given[<<w, v>>] \cup RoleCapabilities(a, w)
                                     ELSE given[<<w, v>>]
  BY PairsAreKeys DEF Give
<1>2. QED BY <1>1 DEF Grows

LEMMA AllStays ==
    ASSUME DataOK', Grows, NEW u \in User, GivenAll(u)
    PROVE  GivenAll(u)'
<1>1. \A w \in World : given'[<<w, u>>] \subseteq Capability
  BY PairsAreKeys DEF DataOK
<1>2. QED BY <1>1 DEF GivenAll, Grows

LEMMA ToStays ==
    ASSUME Grows, NEW a, NEW u \in User, GivenTo(a, u)
    PROVE  \A w \in World : RoleCapabilities(a, w) \subseteq given'[<<w, u>>]
  BY DEF GivenTo, Grows

LEMMA OperatorStays ==
    ASSUME DataOK, DataOK', OperatorGiven, Grows, operator' = operator
    PROVE  OperatorGiven'
<1>1. operator.user \in User
  BY DEF DataOK
<1>2. operator'.admin => GivenAll(operator.user)'
  BY <1>1, AllStays DEF OperatorGiven
<1>3. given'[<<Demo, Root>>] = Capability
  <2>1. Capability \subseteq given'[<<Demo, Root>>]
    BY RootAssumption DEF OperatorGiven, Grows
  <2>2. given'[<<Demo, Root>>] \subseteq Capability
    BY RootAssumption, PairsAreKeys DEF DataOK
  <2>3. QED BY <2>1, <2>2
<1>4. QED BY <1>2, <1>3 DEF OperatorGiven, GivenAll

LEMMA TableStays ==
    ASSUME TableGranted, Grows, table' = table
    PROVE  TableGranted'
  BY DEF TableGranted, Grows

LEMMA HeldStays ==
    ASSUME HeldGranted, Grows, held' = held
    PROVE  HeldGranted'
  BY DEF HeldGranted, Grows, Caps

LEMMA AccountsStay ==
    ASSUME AccountsGiven, accounts' = accounts
    PROVE  AccountsGiven'
  BY DEF AccountsGiven, GivenTo, accounts

LEMMA GiveKeepsAccounts ==
    ASSUME DataOK, AccountsGiven, NEW u \in User, NEW a \in Account, Give(u, a)
    PROVE  AccountsGiven'
<1> SUFFICES ASSUME NEW v \in User PROVE \A w \in World : RoleCapabilities(account'[v], w) \subseteq given'[<<w, v>>]
  BY DEF AccountsGiven, GivenTo
<1>1. Grows /\ \A w \in World : RoleCapabilities(a, w) \subseteq given'[<<w, u>>]
  BY GiveGrows
<1>2. CASE v = u
  <2>1. account'[v] = a
    BY <1>2 DEF Give, DataOK
  <2>2. QED BY <1>1, <1>2, <2>1
<1>3. CASE v # u
  <2>1. account'[v] = account[v]
    BY <1>3 DEF Give, DataOK
  <2>2. QED BY <1>1, <2>1, ToStays DEF AccountsGiven, GivenTo
<1>4. QED BY <1>2, <1>3

\* A thread ends its request, or goes on with it and with what it has read.
LEMMA LocalsStay ==
    ASSUME LocalsOK, LocalsOK', DataOK', LocalsGiven, Grows, NEW t \in Thread, NEW step,
           Leave(t) \/ (pc[t] # "idle" /\ Goto(t, step) /\ UNCHANGED <<job, seen, todo>>)
    PROVE  LocalsGiven'
<1> SUFFICES ASSUME NEW x \in Thread PROVE
        /\ \A u \in todo'[x] : /\ seen'[x][u] \in Account
                               /\ \A w \in World :
                                    RoleCapabilities(seen'[x][u], w) \subseteq given'[<<w, u>>]
        /\ pc'[x] # "idle" /\ job'[x].by \in User =>
              \A w \in World : given'[<<w, job'[x].by>>] = Capability
  BY DEF LocalsGiven, GivenTo, GivenAll
<1>1. /\ todo'[x] = {} \/ (todo'[x] = todo[x] /\ seen'[x] = seen[x])
      /\ pc'[x] # "idle" => pc[x] # "idle" /\ job'[x] = job[x]
  BY DEF LocalsOK, Leave, Goto
<1>2. ASSUME NEW u \in todo'[x]
      PROVE  /\ seen'[x][u] \in Account
             /\ \A w \in World : RoleCapabilities(seen'[x][u], w) \subseteq given'[<<w, u>>]
  <2>1. u \in User /\ u \in todo[x] /\ seen'[x] = seen[x]
    BY <1>1, <1>2 DEF LocalsOK
  <2>2. seen[x][u] \in Account /\ GivenTo(seen[x][u], u)
    BY <2>1 DEF LocalsGiven
  <2>3. QED BY <2>1, <2>2, ToStays
<1>3. ASSUME pc'[x] # "idle", job'[x].by \in User
      PROVE  \A w \in World : given'[<<w, job'[x].by>>] = Capability
  <2> DEFINE u == job[x].by
  <2>1. GivenAll(u) /\ job'[x].by = u /\ u \in User
    BY <1>1, <1>3 DEF LocalsGiven
  <2> HIDE DEF u
  <2>2. \A w \in World : given'[<<w, u>>] = Capability
    BY <2>1, AllStays DEF GivenAll
  <2>3. QED BY <2>1, <2>2
<1>4. QED BY <1>2, <1>3

\* What was given to administrators and to automation is everything.
LEMMA AdministratorsHaveAll ==
    ASSUME DataOK, AccountsGiven, OperatorGiven, NEW by \in Administrators
    PROVE  by \in User /\ GivenAll(by)
<1>1. by \in User
  BY AdministratorsAreUsers
<1>2. CASE account[by].admin
  <2>1. \A w \in World : given[<<w, by>>] \subseteq Capability
    BY <1>1, PairsAreKeys DEF DataOK
  <2>2. \A w \in World : RoleCapabilities(account[by], w) = Capability
    BY <1>2, AdminsHaveAll
  <2>3. \A w \in World : Capability \subseteq given[<<w, by>>]
    BY <1>1, <2>2 DEF AccountsGiven, GivenTo
  <2>4. QED BY <1>1, <2>1, <2>3 DEF GivenAll
<1>3. CASE operator.admin /\ by = operator.user
  BY <1>1, <1>3 DEF OperatorGiven
<1>4. QED BY <1>2, <1>3 DEF Administrators

\* A thread takes up a request, of nobody or of an administrator.
LEMMA AskGiven ==
    ASSUME LocalsOK, LocalsGiven, NEW t \in Thread, NEW q, NEW step, Ask(t, q, step),
           q.by \in User => GivenAll(q.by)
    PROVE  LocalsGiven' /\ UNCHANGED <<accounts, tables, process>>
<1>1. UNCHANGED <<accounts, tables, process, seen, todo>>
  BY DEF Ask
<1>2. \A x \in Thread : \/ job'[x] = job[x] /\ (pc'[x] # "idle" => pc[x] # "idle")
                        \/ job'[x] = q
  BY DEF Ask, Goto, LocalsOK
<1>3. LocalsGiven'
  BY <1>1, <1>2 DEF LocalsGiven, GivenTo, GivenAll, accounts
<1>4. QED BY <1>1, <1>3

LEMMA AdministerGiven ==
    ASSUME IInv, NEW t \in Thread, NEW by \in Administrators, Administer(t, by)
    PROVE  LocalsGiven' /\ UNCHANGED <<accounts, tables, process>>
<1> LocalsOK /\ DataOK /\ LocalsGiven /\ AccountsGiven /\ OperatorGiven
  BY TypesSplit DEF IInv, GivenInv
<1>1. by \in User /\ GivenAll(by)
  BY AdministratorsHaveAll
<1>2. \E kind, who, w, roles, caps, flag, step :
         Ask(t, Request(kind, by, who, w, roles, caps, flag), step)
  BY Zenon DEF Administer, AskGlobalRoles, AskActive, AskWorldRoles, AskDelete, AskWorld, AskActor,
     AskEntity
<1>3. PICK kind, who, w, roles, caps, flag, step :
         Ask(t, Request(kind, by, who, w, roles, caps, flag), step)
  BY <1>2
<1>4. Request(kind, by, who, w, roles, caps, flag).by = by
  BY DEF Request
<1>5. QED BY <1>1, <1>3, <1>4, AskGiven

LEMMA LoginGiven ==
    ASSUME IInv, NEW t \in Thread, NEW u \in User, AskLogin(t, u)
    PROVE  LocalsGiven' /\ UNCHANGED <<accounts, tables, process>>
<1> LocalsOK /\ LocalsGiven
  BY TypesSplit DEF IInv, GivenInv
<1>1. Ask(t, Request("login", None, u, Demo, {}, {}, FALSE), "read")
  BY DEF AskLogin
<1>2. Request("login", None, u, Demo, {}, {}, FALSE).by \notin User
  BY ActorAssumption DEF Request, Actor
<1>3. QED BY <1>1, <1>2, AskGiven

(***************************************************************************)
(* Every step takes authority from what was given.                         *)
(***************************************************************************)

\* A step that writes neither an account nor an authority.
LEMMA NothingWritten ==
    ASSUME IInv, TypeInv', LocalsGiven', UNCHANGED <<account, given, table, held, operator>>
    PROVE  GivenInv'
<1>1. DataOK /\ DataOK'
  BY TypesSplit DEF IInv, TypeInv, TypeOK, DataOK
<1>2. Grows
  BY DEF Grows
<1>3. AccountsGiven' /\ OperatorGiven' /\ TableGranted' /\ HeldGranted'
  BY <1>1, <1>2, AccountsStay, OperatorStays, TableStays, HeldStays DEF IInv, GivenInv, accounts
<1>4. QED BY <1>3 DEF GivenInv

LEMMA SyncedGranted ==
    ASSUME DataOK, TableGranted, NEW u \in User, NEW a \in Account, NEW scope, Give(u, a),
           table' = Synced(table, u, a, scope)
    PROVE  TableGranted'
<1> SUFFICES ASSUME NEW w \in World, NEW v \in User
             PROVE  table'[<<w, v>>] \subseteq given'[<<w, v>>]
  BY DEF TableGranted
<1>1. Grows /\ RoleCapabilities(a, w) \subseteq given'[<<w, u>>]
  BY GiveGrows
<1>2. \/ table'[<<w, v>>] = table[<<w, v>>]
      \/ v = u /\ table'[<<w, v>>] = RoleCapabilities(a, w)
  BY PairsAreKeys DEF Synced
<1>3. table[<<w, v>>] \subseteq given'[<<w, v>>]
  BY <1>1 DEF TableGranted, Grows
<1>4. QED BY <1>1, <1>2, <1>3

\* What becomes of an account that a step writes.
LEMMA WriteGiven ==
    ASSUME IInv, TypeInv', NEW t \in Thread, NEW a \in Account, Give(job[t].who, a),
           job[t].who \in User, UNCHANGED <<held, operator>>, TableGranted',
           NEW step, Leave(t) \/ (pc[t] # "idle" /\ Goto(t, step) /\ UNCHANGED <<job, seen, todo>>)
    PROVE  GivenInv'
<1>1. LocalsOK /\ DataOK
  BY TypesSplit DEF IInv
<1>2. LocalsOK' /\ DataOK'
  BY DEF TypeInv, TypeOK, LocalsOK, DataOK
<1>3. Grows
  BY <1>1, GiveGrows
<1>4. LocalsGiven'
  BY <1>1, <1>2, <1>3, LocalsStay DEF IInv, GivenInv
<1>5. AccountsGiven'
  BY <1>1, GiveKeepsAccounts DEF IInv, GivenInv
<1>6. OperatorGiven' /\ HeldGranted'
  BY <1>1, <1>2, <1>3, OperatorStays, HeldStays DEF IInv, GivenInv
<1>7. QED BY <1>4, <1>5, <1>6 DEF GivenInv

\* A step that only goes on, or ends the request.
LEMMA GoesOn ==
    ASSUME IInv, TypeInv', NEW t \in Thread, NEW step,
           UNCHANGED <<account, given, table, held, operator>>,
           Leave(t) \/ (pc[t] # "idle" /\ Goto(t, step) /\ UNCHANGED <<job, seen, todo>>)
    PROVE  GivenInv'
<1>1. LocalsOK /\ LocalsGiven
  BY TypesSplit DEF IInv, GivenInv
<1>2. LocalsOK' /\ DataOK' /\ Grows
  BY DEF TypeInv, TypeOK, LocalsOK, DataOK, Grows
<1>3. LocalsGiven'
  BY <1>1, <1>2, LocalsStay
<1>4. QED BY <1>3, NothingWritten

\* The rows that the four kinds of requests write are accounts.
LEMMA WrittenAccounts ==
    ASSUME TypeInv, NEW t \in Thread, pc[t] = "write"
    PROVE  LET q == job[t] IN
           /\ q.who \in User
           /\ [account[q.who] EXCEPT !.admin = q.flag] \in Account
           /\ [account[q.who] EXCEPT !.active = q.flag] \in Account
           /\ [account[q.who] EXCEPT
                 !.roles = [account[q.who].roles EXCEPT ![q.world] = q.roles]] \in Account
           /\ [admin |-> FALSE, active |-> FALSE, deleted |-> TRUE, roles |-> NoRoles] \in Account
<1> DEFINE q == job[t]
<1>1. LocalsOK /\ DataOK
  BY TypesSplit
<1>2. q \in Job /\ q.who \in User
  BY <1>1 DEF LocalsOK, LocalsInv
<1>3. /\ account[q.who] \in Account
      /\ q.flag \in BOOLEAN /\ q.roles \in SUBSET {"DM", "PLAYER"}
  BY <1>1, <1>2 DEF DataOK, Job
<1> HIDE DEF q
<1>4. [account[q.who] EXCEPT !.admin = q.flag] \in Account
  BY <1>3 DEF Account
<1>5. [account[q.who] EXCEPT !.active = q.flag] \in Account
  BY <1>3 DEF Account
<1>6. [account[q.who].roles EXCEPT ![q.world] = q.roles] \in [World -> SUBSET {"DM", "PLAYER"}]
  BY <1>3 DEF Account
<1>7. [account[q.who] EXCEPT
         !.roles = [account[q.who].roles EXCEPT ![q.world] = q.roles]] \in Account
  BY <1>3, <1>6 DEF Account
<1>8. [admin |-> FALSE, active |-> FALSE, deleted |-> TRUE, roles |-> NoRoles] \in Account
  BY DEF Account, NoRoles
<1>9. QED BY <1>2, <1>4, <1>5, <1>7, <1>8, Zenon DEF q

LEMMA WriteGlobalRolesGiven ==
    ASSUME IInv, TypeInv', NEW t \in Thread, WriteGlobalRoles(t)
    PROVE  GivenInv'
<1> DEFINE a == [account[job[t].who] EXCEPT !.admin = job[t].flag]
<1>1. DataOK /\ TypeInv /\ TableGranted
  BY TypesSplit DEF IInv, GivenInv
<1>2. job[t].who \in User /\ a \in Account
  BY <1>1, WrittenAccounts DEF WriteGlobalRoles
<1>3. /\ Give(job[t].who, a) /\ table' = Synced(table, job[t].who, a, World)
      /\ Goto(t, "read") /\ pc[t] # "idle"
      /\ UNCHANGED <<held, operator, job, seen, todo>>
  BY DEF WriteGlobalRoles, process
<1> HIDE DEF a
<1>4. TableGranted'
  BY <1>1, <1>2, <1>3, SyncedGranted
<1>5. QED BY <1>2, <1>3, <1>4, WriteGiven

LEMMA WriteWorldRolesGiven ==
    ASSUME IInv, TypeInv', NEW t \in Thread, WriteWorldRoles(t)
    PROVE  GivenInv'
<1> DEFINE q == job[t]
           a == [account[q.who] EXCEPT !.roles = [account[q.who].roles EXCEPT ![q.world] = q.roles]]
<1>1. LocalsOK /\ DataOK /\ TypeInv /\ TableGranted /\ LocalsGiven
  BY TypesSplit DEF IInv, GivenInv
<1>2. q.who \in User /\ a \in Account
  BY <1>1, WrittenAccounts DEF WriteWorldRoles
<1>3. /\ \/ /\ Give(q.who, a) /\ table' = Synced(table, q.who, a, {q.world})
            /\ Goto(t, "read") /\ UNCHANGED <<job, seen, todo>>
         \/ Leave(t) /\ UNCHANGED <<accounts, table>>
      /\ pc[t] = "write" /\ UNCHANGED process
  BY Zenon DEF WriteWorldRoles
<1> HIDE DEF a
<1>4. CASE /\ Give(q.who, a) /\ table' = Synced(table, q.who, a, {q.world})
           /\ Goto(t, "read") /\ UNCHANGED <<job, seen, todo>>
  <2>1. TableGranted'
    BY <1>1, <1>2, <1>4, SyncedGranted
  <2>2. pc[t] # "idle" /\ UNCHANGED <<held, operator>>
    BY <1>3 DEF process
  <2>3. QED BY <1>2, <1>4, <2>1, <2>2, WriteGiven
<1>5. CASE Leave(t) /\ UNCHANGED <<accounts, table>>
  <2>1. UNCHANGED <<account, given, table, held, operator>>
    BY <1>3, <1>5 DEF accounts, process
  <2>2. QED BY <1>5, <2>1, GoesOn
<1>6. QED BY <1>3, <1>4, <1>5

LEMMA WriteActiveGiven ==
    ASSUME IInv, TypeInv', NEW t \in Thread, WriteActive(t)
    PROVE  GivenInv'
<1> DEFINE a == [account[job[t].who] EXCEPT !.active = job[t].flag]
<1>1. DataOK /\ TypeInv /\ TableGranted
  BY TypesSplit DEF IInv, GivenInv
<1>2. job[t].who \in User /\ a \in Account
  BY <1>1, WrittenAccounts DEF WriteActive
<1>3. /\ Give(job[t].who, a) /\ Leave(t)
      /\ UNCHANGED <<table, held, operator>>
  BY DEF WriteActive, tables, process
<1> HIDE DEF a
<1>4. TableGranted'
  BY <1>1, <1>2, <1>3, GiveGrows, TableStays
<1>5. QED BY <1>2, <1>3, <1>4, WriteGiven

LEMMA WriteDeleteGiven ==
    ASSUME IInv, TypeInv', NEW t \in Thread, WriteDelete(t)
    PROVE  GivenInv'
<1> DEFINE a == [admin |-> FALSE, active |-> FALSE, deleted |-> TRUE, roles |-> NoRoles]
<1>1. DataOK /\ TypeInv /\ TableGranted
  BY TypesSplit DEF IInv, GivenInv
<1>2. job[t].who \in User /\ a \in Account
  BY <1>1, WrittenAccounts DEF WriteDelete
<1>3. /\ Give(job[t].who, a) /\ Leave(t)
      /\ UNCHANGED <<table, held, operator>>
  BY DEF WriteDelete, tables, process
<1> HIDE DEF a
<1>4. TableGranted'
  BY <1>1, <1>2, <1>3, GiveGrows, TableStays
<1>5. QED BY <1>2, <1>3, <1>4, WriteGiven

\* A thread notes accounts that it reads.
LEMMA NotesGiven ==
    ASSUME IInv, TypeInv', NEW t \in Thread, NEW step, NEW rows, NEW due \in SUBSET User,
           \A u \in due : rows[u] = account[u],
           pc[t] # "idle", Goto(t, step), UNCHANGED job,
           seen' = [seen EXCEPT ![t] = rows], todo' = [todo EXCEPT ![t] = due],
           UNCHANGED <<account, given, table, held, operator>>
    PROVE  GivenInv'
<1>1. LocalsOK /\ DataOK /\ LocalsGiven /\ AccountsGiven
  BY TypesSplit DEF IInv, GivenInv
<1>2. \A x \in Thread : pc'[x] # "idle" => pc[x] # "idle"
  BY <1>1 DEF LocalsOK, Goto
<1>3. ASSUME NEW x \in Thread, NEW u \in todo'[x]
      PROVE  seen'[x][u] \in Account /\ GivenTo(seen'[x][u], u)
  <2>1. CASE x = t
    <3>1. u \in User /\ seen'[x][u] = account[u]
      BY <1>1, <1>3, <2>1 DEF LocalsOK
    <3>2. QED BY <1>1, <3>1 DEF AccountsGiven, DataOK
  <2>2. CASE x # t
    <3>1. u \in todo[x] /\ seen'[x] = seen[x]
      BY <1>1, <1>3, <2>2 DEF LocalsOK
    <3>2. QED BY <1>1, <3>1 DEF LocalsGiven
  <2>3. QED BY <2>1, <2>2
<1>4. LocalsGiven'
  BY <1>1, <1>2, <1>3 DEF LocalsGiven, GivenTo, GivenAll
<1>5. QED BY <1>4, NothingWritten

LEMMA ReadGiven == ASSUME IInv, TypeInv', NEW t \in Thread, Read(t) PROVE GivenInv'
<1> DEFINE u == job[t].who
           row == [v \in User |-> IF v = u THEN account[u] ELSE None]
<1>1. u \in User
  BY TypesSplit DEF IInv, LocalsOK, LocalsInv, Read
<1>2. /\ \/ Leave(t)
         \/ /\ seen' = [seen EXCEPT ![t] = row] /\ todo' = [todo EXCEPT ![t] = {u}]
            /\ Goto(t, "mirror") /\ UNCHANGED job
      /\ pc[t] = "read" /\ UNCHANGED <<accounts, tables, process>>
  BY Zenon DEF Read
<1>3. UNCHANGED <<account, given, table, held, operator>> /\ pc[t] # "idle"
  BY <1>2 DEF accounts, tables, process
<1>4. {u} \in SUBSET User /\ \A v \in {u} : row[v] = account[v]
  BY <1>1
<1>5. CASE Leave(t)
  BY <1>3, <1>5, GoesOn
<1> DEFINE due == {u}
<1> HIDE DEF row, due
<1>6. CASE /\ seen' = [seen EXCEPT ![t] = row] /\ todo' = [todo EXCEPT ![t] = due]
           /\ Goto(t, "mirror") /\ UNCHANGED job
  <2>1. due \in SUBSET User /\ \A v \in due : row[v] = account[v]
    BY <1>4 DEF due
  <2>2. QED BY <1>3, <1>6, <2>1, NotesGiven
<1>7. QED BY <1>2, <1>5, <1>6 DEF due

LEMMA ListGiven == ASSUME IInv, TypeInv', NEW t \in Thread, List(t) PROVE GivenInv'
<1> DEFINE rows == [u \in User |-> IF account[u].deleted THEN None ELSE account[u]]
           due == User \ Deleted
<1>1. /\ pc[t] # "idle" /\ Goto(t, "mirror") /\ UNCHANGED job
      /\ seen' = [seen EXCEPT ![t] = rows] /\ todo' = [todo EXCEPT ![t] = due]
  BY DEF List
<1>2. UNCHANGED <<account, given, table, held, operator>>
  BY DEF List, accounts, tables, process
<1>3. due \in SUBSET User /\ \A u \in due : rows[u] = account[u]
  BY DEF Deleted
<1> HIDE DEF rows, due
<1>4. QED BY <1>1, <1>2, <1>3, NotesGiven

\* A step that writes the authorities of the process and no account.
LEMMA HeldWritten ==
    ASSUME IInv, TypeInv', UNCHANGED <<account, given, table, operator>>, LocalsGiven', HeldGranted'
    PROVE  GivenInv'
<1>1. DataOK /\ DataOK' /\ Grows
  BY TypesSplit DEF IInv, TypeInv, TypeOK, DataOK, Grows
<1>2. AccountsGiven' /\ OperatorGiven' /\ TableGranted'
  BY <1>1, AccountsStay, OperatorStays, TableStays DEF IInv, GivenInv, accounts
<1>3. QED BY <1>2 DEF GivenInv

LEMMA LocalsGo ==
    ASSUME IInv, TypeInv', UNCHANGED <<given>>, NEW t \in Thread, NEW step,
           Leave(t) \/ (pc[t] # "idle" /\ Goto(t, step) /\ UNCHANGED <<job, seen, todo>>)
    PROVE  LocalsGiven'
<1>1. LocalsOK /\ LocalsGiven
  BY TypesSplit DEF IInv, GivenInv
<1>2. LocalsOK' /\ DataOK' /\ Grows
  BY DEF TypeInv, TypeOK, LocalsOK, DataOK, Grows
<1>3. QED BY <1>1, <1>2, LocalsStay

LEMMA MirrorGiven ==
    ASSUME IInv, TypeInv', NEW t \in Thread, NEW u \in User, Mirror(t, u)
    PROVE  GivenInv'
<1> DEFINE a == seen[t][u]
<1>1. LocalsOK /\ DataOK /\ LocalsGiven /\ HeldGranted
  BY TypesSplit DEF IInv, GivenInv
<1>2. /\ u \in todo[t] /\ held' = Mirrored(held, u, a)
      /\ todo' = [todo EXCEPT ![t] = todo[t] \ {u}]
      /\ UNCHANGED <<pc, job, seen>>
      /\ UNCHANGED <<account, given, table, operator>>
  BY DEF Mirror, accounts, tables
<1>3. GivenTo(a, u)
  BY <1>1, <1>2 DEF LocalsGiven
<1> HIDE DEF a
<1>4. ASSUME NEW w \in World, NEW v \in User
      PROVE  Caps(<<w, v>>)' \subseteq given'[<<w, v>>]
  <2> DEFINE k == <<w, v>>
  <2>1. k \in Keys /\ k[1] = w /\ k[2] = v
    BY PairsAreKeys
  <2> HIDE DEF k
  <2>2. \/ held'[k] = held[k]
        \/ held'[k] = None
        \/ v = u /\ held'[k] = [caps |-> RoleCapabilities(a, w),
                                controls |-> held[k] # None /\ held[k].controls]
    BY <1>2, <2>1 DEF Mirrored
  <2>3. Caps(k) \subseteq given[k]
    BY <1>1 DEF HeldGranted, k
  <2>4. v = u => RoleCapabilities(a, w) \subseteq given[k]
    BY <1>3 DEF GivenTo, k
  <2>5. Caps(k)' \subseteq given[k]
    BY <2>2, <2>3, <2>4 DEF Caps
  <2>6. QED BY <1>2, <2>5 DEF k
<1>5. HeldGranted'
  BY <1>4 DEF HeldGranted
<1>6. \A x \in Thread : todo'[x] \subseteq todo[x]
  BY <1>1, <1>2 DEF LocalsOK
<1>7. LocalsGiven'
  BY <1>1, <1>2, <1>6 DEF LocalsGiven, GivenTo, GivenAll
<1>8. QED BY <1>2, <1>5, <1>7, HeldWritten

LEMMA MakeWorldGiven == ASSUME IInv, TypeInv', NEW t \in Thread, MakeWorld(t) PROVE GivenInv'
<1> DEFINE q == job[t]
           mine == held[<<Demo, q.by>>]
           entry == [caps |-> mine.caps, controls |-> FALSE]
           key == <<q.world, q.by>>
<1>1. LocalsOK /\ DataOK /\ LocalsGiven /\ HeldGranted
  BY TypesSplit DEF IInv, GivenInv
<1>2. q \in Job /\ q.by \in User /\ q.world \in World /\ pc[t] = "make world"
  BY <1>1 DEF LocalsOK, LocalsInv, MakeWorld, Job
<1>3. GivenAll(q.by)
  BY <1>1, <1>2 DEF LocalsGiven
<1>4. mine # None => mine.caps \subseteq Capability
  <2>1. <<Demo, q.by>> \in Keys
    BY <1>2, RootAssumption, PairsAreKeys
  <2>2. mine \in Entry \cup {None}
    BY <1>1, <2>1 DEF DataOK
  <2>3. QED BY <2>2 DEF Entry
<1>5. /\ \/ Leave(t) /\ UNCHANGED <<held, worlds>>
         \/ /\ mine # None /\ held' = [held EXCEPT ![key] = entry]
            /\ Goto(t, "list") /\ UNCHANGED <<job, seen, todo>>
      /\ UNCHANGED <<accounts, tables, operator>>
  BY Zenon DEF MakeWorld
<1>6. UNCHANGED <<account, given, table, operator>> /\ pc[t] # "idle"
  BY <1>2, <1>5 DEF accounts, tables
<1>7. CASE Leave(t) /\ UNCHANGED <<held, worlds>>
  BY <1>6, <1>7, GoesOn
<1>8. CASE /\ mine # None /\ held' = [held EXCEPT ![key] = entry]
           /\ Goto(t, "list") /\ UNCHANGED <<job, seen, todo>>
  <2>1. given[key] = Capability
    BY <1>2, <1>3 DEF GivenAll
  <2> entry.caps \subseteq Capability
    BY <1>4, <1>8
  <2> HIDE DEF entry, key
  <2>2. ASSUME NEW w \in World, NEW v \in User
        PROVE  Caps(<<w, v>>)' \subseteq given'[<<w, v>>]
    <3> DEFINE k == <<w, v>>
    <3>1. k \in Keys /\ Caps(k) \subseteq given[k]
      BY <1>1, PairsAreKeys DEF HeldGranted
    <3> HIDE DEF k
    <3>2. held'[k] = held[k] \/ (k = key /\ held'[k] = entry)
      BY <1>1, <1>8, <3>1 DEF DataOK
    <3>3. Caps(k)' \subseteq given[k]
      BY <2>1, <3>1, <3>2 DEF Caps
    <3>4. QED BY <1>6, <3>3 DEF k
  <2>3. HeldGranted'
    BY <2>2 DEF HeldGranted
  <2>4. LocalsGiven'
    BY <1>6, <1>8, LocalsGo
  <2>5. QED BY <1>6, <2>3, <2>4, HeldWritten
<1>9. QED BY <1>5, <1>7, <1>8

LEMMA MakeActorGiven == ASSUME IInv, TypeInv', NEW t \in Thread, MakeActor(t) PROVE GivenInv'
<1> DEFINE key == <<job[t].world, Bot>>
           entry == [caps |-> job[t].caps, controls |-> FALSE]
<1>1. DataOK /\ HeldGranted
  BY TypesSplit DEF IInv, GivenInv
<1>2. /\ held' = [held EXCEPT ![key] = entry]
      /\ pc[t] # "idle" /\ Goto(t, "sync") /\ UNCHANGED <<job, seen, todo>>
      /\ UNCHANGED <<account, given, table, operator>>
  BY DEF MakeActor, accounts, tables
<1>3. \A w \in World, u \in User : <<w, u>> # key /\ <<w, u>> \in Keys
  BY ActorAssumption, PairsAreKeys
<1> HIDE DEF key, entry
<1>4. \A w \in World, u \in User : held'[<<w, u>>] = held[<<w, u>>]
  BY <1>1, <1>2, <1>3 DEF DataOK
<1>5. HeldGranted'
  BY <1>1, <1>2, <1>4 DEF HeldGranted, Caps
<1>6. LocalsGiven'
  BY <1>2, LocalsGo
<1>7. QED BY <1>2, <1>5, <1>6, HeldWritten

\* A step that writes the tables and no account.
LEMMA TableWritten ==
    ASSUME IInv, TypeInv', UNCHANGED <<account, given, held, operator>>, LocalsGiven',
           TableGranted'
    PROVE  GivenInv'
<1>1. DataOK /\ DataOK' /\ Grows
  BY TypesSplit DEF IInv, TypeInv, TypeOK, DataOK, Grows
<1>2. AccountsGiven' /\ OperatorGiven' /\ HeldGranted'
  BY <1>1, AccountsStay, OperatorStays, HeldStays DEF IInv, GivenInv, accounts
<1>3. QED BY <1>2 DEF GivenInv

LEMMA SyncGiven == ASSUME IInv, TypeInv', NEW t \in Thread, Sync(t) PROVE GivenInv'
<1>1. DataOK /\ HeldGranted /\ TableGranted
  BY TypesSplit DEF IInv, GivenInv
<1>2. /\ table' = Copied(held) \/ table' = table
      /\ Leave(t) \/ (Goto(t, "admins") /\ UNCHANGED <<job, seen, todo>>)
      /\ UNCHANGED <<accounts, controller, process>>
      /\ pc[t] = "sync"
  BY Zenon DEF Sync
<1>3. UNCHANGED <<account, given, held, operator>> /\ pc[t] # "idle"
  BY <1>2 DEF accounts, process
<1>4. ASSUME NEW w \in World, NEW u \in User
      PROVE  table'[<<w, u>>] \subseteq given[<<w, u>>]
  <2> DEFINE k == <<w, u>>
  <2>1. k \in Keys /\ table[k] \subseteq given[k] /\ Caps(k) \subseteq given[k]
    BY <1>1, PairsAreKeys DEF HeldGranted, TableGranted
  <2> HIDE DEF k
  <2>2. table'[k] = table[k] \/ table'[k] = table[k] \cup Caps(k)
    BY <1>2, <2>1 DEF Copied, Caps
  <2>3. table'[k] \subseteq given[k]
    BY <2>1, <2>2
  <2>4. QED BY <2>3 DEF k
<1>5. TableGranted'
  BY <1>3, <1>4 DEF TableGranted
<1>6. LocalsGiven'
  <2>1. CASE Leave(t)
    BY <1>3, <2>1, LocalsGo
  <2>2. CASE Goto(t, "admins") /\ UNCHANGED <<job, seen, todo>>
    BY <1>3, <2>2, LocalsGo
  <2>3. QED BY <1>2, <2>1, <2>2
<1>7. QED BY <1>3, <1>5, <1>6, TableWritten

\* Administrators get what was given to them.
LEMMA WithAdminsGranted ==
    ASSUME AccountsGiven, NEW tab, NEW scope, NEW w \in World, NEW u \in User,
           tab[<<w, u>>] \subseteq given[<<w, u>>]
    PROVE  WithAdmins(tab, scope)[<<w, u>>] \subseteq given[<<w, u>>]
<1>1. \/ WithAdmins(tab, scope)[<<w, u>>] = tab[<<w, u>>]
      \/ WithAdmins(tab, scope)[<<w, u>>] = RoleCapabilities(account[u], w)
  BY PairsAreKeys DEF WithAdmins
<1>2. QED BY <1>1 DEF AccountsGiven, GivenTo

LEMMA SyncAdminsGiven == ASSUME IInv, TypeInv', NEW t \in Thread, SyncAdmins(t) PROVE GivenInv'
<1>1. AccountsGiven /\ TableGranted
  BY DEF IInv, GivenInv
<1>2. /\ table' = WithAdmins(table, {job[t].world} \cap stored) /\ Leave(t)
      /\ UNCHANGED <<account, given, held, operator>>
  BY DEF SyncAdmins, accounts, process
<1>3. TableGranted'
  BY <1>1, <1>2, WithAdminsGranted DEF TableGranted
<1>4. LocalsGiven'
  BY <1>2, LocalsGo
<1>5. QED BY <1>2, <1>3, <1>4, TableWritten

LEMMA ControlGiven == ASSUME IInv, TypeInv', NEW t \in Thread, Control(t) PROVE GivenInv'
<1> DEFINE key == <<job[t].world, job[t].who>>
           entry == [caps |-> held[key].caps, controls |-> TRUE]
<1>1. DataOK /\ HeldGranted
  BY TypesSplit DEF IInv, GivenInv
<1>2. /\ \/ held[key] # None /\ held' = [held EXCEPT ![key] = entry]
         \/ held' = held
      /\ Leave(t) /\ UNCHANGED <<accounts, tables, worlds, operator>>
  BY Zenon DEF Control
<1>3. UNCHANGED <<account, given, table, operator>>
  BY <1>2 DEF accounts, tables
<1>4. entry.caps = held[key].caps
  OBVIOUS
<1> HIDE DEF key, entry
<1>5. ASSUME NEW w \in World, NEW u \in User
      PROVE  Caps(<<w, u>>)' \subseteq given'[<<w, u>>]
  <2> DEFINE k == <<w, u>>
  <2>1. k \in Keys /\ Caps(k) \subseteq given[k]
    BY <1>1, PairsAreKeys DEF HeldGranted
  <2> HIDE DEF k
  <2>2. held'[k] = held[k] \/ (k = key /\ held[key] # None /\ held'[k] = entry)
    BY <1>1, <1>2, <2>1 DEF DataOK
  <2>3. Caps(k)' \subseteq given[k]
    BY <1>4, <2>1, <2>2 DEF Caps
  <2>4. QED BY <1>3, <2>3 DEF k
<1>6. HeldGranted'
  BY <1>5 DEF HeldGranted
<1>7. LocalsGiven'
  BY <1>2, <1>3, LocalsGo
<1>8. QED BY <1>3, <1>6, <1>7, HeldWritten

LEMMA RestartGiven == ASSUME IInv, TypeInv', Restart PROVE GivenInv'
<1> DEFINE demo == [table EXCEPT ![<<Demo, Root>>] = Capability]
           tab == WithAdmins(demo, {Demo})
<1>1. DataOK /\ AccountsGiven /\ OperatorGiven /\ TableGranted
  BY TypesSplit DEF IInv, GivenInv
<1>2. /\ table' = tab /\ held' = Hydrated(tab, Deleted)
      /\ UNCHANGED <<account, given>>
      /\ todo' = [t \in Thread |-> {}] /\ pc' = [t \in Thread |-> "idle"]
  BY DEF Restart, accounts
<1>3. \A w \in World, u \in User : demo[<<w, u>>] \subseteq given[<<w, u>>]
  BY <1>1, PairsAreKeys DEF DataOK, OperatorGiven, TableGranted
<1> HIDE DEF demo
<1>4. \A w \in World, u \in User : tab[<<w, u>>] \subseteq given[<<w, u>>]
  BY <1>1, <1>3, WithAdminsGranted
<1> HIDE DEF tab
<1>5. TableGranted'
  BY <1>2, <1>4 DEF TableGranted
<1>6. \A w \in World, u \in User :
         held'[<<w, u>>] = None \/ held'[<<w, u>>].caps = tab[<<w, u>>]
  BY <1>2, PairsAreKeys DEF Hydrated
<1>7. HeldGranted'
  BY <1>2, <1>4, <1>6 DEF HeldGranted, Caps
<1>8. LocalsGiven'
  BY <1>2 DEF LocalsGiven
<1>9. AccountsGiven'
  BY <1>1, <1>2 DEF AccountsGiven, GivenTo
<1>10. OperatorGiven'
  <2>1. PICK u \in User : operator' = [user |-> u, admin |-> account[u].admin]
    BY RootAssumption, Zenon DEF Restart
  <2>2. account[u].admin => GivenAll(u)
    <3> SUFFICES ASSUME account[u].admin, NEW w \in World PROVE given[<<w, u>>] = Capability
      BY DEF GivenAll
    <3>1. given[<<w, u>>] \subseteq Capability
      BY <1>1, PairsAreKeys DEF DataOK
    <3>2. RoleCapabilities(account[u], w) \subseteq given[<<w, u>>]
      BY <1>1 DEF AccountsGiven, GivenTo
    <3>3. QED BY <3>1, <3>2, AdminsHaveAll
  <2>3. operator'.admin => \A w \in World : given'[<<w, operator'.user>>] = Capability
    BY <1>2, <2>1, <2>2 DEF GivenAll
  <2>4. QED BY <1>1, <1>2, <2>3 DEF OperatorGiven, GivenAll
<1>11. QED BY <1>5, <1>7, <1>8, <1>9, <1>10 DEF GivenInv

LEMMA InitGiven == Init => GivenInv
<1> SUFFICES ASSUME Init PROVE GivenInv
  OBVIOUS
<1>1. AccountsGiven
  BY RolesAreCapabilities, PairsAreKeys DEF Init, AccountsGiven, GivenTo, RoleCapabilities, NoRoles
<1>2. LocalsGiven
  BY DEF Init, LocalsGiven
<1>3. OperatorGiven
  BY RootAssumption, PairsAreKeys DEF Init, OperatorGiven, GivenAll
<1>4. TableGranted
  BY RootAssumption, PairsAreKeys DEF Init, TableGranted
<1>5. HeldGranted
  BY RootAssumption, PairsAreKeys DEF Init, HeldGranted, Caps
<1>6. QED BY <1>1, <1>2, <1>3, <1>4, <1>5 DEF GivenInv

LEMMA NextGiven == ASSUME IInv, [Next]_vars PROVE IInv'
<1>1. TypeInv'
  BY NextTyped DEF IInv
<1>2. ASSUME NEW t \in Thread, Step(t) PROVE GivenInv'
  <2>1. ASSUME Check(t) \/ MirrorDone(t) \/ Spawn(t) \/ Fail(t) PROVE GivenInv'
    <3>1. PICK step : \/ Leave(t)
                      \/ pc[t] # "idle" /\ Goto(t, step) /\ UNCHANGED <<job, seen, todo>>
      BY <2>1, Zenon DEF Check, MirrorDone, Spawn, Fail
    <3>2. UNCHANGED <<account, given, table, held, operator>>
      BY <2>1 DEF Check, MirrorDone, Spawn, Fail, accounts, tables, process
    <3>3. QED BY <1>1, <3>1, <3>2, GoesOn
  <2>2. QED BY <1>1, <1>2, <2>1, WriteGlobalRolesGiven, WriteWorldRolesGiven, WriteActiveGiven,
               WriteDeleteGiven, ReadGiven, ListGiven, MirrorGiven, MakeWorldGiven,
               MakeActorGiven, SyncGiven, SyncAdminsGiven, ControlGiven DEF Step
<1>3. ASSUME NEW t \in Thread, NEW by \in Administrators, Administer(t, by) PROVE GivenInv'
  <2>1. LocalsGiven' /\ UNCHANGED <<accounts, tables, process>>
    BY <1>3, AdministerGiven
  <2>2. UNCHANGED <<account, given, table, held, operator>>
    BY <2>1 DEF accounts, tables, process
  <2>3. QED BY <1>1, <2>1, <2>2, NothingWritten
<1>4. ASSUME NEW t \in Thread, NEW u \in User, AskLogin(t, u) PROVE GivenInv'
  <2>1. LocalsGiven' /\ UNCHANGED <<accounts, tables, process>>
    BY <1>4, LoginGiven
  <2>2. UNCHANGED <<account, given, table, held, operator>>
    BY <2>1 DEF accounts, tables, process
  <2>3. QED BY <1>1, <2>1, <2>2, NothingWritten
<1>5. ASSUME UNCHANGED vars PROVE GivenInv'
  <2>1. UNCHANGED <<account, given, table, held, operator, pc, job, seen, todo>>
    BY <1>5 DEF vars, accounts, tables, process, locals
  <2>2. LocalsGiven'
    BY <2>1 DEF IInv, GivenInv, LocalsGiven, GivenTo, GivenAll
  <2>3. QED BY <1>1, <2>1, <2>2, NothingWritten
<1>6. GivenInv'
  BY <1>1, <1>2, <1>3, <1>4, <1>5, RestartGiven DEF Next
<1>7. QED BY <1>1, <1>6 DEF IInv

\* However requests overlap, fail and are cut off by restarts, neither the tables nor the
\* process hold a capability of an account in a world that its roles have never given it
\* there: no mirror, copy or restart brings authority from another world or from nowhere.
THEOREM AuthorityIsGranted == Spec => []GrantedByRoles
<1>1. Init => IInv
  BY InitTyped, InitGiven DEF IInv
<1>2. IInv => GrantedByRoles
  BY DEF IInv, GivenInv, TableGranted, HeldGranted, GrantedByRoles
<1>3. QED BY <1>1, <1>2, NextGiven, PTL DEF Spec

(***************************************************************************)
(* Requests that come one at a time.  The tables follow the roles at every *)
(* moment, since both are written in one transaction; the process owes the *)
(* accounts that have yet to be mirrored, and a world that is being made   *)
(* is known to the process before it is stored.                            *)
(***************************************************************************)
OneBusy == \A s, t \in Thread : pc[s] # "idle" /\ pc[t] # "idle" => s = t

\* The thread has made a world that is not stored yet.
Creates(t) == pc[t] = "list" \/ (pc[t] \in {"mirror", "sync"} /\ job[t].kind = "world")

\* The thread has yet to mirror the account.
Owes(t, u) ==
    \/ pc[t] = "read" /\ job[t].who = u
    \/ pc[t] = "list"
    \/ pc[t] = "mirror" /\ u \in todo[t]

\* The thread has yet to note who controls an entity.
Notes(t, w, u) == pc[t] = "control" /\ job[t].world = w /\ job[t].who = u

\* Accounts that authority is kept for.
Kept(u) == ~account[u].deleted /\ (u = Root => account[u].admin)

WorldsFit ==
    /\ Demo \in stored /\ stored \subseteq worlds
    /\ (\A t \in Thread : ~Creates(t)) => worlds = stored
    /\ \A w \in World \ stored, u \in User : table[<<w, u>>] = {} /\ <<w, u>> \notin controller
    /\ \A w \in World \ worlds, u \in User : held[<<w, u>>] = None

TableFits ==
    \A u \in User : Kept(u) => \A w \in stored : table[<<w, u>>] = RoleCapabilities(account[u], w)

HeldFits ==
    \A u \in User : Kept(u) /\ (\A t \in Thread : ~Owes(t, u)) =>
        \A w \in worlds : Caps(<<w, u>>) = RoleCapabilities(account[u], w)

Controls(w, u) == held[<<w, u>>] # None /\ held[<<w, u>>].controls

ControlFits ==
    \A u \in User, w \in worlds :
        ~account[u].deleted /\ <<w, u>> \in controller /\ (\A t \in Thread : ~Notes(t, w, u)) =>
            Controls(w, u)

ReadIsCurrent == \A t \in Thread : pc[t] = "mirror" => \A u \in todo[t] : seen[t][u] = account[u]

\* A world is made for who asked for one, and nobody is deleted to be enabled.
KindFits ==
    \A t \in Thread :
        /\ pc[t] \in {"make world", "list"} => job[t].kind = "world"
        /\ pc[t] \in {"check", "write"} /\ job[t].kind = "delete" => ~job[t].flag

\* Whoever is about to disable, delete or demote somebody leaves an administrator.
AdminFits ==
    /\ \E u \in User : account[u].admin /\ Usable(u)
    /\ \A t \in Thread :
          pc[t] = "write" /\ job[t].kind # "roles" /\ ~job[t].flag => Others(job[t].who) # {}

OrderlyParts ==
    /\ OneBusy /\ WorldsFit /\ TableFits /\ HeldFits /\ ControlFits /\ ReadIsCurrent /\ KindFits
    /\ AdminFits

OrderlyInv == orderly => OrderlyParts

LEMMA OrderlyBefore == ASSUME [Next]_vars, orderly' PROVE orderly
<1>1. CASE UNCHANGED vars
  BY <1>1 DEF vars
<1>2. ASSUME NEW t \in Thread, NEW q, NEW step, Ask(t, q, step) PROVE orderly
  BY <1>2 DEF Ask
<1>3. CASE \E t \in Thread, by \in Administrators : Administer(t, by)
  BY <1>2, <1>3 DEF Administer, AskGlobalRoles, AskActive, AskWorldRoles, AskDelete, AskWorld,
     AskActor, AskEntity
<1>4. CASE \E t \in Thread, u \in User : AskLogin(t, u)
  BY <1>2, <1>4 DEF AskLogin
<1>5. CASE \E t \in Thread : Step(t)
  <2>1. PICK t \in Thread : Step(t)
    BY <1>5
  <2>2. orderly' \in {orderly, FALSE} \/ Fail(t)
    BY <2>1, Zenon DEF Step, Check, WriteGlobalRoles, WriteWorldRoles, WriteActive, WriteDelete,
       Read, List, MirrorDone, Mirror, MakeWorld, MakeActor, Sync, SyncAdmins, Spawn, Control
  <2>3. QED BY <2>2, Zenon DEF Fail
<1>6. CASE Restart
  BY <1>6 DEF Restart
<1>7. QED BY <1>1, <1>3, <1>4, <1>5, <1>6, Zenon DEF Next

(***************************************************************************)
(* Steps of the only thread that is busy.                                  *)
(***************************************************************************)

\* Nobody but this thread is busy, before and after the step.
Alone(t) ==
    \A s \in Thread \ {t} :
        /\ pc[s] = "idle" /\ pc'[s] = "idle"
        /\ job'[s] = job[s] /\ seen'[s] = seen[s] /\ todo'[s] = todo[s]

LEMMA OthersIdle ==
    ASSUME OneBusy, NEW t \in Thread, pc[t] # "idle"
    PROVE  \A s \in Thread \ {t} : pc[s] = "idle"
  BY DEF OneBusy

LEMMA GoesAlone ==
    ASSUME LocalsOK, OneBusy, NEW t \in Thread, pc[t] # "idle", NEW step, Goto(t, step),
           job' = job, \A s \in Thread \ {t} : seen'[s] = seen[s] /\ todo'[s] = todo[s]
    PROVE  Alone(t) /\ pc'[t] = step
<1>1. \A s \in Thread \ {t} : pc[s] = "idle"
  BY OthersIdle
<1>2. pc' = [pc EXCEPT ![t] = step] /\ pc \in [Thread -> Steps]
  BY DEF Goto, LocalsOK
<1>3. QED BY <1>1, <1>2 DEF Alone

LEMMA LeavesAlone ==
    ASSUME LocalsOK, OneBusy, NEW t \in Thread, pc[t] # "idle", Leave(t)
    PROVE  Alone(t) /\ pc'[t] = "idle"
<1>1. \A s \in Thread \ {t} : pc[s] = "idle"
  BY OthersIdle
<1>2. QED BY <1>1 DEF Alone, Leave, Goto, LocalsOK

\* A thread that goes on, or begins when all are idle, and only reads.
LEMMA ReadingKeeps ==
    ASSUME OrderlyParts, UNCHANGED <<account, table, stored, controller, held, worlds>>,
           NEW t \in Thread, Alone(t),
           Creates(t) => Creates(t)',
           \A u \in User : Kept(u) /\ Owes(t, u) => Owes(t, u)',
           pc[t] # "control",
           pc'[t] = "mirror" => \A u \in todo'[t] : seen'[t][u] = account[u],
           pc'[t] \in {"make world", "list"} => job'[t].kind = "world",
           pc'[t] \in {"check", "write"} /\ job'[t].kind = "delete" => ~job'[t].flag,
           pc'[t] = "write" /\ job'[t].kind # "roles" /\ ~job'[t].flag =>
               Others(job'[t].who) # {}
    PROVE  OrderlyParts'
<1>1. OneBusy'
  BY DEF OneBusy, Alone
<1>2. WorldsFit'
  <2>1. (\A s \in Thread : ~Creates(s)') => \A s \in Thread : ~Creates(s)
    BY DEF Alone, Creates
  <2>2. QED BY <2>1 DEF OrderlyParts, WorldsFit
<1>3. TableFits'
  BY DEF OrderlyParts, TableFits, Kept
<1>4. HeldFits'
  <2> SUFFICES ASSUME NEW u \in User, Kept(u), \A s \in Thread : ~Owes(s, u)'
               PROVE  \A s \in Thread : ~Owes(s, u)
    BY DEF OrderlyParts, HeldFits, Kept, Caps
  <2>1. QED BY DEF Alone, Owes
<1>5. ControlFits'
  <2>1. \A s \in Thread, w \in worlds, u \in User : ~Notes(s, w, u)
    BY DEF Alone, Notes
  <2>2. QED BY <2>1 DEF OrderlyParts, ControlFits, Controls
<1>6. ReadIsCurrent' /\ KindFits'
  BY DEF ReadIsCurrent, KindFits, Alone
<1>7. AdminFits'
  <2>1. \A s \in Thread : pc'[s] = "write" => s = t
    BY DEF Alone
  <2>2. \E u \in User : account'[u].admin /\ Usable(u)'
    BY DEF OrderlyParts, AdminFits, Usable
  <2>3. Others(job'[t].who) # {} => Others(job[t].who)' # {}
    BY DEF Others, Usable
  <2>4. QED BY <2>1, <2>2, <2>3 DEF AdminFits
<1>8. QED BY <1>1, <1>2, <1>3, <1>4, <1>5, <1>6, <1>7, Zenon DEF OrderlyParts

\* Leaving without having anything to do any more.
LEMMA LeavingKeeps ==
    ASSUME LocalsOK, OrderlyParts, NEW t \in Thread, Leave(t), pc[t] \notin {"idle", "control"},
           ~Creates(t), \A u \in User : Kept(u) => ~Owes(t, u),
           UNCHANGED <<account, table, stored, controller, held, worlds>>
    PROVE  OrderlyParts'
<1>1. Alone(t) /\ pc'[t] = "idle"
  BY LeavesAlone DEF OrderlyParts
<1>2. QED BY <1>1, ReadingKeeps

\* Whoever asks in order asks when nobody is busy.
LEMMA AskKeeps ==
    ASSUME LocalsOK, OrderlyParts, orderly', NEW t \in Thread, NEW q, NEW step, Ask(t, q, step),
           step \notin {"list", "mirror", "sync"},
           step = "make world" => q.kind = "world",
           q.kind = "delete" => ~q.flag,
           step = "write" => q.kind = "roles" \/ q.flag
    PROVE  OrderlyParts'
<1>1. AllIdle /\ UNCHANGED <<account, table, stored, controller, held, worlds, seen, todo>>
  BY DEF Ask, accounts, tables, process
<1>2. pc' = [pc EXCEPT ![t] = step] /\ job' = [job EXCEPT ![t] = q]
  BY DEF Ask, Goto
<1>3. pc'[t] = step /\ job'[t] = q /\ pc[t] = "idle"
  BY <1>1, <1>2 DEF AllIdle, LocalsOK
<1>4. Alone(t)
  BY <1>1, <1>2 DEF Alone, AllIdle, LocalsOK
<1>5. ~Creates(t) /\ \A u \in User : ~Owes(t, u)
  BY <1>3 DEF Creates, Owes
<1>6. QED BY <1>1, <1>3, <1>4, <1>5, ReadingKeeps

\* The steps a request begins with, and what is asked for there.
Begins(step, kind, flag) ==
    /\ step \notin {"list", "mirror", "sync"}
    /\ step = "make world" => kind = "world"
    /\ kind = "delete" => ~flag
    /\ step = "write" => kind = "roles" \/ flag

LEMMA Beginnings ==
    ASSUME NEW flag \in BOOLEAN
    PROVE  /\ Begins("check", "global", flag) /\ Begins("check", "delete", FALSE)
           /\ Begins("write", "roles", FALSE)
           /\ Begins(IF flag THEN "write" ELSE "check", "active", flag)
           /\ Begins("make world", "world", FALSE)
           /\ Begins("make actor", "actor", FALSE) /\ Begins("spawn", "spawn", FALSE)
<1>1. CASE flag
  BY <1>1, Zenon DEF Begins
<1>2. CASE ~flag
  BY <1>2, Zenon DEF Begins
<1>3. QED BY <1>1, <1>2

LEMMA SendKeeps ==
    ASSUME LocalsOK, OrderlyParts, orderly', NEW t \in Thread, NEW kind, NEW by, NEW who,
           NEW world, NEW roles, NEW caps, NEW flag, NEW step,
           Ask(t, Request(kind, by, who, world, roles, caps, flag), step),
           Begins(step, kind, flag)
    PROVE  OrderlyParts'
<1>1. PICK q : q = Request(kind, by, who, world, roles, caps, flag)
  OBVIOUS
<1>2. q.kind = kind /\ q.flag = flag
  BY <1>1 DEF Request
<1>3. Ask(t, q, step)
  BY <1>1
<1>4. QED BY <1>2, <1>3, AskKeeps, Zenon DEF Begins

LEMMA AdministerKeeps ==
    ASSUME LocalsOK, OrderlyParts, orderly', NEW t \in Thread, NEW by, Administer(t, by)
    PROVE  OrderlyParts'
<1>1. ASSUME NEW u, NEW flag \in BOOLEAN, AskGlobalRoles(t, by, u, flag) \/ AskActive(t, by, u, flag)
      PROVE  OrderlyParts'
  BY <1>1, SendKeeps, Beginnings, Zenon DEF AskGlobalRoles, AskActive
<1>2. ASSUME NEW u, NEW w, NEW roles, AskWorldRoles(t, by, u, w, roles) PROVE OrderlyParts'
  BY <1>2, SendKeeps, Beginnings, Zenon DEF AskWorldRoles
<1>3. ASSUME NEW u, AskDelete(t, by, u) PROVE OrderlyParts'
  BY <1>3, SendKeeps, Beginnings, Zenon DEF AskDelete
<1>4. ASSUME NEW w, AskWorld(t, by, w) PROVE OrderlyParts'
  BY <1>4, SendKeeps, Beginnings, Zenon DEF AskWorld
<1>5. ASSUME NEW w, NEW caps, AskActor(t, by, w, caps) PROVE OrderlyParts'
  BY <1>5, SendKeeps, Beginnings, Zenon DEF AskActor
<1>6. ASSUME NEW w, NEW u, AskEntity(t, by, w, u) PROVE OrderlyParts'
  BY <1>6, SendKeeps, Beginnings, Zenon DEF AskEntity
<1>7. QED BY <1>1, <1>2, <1>3, <1>4, <1>5, <1>6, Zenon DEF Administer

LEMMA LoginKeeps ==
    ASSUME LocalsOK, OrderlyParts, orderly', NEW t \in Thread, NEW u \in User, AskLogin(t, u)
    PROVE  OrderlyParts'
<1>1. Ask(t, Request("login", None, u, Demo, {}, {}, FALSE), "read")
  BY DEF AskLogin
<1>2. Begins("read", "login", FALSE)
  BY Zenon DEF Begins
<1>3. QED BY <1>1, <1>2, SendKeeps, Zenon

LEMMA CheckKeeps ==
    ASSUME TypeInv, OrderlyParts, NEW t \in Thread, Check(t)
    PROVE  OrderlyParts'
<1>1. LocalsOK /\ DataOK
  BY TypesSplit
<1>2. pc[t] = "check" /\ UNCHANGED <<account, table, stored, controller, held, worlds>>
  BY DEF Check, accounts, tables, process
<1>3. ~Creates(t) /\ \A u \in User : ~Owes(t, u)
  BY <1>2 DEF Creates, Owes
<1>4. CASE Leave(t)
  BY <1>1, <1>2, <1>3, <1>4, LeavingKeeps
<1>5. CASE ~Leave(t)
  <2>1. /\ ~(account[job[t].who].admin /\ ~job[t].flag /\ Others(job[t].who) = {})
        /\ Goto(t, "write") /\ UNCHANGED <<job, seen, todo>>
    BY <1>5, Zenon DEF Check
  <2>2. Alone(t) /\ pc'[t] = "write"
    BY <1>1, <1>2, <2>1, GoesAlone DEF OrderlyParts
  <2>3. PICK v \in User : account[v].admin /\ Usable(v)
    BY DEF OrderlyParts, AdminFits
  <2>4. ~job[t].flag => Others(job[t].who) # {}
    <3>1. CASE account[job[t].who].admin
      BY <2>1, <3>1
    <3>2. CASE ~account[job[t].who].admin
      <4>1. v \in Others(job[t].who)
        BY <2>3, <3>2 DEF Others
      <4>2. QED BY <4>1
    <3>3. QED BY <3>1, <3>2
  <2>5. job[t].kind = "delete" => ~job[t].flag
    BY <1>2 DEF OrderlyParts, KindFits
  <2>6. QED BY <1>2, <1>3, <2>1, <2>2, <2>4, <2>5, ReadingKeeps
<1>6. QED BY <1>4, <1>5

LEMMA ReadKeeps ==
    ASSUME TypeInv, OrderlyParts, NEW t \in Thread, Read(t)
    PROVE  OrderlyParts'
<1>1. LocalsOK /\ DataOK
  BY TypesSplit
<1>2. pc[t] = "read" /\ UNCHANGED <<account, table, stored, controller, held, worlds>>
  BY DEF Read, accounts, tables, process
<1>3. job[t].who \in User
  BY <1>1, <1>2 DEF LocalsOK, LocalsInv
<1>4. ~Creates(t)
  BY <1>2 DEF Creates
<1>5. \A u \in User : Owes(t, u) => u = job[t].who
  BY <1>2 DEF Owes
<1>6. CASE account[job[t].who].deleted
  <2>1. Leave(t)
    BY <1>6, Zenon DEF Read
  <2>2. \A u \in User : Kept(u) => ~Owes(t, u)
    BY <1>5, <1>6 DEF Kept
  <2>3. QED BY <1>1, <1>2, <1>4, <2>1, <2>2, LeavingKeeps
<1>7. CASE ~account[job[t].who].deleted
  <2> DEFINE row == [v \in User |-> IF v = job[t].who THEN account[job[t].who] ELSE None]
  <2>1. /\ seen' = [seen EXCEPT ![t] = row] /\ todo' = [todo EXCEPT ![t] = {job[t].who}]
        /\ Goto(t, "mirror") /\ job' = job
    BY <1>7, Zenon DEF Read
  <2>2. row[job[t].who] = account[job[t].who]
    BY <1>3
  <2> HIDE DEF row
  <2>3. seen'[t] = row /\ todo'[t] = {job[t].who}
    BY <1>1, <2>1 DEF LocalsOK
  <2>4. \A s \in Thread \ {t} : seen'[s] = seen[s] /\ todo'[s] = todo[s]
    BY <1>1, <2>1 DEF LocalsOK
  <2>5. Alone(t) /\ pc'[t] = "mirror"
    BY <1>1, <1>2, <2>1, <2>4, GoesAlone DEF OrderlyParts
  <2>6. \A u \in User : Owes(t, u) => Owes(t, u)'
    BY <1>5, <2>3, <2>5 DEF Owes
  <2>7. QED BY <1>2, <1>4, <2>2, <2>3, <2>5, <2>6, ReadingKeeps
<1>8. QED BY <1>6, <1>7

LEMMA ListKeeps ==
    ASSUME TypeInv, OrderlyParts, NEW t \in Thread, List(t)
    PROVE  OrderlyParts'
<1> DEFINE rows == [u \in User |-> IF account[u].deleted THEN None ELSE account[u]]
<1>1. LocalsOK /\ DataOK
  BY TypesSplit
<1>2. /\ pc[t] = "list" /\ UNCHANGED <<account, table, stored, controller, held, worlds>>
      /\ seen' = [seen EXCEPT ![t] = rows] /\ todo' = [todo EXCEPT ![t] = User \ Deleted]
      /\ Goto(t, "mirror") /\ job' = job
  BY DEF List, accounts, tables, process
<1>3. \A u \in User \ Deleted : rows[u] = account[u]
  BY DEF Deleted
<1> HIDE DEF rows
<1>4. seen'[t] = rows /\ todo'[t] = User \ Deleted
  BY <1>1, <1>2 DEF LocalsOK
<1>5. \A s \in Thread \ {t} : seen'[s] = seen[s] /\ todo'[s] = todo[s]
  BY <1>1, <1>2 DEF LocalsOK
<1>6. Alone(t) /\ pc'[t] = "mirror"
  BY <1>1, <1>2, <1>5, GoesAlone DEF OrderlyParts
<1>7. \A u \in User : Kept(u) => Owes(t, u)'
  BY <1>4, <1>6 DEF Owes, Kept, Deleted
<1>8. Creates(t)'
  BY <1>2, <1>6 DEF OrderlyParts, KindFits, Creates
<1>9. QED BY <1>2, <1>3, <1>4, <1>6, <1>7, <1>8, ReadingKeeps

LEMMA MirrorDoneKeeps ==
    ASSUME TypeInv, OrderlyParts, NEW t \in Thread, MirrorDone(t)
    PROVE  OrderlyParts'
<1>1. LocalsOK /\ DataOK
  BY TypesSplit
<1>2. /\ pc[t] = "mirror" /\ todo[t] = {}
      /\ UNCHANGED <<account, table, stored, controller, held, worlds>>
  BY DEF MirrorDone, accounts, tables, process
<1>3. \A u \in User : ~Owes(t, u)
  BY <1>2 DEF Owes
<1>4. CASE job[t].kind = "world"
  <2>1. Goto(t, "sync") /\ UNCHANGED <<job, seen, todo>>
    BY <1>4, Zenon DEF MirrorDone
  <2>2. Alone(t) /\ pc'[t] = "sync"
    BY <1>1, <1>2, <2>1, GoesAlone DEF OrderlyParts
  <2>3. Creates(t)'
    BY <1>4, <2>1, <2>2 DEF Creates
  <2>4. QED BY <1>2, <1>3, <2>2, <2>3, ReadingKeeps
<1>5. CASE job[t].kind # "world"
  <2>1. Leave(t)
    BY <1>5, Zenon DEF MirrorDone
  <2>2. ~Creates(t)
    BY <1>2, <1>5 DEF Creates
  <2>3. QED BY <1>1, <1>2, <1>3, <2>1, <2>2, LeavingKeeps
<1>6. QED BY <1>4, <1>5

\* A request that fails before it has changed anything.
LEMMA FailKeeps ==
    ASSUME TypeInv, OrderlyParts, orderly', NEW t \in Thread, Fail(t)
    PROVE  OrderlyParts'
<1>1. LocalsOK /\ DataOK
  BY TypesSplit
<1>2. /\ pc[t] \in {"check", "write", "make world", "make actor", "spawn"} /\ Leave(t)
      /\ UNCHANGED <<account, table, stored, controller, held, worlds>>
  BY DEF Fail, accounts, tables, process
<1>3. ~Creates(t) /\ \A u \in User : ~Owes(t, u)
  BY <1>2 DEF Creates, Owes
<1>4. QED BY <1>1, <1>2, <1>3, LeavingKeeps

(***************************************************************************)
(* Steps that write an account, and with it the tables.                    *)
(***************************************************************************)

\* What is read of a role set: who is an administrator, and the roles in the world.
LEMMA SameRoles ==
    ASSUME NEW a, NEW b, NEW w, a.admin = b.admin, a.roles[w] = b.roles[w]
    PROVE  RoleCapabilities(a, w) = RoleCapabilities(b, w)
  BY DEF RoleCapabilities

LEMMA SyncedRead ==
    ASSUME DataOK, NEW u \in User, NEW v \in User, NEW w \in World, NEW a, NEW scope,
           table' = Synced(table, u, a, scope)
    PROVE  table'[<<w, v>>] = IF w \in scope \cap stored /\ v = u
                                THEN RoleCapabilities(a, w) ELSE table[<<w, v>>]
  BY PairsAreKeys DEF Synced

\* An account is written, and its row of the tables with it where the roles change; it is
\* mirrored next, unless nothing changed in what follows from its roles.
Writes(t, u, a) ==
    /\ account' = [account EXCEPT ![u] = a]
    /\ account[u].deleted => a.deleted
    /\ \A w \in World, v \in User :
          v # u \/ w \notin stored => table'[<<w, v>>] = table[<<w, v>>]
    /\ Kept(u)' => \A w \in stored : table'[<<w, u>>] = RoleCapabilities(a, w)
    /\ Kept(u)' =>
          \/ Owes(t, u)'
          \/ /\ Kept(u)
             /\ \A w \in worlds : RoleCapabilities(a, w) = RoleCapabilities(account[u], w)
    /\ \E v \in User : account'[v].admin /\ Usable(v)'

LEMMA WritingKeeps ==
    ASSUME DataOK, OrderlyParts, UNCHANGED <<stored, controller, held, worlds>>,
           NEW t \in Thread, Alone(t), pc[t] = "write", pc'[t] \in {"read", "idle"},
           NEW u \in User, NEW a, Writes(t, u, a)
    PROVE  OrderlyParts'
<1> USE DEF Writes
<1>1. /\ \A v \in User \ {u} : account'[v] = account[v]
      /\ account'[u] = a
  BY DEF DataOK
<1>2. /\ \A s \in Thread : ~Creates(s) /\ ~Creates(s)'
      /\ \A s \in Thread, v \in User : ~Owes(s, v)
      /\ \A s \in Thread, w \in worlds, v \in User : ~Notes(s, w, v) /\ ~Notes(s, w, v)'
  BY DEF Alone, Creates, Owes, Notes
<1>3. \A v \in User \ {u} : Kept(v)' = Kept(v)
  BY <1>1 DEF Kept
<1>4. stored \subseteq World /\ worlds \subseteq World
  BY DEF DataOK
<1>5. OneBusy'
  BY DEF OneBusy, Alone
<1>6. WorldsFit'
  BY <1>2 DEF OrderlyParts, WorldsFit
<1>7. TableFits'
  <2> SUFFICES ASSUME NEW v \in User, Kept(v)', NEW w \in stored
               PROVE  table'[<<w, v>>] = RoleCapabilities(account'[v], w)
    BY DEF TableFits
  <2>1. CASE v = u
    BY <1>1, <2>1
  <2>2. CASE v # u
    <3>1. table[<<w, v>>] = RoleCapabilities(account[v], w)
      BY <1>3, <2>2 DEF OrderlyParts, TableFits
    <3>2. QED BY <1>1, <1>4, <2>2, <3>1
  <2>3. QED BY <2>1, <2>2
<1>8. HeldFits'
  <2> SUFFICES ASSUME NEW v \in User, Kept(v)', \A s \in Thread : ~Owes(s, v)', NEW w \in worlds
               PROVE  Caps(<<w, v>>)' = RoleCapabilities(account'[v], w)
    BY DEF HeldFits
  <2>1. Caps(<<w, v>>)' = Caps(<<w, v>>)
    BY DEF Caps
  <2>2. Kept(v)
    BY <1>3
  <2>3. Caps(<<w, v>>) = RoleCapabilities(account[v], w)
    BY <1>2, <2>2 DEF OrderlyParts, HeldFits
  <2>4. RoleCapabilities(account'[v], w) = RoleCapabilities(account[v], w)
    BY <1>1
  <2>5. QED BY <2>1, <2>3, <2>4
<1>9. ControlFits'
  <2> SUFFICES ASSUME NEW v \in User, NEW w \in worlds, ~account'[v].deleted,
                      <<w, v>> \in controller
               PROVE  Controls(w, v)
    BY DEF ControlFits, Controls
  <2>1. ~account[v].deleted
    BY <1>1
  <2>2. QED BY <1>2, <2>1 DEF OrderlyParts, ControlFits
<1>10. ReadIsCurrent' /\ KindFits'
  BY DEF ReadIsCurrent, KindFits, Alone
<1>11. AdminFits'
  BY DEF AdminFits, Alone
<1>12. QED BY <1>5, <1>6, <1>7, <1>8, <1>9, <1>10, <1>11, Zenon DEF OrderlyParts

\* Somebody else is an administrator when one is about to be lost.
LEMMA AdminLeft ==
    ASSUME DataOK, OrderlyParts, NEW t \in Thread, pc[t] = "write", job[t].kind # "roles",
           NEW u \in User, job[t].who = u, NEW a, account' = [account EXCEPT ![u] = a],
           ~job[t].flag
    PROVE  \E v \in User : account'[v].admin /\ Usable(v)'
<1>1. Others(u) # {}
  BY DEF OrderlyParts, AdminFits
<1>2. PICK v \in User \ {u} : account[v].admin /\ Usable(v)
  BY <1>1 DEF Others
<1>3. account'[v] = account[v]
  BY <1>2 DEF DataOK
<1>4. QED BY <1>2, <1>3 DEF Usable

\* Nobody is lost who is written as being at least as much as before.
LEMMA AdminStays ==
    ASSUME DataOK, OrderlyParts, NEW u \in User, NEW a, account' = [account EXCEPT ![u] = a],
           account[u].admin => a.admin, account[u].active => a.active,
           ~account[u].deleted => ~a.deleted
    PROVE  \E v \in User : account'[v].admin /\ Usable(v)'
<1>1. PICK v \in User : account[v].admin /\ Usable(v)
  BY DEF OrderlyParts, AdminFits
<1>2. account'[v] = IF v = u THEN a ELSE account[v]
  BY DEF DataOK
<1>3. QED BY <1>1, <1>2 DEF Usable

LEMMA WriteGlobalRolesKeeps ==
    ASSUME TypeInv, OrderlyParts, NEW t \in Thread, WriteGlobalRoles(t)
    PROVE  OrderlyParts'
<1>1. LocalsOK /\ DataOK
  BY TypesSplit
<1>2. pc[t] = "write" /\ job[t].kind = "global"
  BY DEF WriteGlobalRoles
<1>3. job[t] \in Job /\ job[t].who \in User /\ job[t].flag \in BOOLEAN
  BY <1>1, <1>2 DEF LocalsOK, LocalsInv, Job
<1>4. PICK u \in User : u = job[t].who
  BY <1>3
<1>5. PICK flag \in BOOLEAN : flag = job[t].flag
  BY <1>3
<1> DEFINE a == [account[u] EXCEPT !.admin = flag]
<1>6. /\ account' = [account EXCEPT ![u] = a] /\ table' = Synced(table, u, a, World)
      /\ Goto(t, "read") /\ UNCHANGED <<stored, controller, held, worlds, job, seen, todo>>
  BY <1>4, <1>5, Zenon DEF WriteGlobalRoles, Give, process
<1>7. a.admin = flag /\ a.deleted = account[u].deleted /\ a.active = account[u].active
  BY <1>1 DEF DataOK, Account
<1> HIDE DEF a
<1>8. Alone(t) /\ pc'[t] = "read"
  BY <1>1, <1>2, <1>6, GoesAlone DEF OrderlyParts
<1>9. stored \subseteq World
  BY <1>1 DEF DataOK
<1>10. \A w \in World, v \in User :
          v # u \/ w \notin stored => table'[<<w, v>>] = table[<<w, v>>]
  BY <1>1, <1>6, SyncedRead
<1>11. \A w \in stored : table'[<<w, u>>] = RoleCapabilities(a, w)
  BY <1>1, <1>6, <1>9, SyncedRead
<1>12. Owes(t, u)'
  BY <1>4, <1>6, <1>8 DEF Owes
<1>13. \E v \in User : account'[v].admin /\ Usable(v)'
  <2>1. CASE flag
    BY <1>1, <1>6, <1>7, <2>1, AdminStays
  <2>2. CASE ~flag
    BY <1>1, <1>2, <1>4, <1>5, <1>6, <2>2, AdminLeft
  <2>3. QED BY <2>1, <2>2
<1>14. /\ account[u].deleted => a.deleted
       /\ pc'[t] \in {"read", "idle"}
       /\ Kept(u)' => \A w \in stored : table'[<<w, u>>] = RoleCapabilities(a, w)
  BY <1>7, <1>8, <1>11
<1>15. Writes(t, u, a)
  BY <1>6, <1>10, <1>12, <1>13, <1>14, Zenon DEF Writes
<1>16. QED BY <1>1, <1>2, <1>6, <1>8, <1>14, <1>15, WritingKeeps, Zenon

LEMMA WriteWorldRolesKeeps ==
    ASSUME TypeInv, OrderlyParts, NEW t \in Thread, WriteWorldRoles(t)
    PROVE  OrderlyParts'
<1>1. LocalsOK /\ DataOK
  BY TypesSplit
<1>2. pc[t] = "write" /\ UNCHANGED <<stored, controller, held, worlds>>
  BY DEF WriteWorldRoles, process
<1>3. job[t] \in Job /\ job[t].who \in User /\ job[t].world \in World
  BY <1>1, <1>2 DEF LocalsOK, LocalsInv, Job
<1>4. CASE job[t].world \notin stored
  <2>1. Leave(t) /\ UNCHANGED <<account, table>>
    BY <1>4, Zenon DEF WriteWorldRoles, accounts
  <2>2. ~Creates(t) /\ \A u \in User : ~Owes(t, u)
    BY <1>2 DEF Creates, Owes
  <2>3. QED BY <1>1, <1>2, <2>1, <2>2, LeavingKeeps
<1>5. CASE job[t].world \in stored
  <2>1. PICK u \in User : u = job[t].who
    BY <1>3
  <2>2. PICK x \in stored : x = job[t].world
    BY <1>5
  <2>3. PICK roles : roles = [account[u].roles EXCEPT ![x] = job[t].roles]
    OBVIOUS
  <2> DEFINE a == [account[u] EXCEPT !.roles = roles]
  <2>4. /\ account' = [account EXCEPT ![u] = a] /\ table' = Synced(table, u, a, {x})
        /\ Goto(t, "read") /\ UNCHANGED <<job, seen, todo>>
    BY <1>5, <2>1, <2>2, <2>3, Zenon DEF WriteWorldRoles, Give
  <2>5. account[u] \in Account /\ stored \subseteq World
    BY <1>1 DEF DataOK
  <2>6. /\ a.admin = account[u].admin /\ a.deleted = account[u].deleted
        /\ a.active = account[u].active /\ a.roles = roles
    BY <2>5 DEF Account
  <2> HIDE DEF a
  <2>7. \A w \in World \ {x} : a.roles[w] = account[u].roles[w]
    BY <2>3, <2>5, <2>6 DEF Account
  <2>8. \A w \in World \ {x} : RoleCapabilities(a, w) = RoleCapabilities(account[u], w)
    BY <2>6, <2>7, SameRoles
  <2>9. Alone(t) /\ pc'[t] = "read"
    BY <1>1, <1>2, <2>4, GoesAlone DEF OrderlyParts
  <2>10. \A w \in World, v \in User :
            table'[<<w, v>>] = IF w \in {x} \cap stored /\ v = u
                                 THEN RoleCapabilities(a, w) ELSE table[<<w, v>>]
    BY <1>1, <2>4, SyncedRead, ZenonT(60)
  <2>11. account'[u] = a
    BY <1>1, <2>4 DEF DataOK
  <2>12. Kept(u)' => Kept(u)
    BY <2>6, <2>11 DEF Kept
  <2>13. Kept(u)' => \A w \in stored : table'[<<w, u>>] = RoleCapabilities(a, w)
    <3> SUFFICES ASSUME Kept(u)', NEW w \in stored
                 PROVE  table'[<<w, u>>] = RoleCapabilities(a, w)
      OBVIOUS
    <3>1. CASE w = x
      BY <2>5, <2>10, <3>1
    <3>2. CASE w # x
      <4>1. table[<<w, u>>] = RoleCapabilities(account[u], w)
        BY <2>12 DEF OrderlyParts, TableFits
      <4>2. QED BY <2>5, <2>8, <2>10, <3>2, <4>1
    <3>3. QED BY <3>1, <3>2
  <2>14. Owes(t, u)'
    BY <2>1, <2>4, <2>9 DEF Owes
  <2>15. \E v \in User : account'[v].admin /\ Usable(v)'
    BY <1>1, <2>4, <2>6, AdminStays
  <2>16. /\ account[u].deleted => a.deleted
         /\ pc'[t] \in {"read", "idle"}
         /\ \A w \in World, v \in User :
               v # u \/ w \notin stored => table'[<<w, v>>] = table[<<w, v>>]
    BY <2>6, <2>9, <2>10
  <2>17. Writes(t, u, a)
    BY <2>4, <2>13, <2>14, <2>15, <2>16, Zenon DEF Writes
  <2>18. QED BY <1>1, <1>2, <2>4, <2>9, <2>16, <2>17, WritingKeeps, Zenon
<1>6. QED BY <1>4, <1>5

\* The tables stay as they are, and so does what follows from the roles of the account.
LEMMA WriteActiveKeeps ==
    ASSUME TypeInv, OrderlyParts, NEW t \in Thread, WriteActive(t)
    PROVE  OrderlyParts'
<1>1. LocalsOK /\ DataOK
  BY TypesSplit
<1>2. pc[t] = "write" /\ job[t].kind = "active"
  BY DEF WriteActive
<1>3. job[t] \in Job /\ job[t].who \in User /\ job[t].flag \in BOOLEAN
  BY <1>1, <1>2 DEF LocalsOK, LocalsInv, Job
<1>4. PICK u \in User : u = job[t].who
  BY <1>3
<1>5. PICK flag \in BOOLEAN : flag = job[t].flag
  BY <1>3
<1> DEFINE a == [account[u] EXCEPT !.active = flag]
<1>6. /\ account' = [account EXCEPT ![u] = a] /\ Leave(t)
      /\ UNCHANGED <<table, stored, controller, held, worlds>>
  BY <1>4, <1>5, Zenon DEF WriteActive, Give, tables, process
<1>7. account[u] \in Account
  BY <1>1 DEF DataOK
<1>8. /\ a.admin = account[u].admin /\ a.deleted = account[u].deleted /\ a.active = flag
      /\ a.roles = account[u].roles
  BY <1>7 DEF Account
<1> HIDE DEF a
<1>9. \A w \in World : RoleCapabilities(a, w) = RoleCapabilities(account[u], w)
  BY <1>8, SameRoles
<1>10. Alone(t) /\ pc'[t] = "idle"
  BY <1>1, <1>2, <1>6, LeavesAlone DEF OrderlyParts
<1>11. account'[u] = a
  BY <1>1, <1>6 DEF DataOK
<1>12. Kept(u)' => Kept(u)
  BY <1>8, <1>11 DEF Kept
<1>13. stored \subseteq World /\ worlds \subseteq World
  BY <1>1 DEF DataOK
<1>14. Kept(u)' => \A w \in stored : table'[<<w, u>>] = RoleCapabilities(a, w)
  BY <1>6, <1>9, <1>12, <1>13 DEF OrderlyParts, TableFits
<1>15. \E v \in User : account'[v].admin /\ Usable(v)'
  <2>1. CASE flag
    BY <1>1, <1>6, <1>8, <2>1, AdminStays
  <2>2. CASE ~flag
    BY <1>1, <1>2, <1>4, <1>5, <1>6, <2>2, AdminLeft
  <2>3. QED BY <2>1, <2>2
<1>16. Writes(t, u, a)
  <2>1. \A w \in worlds : RoleCapabilities(a, w) = RoleCapabilities(account[u], w)
    BY <1>9, <1>13
  <2>2. QED BY <1>6, <1>8, <1>12, <1>14, <1>15, <2>1 DEF Writes
<1>17. QED BY <1>1, <1>2, <1>6, <1>10, <1>16, WritingKeeps

\* Nothing is kept for an account that is deleted.
LEMMA WriteDeleteKeeps ==
    ASSUME TypeInv, OrderlyParts, NEW t \in Thread, WriteDelete(t)
    PROVE  OrderlyParts'
<1> DEFINE a == [admin |-> FALSE, active |-> FALSE, deleted |-> TRUE, roles |-> NoRoles]
<1>1. LocalsOK /\ DataOK
  BY TypesSplit
<1>2. pc[t] = "write" /\ job[t].kind = "delete" /\ ~job[t].flag
  BY DEF WriteDelete, OrderlyParts, KindFits
<1>3. PICK u \in User : u = job[t].who
  BY <1>1, <1>2 DEF LocalsOK, LocalsInv
<1>4. /\ account' = [account EXCEPT ![u] = a] /\ Leave(t)
      /\ UNCHANGED <<table, stored, controller, held, worlds>>
  BY <1>3, Zenon DEF WriteDelete, Give, tables, process
<1>5. a.deleted
  OBVIOUS
<1> HIDE DEF a
<1>6. Alone(t) /\ pc'[t] = "idle"
  BY <1>1, <1>2, <1>4, LeavesAlone DEF OrderlyParts
<1>7. account'[u] = a
  BY <1>1, <1>4 DEF DataOK
<1>8. ~Kept(u)'
  BY <1>5, <1>7 DEF Kept
<1>9. \E v \in User : account'[v].admin /\ Usable(v)'
  BY <1>1, <1>2, <1>3, <1>4, AdminLeft
<1>10. Writes(t, u, a)
  BY <1>4, <1>5, <1>8, <1>9 DEF Writes
<1>11. QED BY <1>1, <1>2, <1>4, <1>6, <1>10, WritingKeeps

(***************************************************************************)
(* Steps that write the authority of the process, or copy it.              *)
(***************************************************************************)

\* What such a step leaves to be shown, since it changes no account.
LEMMA RolesStay ==
    ASSUME OrderlyParts, NEW t \in Thread, Alone(t), account' = account,
           pc'[t] \in {"idle", "list", "sync", "admins", "control"},
           pc'[t] = "list" => job'[t].kind = "world"
    PROVE  OneBusy' /\ ReadIsCurrent' /\ KindFits' /\ AdminFits'
<1>1. OneBusy' /\ ReadIsCurrent'
  BY DEF OneBusy, ReadIsCurrent, Alone
<1>2. KindFits'
  BY Zenon DEF KindFits, Alone
<1>3. AdminFits'
  BY DEF OrderlyParts, AdminFits, Usable, Alone
<1>4. QED BY <1>1, <1>2, <1>3

LEMMA EntryRead ==
    ASSUME NEW caps \in SUBSET Capability, NEW controls \in BOOLEAN
    PROVE  /\ [caps |-> caps, controls |-> controls] # None
           /\ [caps |-> caps, controls |-> controls].caps = caps
           /\ [caps |-> caps, controls |-> controls].controls = controls
<1>1. [caps |-> caps, controls |-> controls] \in Entry
  BY DEF Entry
<1>2. QED BY <1>1, EntryAssumption

\* Mirroring an account gives what follows from its roles, and leaves control as it is.
LEMMA MirroredRead ==
    ASSUME DataOK, NEW u \in User, NEW a, held' = Mirrored(held, u, a), NEW w \in worlds,
           worlds' = worlds
    PROVE  /\ Caps(<<w, u>>)' = RoleCapabilities(a, w)
           /\ Controls(w, u)' = Controls(w, u)
<1> DEFINE k == <<w, u>>
           caps == RoleCapabilities(a, w)
           controls == held[k] # None /\ held[k].controls
<1>1. k \in Keys /\ k[1] = w /\ k[2] = u
  BY PairsAreKeys DEF DataOK
<1>2. held'[k] = IF caps = {} /\ ~controls THEN None ELSE [caps |-> caps, controls |-> controls]
  BY <1>1, Zenon DEF Mirrored
<1>3. held[k] # None => held[k].controls \in BOOLEAN
  BY <1>1 DEF DataOK, Entry
<1>4. caps \in SUBSET Capability /\ controls \in BOOLEAN
  BY <1>3, RolesAreCapabilities
<1> DEFINE entry == [caps |-> caps, controls |-> controls]
<1>5. entry # None /\ entry.caps = caps /\ entry.controls = controls
  BY <1>4, EntryRead
<1>6. held'[k] = IF caps = {} /\ ~controls THEN None ELSE entry
  BY <1>2
<1> HIDE DEF caps, entry
<1>7. Caps(k)' = caps
  BY <1>5, <1>6 DEF Caps
<1>8. Controls(w, u)' = Controls(w, u)
  BY <1>4, <1>5, <1>6 DEF Controls
<1>9. QED BY <1>7, <1>8 DEF caps

LEMMA MirroredElsewhere ==
    ASSUME DataOK, NEW u \in User, NEW a, held' = Mirrored(held, u, a), NEW w \in World,
           NEW v \in User, v # u \/ w \notin worlds
    PROVE  held'[<<w, v>>] = held[<<w, v>>]
  BY PairsAreKeys, Zenon DEF Mirrored

LEMMA MirrorKeeps ==
    ASSUME TypeInv, OrderlyParts, NEW t \in Thread, NEW u \in User, Mirror(t, u)
    PROVE  OrderlyParts'
<1>1. LocalsOK /\ DataOK
  BY TypesSplit
<1>2. /\ pc[t] = "mirror" /\ u \in todo[t]
      /\ held' = Mirrored(held, u, seen[t][u]) /\ todo' = [todo EXCEPT ![t] = todo[t] \ {u}]
      /\ UNCHANGED <<account, table, stored, controller, worlds, pc, job, seen>>
  BY DEF Mirror, accounts, tables
<1>3. todo'[t] = todo[t] \ {u} /\ \A s \in Thread \ {t} : todo'[s] = todo[s]
  BY <1>1, <1>2 DEF LocalsOK
<1>4. seen[t][u] = account[u]
  BY <1>2 DEF OrderlyParts, ReadIsCurrent
<1>5. held' = Mirrored(held, u, account[u])
  BY <1>2, <1>4
<1>6. worlds \subseteq World
  BY <1>1 DEF DataOK
<1>7. \A w \in World, v \in User : v # u \/ w \notin worlds => held'[<<w, v>>] = held[<<w, v>>]
  BY <1>1, <1>5, MirroredElsewhere
<1>8. /\ \A w \in worlds : Caps(<<w, u>>)' = RoleCapabilities(account[u], w)
      /\ \A w \in worlds : Controls(w, u)' = Controls(w, u)
  BY <1>1, <1>2, <1>5, MirroredRead
<1>9. OneBusy'
  BY <1>2 DEF OrderlyParts, OneBusy
<1>10. WorldsFit'
  BY <1>2, <1>7 DEF OrderlyParts, WorldsFit, Creates
<1>11. TableFits'
  BY <1>2 DEF OrderlyParts, TableFits, Kept
<1>12. HeldFits'
  <2> SUFFICES ASSUME NEW v \in User, Kept(v), \A s \in Thread : ~Owes(s, v)', NEW w \in worlds
               PROVE  Caps(<<w, v>>)' = RoleCapabilities(account[v], w)
    BY <1>2 DEF HeldFits, Kept
  <2>1. CASE v = u
    BY <1>8, <2>1
  <2>2. CASE v # u
    <3>1. \A s \in Thread : ~Owes(s, v)
      BY <1>2, <1>3, <2>2 DEF Owes
    <3>2. Caps(<<w, v>>) = RoleCapabilities(account[v], w)
      BY <3>1 DEF OrderlyParts, HeldFits
    <3>3. held'[<<w, v>>] = held[<<w, v>>]
      BY <1>6, <1>7, <2>2
    <3>4. QED BY <3>2, <3>3 DEF Caps
  <2>3. QED BY <2>1, <2>2
<1>13. ControlFits'
  <2> SUFFICES ASSUME NEW v \in User, NEW w \in worlds, ~account[v].deleted,
                      <<w, v>> \in controller, \A s \in Thread : ~Notes(s, w, v)
               PROVE  Controls(w, v)'
    BY <1>2 DEF ControlFits, Notes
  <2>1. Controls(w, v)
    BY DEF OrderlyParts, ControlFits
  <2>2. CASE v = u
    BY <1>8, <2>1, <2>2
  <2>3. CASE v # u
    BY <1>6, <1>7, <2>1, <2>3 DEF Controls
  <2>4. QED BY <2>2, <2>3
<1>14. ReadIsCurrent'
  BY <1>2, <1>3 DEF OrderlyParts, ReadIsCurrent
<1>15. KindFits'
  BY <1>2, Zenon DEF OrderlyParts, KindFits
<1>16. AdminFits'
  <2>1. \A v \in User : Usable(v)' = Usable(v)
    BY <1>2 DEF Usable
  <2>2. \A s \in Thread : Others(job[s].who)' = Others(job[s].who)
    BY <1>2 DEF Others, Usable
  <2>3. QED BY <1>2, <2>1, <2>2 DEF OrderlyParts, AdminFits
<1>17. QED BY <1>9, <1>10, <1>11, <1>12, <1>13, <1>14, <1>15, <1>16, Zenon DEF OrderlyParts

\* A new world has no entities yet, and everybody is yet to be mirrored into it.
LEMMA MakeWorldKeeps ==
    ASSUME TypeInv, OrderlyParts, NEW t \in Thread, MakeWorld(t)
    PROVE  OrderlyParts'
<1>1. LocalsOK /\ DataOK
  BY TypesSplit
<1>2. pc[t] = "make world" /\ UNCHANGED <<account, table, stored, controller>>
  BY DEF MakeWorld, accounts, tables
<1>3. job[t] \in Job /\ job[t].by \in User /\ job[t].world \in World
  BY <1>1, <1>2 DEF LocalsOK, LocalsInv, Job
<1>4. CASE Leave(t) /\ UNCHANGED <<held, worlds>>
  <2>1. ~Creates(t) /\ \A u \in User : ~Owes(t, u)
    BY <1>2 DEF Creates, Owes
  <2>2. QED BY <1>1, <1>2, <1>4, <2>1, LeavingKeeps
<1>5. CASE ~(Leave(t) /\ UNCHANGED <<held, worlds>>)
  <2>1. PICK x \in World, u \in User : x = job[t].world /\ u = job[t].by
    BY <1>3
  <2>2. PICK e : held' = [held EXCEPT ![<<x, u>>] = e]
    BY <1>5, <2>1, Zenon DEF MakeWorld
  <2>3. /\ x \notin worlds /\ worlds' = worlds \cup {x}
        /\ Goto(t, "list") /\ UNCHANGED <<job, seen, todo>>
    BY <1>5, <2>1, Zenon DEF MakeWorld
  <2>4. Alone(t) /\ pc'[t] = "list"
    BY <1>1, <1>2, <2>3, GoesAlone DEF OrderlyParts
  <2>5. job'[t].kind = "world"
    BY <1>2, <2>3 DEF OrderlyParts, KindFits
  <2>6. OneBusy' /\ ReadIsCurrent' /\ KindFits' /\ AdminFits'
    BY <1>2, <2>4, <2>5, RolesStay
  <2>7. \A w \in World \ {x}, v \in User : held'[<<w, v>>] = held[<<w, v>>]
    BY <1>1, <2>2, PairsAreKeys DEF DataOK
  <2>8. Creates(t)' /\ \A v \in User : Owes(t, v)'
    BY <2>4 DEF Creates, Owes
  <2>9. worlds \subseteq World
    BY <1>1 DEF DataOK
  <2>10. WorldsFit'
    BY <1>2, <2>3, <2>7, <2>8 DEF OrderlyParts, WorldsFit
  <2>11. TableFits'
    BY <1>2 DEF OrderlyParts, TableFits, Kept
  <2>12. HeldFits'
    BY <2>8 DEF HeldFits
  <2>13. ControlFits'
    <3> SUFFICES ASSUME NEW v \in User, NEW w \in worlds', ~account[v].deleted,
                        <<w, v>> \in controller
                 PROVE  Controls(w, v)'
      BY <1>2 DEF ControlFits
    <3>1. w \in worlds /\ w # x
      BY <2>3, <2>9 DEF OrderlyParts, WorldsFit
    <3>2. \A s \in Thread : ~Notes(s, w, v)
      BY <1>2, <2>4 DEF Alone, Notes
    <3>3. Controls(w, v)
      BY <3>1, <3>2 DEF OrderlyParts, ControlFits
    <3>4. QED BY <2>7, <2>9, <3>1, <3>3 DEF Controls
  <2>14. QED BY <2>6, <2>10, <2>11, <2>12, <2>13, Zenon DEF OrderlyParts
<1>6. QED BY <1>4, <1>5

\* An actor without an account changes nothing for those who have one.
LEMMA MakeActorKeeps ==
    ASSUME TypeInv, OrderlyParts, NEW t \in Thread, MakeActor(t)
    PROVE  OrderlyParts'
<1>1. LocalsOK /\ DataOK
  BY TypesSplit
<1>2. /\ pc[t] = "make actor" /\ UNCHANGED <<account, table, stored, controller, worlds>>
      /\ Goto(t, "sync") /\ UNCHANGED <<job, seen, todo>>
  BY DEF MakeActor, accounts, tables
<1>3. \A w \in World, v \in User : held'[<<w, v>>] = held[<<w, v>>]
  BY <1>1, PairsAreKeys, ActorAssumption DEF MakeActor, DataOK
<1>4. Alone(t) /\ pc'[t] = "sync"
  BY <1>1, <1>2, GoesAlone DEF OrderlyParts
<1>5. OneBusy' /\ ReadIsCurrent' /\ KindFits' /\ AdminFits'
  BY <1>2, <1>4, RolesStay
<1>6. /\ \A s \in Thread : ~Creates(s)
      /\ \A s \in Thread, v \in User : ~Owes(s, v)
      /\ \A s \in Thread, w \in worlds, v \in User : ~Notes(s, w, v)
  BY <1>2, <1>4 DEF Alone, Creates, Owes, Notes
<1>7. WorldsFit'
  BY <1>2, <1>3, <1>6 DEF OrderlyParts, WorldsFit
<1>8. TableFits'
  BY <1>2 DEF OrderlyParts, TableFits, Kept
<1>9. worlds \subseteq World
  BY <1>1 DEF DataOK
<1>10. HeldFits'
  BY <1>2, <1>3, <1>6, <1>9 DEF OrderlyParts, HeldFits, Kept, Caps
<1>11. ControlFits'
  BY <1>2, <1>3, <1>6, <1>9 DEF OrderlyParts, ControlFits, Controls
<1>12. QED BY <1>5, <1>7, <1>8, <1>10, <1>11, Zenon DEF OrderlyParts

\* Copying the process into the tables stores the world that was made, and changes
\* nothing in those that were stored.
LEMMA SyncKeeps ==
    ASSUME TypeInv, OrderlyParts, orderly', NEW t \in Thread, Sync(t)
    PROVE  OrderlyParts'
<1>1. LocalsOK /\ DataOK
  BY TypesSplit
<1>2. /\ pc[t] = "sync" /\ UNCHANGED <<account, controller, held, worlds>>
      /\ table' = Copied(held) /\ stored' = stored \cup worlds
      /\ Leave(t) \/ (Goto(t, "admins") /\ UNCHANGED <<job, seen, todo>>)
  BY Zenon DEF Sync, accounts, process
<1>3. Alone(t) /\ pc'[t] \in {"idle", "admins"}
  BY <1>1, <1>2, GoesAlone, LeavesAlone DEF OrderlyParts
<1>4. OneBusy' /\ ReadIsCurrent' /\ KindFits' /\ AdminFits'
  BY <1>2, <1>3, RolesStay
<1>5. /\ \A s \in Thread, v \in User : ~Owes(s, v)
      /\ \A s \in Thread, w \in worlds, v \in User : ~Notes(s, w, v)
  BY <1>2, <1>3 DEF Alone, Owes, Notes
<1>6. stored' = worlds
  BY <1>2 DEF OrderlyParts, WorldsFit
<1>7. \A w \in World, v \in User : table'[<<w, v>>] = table[<<w, v>>] \cup Caps(<<w, v>>)
  BY <1>2, PairsAreKeys DEF Copied, Caps
<1>8. worlds \subseteq World
  BY <1>1 DEF DataOK
<1>9. WorldsFit'
  <2>1. Demo \in stored' /\ stored' \subseteq worlds' /\ worlds' = stored'
    BY <1>2, <1>6 DEF OrderlyParts, WorldsFit
  <2>2. \A w \in World \ worlds, v \in User : Caps(<<w, v>>) = {} /\ held[<<w, v>>] = None
    BY DEF OrderlyParts, WorldsFit, Caps
  <2>3. \A w \in World \ worlds, v \in User : table[<<w, v>>] = {} /\ <<w, v>> \notin controller
    BY DEF OrderlyParts, WorldsFit
  <2>4. QED BY <1>2, <1>6, <1>7, <2>1, <2>2, <2>3 DEF WorldsFit
<1>10. TableFits'
  <2> SUFFICES ASSUME NEW v \in User, Kept(v), NEW w \in worlds
               PROVE  table'[<<w, v>>] = RoleCapabilities(account[v], w)
    BY <1>2, <1>6 DEF TableFits, Kept
  <2>1. Caps(<<w, v>>) = RoleCapabilities(account[v], w)
    BY <1>5 DEF OrderlyParts, HeldFits
  <2>2. table[<<w, v>>] \in {{}, RoleCapabilities(account[v], w)}
    BY <1>8 DEF OrderlyParts, TableFits, WorldsFit
  <2>3. QED BY <1>7, <1>8, <2>1, <2>2
<1>11. HeldFits'
  BY <1>2, <1>5 DEF OrderlyParts, HeldFits, Kept, Caps
<1>12. ControlFits'
  BY <1>2, <1>5 DEF OrderlyParts, ControlFits, Controls
<1>13. QED BY <1>4, <1>9, <1>10, <1>11, <1>12, Zenon DEF OrderlyParts

LEMMA WithAdminsRead ==
    ASSUME NEW tab, NEW scope \in SUBSET World, NEW w \in World, NEW v \in User
    PROVE  /\ w \notin scope => WithAdmins(tab, scope)[<<w, v>>] = tab[<<w, v>>]
           /\ \/ WithAdmins(tab, scope)[<<w, v>>] = tab[<<w, v>>]
              \/ WithAdmins(tab, scope)[<<w, v>>] = RoleCapabilities(account[v], w)
  BY PairsAreKeys, Zenon DEF WithAdmins

LEMMA SyncAdminsKeeps ==
    ASSUME TypeInv, OrderlyParts, NEW t \in Thread, SyncAdmins(t)
    PROVE  OrderlyParts'
<1>1. LocalsOK /\ DataOK
  BY TypesSplit
<1>2. /\ pc[t] = "admins" /\ UNCHANGED <<account, stored, controller, held, worlds>>
      /\ table' = WithAdmins(table, {job[t].world} \cap stored) /\ Leave(t)
  BY DEF SyncAdmins, accounts, process
<1>3. Alone(t) /\ pc'[t] = "idle"
  BY <1>1, <1>2, LeavesAlone DEF OrderlyParts
<1>4. OneBusy' /\ ReadIsCurrent' /\ KindFits' /\ AdminFits'
  BY <1>2, <1>3, RolesStay
<1>5. /\ \A s \in Thread : ~Creates(s)
      /\ \A s \in Thread, v \in User : ~Owes(s, v)
      /\ \A s \in Thread, w \in worlds, v \in User : ~Notes(s, w, v)
  BY <1>2, <1>3 DEF Alone, Creates, Owes, Notes
<1>6. stored \subseteq World
  BY <1>1 DEF DataOK
<1>7. PICK scope \in SUBSET World : scope = {job[t].world} \cap stored
  BY <1>6
<1>8. \A w \in World, v \in User :
         /\ w \notin stored => table'[<<w, v>>] = table[<<w, v>>]
         /\ table'[<<w, v>>] \in {table[<<w, v>>], RoleCapabilities(account[v], w)}
  BY <1>2, <1>7, WithAdminsRead
<1>9. WorldsFit'
  BY <1>2, <1>5, <1>8 DEF OrderlyParts, WorldsFit
<1>10. TableFits'
  <2> SUFFICES ASSUME NEW v \in User, Kept(v), NEW w \in stored
               PROVE  table'[<<w, v>>] = RoleCapabilities(account[v], w)
    BY <1>2 DEF TableFits, Kept
  <2>1. table[<<w, v>>] = RoleCapabilities(account[v], w)
    BY DEF OrderlyParts, TableFits
  <2>2. QED BY <1>6, <1>8, <2>1
<1>11. HeldFits'
  BY <1>2, <1>5 DEF OrderlyParts, HeldFits, Kept, Caps
<1>12. ControlFits'
  BY <1>2, <1>5 DEF OrderlyParts, ControlFits, Controls
<1>13. QED BY <1>4, <1>9, <1>10, <1>11, <1>12, Zenon DEF OrderlyParts

\* The thread that has committed an entity has yet to note its controller.
LEMMA SpawnKeeps ==
    ASSUME TypeInv, OrderlyParts, NEW t \in Thread, Spawn(t)
    PROVE  OrderlyParts'
<1>1. LocalsOK /\ DataOK
  BY TypesSplit
<1>2. pc[t] = "spawn" /\ UNCHANGED <<account, table, stored, held, worlds>>
  BY DEF Spawn, accounts, process
<1>3. /\ \A s \in Thread \ {t} : pc[s] = "idle"
      /\ ~Creates(t) /\ \A u \in User : ~Owes(t, u)
  BY <1>2, OthersIdle DEF OrderlyParts, Creates, Owes
<1>4. CASE Leave(t) /\ UNCHANGED controller
  BY <1>1, <1>2, <1>3, <1>4, LeavingKeeps
<1>5. CASE ~(Leave(t) /\ UNCHANGED controller)
  <2>1. /\ job[t].world \in stored
        /\ controller' = controller \cup {<<job[t].world, job[t].who>>}
        /\ Goto(t, "control") /\ UNCHANGED <<job, seen, todo>>
    BY <1>5, Zenon DEF Spawn
  <2>2. Alone(t) /\ pc'[t] = "control"
    BY <1>1, <1>2, <2>1, GoesAlone DEF OrderlyParts
  <2>3. OneBusy' /\ ReadIsCurrent' /\ KindFits' /\ AdminFits'
    BY <1>2, <2>2, RolesStay
  <2>4. /\ \A s \in Thread : ~Creates(s)
        /\ \A s \in Thread, v \in User : ~Owes(s, v)
        /\ \A s \in Thread, w \in worlds, v \in User : ~Notes(s, w, v)
    BY <1>2, <2>2 DEF Alone, Creates, Owes, Notes
  <2>5. \A w \in World, v \in User :
            <<w, v>> \in controller' =>
                <<w, v>> \in controller \/ (w = job[t].world /\ v = job[t].who)
    BY <2>1
  <2>6. WorldsFit'
    BY <1>2, <2>1, <2>4, <2>5 DEF OrderlyParts, WorldsFit
  <2>7. TableFits'
    BY <1>2 DEF OrderlyParts, TableFits, Kept
  <2>8. HeldFits'
    BY <1>2, <2>4 DEF OrderlyParts, HeldFits, Kept, Caps
  <2>9. ControlFits'
    <3> SUFFICES ASSUME NEW v \in User, NEW w \in worlds, ~account[v].deleted,
                        <<w, v>> \in controller', \A s \in Thread : ~Notes(s, w, v)'
                 PROVE  Controls(w, v)
      BY <1>2 DEF ControlFits, Controls
    <3>1. ~(w = job[t].world /\ v = job[t].who)
      BY <2>1, <2>2 DEF Notes
    <3>2. <<w, v>> \in controller
      BY <1>1, <2>5, <3>1 DEF DataOK
    <3>3. QED BY <2>4, <3>2 DEF OrderlyParts, ControlFits
  <2>10. QED BY <2>3, <2>6, <2>7, <2>8, <2>9, Zenon DEF OrderlyParts
<1>6. QED BY <1>4, <1>5

LEMMA ControlKeeps ==
    ASSUME TypeInv, OrderlyParts, orderly', NEW t \in Thread, Control(t)
    PROVE  OrderlyParts'
<1>1. LocalsOK /\ DataOK
  BY TypesSplit
<1>2. pc[t] = "control" /\ Leave(t) /\ UNCHANGED <<account, table, stored, controller, worlds>>
  BY DEF Control, accounts, tables
<1>3. PICK x \in World, u \in Actor : x = job[t].world /\ u = job[t].who
  BY <1>1, <1>2 DEF LocalsOK, LocalsInv, Job
<1>4. <<x, u>> \in Keys
  BY DEF Keys
<1>5. held[<<x, u>>] # None
  BY <1>3, Zenon DEF Control
<1>6. held[<<x, u>>] \in Entry
  BY <1>1, <1>4, <1>5 DEF DataOK
<1>7. PICK caps \in SUBSET Capability : caps = held[<<x, u>>].caps
  BY <1>6 DEF Entry
<1>8. PICK e : e = [caps |-> caps, controls |-> TRUE]
  OBVIOUS
<1>9. held' = [held EXCEPT ![<<x, u>>] = e]
  BY <1>3, <1>5, <1>7, <1>8, Zenon DEF Control
<1>10. e # None /\ e.caps = caps /\ e.controls
  BY <1>8, EntryRead
<1>11. held'[<<x, u>>] = e
  BY <1>1, <1>4, <1>9 DEF DataOK
<1>12. \A w \in World, v \in User : <<w, v>> # <<x, u>> => held'[<<w, v>>] = held[<<w, v>>]
  BY <1>1, <1>9, PairsAreKeys DEF DataOK
<1>13. Alone(t) /\ pc'[t] = "idle"
  BY <1>1, <1>2, LeavesAlone DEF OrderlyParts
<1>14. OneBusy' /\ ReadIsCurrent' /\ KindFits' /\ AdminFits'
  BY <1>2, <1>13, RolesStay
<1>15. /\ \A s \in Thread : ~Creates(s)
       /\ \A s \in Thread, v \in User : ~Owes(s, v)
  BY <1>2, <1>13 DEF Alone, Creates, Owes
<1>16. worlds \subseteq World /\ stored \subseteq World
  BY <1>1 DEF DataOK
<1>17. \A w \in World, v \in User : Caps(<<w, v>>)' = Caps(<<w, v>>)
  BY <1>5, <1>7, <1>10, <1>11, <1>12 DEF Caps
<1>18. WorldsFit'
  BY <1>2, <1>5, <1>12, <1>15 DEF OrderlyParts, WorldsFit
<1>19. TableFits'
  BY <1>2 DEF OrderlyParts, TableFits, Kept
<1>20. HeldFits'
  BY <1>2, <1>15, <1>16, <1>17 DEF OrderlyParts, HeldFits, Kept
<1>21. ControlFits'
  <2> SUFFICES ASSUME NEW v \in User, NEW w \in worlds, ~account[v].deleted,
                      <<w, v>> \in controller
               PROVE  Controls(w, v)'
    BY <1>2 DEF ControlFits
  <2>1. CASE w = x /\ v = u
    BY <1>10, <1>11, <2>1 DEF Controls
  <2>2. CASE ~(w = x /\ v = u)
    <3>1. \A s \in Thread : ~Notes(s, w, v)
      BY <1>2, <1>3, <1>13, <2>2 DEF Alone, Notes
    <3>2. Controls(w, v)
      BY <3>1 DEF OrderlyParts, ControlFits
    <3>3. <<w, v>> # <<x, u>>
      BY <2>2
    <3>4. QED BY <1>12, <1>16, <3>2, <3>3 DEF Controls
  <2>3. QED BY <2>1, <2>2
<1>22. QED BY <1>14, <1>18, <1>19, <1>20, <1>21, Zenon DEF OrderlyParts

\* A start takes everything from the tables, and gives the demo operator what an
\* administrator has.
LEMMA RestartKeeps ==
    ASSUME TypeInv, OrderlyParts, Restart
    PROVE  OrderlyParts'
<1> DEFINE demo == [table EXCEPT ![<<Demo, Root>>] = Capability]
           tab == WithAdmins(demo, {Demo})
<1>1. LocalsOK /\ DataOK
  BY TypesSplit
<1>2. /\ table' = tab /\ held' = Hydrated(tab, Deleted) /\ worlds' = stored
      /\ UNCHANGED <<account, stored, controller>>
      /\ \A s \in Thread : pc'[s] = "idle"
  BY DEF Restart, accounts
<1>3. \A s \in Thread, v \in User, w \in worlds' :
          ~Creates(s)' /\ ~Owes(s, v)' /\ ~Notes(s, w, v)'
  BY <1>2 DEF Creates, Owes, Notes
<1>4. stored \subseteq World /\ Demo \in stored
  BY <1>1 DEF DataOK, OrderlyParts, WorldsFit
<1>5. demo \in [Keys -> SUBSET Capability]
  BY <1>1 DEF DataOK
<1>6. \A w \in World, v \in User : <<w, v>> # <<Demo, Root>> => demo[<<w, v>>] = table[<<w, v>>]
  BY <1>1, PairsAreKeys DEF DataOK
<1>7. demo[<<Demo, Root>>] = Capability
  BY <1>1, PairsAreKeys, RootAssumption DEF DataOK
<1>8. {Demo} \in SUBSET World /\ Demo \in World
  BY RootAssumption
<1> HIDE DEF demo
<1>9. \A w \in World, v \in User :
         /\ w # Demo => tab[<<w, v>>] = demo[<<w, v>>]
         /\ tab[<<w, v>>] = demo[<<w, v>>] \/ tab[<<w, v>>] = RoleCapabilities(account[v], w)
  BY <1>8, WithAdminsRead
<1>10. tab \in [Keys -> SUBSET Capability]
  BY <1>5, WithAdminsTyped
<1> HIDE DEF tab
<1>11. \A v \in User : Kept(v) => \A w \in stored : tab[<<w, v>>] = RoleCapabilities(account[v], w)
  <2> SUFFICES ASSUME NEW v \in User, Kept(v), NEW w \in stored
               PROVE  tab[<<w, v>>] = RoleCapabilities(account[v], w)
    OBVIOUS
  <2>1. table[<<w, v>>] = RoleCapabilities(account[v], w)
    BY DEF OrderlyParts, TableFits
  <2>2. CASE <<w, v>> = <<Demo, Root>>
    <3>1. RoleCapabilities(account[v], w) = Capability
      BY <2>2, AdminsHaveAll DEF Kept
    <3>2. QED BY <1>4, <1>7, <1>9, <2>2, <3>1
  <2>3. CASE <<w, v>> # <<Demo, Root>>
    BY <1>4, <1>6, <1>9, <2>1, <2>3
  <2>4. QED BY <2>2, <2>3
<1>12. \A w \in World, v \in User :
          held'[<<w, v>>] =
              IF w \notin stored \/ v \in Deleted \/ (tab[<<w, v>>] = {} /\ <<w, v>> \notin controller)
                THEN None
                ELSE [caps |-> tab[<<w, v>>], controls |-> <<w, v>> \in controller]
  BY <1>2, PairsAreKeys, Zenon DEF Hydrated
<1>13. OneBusy' /\ ReadIsCurrent'
  BY <1>2 DEF OneBusy, ReadIsCurrent
<1>14. KindFits'
  BY <1>2, Zenon DEF KindFits
<1>15. AdminFits'
  BY <1>2 DEF OrderlyParts, AdminFits, Usable
<1>16. WorldsFit'
  <2>1. \A w \in World \ stored, v \in User : tab[<<w, v>>] = {} /\ <<w, v>> \notin controller
    <3> SUFFICES ASSUME NEW w \in World \ stored, NEW v \in User
                 PROVE  tab[<<w, v>>] = {} /\ <<w, v>> \notin controller
      OBVIOUS
    <3>1. w # Demo /\ <<w, v>> # <<Demo, Root>>
      BY <1>4
    <3>2. tab[<<w, v>>] = table[<<w, v>>]
      BY <1>6, <1>9, <3>1
    <3>3. QED BY <3>2 DEF OrderlyParts, WorldsFit
  <2>2. \A w \in World \ stored, v \in User : held'[<<w, v>>] = None
    BY <1>12
  <2>3. QED BY <1>2, <1>4, <2>1, <2>2 DEF WorldsFit
<1>17. TableFits'
  BY <1>2, <1>11 DEF TableFits, Kept
<1>18. \A w \in stored, v \in User :
          ~account[v].deleted =>
              /\ Caps(<<w, v>>)' = tab[<<w, v>>]
              /\ <<w, v>> \in controller => Controls(w, v)'
  <2> SUFFICES ASSUME NEW w \in stored, NEW v \in User, ~account[v].deleted
               PROVE  /\ Caps(<<w, v>>)' = tab[<<w, v>>]
                      /\ <<w, v>> \in controller => Controls(w, v)'
    OBVIOUS
  <2>1. PICK caps \in SUBSET Capability : caps = tab[<<w, v>>]
    <3>1. w \in World
      BY <1>4
    <3>2. tab[<<w, v>>] \in SUBSET Capability
      BY <1>10, <3>1, PairsAreKeys
    <3>3. QED BY <3>2
  <2>2. PICK b \in BOOLEAN : b = (<<w, v>> \in controller)
    <3>1. (<<w, v>> \in controller) \in BOOLEAN
      OBVIOUS
    <3>2. QED BY <3>1, Zenon
  <2>3. PICK e : e = [caps |-> caps, controls |-> b]
    OBVIOUS
  <2>4. e # None /\ e.caps = caps /\ e.controls = b
    BY <2>3, EntryRead
  <2>5. v \notin Deleted
    BY DEF Deleted
  <2>6. held'[<<w, v>>] = IF caps = {} /\ ~b THEN None ELSE e
    BY <1>4, <1>12, <2>1, <2>2, <2>3, <2>5
  <2>7. Caps(<<w, v>>)' = caps
    BY <2>4, <2>6 DEF Caps
  <2>8. b => Controls(w, v)'
    BY <2>4, <2>6 DEF Controls
  <2>9. QED BY <2>1, <2>2, <2>7, <2>8
<1>19. HeldFits'
  BY <1>2, <1>11, <1>18 DEF HeldFits, Kept
<1>20. ControlFits'
  BY <1>2, <1>18 DEF ControlFits
<1>21. QED BY <1>13, <1>14, <1>15, <1>16, <1>17, <1>19, <1>20, Zenon DEF OrderlyParts

LEMMA UntouchedKeeps == ASSUME OrderlyParts, UNCHANGED vars PROVE OrderlyParts'
<1>1. OneBusy' /\ ReadIsCurrent' /\ TableFits'
  BY DEF OrderlyParts, OneBusy, ReadIsCurrent, TableFits, Kept, vars, accounts, tables, process,
     locals
<1>2. WorldsFit' /\ HeldFits' /\ ControlFits'
  BY DEF OrderlyParts, WorldsFit, HeldFits, ControlFits, Kept, Creates, Owes, Notes, Caps, Controls,
     vars, accounts, tables, process, locals
<1>3. KindFits'
  BY Zenon DEF OrderlyParts, KindFits, vars, locals
<1>4. AdminFits'
  BY DEF OrderlyParts, AdminFits, Others, Usable, vars, accounts, locals
<1>5. QED BY <1>1, <1>2, <1>3, <1>4, Zenon DEF OrderlyParts

LEMMA OrderlyStep == ASSUME TypeInv, OrderlyInv, [Next]_vars PROVE OrderlyInv'
<1> SUFFICES ASSUME orderly' PROVE OrderlyParts'
  BY DEF OrderlyInv
<1>1. OrderlyParts /\ LocalsOK
  BY OrderlyBefore, TypesSplit DEF OrderlyInv
<1>2. ASSUME NEW t \in Thread, Step(t) PROVE OrderlyParts'
  BY <1>1, <1>2, CheckKeeps, WriteGlobalRolesKeeps, WriteWorldRolesKeeps, WriteActiveKeeps,
     WriteDeleteKeeps, ReadKeeps, ListKeeps, MirrorKeeps, MirrorDoneKeeps, MakeWorldKeeps,
     MakeActorKeeps, SyncKeeps, SyncAdminsKeeps, SpawnKeeps, ControlKeeps, FailKeeps, Zenon DEF Step
<1>3. ASSUME NEW t \in Thread, NEW by, Administer(t, by) PROVE OrderlyParts'
  BY <1>1, <1>3, AdministerKeeps
<1>4. ASSUME NEW t \in Thread, NEW u \in User, AskLogin(t, u) PROVE OrderlyParts'
  BY <1>1, <1>4, LoginKeeps
<1>5. QED BY <1>1, <1>2, <1>3, <1>4, RestartKeeps, UntouchedKeeps, Zenon DEF Next

LEMMA OrderlyInit == Init => OrderlyInv
<1> SUFFICES ASSUME Init PROVE OrderlyParts
  BY DEF OrderlyInv
<1>1. OneBusy /\ ReadIsCurrent
  BY DEF Init, OneBusy, ReadIsCurrent
<1>2. KindFits
  BY Zenon DEF Init, KindFits
<1>3. \A u \in User : /\ account[u].admin = (u = Root) /\ ~account[u].deleted /\ account[u].active
                      /\ account[u].roles = NoRoles
  BY DEF Init
<1>4. AdminFits
  BY <1>3, RootAssumption DEF Init, AdminFits, Usable
<1>5. \A u \in User, w \in World :
         RoleCapabilities(account[u], w) = IF u = Root THEN Capability ELSE {}
  BY <1>3 DEF RoleCapabilities, NoRoles, Capability
<1>6. PICK e : e = [caps |-> Capability, controls |-> TRUE]
  OBVIOUS
<1>7. e # None /\ e.caps = Capability /\ e.controls
  BY <1>6, EntryRead
<1>8. /\ \A w \in World, u \in User :
            /\ table[<<w, u>>] = IF <<w, u>> = <<Demo, Root>> THEN Capability ELSE {}
            /\ held[<<w, u>>] = IF <<w, u>> = <<Demo, Root>> THEN e ELSE None
      /\ stored = {Demo} /\ worlds = {Demo} /\ controller = {<<Demo, Root>>}
  BY <1>6, PairsAreKeys DEF Init
<1>9. \A w \in World, u \in User :
         Caps(<<w, u>>) = IF <<w, u>> = <<Demo, Root>> THEN Capability ELSE {}
  BY <1>7, <1>8 DEF Caps
<1>10. WorldsFit
  BY <1>8 DEF WorldsFit
<1>11. TableFits
  BY <1>5, <1>8, RootAssumption DEF TableFits
<1>12. HeldFits
  BY <1>5, <1>8, <1>9, RootAssumption DEF HeldFits
<1>13. ControlFits
  BY <1>7, <1>8, RootAssumption DEF ControlFits, Controls
<1>14. QED BY <1>1, <1>2, <1>4, <1>10, <1>11, <1>12, <1>13, Zenon DEF OrderlyParts

\* The two stores of authority agree with the roles and with each other between requests,
\* whatever the accounts, the worlds and the restarts, as long as requests come one at a
\* time and none fails after a part of its work (identity/repository.py:56-65).
THEOREM StoresFollowRoles == Spec => []AuthorityFollowsRoles
<1>1. TypeInv /\ OrderlyInv => AuthorityFollowsRoles
  <2> SUFFICES ASSUME TypeInv, OrderlyParts, AllIdle PROVE
          /\ worlds = stored
          /\ \A u \in User, w \in worlds :
               ~account[u].deleted /\ (u = Root => account[u].admin) =>
                  /\ table[<<w, u>>] = RoleCapabilities(account[u], w)
                  /\ Caps(<<w, u>>) = RoleCapabilities(account[u], w)
                  /\ <<w, u>> \in controller => held[<<w, u>>] # None /\ held[<<w, u>>].controls
    BY DEF OrderlyInv, AuthorityFollowsRoles
  <2>1. \A t \in Thread : ~Creates(t) /\ (\A u \in User : ~Owes(t, u))
    BY DEF AllIdle, Creates, Owes
  <2>2. \A t \in Thread, w \in worlds, u \in User : ~Notes(t, w, u)
    BY DEF AllIdle, Notes
  <2>3. worlds = stored
    BY <2>1 DEF OrderlyParts, WorldsFit
  <2>4. QED BY <2>1, <2>2, <2>3 DEF OrderlyParts, TableFits, HeldFits, ControlFits, Kept, Controls
<1>2. QED BY <1>1, InitTyped, NextTyped, OrderlyInit, OrderlyStep, PTL DEF Spec

\* However many accounts there are, one of them is an administrator who can sign in, as
\* long as requests come one at a time: the last one is neither demoted, disabled nor
\* deleted (identity/service.py:277-279).
THEOREM NobodyLocksOut == Spec => []AdministratorRemains
<1>1. OrderlyInv => AdministratorRemains
  BY DEF OrderlyInv, OrderlyParts, AdminFits, AdministratorRemains
<1>2. QED BY <1>1, InitTyped, NextTyped, OrderlyInit, OrderlyStep, PTL DEF Spec
===============================================================================
