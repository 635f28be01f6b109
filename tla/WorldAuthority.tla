---------------------------- MODULE WorldAuthority ----------------------------
(***************************************************************************)
(* Product roles and the authority that follows from them: the accounts    *)
(* and their roles (identity/service.py, identity/repository.py), the      *)
(* capabilities of actors in the tables that row-level security reads, and *)
(* the capabilities in the process that the kernel reads                   *)
(* (kernel/application.py).  The routes of kernel/api/app.py change the    *)
(* first two in one transaction and the third afterwards;                  *)
(* PostgresControlPlane.sync copies the third into the second, and         *)
(* hydrate the second into the third when the process starts.              *)
(*                                                                         *)
(* A transaction is one step, and so is mirroring one account.  Actors of  *)
(* accounts are named like the account.  Capabilities come in the three    *)
(* classes that roles tell apart, and roles of actors go with them.        *)
(***************************************************************************)
EXTENDS Integers, FiniteSets

CONSTANTS
    Thread,       \* request threads
    User,         \* accounts
    Root,         \* the account of the demo operator, the first one
    Bot,          \* an actor without an account
    BotGrants,    \* capabilities that actors without an account are created with
    World, Demo,  \* worlds, and the one of the demo
    Roles,        \* sets of world roles an administrator assigns
    MaxRequests,  \* bound: requests while they come one at a time,
    MaxOverlap,   \* bound: and in all once they have overlapped or one has failed halfway
    None

Capability == {"act", "direct", "administer"}
Actor == User \cup {Bot}

ASSUME RootAssumption == Root \in User /\ Demo \in World
ASSUME ActorAssumption == Bot \notin User /\ None \notin Actor
ASSUME GrantsAssumption == BotGrants \subseteq SUBSET Capability
ASSUME RolesAssumption == Roles \subseteq SUBSET {"DM", "PLAYER"}
ASSUME BoundsAssumption == MaxRequests \in Nat /\ MaxOverlap \in Nat

Account == [admin : BOOLEAN, active : BOOLEAN, deleted : BOOLEAN,
            roles : [World -> SUBSET {"DM", "PLAYER"}]]
Entry == [caps : SUBSET Capability, controls : BOOLEAN]
Keys == World \X Actor

ASSUME EntryAssumption == None \notin Entry

VARIABLES
    account,            \* identity.users, global_roles and world_roles
    table, stored,      \* sim.actor_capabilities and sim.worlds
    controller,         \* who controls an entity, by sim.entities
    held, worlds,       \* world_authorities and the worlds of the process
    operator,           \* the account automation acts for, as it was when the process started
    pc, job, seen, todo, \* each thread's step and request, accounts it read and has to mirror
    requests, orderly,  \* how many there were, and whether one at a time and unharmed
    given               \* the capabilities an account's roles have ever given it in a world

accounts == <<account, given>>
tables == <<table, stored, controller>>
process == <<held, worlds, operator>>
locals == <<pc, job, seen, todo>>
vars == <<accounts, tables, process, locals, requests, orderly>>

Steps == {"idle", "check", "write", "read", "mirror", "make world", "list", "make actor", "sync",
          "admins", "spawn", "control"}

\* A request: who sends it, about which actor, in which world, with which roles,
\* capabilities or switch.
Job == [kind : {"global", "roles", "active", "delete", "login", "world", "actor", "spawn"},
        by : User \cup {None}, who : Actor, world : World,
        roles : SUBSET {"DM", "PLAYER"}, caps : SUBSET Capability, flag : BOOLEAN]

Nobody == [u \in User |-> None]

(***************************************************************************)
(* From roles to capabilities.                                             *)
(***************************************************************************)

\* kernel_authority.
RoleCapabilities(a, w) ==
    (IF a.admin THEN Capability ELSE {})
      \cup (IF "DM" \in a.roles[w] THEN {"act", "direct"} ELSE {})
      \cup (IF "PLAYER" \in a.roles[w] THEN {"act"} ELSE {})

\* The table after the capabilities of an account have been written anew.
Synced(tab, u, a, scope) ==
    [k \in Keys |-> IF k[1] \in scope \cap stored /\ k[2] = u
                      THEN RoleCapabilities(a, k[1]) ELSE tab[k]]

\* Mutant: the roles held in the demo count in every world.
MirroredFromDemo(h, u, a) ==
    [k \in Keys |-> IF k[2] # u \/ k[1] \notin worlds THEN h[k]
                    ELSE [caps |-> RoleCapabilities(a, Demo),
                          controls |-> h[k] # None /\ h[k].controls]]

\* Mutant: an entry without capabilities is left as it is.
MirroredUnlessEmpty(h, u, a) ==
    [k \in Keys |->
        IF k[2] # u \/ k[1] \notin worlds \/ RoleCapabilities(a, k[1]) = {} THEN h[k]
        ELSE [caps |-> RoleCapabilities(a, k[1]), controls |-> h[k] # None /\ h[k].controls]]

\* sync_world_authority: control of entities stays, and whoever has neither a
\* capability nor control has no entry.
Mirrored(h, u, a) ==
    [k \in Keys |->
        LET caps == RoleCapabilities(a, k[1])
            controls == h[k] # None /\ h[k].controls
        IN  IF k[2] # u \/ k[1] \notin worlds THEN h[k]
            ELSE IF caps = {} /\ ~controls THEN None
            ELSE [caps |-> caps, controls |-> controls]]

\* hydrate: what the tables hold of an actor who is active.
Hydrated(tab, dead) ==
    [k \in Keys |->
        IF k[1] \notin stored \/ k[2] \in dead \/ (tab[k] = {} /\ k \notin controller) THEN None
        ELSE [caps |-> tab[k], controls |-> k \in controller]]

Deleted == {u \in User : account[u].deleted}

\* The account's roles give it these capabilities from now on.
Give(u, a) ==
    /\ account' = [account EXCEPT ![u] = a]
    /\ given' = [k \in World \X User |->
                    IF k[2] = u THEN given[k] \cup RoleCapabilities(a, k[1]) ELSE given[k]]

(***************************************************************************)
(* The process starts for the first time.                                  *)
(***************************************************************************)
NoRoles == [w \in World |-> {}]

Init ==
    /\ account = [u \in User |-> [admin |-> u = Root, active |-> TRUE, deleted |-> FALSE,
                               roles |-> NoRoles]]
    /\ given = [k \in World \X User |-> IF k[2] = Root THEN Capability ELSE {}]
    /\ table = [k \in Keys |-> IF k = <<Demo, Root>> THEN Capability ELSE {}]
    /\ stored = {Demo} /\ worlds = {Demo}
    /\ controller = {<<Demo, Root>>}
    /\ held = [k \in Keys |-> IF k = <<Demo, Root>>
                                THEN [caps |-> Capability, controls |-> TRUE] ELSE None]
    /\ operator = [user |-> Root, admin |-> TRUE]
    /\ pc = [t \in Thread |-> "idle"]
    /\ job = [t \in Thread |-> None]
    /\ seen = [t \in Thread |-> Nobody]
    /\ todo = [t \in Thread |-> {}]
    /\ requests = 0
    /\ orderly = TRUE

Goto(t, step) == pc' = [pc EXCEPT ![t] = step]

Leave(t) ==
    /\ Goto(t, "idle")
    /\ job' = [job EXCEPT ![t] = None]
    /\ seen' = [seen EXCEPT ![t] = Nobody]
    /\ todo' = [todo EXCEPT ![t] = {}]

AllIdle == \A t \in Thread : pc[t] = "idle"

(***************************************************************************)
(* Requests.                                                               *)
(***************************************************************************)
Usable(u) == account[u].active /\ ~account[u].deleted

\* Who passes for an administrator: accounts that are one, and automation.
Administrators ==
    {u \in User : Usable(u) /\ account[u].admin}
      \cup (IF operator.admin THEN {operator.user} ELSE {})

Ask(t, q, step) ==
    /\ pc[t] = "idle"
    /\ requests < (IF orderly /\ AllIdle THEN MaxRequests ELSE MaxOverlap)
    /\ job' = [job EXCEPT ![t] = q]
    /\ Goto(t, step)
    /\ requests' = requests + 1
    /\ orderly' = (orderly /\ AllIdle)
    /\ UNCHANGED <<accounts, tables, process, seen, todo>>

Request(kind, by, who, world, roles, caps, flag) ==
    [kind |-> kind, by |-> by, who |-> who, world |-> world, roles |-> roles, caps |-> caps,
     flag |-> flag]

AskGlobalRoles(t, by, u, flag) ==
    Ask(t, Request("global", by, u, Demo, {}, {}, flag), "check")

AskWorldRoles(t, by, u, w, roles) ==
    Ask(t, Request("roles", by, u, w, roles, {}, FALSE), "write")

\* Nobody may disable or delete the own account.
AskActive(t, by, u, flag) ==
    /\ u # by \/ flag
    /\ Ask(t, Request("active", by, u, Demo, {}, {}, flag), IF flag THEN "write" ELSE "check")

AskDelete(t, by, u) ==
    /\ u # by
    /\ Ask(t, Request("delete", by, u, Demo, {}, {}, FALSE), "check")

AskLogin(t, u) ==
    /\ Usable(u)
    /\ Ask(t, Request("login", None, u, Demo, {}, {}, FALSE), "read")

AskWorld(t, by, w) ==
    Ask(t, Request("world", by, by, w, {}, {}, FALSE), "make world")

AskActor(t, by, w, caps) ==
    /\ w \in worlds
    /\ Ask(t, Request("actor", by, Bot, w, {}, caps, FALSE), "make actor")

\* An entity with a controller, who must have authority in the world.
AskEntity(t, by, w, u) ==
    /\ held[<<w, u>>] # None
    /\ Ask(t, Request("spawn", by, u, w, {}, {}, FALSE), "spawn")

(***************************************************************************)
(* Accounts.                                                               *)
(***************************************************************************)

\* Mutant: disabled administrators count.
OthersAlsoDisabled(u) == {v \in User \ {u} : account[v].admin /\ ~account[v].deleted}

\* _admin_count: administrators who can still sign in.
Others(u) == {v \in User \ {u} : account[v].admin /\ Usable(v)}

\* The target is read, and the last administrator is left alone.
Check(t) ==
    LET q == job[t]
        target == account[q.who]
    IN
    /\ pc[t] = "check"
    /\ IF target.deleted \/ (target.admin /\ ~q.flag /\ Others(q.who) = {})
         THEN Leave(t)
         ELSE Goto(t, "write") /\ UNCHANGED <<job, seen, todo>>
    /\ UNCHANGED <<accounts, tables, process, requests, orderly>>

\* set_global_roles, with the capabilities in every world.
WriteGlobalRoles(t) ==
    LET q == job[t]
        a == [account[q.who] EXCEPT !.admin = q.flag]
    IN
    /\ pc[t] = "write" /\ q.kind = "global"
    /\ Give(q.who, a)
    /\ table' = Synced(table, q.who, a, World)
    /\ Goto(t, "read")
    /\ UNCHANGED <<stored, controller, process, job, seen, todo, requests, orderly>>

\* set_world_roles, with the capabilities in that world.  Whether the account is
\* deleted is not looked at.
WriteWorldRoles(t) ==
    LET q == job[t]
        a == [account[q.who] EXCEPT !.roles = [account[q.who].roles EXCEPT ![q.world] = q.roles]]
    IN
    /\ pc[t] = "write" /\ q.kind = "roles"
    /\ IF q.world \in stored
         THEN /\ Give(q.who, a)
              /\ table' = Synced(table, q.who, a, {q.world})
              /\ Goto(t, "read")
              /\ UNCHANGED <<job, seen, todo>>
         ELSE Leave(t) /\ UNCHANGED <<accounts, table>>
    /\ UNCHANGED <<stored, controller, process, requests, orderly>>

\* update_account; authority stays.
WriteActive(t) ==
    LET q == job[t] IN
    /\ pc[t] = "write" /\ q.kind = "active"
    /\ Give(q.who, [account[q.who] EXCEPT !.active = q.flag])
    /\ Leave(t)
    /\ UNCHANGED <<tables, process, requests, orderly>>

\* delete_user; the capabilities in the tables stay, the actor becomes inactive.
WriteDelete(t) ==
    LET q == job[t] IN
    /\ pc[t] = "write" /\ q.kind = "delete"
    /\ Give(q.who, [admin |-> FALSE, active |-> FALSE, deleted |-> TRUE, roles |-> NoRoles])
    /\ Leave(t)
    /\ UNCHANGED <<tables, process, requests, orderly>>

\* The account is read again, to be mirrored.
Read(t) ==
    LET u == job[t].who IN
    /\ pc[t] = "read"
    /\ IF account[u].deleted
         THEN Leave(t)
         ELSE /\ seen' = [seen EXCEPT ![t] = [v \in User |-> IF v = u THEN account[u] ELSE None]]
              /\ todo' = [todo EXCEPT ![t] = {u}]
              /\ Goto(t, "mirror")
              /\ UNCHANGED job
    /\ UNCHANGED <<accounts, tables, process, requests, orderly>>

\* All accounts are read, to be mirrored one after the other.
List(t) ==
    /\ pc[t] = "list"
    /\ seen' = [seen EXCEPT ![t] =
                  [u \in User |-> IF account[u].deleted THEN None ELSE account[u]]]
    /\ todo' = [todo EXCEPT ![t] = User \ Deleted]
    /\ Goto(t, "mirror")
    /\ UNCHANGED <<accounts, tables, process, job, requests, orderly>>

Mirror(t, u) ==
    /\ pc[t] = "mirror"
    /\ u \in todo[t]
    /\ held' = Mirrored(held, u, seen[t][u])
    /\ todo' = [todo EXCEPT ![t] = todo[t] \ {u}]
    /\ UNCHANGED <<accounts, tables, worlds, operator, pc, job, seen, requests, orderly>>

MirrorDone(t) ==
    /\ pc[t] = "mirror"
    /\ todo[t] = {}
    /\ IF job[t].kind = "world"
         THEN Goto(t, "sync") /\ UNCHANGED <<job, seen, todo>>
         ELSE Leave(t)
    /\ UNCHANGED <<accounts, tables, process, requests, orderly>>

(***************************************************************************)
(* Worlds, actors and entities.                                            *)
(***************************************************************************)

\* create_world and grant_authority: the creator gets what it holds in the demo.
MakeWorld(t) ==
    LET q == job[t]
        mine == held[<<Demo, q.by>>]
    IN
    /\ pc[t] = "make world"
    /\ IF q.world \in worlds \/ mine = None
         THEN Leave(t) /\ UNCHANGED <<held, worlds>>
         ELSE /\ worlds' = worlds \cup {q.world}
              /\ held' = [held EXCEPT ![<<q.world, q.by>>] =
                            [caps |-> mine.caps, controls |-> FALSE]]
              /\ Goto(t, "list")
              /\ UNCHANGED <<job, seen, todo>>
    /\ UNCHANGED <<accounts, tables, operator, requests, orderly>>

\* create_actor.
MakeActor(t) ==
    LET q == job[t] IN
    /\ pc[t] = "make actor"
    /\ held' = [held EXCEPT ![<<q.world, Bot>>] = [caps |-> q.caps, controls |-> FALSE]]
    /\ Goto(t, "sync")
    /\ UNCHANGED <<accounts, tables, worlds, operator, job, seen, todo, requests, orderly>>

Copied(h) == [k \in Keys |-> table[k] \cup (IF h[k] = None THEN {} ELSE h[k].caps)]

\* PostgresControlPlane.sync only ever inserts.  It raises if nobody may act.
Sync(t) ==
    /\ pc[t] = "sync"
    /\ IF \E k \in Keys : held[k] # None /\ "act" \in held[k].caps
         THEN /\ table' = Copied(held)
              /\ stored' = stored \cup worlds
              /\ IF job[t].kind = "world"
                   THEN Goto(t, "admins") /\ UNCHANGED <<job, seen, todo>>
                   ELSE Leave(t)
              /\ UNCHANGED orderly
         ELSE Leave(t) /\ orderly' = FALSE /\ UNCHANGED <<table, stored>>
    /\ UNCHANGED <<accounts, controller, process, requests>>

\* The capabilities of every administrator in a world.
WithAdmins(tab, scope) ==
    [k \in Keys |-> IF k[1] \in scope /\ k[2] \in User \ Deleted /\ account[k[2]].admin
                      THEN RoleCapabilities(account[k[2]], k[1]) ELSE tab[k]]

\* sync_admin_world.
SyncAdmins(t) ==
    /\ pc[t] = "admins"
    /\ table' = WithAdmins(table, {job[t].world} \cap stored)
    /\ Leave(t)
    /\ UNCHANGED <<accounts, stored, controller, process, requests, orderly>>

\* The entity is committed, and then its controller is noted in the process.
Spawn(t) ==
    /\ pc[t] = "spawn"
    /\ IF job[t].world \in stored
         THEN /\ controller' = controller \cup {<<job[t].world, job[t].who>>}
              /\ Goto(t, "control")
              /\ UNCHANGED <<job, seen, todo>>
         ELSE Leave(t) /\ UNCHANGED controller
    /\ UNCHANGED <<accounts, table, stored, process, requests, orderly>>

\* assign_control, which raises if the authority is gone by now.
Control(t) ==
    LET k == <<job[t].world, job[t].who>> IN
    /\ pc[t] = "control"
    /\ IF held[k] # None
         THEN /\ held' = [held EXCEPT ![k] = [caps |-> held[k].caps, controls |-> TRUE]]
              /\ UNCHANGED orderly
         ELSE orderly' = FALSE /\ UNCHANGED held
    /\ Leave(t)
    /\ UNCHANGED <<accounts, tables, worlds, operator, requests>>

(***************************************************************************)
(* Failures.                                                               *)
(***************************************************************************)

\* The request raises, in most steps after a part of its work.
Fail(t) ==
    /\ pc[t] # "idle"
    /\ orderly' = (orderly /\ pc[t] \in {"check", "write", "make world", "make actor", "spawn"})
    /\ Leave(t)
    /\ UNCHANGED <<accounts, tables, process, requests>>

\* create_app: bootstrap_demo, sync, sync_admin_world and hydrate.  The demo operator
\* gets its capabilities whatever its roles are by now.
Restart ==
    LET demo == [table EXCEPT ![<<Demo, Root>>] = Capability]
        tab == WithAdmins(demo, {Demo})
    IN
    /\ Deleted # User
    /\ requests < MaxRequests
    /\ table' = tab
    /\ held' = Hydrated(tab, Deleted)
    /\ worlds' = stored
    /\ \E u \in IF Root \in Deleted THEN User \ Deleted ELSE {Root} :
          operator' = [user |-> u, admin |-> account[u].admin]
    /\ requests' = requests + 1
    /\ pc' = [t \in Thread |-> "idle"]
    /\ job' = [t \in Thread |-> None]
    /\ seen' = [t \in Thread |-> Nobody]
    /\ todo' = [t \in Thread |-> {}]
    /\ UNCHANGED <<accounts, stored, controller, orderly>>

(***************************************************************************)
(* The specification.                                                      *)
(***************************************************************************)
Administer(t, by) ==
    \/ \E u \in User, flag \in BOOLEAN : AskGlobalRoles(t, by, u, flag) \/ AskActive(t, by, u, flag)
    \/ \E u \in User, w \in World, roles \in Roles : AskWorldRoles(t, by, u, w, roles)
    \/ \E u \in User : AskDelete(t, by, u)
    \/ \E w \in World : AskWorld(t, by, w)
    \/ \E w \in World, caps \in BotGrants : AskActor(t, by, w, caps)
    \/ \E w \in World, u \in Actor : AskEntity(t, by, w, u)

Step(t) ==
    \/ Check(t) \/ WriteGlobalRoles(t) \/ WriteWorldRoles(t) \/ WriteActive(t) \/ WriteDelete(t)
    \/ Read(t) \/ List(t) \/ MirrorDone(t) \/ \E u \in User : Mirror(t, u)
    \/ MakeWorld(t) \/ MakeActor(t) \/ Sync(t) \/ SyncAdmins(t) \/ Spawn(t) \/ Control(t)
    \/ Fail(t)

Next ==
    \/ \E t \in Thread : \/ \E by \in Administrators : Administer(t, by)
                         \/ \E u \in User : AskLogin(t, u)
                         \/ Step(t)
    \/ Restart

Spec == Init /\ [][Next]_vars
------------------------------------------------------------------------------
(***************************************************************************)
(* Properties.                                                             *)
(***************************************************************************)
TypeOK ==
    /\ account \in [User -> Account]
    /\ given \in [World \X User -> SUBSET Capability]
    /\ table \in [Keys -> SUBSET Capability]
    /\ stored \subseteq World /\ worlds \subseteq World
    /\ controller \subseteq Keys
    /\ held \in [Keys -> Entry \cup {None}]
    /\ operator \in [user : User, admin : BOOLEAN]
    /\ pc \in [Thread -> Steps]
    /\ job \in [Thread -> Job \cup {None}]
    /\ seen \in [Thread -> [User -> Account \cup {None}]]
    /\ todo \in [Thread -> SUBSET User]
    /\ requests \in Nat
    /\ orderly \in BOOLEAN

Caps(k) == IF held[k] = None THEN {} ELSE held[k].caps

\* "Authority is never unioned across worlds: holding a role in one world grants nothing
\* in another" (kernel/api/app.py:810-815): whatever requests overlap, fail or are cut
\* off by a restart, nobody holds a capability in a world, in the tables or in the
\* process, that roles of the account have never given it there.
GrantedByRoles ==
    \A w \in World, u \in User :
        table[<<w, u>>] \cup Caps(<<w, u>>) \subseteq given[<<w, u>>]

\* The two stores of authority agree with the roles and with each other between
\* requests ("so local and RLS authorization agree", identity/repository.py:56-65), as
\* long as requests come one at a time and none fails halfway, for all accounts but a
\* demo operator who is no longer an administrator.
AuthorityFollowsRoles ==
    orderly /\ AllIdle =>
        /\ worlds = stored
        /\ \A u \in User, w \in worlds :
             ~account[u].deleted /\ (u = Root => account[u].admin) =>
                /\ table[<<w, u>>] = RoleCapabilities(account[u], w)
                /\ Caps(<<w, u>>) = RoleCapabilities(account[u], w)
                /\ <<w, u>> \in controller => held[<<w, u>>] # None /\ held[<<w, u>>].controls

\* There always is an administrator who can sign in, as long as requests come one at a
\* time ("lock the installation out", identity/service.py:277-279).
AdministratorRemains == orderly => \E u \in User : account[u].admin /\ Usable(u)
==============================================================================
