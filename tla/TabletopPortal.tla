---------------------------- MODULE TabletopPortal ----------------------------
(***************************************************************************)
(* The workspace of players and Dungeon Masters (domains/tabletop/portal.py *)
(* and its routes in kernel/api/app.py): characters, games with their      *)
(* members and sessions, and the route that puts a character into a game,  *)
(* gives it a body in the world of the game and binds it to that body.     *)
(*                                                                         *)
(* The service reads a row in one transaction and writes it, whole, in     *)
(* another, so every request is a sequence of steps.  What PostgreSQL      *)
(* keeps is modelled, with its foreign keys and checks; a step whose write *)
(* the database refuses ends the request.  Roles are constant here, they   *)
(* change in WorldAuthority.                                               *)
(***************************************************************************)
EXTENDS Integers, FiniteSets

CONSTANTS
    Thread,        \* request threads
    User, Admin,   \* accounts, and the administrators among them
    World,
    Dm, Player,    \* world roles: sets of <<world, user>>
    Character, Game, Session,
    Status,        \* statuses of a session
    MaxClock,      \* bound: session requests
    MaxRequests,   \* bound: requests while they come one at a time,
    MaxOverlap,    \* bound: and in all once they have overlapped or one has failed halfway
    None

ASSUME UsersAssumption == Admin \subseteq User /\ Dm \cup Player \subseteq World \X User
ASSUME StatusAssumption ==
    Status \subseteq {"SCHEDULED", "LIVE", "PAUSED", "COMPLETED", "CANCELLED"}
ASSUME BoundsAssumption == MaxClock \in Nat \ {0} /\ MaxRequests \in Nat /\ MaxOverlap \in Nat

\* The identity of the entity that embodies a character is derived from the
\* character and the world it is first embodied in.
Entity == [world : World, character : Character]

CharacterRecord == [owner : User, world : World \cup {None}, entity : Entity \cup {None}]
HostedGame == [world : World, host : User]
GameMember == [character : Character \cup {None}, role : {"PLAYER", "CO_DM"}]
HostedSession == [game : Game, status : Status, started : 0..MaxClock, ended : 0..MaxClock]

ASSUME NoneAssumption ==
    /\ None \notin User \cup World \cup Character \cup Game \cup Session
    /\ None \notin Entity /\ None \notin CharacterRecord

VARIABLES
    character, game, member, session,  \* the tables of the workspace
    body,          \* entities of the canonical branches: where, which, and who controls it
    spawned,       \* idempotency keys of spawns: world, sender and character
    gone,          \* characters that were deleted,
    lost,          \* and those whose entity a late update has taken back; nothing reads this
    pc, job, seen, \* each thread's step and request, and the row it read or is to write
    clock, requests, orderly

tables == <<character, game, member, session>>
world == <<body, spawned>>
past == <<gone, lost>>
locals == <<pc, job, seen>>
vars == <<tables, world, past, locals, clock, requests, orderly>>

Steps == {"idle", "save character", "delete character", "save game", "delete game",
          "check character", "save member", "remove member", "embody", "spawn", "bind",
          "save session"}

\* What a request has read: a row, or a body for a character.
Held == CharacterRecord \cup HostedGame \cup HostedSession \cup [world : World, entity : Entity]

Job == [by : User, game : Game \cup {None}, user : User \cup {None},
        character : Character \cup {None}, role : {"PLAYER", "CO_DM"},
        session : Session \cup {None}]

Quiet == [by |-> None, game |-> None, user |-> None, character |-> None, role |-> "PLAYER",
          session |-> None]

Init ==
    /\ character = [c \in Character |-> None]
    /\ game = [g \in Game |-> None]
    /\ member = [k \in Game \X User |-> None]
    /\ session = [s \in Session |-> None]
    /\ body = {} /\ spawned = {} /\ gone = {} /\ lost = {}
    /\ pc = [t \in Thread |-> "idle"]
    /\ job = [t \in Thread |-> Quiet]
    /\ seen = [t \in Thread |-> None]
    /\ clock = 1
    /\ requests = 0
    /\ orderly = TRUE

Goto(t, step) == pc' = [pc EXCEPT ![t] = step]

Leave(t) ==
    /\ Goto(t, "idle")
    /\ job' = [job EXCEPT ![t] = Quiet]
    /\ seen' = [seen EXCEPT ![t] = None]

AllIdle == \A t \in Thread : pc[t] = "idle"

Admitted(t) ==
    /\ pc[t] = "idle"
    /\ requests < (IF orderly /\ AllIdle THEN MaxRequests ELSE MaxOverlap)
    /\ requests' = requests + 1
    /\ orderly' = (orderly /\ AllIdle)

\* A request has read `row` and goes on.
Begin(t, request, row, step) ==
    /\ Admitted(t)
    /\ job' = [job EXCEPT ![t] = request]
    /\ seen' = [seen EXCEPT ![t] = row]
    /\ Goto(t, step)
    /\ UNCHANGED <<tables, world, past>>

(***************************************************************************)
(* Who may do what.                                                        *)
(***************************************************************************)

\* require_world_role.
MayDirect(u, w) == u \in Admin \/ <<w, u>> \in Dm
MayPlay(u, w) == u \in Admin \/ <<w, u>> \in Player

\* _require_player: a player of any world.
IsPlayer(u) == u \in Admin \/ \E w \in World : <<w, u>> \in Player

CoDirects(u, g) == member[<<g, u>>] # None /\ member[<<g, u>>].role = "CO_DM"

\* _hosted: the host, its co-directors and administrators.
Hosted(u, g) == game[g] # None /\ (u \in Admin \/ game[g].host = u \/ CoDirects(u, g))

\* Characters are edited by their owners and by administrators.
Edits(u, c) == character[c] # None /\ (u \in Admin \/ character[c].owner = u)

(***************************************************************************)
(* Characters.                                                             *)
(***************************************************************************)
CreateCharacter(t, u, c, w) ==
    /\ Admitted(t)
    /\ IsPlayer(u)
    /\ character[c] = None /\ c \notin gone
    /\ character' = [character EXCEPT ![c] = [owner |-> u, world |-> w, entity |-> None]]
    /\ UNCHANGED <<game, member, session, world, past, locals, clock>>

\* update_character: the row as it was read, with another world or the same one.
UpdateCharacter(t, u, c, w) ==
    /\ Edits(u, c)
    /\ Begin(t, [Quiet EXCEPT !.by = u, !.character = c], [character[c] EXCEPT !.world = w],
             "save character")
    /\ UNCHANGED clock

\* save_character writes the whole row, also if it is no longer there.  The table
\* refuses an entity without a world.
SaveCharacter(t) ==
    LET c == job[t].character IN
    /\ pc[t] = "save character"
    /\ IF seen[t].entity # None /\ seen[t].world = None
         THEN UNCHANGED <<character, lost>>
         ELSE /\ character' = [character EXCEPT ![c] = seen[t]]
              /\ lost' = IF character[c] # None /\ character[c].entity \notin {None, seen[t].entity}
                           THEN lost \cup {c} ELSE lost
    /\ Leave(t)
    /\ UNCHANGED <<game, member, session, world, gone, clock, requests, orderly>>

AskDeleteCharacter(t, u, c) ==
    /\ Edits(u, c)
    /\ Begin(t, [Quiet EXCEPT !.by = u, !.character = c], None, "delete character")
    /\ UNCHANGED clock

\* Memberships lose the character.
DeleteCharacter(t) ==
    LET c == job[t].character IN
    /\ pc[t] = "delete character"
    /\ character' = [character EXCEPT ![c] = None]
    /\ gone' = gone \cup {c}
    /\ member' = [k \in Game \X User |->
                     IF member[k] # None /\ member[k].character = c
                       THEN [member[k] EXCEPT !.character = None] ELSE member[k]]
    /\ Leave(t)
    /\ UNCHANGED <<game, session, world, lost, clock, requests, orderly>>

(***************************************************************************)
(* Games.                                                                  *)
(***************************************************************************)
CreateGame(t, u, g, w) ==
    /\ Admitted(t)
    /\ MayDirect(u, w)
    /\ game[g] = None
    /\ game' = [game EXCEPT ![g] = [world |-> w, host |-> u]]
    /\ UNCHANGED <<character, member, session, world, past, locals, clock>>

UpdateGame(t, u, g) ==
    /\ Hosted(u, g)
    /\ Begin(t, [Quiet EXCEPT !.by = u, !.game = g], game[g], "save game")
    /\ UNCHANGED clock

\* save_game inserts the game again if it was deleted meanwhile.
SaveGame(t) ==
    /\ pc[t] = "save game"
    /\ game' = [game EXCEPT ![job[t].game] = seen[t]]
    /\ Leave(t)
    /\ UNCHANGED <<character, member, session, world, past, clock, requests, orderly>>

AskDeleteGame(t, u, g) ==
    /\ Hosted(u, g)
    /\ Begin(t, [Quiet EXCEPT !.by = u, !.game = g], None, "delete game")
    /\ UNCHANGED clock

\* Members and sessions go with the game.
DeleteGame(t) ==
    LET g == job[t].game IN
    /\ pc[t] = "delete game"
    /\ game' = [game EXCEPT ![g] = None]
    /\ member' = [k \in Game \X User |-> IF k[1] = g THEN None ELSE member[k]]
    /\ session' = [s \in Session |->
                      IF session[s] # None /\ session[s].game = g THEN None ELSE session[s]]
    /\ Leave(t)
    /\ UNCHANGED <<character, world, past, clock, requests, orderly>>

(***************************************************************************)
(* Members, and the bodies of their characters.                            *)
(***************************************************************************)

\* set_member: the game and the account are read.  A character that is named exists or
\* has existed.
AskMember(t, by, g, u, c, role) ==
    /\ c # None => character[c] # None \/ c \in gone
    /\ Hosted(by, g)
    /\ IF role = "CO_DM" THEN MayDirect(u, game[g].world) ELSE MayPlay(u, game[g].world)
    /\ Begin(t, [Quiet EXCEPT !.by = by, !.game = g, !.user = u, !.character = c, !.role = role],
             game[g], IF c = None THEN "save member" ELSE "check character")
    /\ UNCHANGED clock

\* Mutant: the character is not looked at.
AnyCharacter(t) ==
    /\ pc[t] = "check character"
    /\ Goto(t, "save member")
    /\ UNCHANGED <<tables, world, past, job, seen, clock, requests, orderly>>

\* "assigned character must belong to the selected user"; one that is not found
\* passes.
CheckCharacter(t) ==
    LET row == character[job[t].character] IN
    /\ pc[t] = "check character"
    /\ IF row # None /\ row.owner # job[t].user
         THEN Leave(t)
         ELSE Goto(t, "save member") /\ UNCHANGED <<job, seen>>
    /\ UNCHANGED <<tables, world, past, clock, requests, orderly>>

\* Foreign keys refuse members of no game and with no such character.
SaveMember(t) ==
    LET q == job[t] IN
    /\ pc[t] = "save member"
    /\ IF game[q.game] = None \/ (q.character # None /\ character[q.character] = None)
         THEN Leave(t) /\ UNCHANGED member
         ELSE /\ member' = [member EXCEPT ![<<q.game, q.user>>] =
                              [character |-> q.character, role |-> q.role]]
              /\ IF q.character # None /\ q.role = "PLAYER"
                   THEN Goto(t, "embody") /\ UNCHANGED <<job, seen>>
                   ELSE Leave(t)
    /\ UNCHANGED <<character, game, session, world, past, clock, requests, orderly>>

AskRemoveMember(t, by, g, u) ==
    /\ Hosted(by, g)
    /\ Begin(t, [Quiet EXCEPT !.by = by, !.game = g, !.user = u], None, "remove member")
    /\ UNCHANGED clock

RemoveMember(t) ==
    /\ pc[t] = "remove member"
    /\ member' = [member EXCEPT ![<<job[t].game, job[t].user>>] = None]
    /\ Leave(t)
    /\ UNCHANGED <<character, game, session, world, past, clock, requests, orderly>>

\* The entity that embodies a character in a world.
BodyOf(c, w) ==
    IF character[c].entity # None THEN character[c].entity ELSE [world |-> w, character |-> c]

Exists(w, e) == \E b \in body : b.world = w /\ b.entity = e

\* Mutant: the character is bound to its entity before there is one.
EmbodyLater(t) ==
    /\ pc[t] = "embody"
    /\ IF character[job[t].character] = None
         THEN Leave(t)
         ELSE /\ Goto(t, "bind")
              /\ seen' = [seen EXCEPT ![t] = [world |-> seen[t].world,
                                              entity |-> BodyOf(job[t].character, seen[t].world)]]
              /\ UNCHANGED job
    /\ UNCHANGED <<tables, world, past, clock, requests, orderly>>

\* dm_game_member: the character is read again, and an entity found or spawned.
Embody(t) ==
    LET c == job[t].character
        w == seen[t].world
    IN
    /\ pc[t] = "embody"
    /\ IF character[c] = None
         THEN Leave(t)
         ELSE /\ seen' = [seen EXCEPT ![t] = [world |-> w, entity |-> BodyOf(c, w)]]
              /\ Goto(t, IF Exists(w, BodyOf(c, w)) THEN "bind" ELSE "spawn")
              /\ UNCHANGED job
    /\ UNCHANGED <<tables, world, past, clock, requests, orderly>>

\* Mutant: the sender controls what it spawns.
SpawnForSender(t) ==
    LET q == job[t]
        w == seen[t].world
    IN
    /\ pc[t] = "spawn"
    /\ body' = body \cup {[world |-> w, entity |-> seen[t].entity, controller |-> q.by]}
    /\ spawned' = spawned \cup {[world |-> w, by |-> q.by, character |-> q.character]}
    /\ Goto(t, "bind")
    /\ UNCHANGED <<tables, past, job, seen, clock, requests, orderly>>

\* The spawn is submitted under a key of the character.  An entity that is there by now is
\* refused; a sender that has spawned for it in this world gets the receipt of that, also
\* if its first spawn came in between or was of another entity.
Spawn(t) ==
    LET q == job[t]
        w == seen[t].world
        key == [world |-> w, by |-> q.by, character |-> q.character]
    IN
    /\ pc[t] = "spawn"
    /\ \/ /\ Exists(w, seen[t].entity)
          /\ Leave(t) /\ UNCHANGED world
       \/ /\ key \in spawned
          /\ Goto(t, "bind") /\ UNCHANGED <<world, job, seen>>
       \/ /\ key \notin spawned /\ ~Exists(w, seen[t].entity)
          /\ body' = body \cup {[world |-> w, entity |-> seen[t].entity, controller |-> q.user]}
          /\ spawned' = spawned \cup {key}
          /\ Goto(t, "bind") /\ UNCHANGED <<job, seen>>
    /\ UNCHANGED <<tables, past, clock, requests, orderly>>

\* Mutant: a bound character is bound anew.
BindAnew(t) ==
    LET row == character[job[t].character] IN
    /\ pc[t] = "bind"
    /\ IF row = None THEN Leave(t)
         ELSE /\ seen' = [seen EXCEPT ![t] = [owner |-> row.owner, world |-> seen[t].world,
                             entity |-> [world |-> seen[t].world, character |-> job[t].character]]]
              /\ Goto(t, "save character")
              /\ UNCHANGED job
    /\ UNCHANGED <<tables, world, past, clock, requests, orderly>>

\* bind_character_entity: the row to be written, unless the character is elsewhere.
Bind(t) ==
    LET row == character[job[t].character]
        w == seen[t].world
        e == seen[t].entity
    IN
    /\ pc[t] = "bind"
    /\ IF \/ ~MayDirect(job[t].by, w)
          \/ row = None
          \/ row.world \notin {None, w}
          \/ row.entity \notin {None, e}
         THEN Leave(t)
         ELSE /\ seen' = [seen EXCEPT ![t] = [owner |-> row.owner, world |-> w, entity |-> e]]
              /\ Goto(t, "save character")
              /\ UNCHANGED job
    /\ UNCHANGED <<tables, world, past, clock, requests, orderly>>

(***************************************************************************)
(* Sessions.                                                               *)
(***************************************************************************)
Over == {"COMPLETED", "CANCELLED"}

\* What save_session makes of a session that it found as `row`, or did not find.
\* It starts once, and has an end if it has ever ended; 0 is no time.
NextSession(row, g, status, now) ==
    LET before == IF row = None THEN 0 ELSE row.started
        started == IF status = "LIVE" /\ before = 0 THEN now ELSE before
    IN  [game |-> g, status |-> status, started |-> started,
         ended |-> IF status \in Over /\ started # 0 THEN now
                   ELSE IF row = None THEN 0 ELSE row.ended]

\* The session is looked for among those of the game.
AskSession(t, u, g, s, status) ==
    LET row == IF session[s] # None /\ session[s].game = g THEN session[s] ELSE None IN
    /\ Hosted(u, g)
    /\ clock < MaxClock
    /\ clock' = clock + 1
    /\ Begin(t, [Quiet EXCEPT !.by = u, !.game = g, !.session = s],
             NextSession(row, g, status, clock), "save session")

\* An existing row keeps its game.
SaveSession(t) ==
    LET s == job[t].session IN
    /\ pc[t] = "save session"
    /\ session' = IF session[s] = None /\ game[seen[t].game] = None THEN session
                  ELSE [session EXCEPT ![s] =
                          IF session[s] = None THEN seen[t]
                          ELSE [seen[t] EXCEPT !.game = session[s].game]]
    /\ Leave(t)
    /\ UNCHANGED <<character, game, member, world, past, clock, requests, orderly>>

(***************************************************************************)
(* The specification.                                                      *)
(***************************************************************************)

\* The request raises, or the process dies, between two steps.
Fail(t) ==
    /\ pc[t] # "idle"
    /\ orderly' = (orderly /\ pc[t] \notin {"spawn", "bind", "save character"})
    /\ Leave(t)
    /\ UNCHANGED <<tables, world, past, clock, requests>>

Request(t, u) ==
    \/ \E c \in Character, w \in World \cup {None} :
          CreateCharacter(t, u, c, w) \/ UpdateCharacter(t, u, c, w)
    \/ \E c \in Character : AskDeleteCharacter(t, u, c)
    \/ \E g \in Game, w \in World : CreateGame(t, u, g, w)
    \/ \E g \in Game : UpdateGame(t, u, g) \/ AskDeleteGame(t, u, g)
    \/ \E g \in Game, v \in User, c \in Character \cup {None}, role \in {"PLAYER", "CO_DM"} :
          AskMember(t, u, g, v, c, role)
    \/ \E g \in Game, v \in User : AskRemoveMember(t, u, g, v)
    \/ \E g \in Game, s \in Session, status \in Status : AskSession(t, u, g, s, status)

Step(t) ==
    \/ SaveCharacter(t) \/ DeleteCharacter(t) \/ SaveGame(t) \/ DeleteGame(t)
    \/ CheckCharacter(t) \/ SaveMember(t) \/ RemoveMember(t)
    \/ Embody(t) \/ Spawn(t) \/ Bind(t) \/ SaveSession(t) \/ Fail(t)

Next == \E t \in Thread : Step(t) \/ \E u \in User : Request(t, u)

Spec == Init /\ [][Next]_vars
------------------------------------------------------------------------------
(***************************************************************************)
(* Properties.                                                             *)
(***************************************************************************)

TypeOK ==
    /\ character \in [Character -> CharacterRecord \cup {None}]
    /\ game \in [Game -> HostedGame \cup {None}]
    /\ member \in [Game \X User -> GameMember \cup {None}]
    /\ session \in [Session -> HostedSession \cup {None}]
    /\ body \subseteq [world : World, entity : Entity, controller : User]
    /\ spawned \subseteq [world : World, by : User, character : Character]
    /\ gone \subseteq Character /\ lost \subseteq Character
    /\ pc \in [Thread -> Steps]
    /\ job \in [Thread -> Job \cup {Quiet}]
    /\ seen \in [Thread -> Held \cup {None}]
    /\ clock \in 1..MaxClock
    /\ requests \in Nat
    /\ orderly \in BOOLEAN

\* "assigned character must belong to the selected user" (portal.py:658-659): however
\* requests overlap, the character of a member belongs to that member, unless it was
\* deleted and a late update has brought it back.
RosterOwns ==
    \A k \in Game \X User :
        member[k] # None /\ member[k].character \in Character \ gone =>
            /\ character[member[k].character] # None
            /\ character[member[k].character].owner = k[2]

\* The body of a character obeys its owner: spawning it for a member hands the control
\* of it to nobody else.
OwnersControl ==
    \A b \in body :
        b.entity.character \notin gone => character[b.entity.character].owner = b.controller

\* A character that is bound to an entity has that entity, also if the request that
\* binds it overlaps with others, dies or is sent again, unless it was deleted or a late
\* update has taken its entity back: then the next binding may get the receipt of the
\* spawn of another one.
BoundHaveBodies ==
    \A c \in Character \ (gone \cup lost) :
        character[c] # None /\ character[c].entity # None =>
            \E w \in World : Exists(w, character[c].entity)

\* "character is already bound to another embodied entity" (portal.py:585-586): a
\* character that lives on keeps its entity, while requests do not overlap.
BindingsStay ==
    [][\A c \in Character :
          orderly' /\ character[c] # None /\ character'[c] # None /\ character[c].entity # None =>
              character'[c].entity = character[c].entity]_vars
==============================================================================
