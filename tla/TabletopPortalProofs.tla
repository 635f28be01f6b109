-------------------------- MODULE TabletopPortalProofs --------------------------
(***************************************************************************)
(* What overlapping requests cannot do to the workspace.  The owner of a   *)
(* character never changes while it is there, so what a request has found  *)
(* about the owner is still so when it writes; and a character keeps the   *)
(* entity it was bound to, unless a late update takes it back, so that the *)
(* receipt of an earlier spawn is that of an entity it has.                *)
(*                                                                         *)
(* While requests come one at a time no update takes an entity back:       *)
(* whoever is to write a character has read it with the entity it has.     *)
(***************************************************************************)
EXTENDS TabletopPortal, TLAPS

\* The steps of requests about a character, and of those about a member.
CharacterSteps == {"save character", "delete character", "check character", "embody", "spawn", "bind"}
MemberSteps == {"check character", "save member", "embody", "spawn", "bind"}
BodySteps == {"spawn", "bind"}

\* What a request at `step` is about, and what it has read.
Typed(step, q, v) ==
    /\ step \in CharacterSteps => q.character \in Character
    /\ step \in MemberSteps => q.user \in User /\ v.world \in World
    /\ step \in MemberSteps \cup {"save game", "delete game", "remove member"} => q.game \in Game
    /\ step = "remove member" => q.user \in User
    /\ step = "save session" => q.session \in Session
    /\ step # "idle" => q \in Job
    /\ step = "save character" => v \in CharacterRecord
    /\ step = "save game" => v \in HostedGame
    /\ step = "save session" => v \in HostedSession
    /\ step \in BodySteps => v.entity \in Entity

LocalsInv == \A t \in Thread : Typed(pc[t], job[t], seen[t])

TypeInv == TypeOK /\ LocalsInv

LocalsOK ==
    /\ pc \in [Thread -> Steps]
    /\ job \in [Thread -> Job \cup {Quiet}]
    /\ seen \in [Thread -> Held \cup {None}]
    /\ LocalsInv

RowsOK ==
    /\ character \in [Character -> CharacterRecord \cup {None}]
    /\ game \in [Game -> HostedGame \cup {None}]
    /\ member \in [Game \X User -> GameMember \cup {None}]
    /\ session \in [Session -> HostedSession \cup {None}]

WorldOK ==
    /\ body \subseteq [world : World, entity : Entity, controller : User]
    /\ spawned \subseteq [world : World, by : User, character : Character]
    /\ gone \subseteq Character /\ lost \subseteq Character

CountsOK == clock \in 1..MaxClock /\ requests \in Nat /\ orderly \in BOOLEAN

LEMMA TypesSplit == TypeInv <=> LocalsOK /\ RowsOK /\ WorldOK /\ CountsOK
  BY DEF TypeInv, TypeOK, LocalsOK, RowsOK, WorldOK, CountsOK

LEMMA TypesJoin == LocalsOK' /\ RowsOK' /\ WorldOK' /\ CountsOK' => TypeInv'
  BY DEF TypeInv, TypeOK, LocalsOK, RowsOK, WorldOK, CountsOK

LEMMA Successor == ASSUME NEW n \in Nat PROVE n + 1 \in Nat
  OBVIOUS

(***************************************************************************)
(* The steps of a thread.                                                  *)
(***************************************************************************)

\* A thread takes the step `step` with the request `q` and the row `v`.
LEMMA MoveTyped ==
    ASSUME LocalsOK, NEW t \in Thread, NEW step \in Steps, NEW q \in Job \cup {Quiet},
           NEW v \in Held \cup {None}, Typed(step, q, v),
           pc' = [pc EXCEPT ![t] = step], job' = [job EXCEPT ![t] = q],
           seen' = [seen EXCEPT ![t] = v]
    PROVE  LocalsOK'
<1>1. /\ pc' \in [Thread -> Steps]
      /\ job' \in [Thread -> Job \cup {Quiet}]
      /\ seen' \in [Thread -> Held \cup {None}]
  BY Zenon DEF LocalsOK
<1>2. \A x \in Thread : Typed(pc'[x], job'[x], seen'[x])
  <2> TAKE x \in Thread
  <2>1. CASE x = t
    BY <2>1, Zenon DEF LocalsOK
  <2>2. CASE x # t
    BY <2>2, Zenon DEF LocalsOK, LocalsInv
  <2>3. QED BY <2>1, <2>2
<1>3. QED BY <1>1, <1>2, Zenon DEF LocalsOK, LocalsInv

LEMMA LeaveTyped ==
    ASSUME LocalsOK, NEW t \in Thread, Leave(t)
    PROVE  LocalsOK'
<1>1. "idle" \in Steps /\ Typed("idle", Quiet, None)
  BY DEF Steps, Typed, CharacterSteps, MemberSteps, BodySteps
<1>2. QED BY <1>1, MoveTyped, Zenon DEF Leave, Goto

LEMMA GoOnTyped ==
    ASSUME LocalsOK, NEW t \in Thread, NEW step \in Steps, Typed(step, job[t], seen[t]),
           Goto(t, step), job' = job, seen' = seen
    PROVE  LocalsOK'
<1> DEFINE q == job[t]
           v == seen[t]
<1>1. job' = [job EXCEPT ![t] = q] /\ seen' = [seen EXCEPT ![t] = v]
  BY Zenon DEF LocalsOK
<1>2. q \in Job \cup {Quiet} /\ v \in Held \cup {None}
  BY Zenon DEF LocalsOK
<1>3. Typed(step, q, v) /\ pc' = [pc EXCEPT ![t] = step]
  BY Zenon DEF Goto
<1> HIDE DEF q, v
<1>4. QED BY <1>1, <1>2, <1>3, MoveTyped, Zenon

LEMMA AdmittedTyped ==
    ASSUME CountsOK, NEW t \in Thread, Admitted(t)
    PROVE  requests' \in Nat /\ orderly' \in BOOLEAN
<1>1. requests' = requests + 1 /\ orderly' = (orderly /\ AllIdle)
  BY Zenon DEF Admitted
<1>2. requests + 1 \in Nat
  BY Successor, Zenon DEF CountsOK
<1>3. orderly' \in BOOLEAN
  BY <1>1, Zenon DEF CountsOK
<1>4. QED BY <1>1, <1>2, <1>3, Zenon

LEMMA BeginTyped ==
    ASSUME LocalsOK, NEW t \in Thread, NEW q \in Job, NEW v \in Held \cup {None},
           NEW step \in Steps, Typed(step, q, v), Begin(t, q, v, step)
    PROVE  LocalsOK'
  BY MoveTyped, Zenon DEF Begin, Goto

(***************************************************************************)
(* Requests.                                                               *)
(***************************************************************************)
LEMMA CharacterRequest ==
    ASSUME NEW u \in User, NEW c \in Character
    PROVE  LET q == [Quiet EXCEPT !.by = u, !.character = c] IN q \in Job /\ q.character = c
  BY Zenon DEF Quiet, Job

LEMMA GameRequest ==
    ASSUME NEW u \in User, NEW g \in Game
    PROVE  LET q == [Quiet EXCEPT !.by = u, !.game = g] IN q \in Job /\ q.game = g
  BY Zenon DEF Quiet, Job

LEMMA SessionRequest ==
    ASSUME NEW u \in User, NEW g \in Game, NEW s \in Session
    PROVE  LET q == [Quiet EXCEPT !.by = u, !.game = g, !.session = s]
           IN  q \in Job /\ q.session = s
  BY Zenon DEF Quiet, Job

\* The row of a session as save_session writes it.
LEMMA NextSessionTyped ==
    ASSUME NEW g \in Game, NEW s \in Session, NEW status \in Status, clock < MaxClock, CountsOK,
           RowsOK, NEW row \in {session[s], None}
    PROVE  NextSession(row, g, status, clock) \in HostedSession
<1>1. 0 \in 0..MaxClock /\ clock \in 0..MaxClock
  BY BoundsAssumption DEF CountsOK
<1>2. row = None \/ (row.started \in 0..MaxClock /\ row.ended \in 0..MaxClock)
  BY DEF RowsOK, HostedSession
<1>3. QED BY <1>1, <1>2 DEF NextSession, HostedSession

(***************************************************************************)
(* Every action keeps the types.                                           *)
(***************************************************************************)
LEMMA RowsKept == RowsOK /\ UNCHANGED tables => RowsOK'
  BY DEF RowsOK, tables

LEMMA WorldKept == WorldOK /\ UNCHANGED <<world, past>> => WorldOK'
  BY DEF WorldOK, world, past

LEMMA CountsKept == CountsOK /\ UNCHANGED <<clock, requests, orderly>> => CountsOK'
  BY DEF CountsOK

LEMMA BeginType ==
    ASSUME TypeInv, NEW t \in Thread, NEW q \in Job, NEW v \in Held \cup {None},
           NEW step \in Steps, Typed(step, q, v), Begin(t, q, v, step), clock' \in 1..MaxClock
    PROVE  TypeInv'
<1>1. LocalsOK /\ RowsOK /\ WorldOK /\ CountsOK
  BY TypesSplit
<1>2. LocalsOK'
  BY <1>1, BeginTyped, Zenon
<1>3. RowsOK' /\ WorldOK'
  BY <1>1, RowsKept, WorldKept, Zenon DEF Begin
<1>4. CountsOK'
  BY <1>1, AdmittedTyped, Zenon DEF Begin, CountsOK
<1>5. QED BY <1>2, <1>3, <1>4, TypesJoin

\* A character is read.
LEMMA RowTyped ==
    ASSUME RowsOK, NEW c \in Character, character[c] # None
    PROVE  character[c] \in CharacterRecord
  BY Zenon DEF RowsOK

LEMMA UpdateCharacterType ==
    ASSUME TypeInv, NEW t \in Thread, NEW u \in User, NEW c \in Character,
           NEW w \in World \cup {None}, UpdateCharacter(t, u, c, w)
    PROVE  TypeInv'
<1> DEFINE q == [Quiet EXCEPT !.by = u, !.character = c]
           v == [character[c] EXCEPT !.world = w]
<1>1. q \in Job /\ q.character = c
  BY CharacterRequest
<1>2. character[c] \in CharacterRecord
  BY RowTyped, TypesSplit DEF UpdateCharacter, Edits
<1>3. v \in CharacterRecord
  BY <1>2, Zenon DEF CharacterRecord
<1>4. Begin(t, q, v, "save character") /\ clock' = clock
  BY Zenon DEF UpdateCharacter
<1> HIDE DEF q, v
<1>5. "save character" \in Steps /\ Typed("save character", q, v)
  BY <1>1, <1>3 DEF Steps, Typed, CharacterSteps, MemberSteps, BodySteps
<1>6. v \in Held \cup {None} /\ clock' \in 1..MaxClock
  BY <1>3, <1>4 DEF Held, TypeInv, TypeOK
<1>7. QED BY <1>1, <1>4, <1>5, <1>6, BeginType, Zenon

LEMMA AskDeleteCharacterType ==
    ASSUME TypeInv, NEW t \in Thread, NEW u \in User, NEW c \in Character,
           AskDeleteCharacter(t, u, c)
    PROVE  TypeInv'
<1> DEFINE q == [Quiet EXCEPT !.by = u, !.character = c]
<1>1. q \in Job /\ q.character = c
  BY CharacterRequest
<1>2. Begin(t, q, None, "delete character") /\ clock' = clock
  BY Zenon DEF AskDeleteCharacter
<1> HIDE DEF q
<1>3. "delete character" \in Steps /\ Typed("delete character", q, None)
  BY <1>1 DEF Steps, Typed, CharacterSteps, MemberSteps, BodySteps
<1>4. clock' \in 1..MaxClock /\ None \in Held \cup {None}
  BY <1>2 DEF TypeInv, TypeOK
<1>5. QED BY <1>1, <1>2, <1>3, <1>4, BeginType, Zenon

LEMMA UpdateGameType ==
    ASSUME TypeInv, NEW t \in Thread, NEW u \in User, NEW g \in Game, UpdateGame(t, u, g)
    PROVE  TypeInv'
<1> DEFINE q == [Quiet EXCEPT !.by = u, !.game = g]
           v == game[g]
<1>1. q \in Job /\ q.game = g
  BY GameRequest
<1>2. v \in HostedGame
  BY Zenon DEF UpdateGame, Hosted, TypeInv, TypeOK
<1>3. Begin(t, q, v, "save game") /\ clock' = clock
  BY Zenon DEF UpdateGame
<1> HIDE DEF q, v
<1>4. "save game" \in Steps /\ Typed("save game", q, v)
  BY <1>1, <1>2 DEF Steps, Typed, CharacterSteps, MemberSteps, BodySteps
<1>5. v \in Held \cup {None} /\ clock' \in 1..MaxClock
  BY <1>2, <1>3 DEF Held, TypeInv, TypeOK
<1>6. QED BY <1>1, <1>3, <1>4, <1>5, BeginType, Zenon

LEMMA AskDeleteGameType ==
    ASSUME TypeInv, NEW t \in Thread, NEW u \in User, NEW g \in Game, AskDeleteGame(t, u, g)
    PROVE  TypeInv'
<1> DEFINE q == [Quiet EXCEPT !.by = u, !.game = g]
<1>1. q \in Job /\ q.game = g
  BY GameRequest
<1>2. Begin(t, q, None, "delete game") /\ clock' = clock
  BY Zenon DEF AskDeleteGame
<1> HIDE DEF q
<1>3. "delete game" \in Steps /\ Typed("delete game", q, None)
  BY <1>1 DEF Steps, Typed, CharacterSteps, MemberSteps, BodySteps
<1>4. clock' \in 1..MaxClock /\ None \in Held \cup {None}
  BY <1>2 DEF TypeInv, TypeOK
<1>5. QED BY <1>1, <1>2, <1>3, <1>4, BeginType, Zenon

LEMMA AskMemberType ==
    ASSUME TypeInv, NEW t \in Thread, NEW by \in User, NEW g \in Game, NEW u \in User,
           NEW c \in Character \cup {None}, NEW role \in {"PLAYER", "CO_DM"},
           AskMember(t, by, g, u, c, role)
    PROVE  TypeInv'
<1> DEFINE q == [Quiet EXCEPT !.by = by, !.game = g, !.user = u, !.character = c, !.role = role]
           v == game[g]
           step == IF c = None THEN "save member" ELSE "check character"
<1>1. q \in Job /\ q.game = g /\ q.user = u /\ q.character = c
  BY Zenon DEF Quiet, Job
<1>2. v \in HostedGame
  BY Zenon DEF AskMember, Hosted, TypeInv, TypeOK
<1>3. Begin(t, q, v, step) /\ clock' = clock
  BY Zenon DEF AskMember
<1> HIDE DEF q, v
<1>4. step \in Steps /\ Typed(step, q, v)
  <2>1. CASE c = None
    BY <1>1, <1>2, <2>1 DEF Steps, Typed, CharacterSteps, MemberSteps, BodySteps, HostedGame
  <2>2. CASE c # None
    BY <1>1, <1>2, <2>2 DEF Steps, Typed, CharacterSteps, MemberSteps, BodySteps, HostedGame
  <2>3. QED BY <2>1, <2>2
<1> HIDE DEF step
<1>5. v \in Held \cup {None} /\ clock' \in 1..MaxClock
  BY <1>2, <1>3 DEF Held, TypeInv, TypeOK
<1>6. QED BY <1>1, <1>3, <1>4, <1>5, BeginType, Zenon

LEMMA AskRemoveMemberType ==
    ASSUME TypeInv, NEW t \in Thread, NEW by \in User, NEW g \in Game, NEW u \in User,
           AskRemoveMember(t, by, g, u)
    PROVE  TypeInv'
<1> DEFINE q == [Quiet EXCEPT !.by = by, !.game = g, !.user = u]
<1>1. q \in Job /\ q.game = g /\ q.user = u
  BY Zenon DEF Quiet, Job
<1>2. Begin(t, q, None, "remove member") /\ clock' = clock
  BY Zenon DEF AskRemoveMember
<1> HIDE DEF q
<1>3. "remove member" \in Steps /\ Typed("remove member", q, None)
  BY <1>1 DEF Steps, Typed, CharacterSteps, MemberSteps, BodySteps
<1>4. clock' \in 1..MaxClock /\ None \in Held \cup {None}
  BY <1>2 DEF TypeInv, TypeOK
<1>5. QED BY <1>1, <1>2, <1>3, <1>4, BeginType, Zenon

LEMMA ClockTicks == clock \in 1..MaxClock /\ clock < MaxClock => clock + 1 \in 1..MaxClock
  BY BoundsAssumption

LEMMA AskSessionType ==
    ASSUME TypeInv, NEW t \in Thread, NEW u \in User, NEW g \in Game, NEW s \in Session,
           NEW status \in Status, AskSession(t, u, g, s, status)
    PROVE  TypeInv'
<1> DEFINE q == [Quiet EXCEPT !.by = u, !.game = g, !.session = s]
           row == IF session[s] # None /\ session[s].game = g THEN session[s] ELSE None
           v == NextSession(row, g, status, clock)
<1>1. q \in Job /\ q.session = s
  BY SessionRequest
<1>2. row \in {session[s], None}
  OBVIOUS
<1>3. Begin(t, q, v, "save session") /\ clock' = clock + 1 /\ clock < MaxClock
  BY Zenon DEF AskSession
<1> HIDE DEF q, row
<1>4. v \in HostedSession
  BY <1>2, <1>3, NextSessionTyped, TypesSplit
<1> HIDE DEF v
<1>5. "save session" \in Steps /\ Typed("save session", q, v)
  BY <1>1, <1>4 DEF Steps, Typed, CharacterSteps, MemberSteps, BodySteps
<1>6. v \in Held \cup {None}
  BY <1>4 DEF Held
<1>7. clock' \in 1..MaxClock
  BY <1>3, ClockTicks DEF TypeInv, TypeOK
<1>8. QED BY <1>1, <1>3, <1>5, <1>6, <1>7, BeginType, Zenon

\* What is created at once.
LEMMA CreateCharacterType ==
    ASSUME TypeInv, NEW t \in Thread, NEW u \in User, NEW c \in Character,
           NEW w \in World \cup {None}, CreateCharacter(t, u, c, w)
    PROVE  TypeInv'
<1> DEFINE row == [owner |-> u, world |-> w, entity |-> None]
<1>1. row \in CharacterRecord
  BY DEF CharacterRecord
<1>2. character' = [character EXCEPT ![c] = row]
  BY Zenon DEF CreateCharacter
<1> HIDE DEF row
<1>3. RowsOK'
  <2>1. character' \in [Character -> CharacterRecord \cup {None}]
    BY <1>1, <1>2, TypesSplit, Zenon DEF RowsOK
  <2>2. QED BY <2>1, TypesSplit, Zenon DEF CreateCharacter, RowsOK
<1>4. LocalsOK'
  BY TypesSplit DEF CreateCharacter, LocalsOK, LocalsInv, locals
<1>5. WorldOK'
  BY WorldKept, TypesSplit, Zenon DEF CreateCharacter
<1>6. CountsOK'
  BY AdmittedTyped, TypesSplit, Zenon DEF CreateCharacter, CountsOK
<1>7. QED BY <1>3, <1>4, <1>5, <1>6, TypesJoin

LEMMA CreateGameType ==
    ASSUME TypeInv, NEW t \in Thread, NEW u \in User, NEW g \in Game, NEW w \in World,
           CreateGame(t, u, g, w)
    PROVE  TypeInv'
<1> DEFINE row == [world |-> w, host |-> u]
<1>1. row \in HostedGame
  BY DEF HostedGame
<1>2. game' = [game EXCEPT ![g] = row]
  BY Zenon DEF CreateGame
<1> HIDE DEF row
<1>3. RowsOK'
  BY <1>1, <1>2, Zenon DEF CreateGame, TypeInv, TypeOK, RowsOK
<1>4. LocalsOK'
  BY TypesSplit DEF CreateGame, LocalsOK, LocalsInv, locals
<1>5. WorldOK'
  BY WorldKept, TypesSplit, Zenon DEF CreateGame
<1>6. CountsOK'
  BY AdmittedTyped, TypesSplit, Zenon DEF CreateGame, CountsOK
<1>7. QED BY <1>3, <1>4, <1>5, <1>6, TypesJoin

\* What a thread holds at its step.
LEMMA HeldTyped == ASSUME TypeInv, NEW t \in Thread PROVE Typed(pc[t], job[t], seen[t])
  BY DEF TypeInv, LocalsInv

LEMMA SaveCharacterType ==
    ASSUME TypeInv, NEW t \in Thread, SaveCharacter(t) PROVE TypeInv'
<1> DEFINE c == job[t].character
           v == seen[t]
<1>1. c \in Character /\ v \in CharacterRecord
  BY HeldTyped DEF SaveCharacter, Typed, CharacterSteps
<1>2. /\ character' \in {character, [character EXCEPT ![c] = v]}
      /\ lost' \in {lost, lost \cup {c}}
      /\ UNCHANGED <<game, member, session, world, gone>>
  BY Zenon DEF SaveCharacter
<1> HIDE DEF c, v
<1>3. LocalsOK'
  BY LeaveTyped, TypesSplit, Zenon DEF SaveCharacter
<1>4. RowsOK'
  <2>1. character' \in [Character -> CharacterRecord \cup {None}]
    BY <1>1, <1>2, TypesSplit, Zenon DEF RowsOK
  <2>2. QED BY <1>2, <2>1, TypesSplit, Zenon DEF RowsOK
<1>5. WorldOK'
  <2>1. lost' \subseteq Character
    BY <1>1, <1>2, TypesSplit DEF WorldOK
  <2>2. QED BY <1>2, <2>1, TypesSplit, Zenon DEF WorldOK, world
<1>6. CountsOK'
  BY CountsKept, TypesSplit, Zenon DEF SaveCharacter
<1>7. QED BY <1>3, <1>4, <1>5, <1>6, TypesJoin

LEMMA DeleteCharacterType ==
    ASSUME TypeInv, NEW t \in Thread, DeleteCharacter(t) PROVE TypeInv'
<1> DEFINE c == job[t].character
           left(k) == IF member[k] # None /\ member[k].character = c
                        THEN [member[k] EXCEPT !.character = None] ELSE member[k]
<1>1. c \in Character
  BY HeldTyped DEF DeleteCharacter, Typed, CharacterSteps
<1>2. /\ character' = [character EXCEPT ![c] = None]
      /\ gone' = gone \cup {c}
      /\ member' = [k \in Game \X User |-> left(k)]
      /\ UNCHANGED <<game, session, world, lost>>
  BY Zenon DEF DeleteCharacter
<1>3. ASSUME NEW k \in Game \X User PROVE left(k) \in GameMember \cup {None}
  <2>1. member[k] \in GameMember \cup {None}
    BY TypesSplit, Zenon DEF RowsOK
  <2>2. member[k] # None => [member[k] EXCEPT !.character = None] \in GameMember
    BY <2>1, Zenon DEF GameMember
  <2>3. QED BY <2>1, <2>2, Zenon
<1> HIDE DEF c, left
<1>4. LocalsOK'
  BY LeaveTyped, TypesSplit, Zenon DEF DeleteCharacter
<1>5. RowsOK'
  <2>1. character' \in [Character -> CharacterRecord \cup {None}]
    BY <1>1, <1>2, TypesSplit, Zenon DEF RowsOK
  <2>2. member' \in [Game \X User -> GameMember \cup {None}]
    BY <1>2, <1>3, Zenon
  <2>3. QED BY <1>2, <2>1, <2>2, TypesSplit, Zenon DEF RowsOK
<1>6. WorldOK'
  <2>1. gone' \subseteq Character
    BY <1>1, <1>2, TypesSplit DEF WorldOK
  <2>2. QED BY <1>2, <2>1, TypesSplit, Zenon DEF WorldOK, world
<1>7. CountsOK'
  BY CountsKept, TypesSplit, Zenon DEF DeleteCharacter
<1>8. QED BY <1>4, <1>5, <1>6, <1>7, TypesJoin

LEMMA SaveGameType ==
    ASSUME TypeInv, NEW t \in Thread, SaveGame(t) PROVE TypeInv'
<1> DEFINE g == job[t].game
           v == seen[t]
<1>1. g \in Game /\ v \in HostedGame
  BY HeldTyped DEF SaveGame, Typed
<1>2. game' = [game EXCEPT ![g] = v] /\ UNCHANGED <<character, member, session, world, past>>
  BY Zenon DEF SaveGame
<1> HIDE DEF g, v
<1>3. LocalsOK'
  BY LeaveTyped, TypesSplit, Zenon DEF SaveGame
<1>4. RowsOK'
  <2>1. game' \in [Game -> HostedGame \cup {None}]
    BY <1>1, <1>2, TypesSplit, Zenon DEF RowsOK
  <2>2. QED BY <1>2, <2>1, TypesSplit, Zenon DEF RowsOK
<1>5. WorldOK'
  BY <1>2, WorldKept, TypesSplit, Zenon
<1>6. CountsOK'
  BY CountsKept, TypesSplit, Zenon DEF SaveGame
<1>7. QED BY <1>3, <1>4, <1>5, <1>6, TypesJoin

LEMMA DeleteGameType ==
    ASSUME TypeInv, NEW t \in Thread, DeleteGame(t) PROVE TypeInv'
<1> DEFINE g == job[t].game
<1>1. g \in Game
  BY HeldTyped DEF DeleteGame, Typed
<1>2. /\ game' = [game EXCEPT ![g] = None]
      /\ member' = [k \in Game \X User |-> IF k[1] = g THEN None ELSE member[k]]
      /\ session' = [s \in Session |->
                        IF session[s] # None /\ session[s].game = g THEN None ELSE session[s]]
      /\ UNCHANGED <<character, world, past>>
  BY Zenon DEF DeleteGame
<1> HIDE DEF g
<1>3. LocalsOK'
  BY LeaveTyped, TypesSplit, Zenon DEF DeleteGame
<1>4. RowsOK'
  <2>1. game' \in [Game -> HostedGame \cup {None}]
    BY <1>1, <1>2, TypesSplit, Zenon DEF RowsOK
  <2>2. member' \in [Game \X User -> GameMember \cup {None}]
    BY <1>2, TypesSplit, Zenon DEF RowsOK
  <2>3. session' \in [Session -> HostedSession \cup {None}]
    BY <1>2, TypesSplit, Zenon DEF RowsOK
  <2>4. QED BY <1>2, <2>1, <2>2, <2>3, TypesSplit, Zenon DEF RowsOK
<1>5. WorldOK'
  BY <1>2, WorldKept, TypesSplit, Zenon
<1>6. CountsOK'
  BY CountsKept, TypesSplit, Zenon DEF DeleteGame
<1>7. QED BY <1>3, <1>4, <1>5, <1>6, TypesJoin

\* A step that writes no table and leaves the world as it is.
LEMMA ReadType ==
    ASSUME TypeInv, LocalsOK', UNCHANGED <<tables, world, past, clock, requests, orderly>>
    PROVE  TypeInv'
  BY RowsKept, WorldKept, CountsKept, TypesSplit, TypesJoin, Zenon

LEMMA CheckCharacterType ==
    ASSUME TypeInv, NEW t \in Thread, CheckCharacter(t) PROVE TypeInv'
<1>1. UNCHANGED <<tables, world, past, clock, requests, orderly>>
  BY Zenon DEF CheckCharacter
<1>2. CASE Leave(t)
  BY <1>1, <1>2, LeaveTyped, ReadType, TypesSplit, Zenon
<1>3. CASE ~Leave(t)
  <2>1. /\ pc[t] = "check character"
        /\ Goto(t, "save member") /\ job' = job /\ seen' = seen
    BY <1>3, Zenon DEF CheckCharacter
  <2>2. "save member" \in Steps /\ Typed("save member", job[t], seen[t])
    BY <2>1, HeldTyped DEF Typed, CharacterSteps, MemberSteps, BodySteps, Steps
  <2>3. LocalsOK'
    BY <2>1, <2>2, GoOnTyped, TypesSplit, Zenon
  <2>4. QED BY <1>1, <2>3, ReadType
<1>4. QED BY <1>2, <1>3

LEMMA SaveMemberType ==
    ASSUME TypeInv, NEW t \in Thread, SaveMember(t) PROVE TypeInv'
<1> DEFINE q == job[t]
           row == [character |-> q.character, role |-> q.role]
<1>1. /\ pc[t] = "save member"
      /\ UNCHANGED <<character, game, session, world, past, clock, requests, orderly>>
      /\ member' \in {member, [member EXCEPT ![<<q.game, q.user>>] = row]}
      /\ \/ Leave(t)
         \/ q.character # None /\ Goto(t, "embody") /\ job' = job /\ seen' = seen
  BY Zenon DEF SaveMember
<1>2. q \in Job /\ q.game \in Game /\ q.user \in User /\ seen[t].world \in World
  BY <1>1, HeldTyped DEF Typed, MemberSteps
<1>3. row \in GameMember
  BY <1>2 DEF Job, GameMember
<1>4. <<q.game, q.user>> \in Game \X User
  BY <1>2
<1>5. q.character # None => "embody" \in Steps /\ Typed("embody", q, seen[t])
  BY <1>2 DEF Typed, CharacterSteps, MemberSteps, BodySteps, Steps, Job
<1>6. LocalsOK'
  <2>1. CASE Leave(t)
    BY <2>1, LeaveTyped, TypesSplit
  <2>2. CASE q.character # None /\ Goto(t, "embody") /\ job' = job /\ seen' = seen
    BY <1>5, <2>2, GoOnTyped, TypesSplit, Zenon
  <2>3. QED BY <1>1, <2>1, <2>2
<1> HIDE DEF row
<1>7. RowsOK'
  <2>1. member' \in [Game \X User -> GameMember \cup {None}]
    BY <1>1, <1>3, <1>4, TypesSplit, Zenon DEF RowsOK
  <2>2. QED BY <1>1, <2>1, TypesSplit, Zenon DEF RowsOK
<1>8. WorldOK' /\ CountsOK'
  BY <1>1, WorldKept, CountsKept, TypesSplit, Zenon
<1>9. QED BY <1>6, <1>7, <1>8, TypesJoin

LEMMA RemoveMemberType ==
    ASSUME TypeInv, NEW t \in Thread, RemoveMember(t) PROVE TypeInv'
<1> DEFINE k == <<job[t].game, job[t].user>>
<1>1. /\ pc[t] = "remove member"
      /\ member' = [member EXCEPT ![k] = None]
      /\ UNCHANGED <<character, game, session, world, past, clock, requests, orderly>>
  BY Zenon DEF RemoveMember
<1> HIDE DEF k
<1>2. LocalsOK'
  BY LeaveTyped, TypesSplit, Zenon DEF RemoveMember
<1>3. RowsOK'
  BY <1>1, TypesSplit, Zenon DEF RowsOK
<1>4. WorldOK' /\ CountsOK'
  BY <1>1, WorldKept, CountsKept, TypesSplit, Zenon
<1>5. QED BY <1>2, <1>3, <1>4, TypesJoin

\* The entity of a character, or the one that it is to have.
LEMMA BodyTyped ==
    ASSUME TypeInv, NEW c \in Character, character[c] # None, NEW w \in World
    PROVE  BodyOf(c, w) \in Entity
<1>1. character[c].entity \in Entity \cup {None}
  BY RowTyped, TypesSplit DEF CharacterRecord
<1>2. QED BY <1>1 DEF BodyOf, Entity

LEMMA EmbodyType ==
    ASSUME TypeInv, NEW t \in Thread, Embody(t) PROVE TypeInv'
<1> DEFINE q == job[t]
           w == seen[t].world
           e == BodyOf(q.character, w)
           v == [world |-> w, entity |-> e]
           step == IF Exists(w, e) THEN "bind" ELSE "spawn"
<1>1. pc[t] = "embody" /\ UNCHANGED <<tables, world, past, clock, requests, orderly>>
  BY Zenon DEF Embody
<1>2. q \in Job /\ q.character \in Character /\ q.game \in Game /\ q.user \in User /\ w \in World
  BY <1>1, HeldTyped DEF Typed, MemberSteps, CharacterSteps
<1>3. CASE Leave(t)
  BY <1>1, <1>3, LeaveTyped, ReadType, TypesSplit, Zenon
<1>4. CASE ~Leave(t)
  <2>1. /\ character[q.character] # None
        /\ Goto(t, step) /\ job' = job /\ seen' = [seen EXCEPT ![t] = v]
    BY <1>4, Zenon DEF Embody
  <2>2. e \in Entity
    BY <1>2, <2>1, BodyTyped
  <2> HIDE DEF e
  <2>3. v \in Held \cup {None}
    BY <1>2, <2>2 DEF Held
  <2>4. step \in Steps /\ step \in BodySteps
    BY DEF Steps, BodySteps
  <2>5. Typed(step, q, v)
    BY <1>2, <2>2, <2>4 DEF Typed, BodySteps, CharacterSteps, MemberSteps
  <2> HIDE DEF v, step, w
  <2>6. job' = [job EXCEPT ![t] = q]
    BY <2>1, TypesSplit, Zenon DEF LocalsOK
  <2> HIDE DEF q
  <2>7. LocalsOK'
    <3>1. q \in Job \cup {Quiet} /\ pc' = [pc EXCEPT ![t] = step]
      BY <1>2, <2>1 DEF Goto
    <3>2. QED BY <2>1, <2>3, <2>4, <2>5, <2>6, <3>1, MoveTyped, TypesSplit, Zenon
  <2>8. QED BY <1>1, <2>7, ReadType
<1>5. QED BY <1>3, <1>4

LEMMA SpawnType ==
    ASSUME TypeInv, NEW t \in Thread, Spawn(t) PROVE TypeInv'
<1> DEFINE q == job[t]
           w == seen[t].world
           b == [world |-> w, entity |-> seen[t].entity, controller |-> q.user]
           key == [world |-> w, by |-> q.by, character |-> q.character]
<1>1. pc[t] = "spawn" /\ UNCHANGED <<tables, past, clock, requests, orderly>>
  BY Zenon DEF Spawn
<1>2. q \in Job /\ q.character \in Character /\ q.game \in Game /\ q.user \in User /\ w \in World
  BY <1>1, HeldTyped DEF Typed, MemberSteps, CharacterSteps
<1>3. seen[t].entity \in Entity
  BY <1>1, HeldTyped DEF Typed, BodySteps
<1>4. body' \in {body, body \cup {b}} /\ spawned' \in {spawned, spawned \cup {key}}
  BY Zenon DEF Spawn, world
<1>5. Leave(t) \/ (Goto(t, "bind") /\ job' = job /\ seen' = seen)
  BY Zenon DEF Spawn
<1>6. b \in [world : World, entity : Entity, controller : User]
  BY <1>2, <1>3
<1>7. key \in [world : World, by : User, character : Character]
  BY <1>2 DEF Job
<1>8. LocalsOK'
  <2>1. CASE Leave(t)
    BY <2>1, LeaveTyped, TypesSplit
  <2>2. CASE Goto(t, "bind") /\ job' = job /\ seen' = seen
    <3>1. "bind" \in Steps /\ Typed("bind", q, seen[t])
      BY <1>2, <1>3 DEF Steps, Typed, BodySteps, CharacterSteps, MemberSteps
    <3>2. QED BY <2>2, <3>1, GoOnTyped, TypesSplit, Zenon
  <2>3. QED BY <1>5, <2>1, <2>2
<1> HIDE DEF b, key
<1>9. WorldOK'
  <2>1. body' \subseteq [world : World, entity : Entity, controller : User]
    BY <1>4, <1>6, TypesSplit, Zenon DEF WorldOK
  <2>2. spawned' \subseteq [world : World, by : User, character : Character]
    BY <1>4, <1>7, TypesSplit, Zenon DEF WorldOK
  <2>3. QED BY <1>1, <2>1, <2>2, TypesSplit, Zenon DEF WorldOK, past
<1>10. RowsOK' /\ CountsOK'
  BY <1>1, RowsKept, CountsKept, TypesSplit, Zenon
<1>11. QED BY <1>8, <1>9, <1>10, TypesJoin

LEMMA BindType ==
    ASSUME TypeInv, NEW t \in Thread, Bind(t) PROVE TypeInv'
<1> DEFINE q == job[t]
           row == character[q.character]
           v == [owner |-> row.owner, world |-> seen[t].world, entity |-> seen[t].entity]
<1>1. pc[t] = "bind" /\ UNCHANGED <<tables, world, past, clock, requests, orderly>>
  BY Zenon DEF Bind
<1>2. q \in Job /\ q.character \in Character /\ seen[t].world \in World
  BY <1>1, HeldTyped DEF Typed, MemberSteps, CharacterSteps
<1>3. seen[t].entity \in Entity
  BY <1>1, HeldTyped DEF Typed, BodySteps
<1>4. CASE Leave(t)
  BY <1>1, <1>4, LeaveTyped, ReadType, TypesSplit, Zenon
<1>5. CASE ~Leave(t)
  <2>1. /\ row # None
        /\ Goto(t, "save character") /\ job' = job /\ seen' = [seen EXCEPT ![t] = v]
    BY <1>5, Zenon DEF Bind
  <2>2. row.owner \in User
    BY <1>2, <2>1, RowTyped, TypesSplit DEF CharacterRecord
  <2>3. v \in CharacterRecord
    BY <1>2, <1>3, <2>2 DEF CharacterRecord
  <2> HIDE DEF v
  <2>4. v \in Held \cup {None}
    BY <2>3 DEF Held
  <2>5. "save character" \in Steps /\ Typed("save character", q, v)
    BY <1>2, <2>3 DEF Typed, BodySteps, CharacterSteps, MemberSteps, Steps
  <2>6. job' = [job EXCEPT ![t] = q]
    BY <2>1, TypesSplit, Zenon DEF LocalsOK
  <2> HIDE DEF q
  <2>7. LocalsOK'
    <3>1. q \in Job \cup {Quiet} /\ pc' = [pc EXCEPT ![t] = "save character"]
      BY <1>2, <2>1 DEF Goto
    <3>2. QED BY <2>1, <2>4, <2>5, <2>6, <3>1, MoveTyped, TypesSplit, Zenon
  <2>8. QED BY <1>1, <2>7, ReadType
<1>6. QED BY <1>4, <1>5

LEMMA SaveSessionType ==
    ASSUME TypeInv, NEW t \in Thread, SaveSession(t) PROVE TypeInv'
<1> DEFINE s == job[t].session
           v == seen[t]
           row == IF session[s] = None THEN v ELSE [v EXCEPT !.game = session[s].game]
<1>1. s \in Session /\ v \in HostedSession
  BY HeldTyped DEF SaveSession, Typed
<1>2. /\ session' \in {session, [session EXCEPT ![s] = row]}
      /\ UNCHANGED <<character, game, member, world, past, clock, requests, orderly>>
  BY Zenon DEF SaveSession
<1>3. row \in HostedSession
  <2>1. session[s] # None => session[s].game \in Game
    BY <1>1, TypesSplit DEF RowsOK, HostedSession
  <2>2. session[s] # None => [v EXCEPT !.game = session[s].game] \in HostedSession
    BY <1>1, <2>1, Zenon DEF HostedSession
  <2>3. QED BY <1>1, <2>2, Zenon
<1> HIDE DEF s, v, row
<1>4. LocalsOK'
  BY LeaveTyped, TypesSplit, Zenon DEF SaveSession
<1>5. RowsOK'
  <2>1. session' \in [Session -> HostedSession \cup {None}]
    BY <1>1, <1>2, <1>3, TypesSplit, Zenon DEF RowsOK
  <2>2. QED BY <1>2, <2>1, TypesSplit, Zenon DEF RowsOK
<1>6. WorldOK' /\ CountsOK'
  BY <1>2, WorldKept, CountsKept, TypesSplit, Zenon
<1>7. QED BY <1>4, <1>5, <1>6, TypesJoin

LEMMA FailType ==
    ASSUME TypeInv, NEW t \in Thread, Fail(t) PROVE TypeInv'
<1>1. LocalsOK' /\ RowsOK' /\ WorldOK'
  BY LeaveTyped, RowsKept, WorldKept, TypesSplit, Zenon DEF Fail
<1>2. orderly' \in BOOLEAN
  BY TypesSplit, Zenon DEF Fail, CountsOK
<1>3. CountsOK'
  BY <1>2, TypesSplit, Zenon DEF Fail, CountsOK
<1>4. QED BY <1>1, <1>3, TypesJoin

LEMMA InitType == Init => TypeInv
<1> SUFFICES ASSUME Init PROVE TypeInv
  OBVIOUS
<1>1. LocalsOK
  <2>1. "idle" \in Steps /\ Typed("idle", Quiet, None)
    BY DEF Steps, Typed, CharacterSteps, MemberSteps, BodySteps
  <2>2. QED BY <2>1, Zenon DEF Init, LocalsOK, LocalsInv
<1>2. RowsOK
  BY Zenon DEF Init, RowsOK
<1>3. WorldOK
  BY Zenon DEF Init, WorldOK
<1>4. CountsOK
  BY BoundsAssumption DEF Init, CountsOK
<1>5. QED BY <1>1, <1>2, <1>3, <1>4, TypesSplit

LEMMA StepType == ASSUME TypeInv, NEW t \in Thread, Step(t) PROVE TypeInv'
  BY SaveCharacterType, DeleteCharacterType, SaveGameType, DeleteGameType, CheckCharacterType,
     SaveMemberType, RemoveMemberType, EmbodyType, SpawnType, BindType, SaveSessionType, FailType,
     Zenon DEF Step

LEMMA RequestType ==
    ASSUME TypeInv, NEW t \in Thread, NEW u \in User, Request(t, u) PROVE TypeInv'
  BY CreateCharacterType, UpdateCharacterType, AskDeleteCharacterType, CreateGameType,
     UpdateGameType, AskDeleteGameType, AskMemberType, AskRemoveMemberType, AskSessionType,
     Zenon DEF Request

LEMMA StutterType == TypeInv /\ UNCHANGED vars => TypeInv'
  BY DEF TypeInv, TypeOK, LocalsInv, vars, tables, world, past, locals

LEMMA TypeStep == TypeInv /\ [Next]_vars => TypeInv'
  BY StepType, RequestType, StutterType, Zenon DEF Next

\* Every variable always has its type, and a request always has what its next step reads,
\* however requests overlap and wherever they end (the service of
\* domains/tabletop/portal.py).
THEOREM TypeCorrect == Spec => []TypeOK
<1>1. TypeInv => TypeOK
  BY DEF TypeInv
<1>2. QED BY InitType, TypeStep, <1>1, PTL DEF Spec

(***************************************************************************)
(* What a request has found is still so.                                   *)
(***************************************************************************)

\* Characters that were not deleted, and those whose entity was not taken back either.
Alive == Character \ gone
Settled == Character \ (gone \cup lost)

HasBody(bodies, w, e) == \E b \in bodies : b.world = w /\ b.entity = e

\* A request at `step` knows the owner of its character: at "check character" that there is
\* one, then that it is the member, at the end that it is the owner of the row to write.
OwnerFound(step, q, v, rows, alive) ==
    LET c == q.character IN
    c \in alive =>
      /\ step \in MemberSteps \ {"check character"} => rows[c] # None /\ rows[c].owner = q.user
      /\ step = "check character" => rows[c] # None
      /\ step = "save character" => rows[c] # None /\ rows[c].owner = v.owner

\* It carries an entity of its character, which is the one the character is bound to or the
\* one of the world of the game; that has a body before it is written.
BodyFound(step, q, v, rows, settled, bodies, keys) ==
    LET c == q.character IN
    /\ step \in BodySteps =>
          /\ v.entity.character = c
          /\ c \in settled => \/ v.entity = [world |-> v.world, character |-> c]
                             \/ (rows[c] # None /\ rows[c].entity = v.entity)
    /\ step = "bind" => \/ HasBody(bodies, v.world, v.entity)
                        \/ [world |-> v.world, by |-> q.by, character |-> c] \in keys
    /\ step = "save character" /\ v.entity # None =>
          /\ v.entity.character = c
          /\ c \in settled => \E w \in World : HasBody(bodies, w, v.entity)

ThreadsInv ==
    \A t \in Thread :
       /\ OwnerFound(pc[t], job[t], seen[t], character, Alive)
       /\ BodyFound(pc[t], job[t], seen[t], character, Settled, body, spawned)

\* What a step never undoes: the owner of a character, its entity unless it is lost, a body
\* and a receipt.
Kept ==
    /\ Alive' \subseteq Alive /\ Settled' \subseteq Settled
    /\ body \subseteq body' /\ spawned \subseteq spawned'
    /\ \A c \in Alive' : character[c] # None =>
          character'[c] # None /\ character'[c].owner = character[c].owner
    /\ \A c \in Settled' : character[c] # None /\ character[c].entity # None =>
          character'[c] # None /\ character'[c].entity = character[c].entity

LEMMA BodyStays ==
    ASSUME NEW old, NEW new, old \subseteq new, NEW w, NEW e, HasBody(old, w, e)
    PROVE  HasBody(new, w, e)
  BY Zenon DEF HasBody

LEMMA OwnerStillFound ==
    ASSUME NEW step, NEW q, NEW v, NEW rows, NEW rows2, NEW alive, NEW alive2,
           alive2 \subseteq alive,
           \A c \in alive2 : rows[c] # None => rows2[c] # None /\ rows2[c].owner = rows[c].owner,
           OwnerFound(step, q, v, rows, alive)
    PROVE  OwnerFound(step, q, v, rows2, alive2)
  BY Zenon DEF OwnerFound

LEMMA BodyStillFound ==
    ASSUME NEW step, NEW q, NEW v, step \in BodySteps => v.entity # None,
           NEW rows, NEW rows2, NEW settled, NEW settled2, NEW bodies, NEW bodies2,
           NEW keys, NEW keys2,
           settled2 \subseteq settled, bodies \subseteq bodies2, keys \subseteq keys2,
           \A c \in settled2 : rows[c] # None /\ rows[c].entity # None =>
              rows2[c] # None /\ rows2[c].entity = rows[c].entity,
           BodyFound(step, q, v, rows, settled, bodies, keys)
    PROVE  BodyFound(step, q, v, rows2, settled2, bodies2, keys2)
<1> DEFINE c == q.character
<1>1. step \in BodySteps =>
          /\ v.entity.character = c
          /\ c \in settled2 => \/ v.entity = [world |-> v.world, character |-> c]
                              \/ (rows2[c] # None /\ rows2[c].entity = v.entity)
  BY Zenon DEF BodyFound
<1>2. step = "bind" => \/ HasBody(bodies2, v.world, v.entity)
                       \/ [world |-> v.world, by |-> q.by, character |-> c] \in keys2
  BY BodyStays, Zenon DEF BodyFound
<1>3. step = "save character" /\ v.entity # None =>
          /\ v.entity.character = c
          /\ c \in settled2 => \E w \in World : HasBody(bodies2, w, v.entity)
  BY BodyStays, Zenon DEF BodyFound
<1>4. QED BY <1>1, <1>2, <1>3, Zenon DEF BodyFound

\* The other threads have what they had.
LEMMA OthersFound ==
    ASSUME TypeInv, ThreadsInv, Kept, NEW x \in Thread,
           pc'[x] = pc[x], job'[x] = job[x], seen'[x] = seen[x]
    PROVE  /\ OwnerFound(pc'[x], job'[x], seen'[x], character', Alive')
           /\ BodyFound(pc'[x], job'[x], seen'[x], character', Settled', body', spawned')
<1> DEFINE step == pc[x]
           q == job[x]
           v == seen[x]
<1>1. OwnerFound(step, q, v, character, Alive)
  BY Zenon DEF ThreadsInv
<1>2. BodyFound(step, q, v, character, Settled, body, spawned)
  BY Zenon DEF ThreadsInv
<1>3. step \in BodySteps => v.entity # None
  BY HeldTyped, NoneAssumption DEF Typed
<1>4. pc'[x] = step /\ job'[x] = q /\ seen'[x] = v
  OBVIOUS
<1> DEFINE rows == character
           rows2 == character'
           settled == Settled
           settled2 == Settled'
<1>5. /\ settled2 \subseteq settled /\ body \subseteq body' /\ spawned \subseteq spawned'
      /\ \A c \in settled2 : rows[c] # None /\ rows[c].entity # None =>
            rows2[c] # None /\ rows2[c].entity = rows[c].entity
  BY Zenon DEF Kept
<1>6. /\ Alive' \subseteq Alive
      /\ \A c \in Alive' : rows[c] # None => rows2[c] # None /\ rows2[c].owner = rows[c].owner
  BY Zenon DEF Kept
<1> HIDE DEF step, q, v, rows, rows2, settled, settled2
<1>7. OwnerFound(step, q, v, rows2, Alive')
  BY <1>1, <1>6, OwnerStillFound, Zenon DEF rows
<1>8. BodyFound(step, q, v, rows2, settled2, body', spawned')
  BY <1>2, <1>3, <1>5, BodyStillFound, Zenon DEF rows, settled
<1>9. QED BY <1>4, <1>7, <1>8, Zenon DEF rows2, settled2

LEMMA ThreadsMove ==
    ASSUME TypeInv, ThreadsInv, Kept, NEW t \in Thread, NEW step, NEW q, NEW v,
           OwnerFound(step, q, v, character', Alive'),
           BodyFound(step, q, v, character', Settled', body', spawned'),
           pc' = [pc EXCEPT ![t] = step], job' = [job EXCEPT ![t] = q],
           seen' = [seen EXCEPT ![t] = v]
    PROVE  ThreadsInv'
<1> SUFFICES ASSUME NEW x \in Thread
             PROVE  /\ OwnerFound(pc'[x], job'[x], seen'[x], character', Alive')
                    /\ BodyFound(pc'[x], job'[x], seen'[x], character', Settled', body', spawned')
  BY Zenon DEF ThreadsInv
<1>1. CASE x = t
  <2>1. pc'[x] = step /\ job'[x] = q /\ seen'[x] = v
    BY <1>1, TypesSplit, Zenon DEF LocalsOK
  <2>2. QED BY <2>1, Zenon
<1>2. CASE x # t
  <2>1. pc'[x] = pc[x] /\ job'[x] = job[x] /\ seen'[x] = seen[x]
    BY <1>2, TypesSplit, Zenon DEF LocalsOK
  <2>2. QED BY <2>1, OthersFound, Zenon
<1>3. QED BY <1>1, <1>2

LEMMA ThreadsStay ==
    ASSUME TypeInv, ThreadsInv, Kept, UNCHANGED locals PROVE ThreadsInv'
<1>1. ASSUME NEW x \in Thread
      PROVE  /\ OwnerFound(pc'[x], job'[x], seen'[x], character', Alive')
             /\ BodyFound(pc'[x], job'[x], seen'[x], character', Settled', body', spawned')
  BY OthersFound, Zenon DEF locals
<1>2. QED BY <1>1, Zenon DEF ThreadsInv

\* The steps at which nothing is known of a character.
LEMMA NothingFound ==
    ASSUME NEW step, step \notin MemberSteps, step \notin BodySteps, step # "bind",
           step # "check character", step # "save character",
           NEW q, NEW v, NEW rows, NEW alive, NEW settled, NEW bodies, NEW keys
    PROVE  OwnerFound(step, q, v, rows, alive) /\ BodyFound(step, q, v, rows, settled, bodies, keys)
  BY Zenon DEF OwnerFound, BodyFound

LEMMA ThreadsLeave ==
    ASSUME TypeInv, ThreadsInv, Kept, NEW t \in Thread, Leave(t) PROVE ThreadsInv'
<1>1. /\ "idle" \notin MemberSteps /\ "idle" \notin BodySteps /\ "idle" # "bind"
      /\ "idle" # "check character" /\ "idle" # "save character"
  BY DEF MemberSteps, BodySteps
<1>2. QED BY <1>1, NothingFound, ThreadsMove, Zenon DEF Leave, Goto

LEMMA ThreadsGoOn ==
    ASSUME TypeInv, ThreadsInv, Kept, NEW t \in Thread, NEW step,
           OwnerFound(step, job[t], seen[t], character', Alive'),
           BodyFound(step, job[t], seen[t], character', Settled', body', spawned'),
           Goto(t, step), job' = job, seen' = seen
    PROVE  ThreadsInv'
<1> DEFINE q == job[t]
           v == seen[t]
<1>1. job' = [job EXCEPT ![t] = q] /\ seen' = [seen EXCEPT ![t] = v]
  BY TypesSplit, Zenon DEF LocalsOK
<1>2. /\ OwnerFound(step, q, v, character', Alive')
      /\ BodyFound(step, q, v, character', Settled', body', spawned')
      /\ pc' = [pc EXCEPT ![t] = step]
  BY Zenon DEF Goto
<1> HIDE DEF q, v
<1>3. QED BY <1>1, <1>2, ThreadsMove, Zenon

LEMMA ReadKeeps == UNCHANGED <<character, world, past>> => Kept
<1> SUFFICES ASSUME UNCHANGED <<character, world, past>> PROVE Kept
  OBVIOUS
<1>1. Alive' = Alive /\ Settled' = Settled /\ body' = body /\ spawned' = spawned
  BY Zenon DEF Alive, Settled, world, past
<1>2. QED BY <1>1, Zenon DEF Kept

\* A request begins: what it has found is so now.
LEMMA ThreadsBegin ==
    ASSUME TypeInv, ThreadsInv, NEW t \in Thread, NEW step, NEW q, NEW v,
           OwnerFound(step, q, v, character, Alive),
           BodyFound(step, q, v, character, Settled, body, spawned),
           Begin(t, q, v, step)
    PROVE  ThreadsInv'
<1>1. UNCHANGED <<character, world, past>>
  BY Zenon DEF Begin, tables
<1>2. /\ Alive' = Alive /\ Settled' = Settled /\ body' = body /\ spawned' = spawned
      /\ character' = character
  BY <1>1, Zenon DEF Alive, Settled, world, past
<1>3. Kept
  BY <1>1, ReadKeeps
<1>4. /\ OwnerFound(step, q, v, character', Alive')
      /\ BodyFound(step, q, v, character', Settled', body', spawned')
  BY <1>2, Zenon
<1>5. QED BY <1>3, <1>4, ThreadsMove, Zenon DEF Begin, Goto

(***************************************************************************)
(* The invariant.                                                          *)
(***************************************************************************)

\* A character is bound to an entity of its own only.
EntitiesNamed ==
    \A c \in Character :
        character[c] # None /\ character[c].entity # None => character[c].entity.character = c

\* Where there is the receipt of a spawn for a character, the character has a body there or
\* is bound.
ReceiptsCover ==
    \A k \in spawned : k.character \in Settled =>
        \/ HasBody(body, k.world, [world |-> k.world, character |-> k.character])
        \/ (character[k.character] # None /\ character[k.character].entity # None)

\* OwnersControl, of characters that are there.
BodiesOwned ==
    \A b \in body : b.entity.character \in Alive =>
        /\ character[b.entity.character] # None
        /\ character[b.entity.character].owner = b.controller

DataInv == RosterOwns /\ BodiesOwned /\ EntitiesNamed /\ ReceiptsCover /\ BoundHaveBodies

IInv == TypeInv /\ ThreadsInv /\ DataInv

\* What a step keeps of the tables when it neither writes a character nor spawns, and enters
\* nobody into a game.
LEMMA DataStays ==
    ASSUME DataInv, UNCHANGED <<character, world, past>>,
           \A k \in Game \X User : member'[k] \in {member[k], None}
    PROVE  DataInv'
<1>1. /\ Alive' = Alive /\ Settled' = Settled /\ body' = body /\ spawned' = spawned
      /\ character' = character /\ gone' = gone /\ lost' = lost
  BY Zenon DEF Alive, Settled, world, past
<1>2. RosterOwns'
  BY <1>1, Zenon DEF DataInv, RosterOwns
<1>3. BodiesOwned' /\ EntitiesNamed' /\ ReceiptsCover'
  BY <1>1, Zenon DEF DataInv, BodiesOwned, EntitiesNamed, ReceiptsCover
<1>4. BoundHaveBodies'
  BY <1>1, ZenonT(40) DEF DataInv, BoundHaveBodies, Exists
<1>5. QED BY <1>2, <1>3, <1>4, Zenon DEF DataInv

(***************************************************************************)
(* Requests.                                                               *)
(***************************************************************************)
LEMMA BeginSafe ==
    ASSUME IInv, NEW t \in Thread, NEW step, NEW q, NEW v, Begin(t, q, v, step),
           OwnerFound(step, q, v, character, Alive),
           BodyFound(step, q, v, character, Settled, body, spawned)
    PROVE  ThreadsInv' /\ DataInv'
<1>1. ThreadsInv'
  BY ThreadsBegin, Zenon DEF IInv
<1>2. UNCHANGED <<character, world, past>> /\ member' = member
  BY Zenon DEF Begin, tables
<1>3. DataInv'
  BY <1>2, DataStays, Zenon DEF IInv
<1>4. QED BY <1>1, <1>3

LEMMA UpdateCharacterSafe ==
    ASSUME IInv, NEW t \in Thread, NEW u \in User, NEW c \in Character,
           NEW w \in World \cup {None}, UpdateCharacter(t, u, c, w)
    PROVE  ThreadsInv' /\ DataInv'
<1> DEFINE q == [Quiet EXCEPT !.by = u, !.character = c]
           v == [character[c] EXCEPT !.world = w]
           e == character[c].entity
<1>1. q.character = c
  BY CharacterRequest
<1>2. character[c] # None /\ character[c] \in CharacterRecord
  BY RowTyped, TypesSplit DEF IInv, UpdateCharacter, Edits
<1>3. v.owner = character[c].owner /\ v.entity = e
  BY <1>2, Zenon DEF CharacterRecord
<1>4. Begin(t, q, v, "save character")
  BY Zenon DEF UpdateCharacter
<1>5. e # None => e.character = c
  BY <1>2, Zenon DEF IInv, DataInv, EntitiesNamed
<1>6. e # None /\ c \in Settled => \E x \in World : HasBody(body, x, e)
  BY <1>2, Zenon DEF IInv, DataInv, BoundHaveBodies, Exists, HasBody, Settled
<1> HIDE DEF q, v, e
<1>7. "save character" \notin BodySteps /\ "save character" \notin MemberSteps
  BY DEF BodySteps, MemberSteps
<1>8. OwnerFound("save character", q, v, character, Alive)
  BY <1>1, <1>2, <1>3, <1>7 DEF OwnerFound
<1>9. BodyFound("save character", q, v, character, Settled, body, spawned)
  BY <1>1, <1>3, <1>5, <1>6, <1>7 DEF BodyFound
<1>10. QED BY <1>4, <1>8, <1>9, BeginSafe, Zenon

LEMMA AskMemberSafe ==
    ASSUME IInv, NEW t \in Thread, NEW by \in User, NEW g \in Game, NEW u \in User,
           NEW c \in Character \cup {None}, NEW role \in {"PLAYER", "CO_DM"},
           AskMember(t, by, g, u, c, role)
    PROVE  ThreadsInv' /\ DataInv'
<1> DEFINE q == [Quiet EXCEPT !.by = by, !.game = g, !.user = u, !.character = c, !.role = role]
           v == game[g]
           step == IF c = None THEN "save member" ELSE "check character"
<1>1. q.character = c
  BY Zenon DEF Quiet
<1>2. Begin(t, q, v, step)
  BY Zenon DEF AskMember
<1>3. c \in Alive => c # None /\ character[c] # None
  BY NoneAssumption DEF AskMember, Alive
<1> HIDE DEF q, v
<1>4. OwnerFound(step, q, v, character, Alive)
  <2>1. CASE c = None
    BY <1>1, <1>3, <2>1, Zenon DEF OwnerFound
  <2>2. CASE c # None
    BY <1>1, <1>3, <2>2 DEF OwnerFound, MemberSteps
  <2>3. QED BY <2>1, <2>2
<1>5. step \notin BodySteps /\ step # "bind" /\ step # "save character"
  BY DEF BodySteps
<1> HIDE DEF step
<1>6. BodyFound(step, q, v, character, Settled, body, spawned)
  BY <1>5, Zenon DEF BodyFound
<1>7. QED BY <1>2, <1>4, <1>6, BeginSafe, Zenon

\* The requests that are about no character, or only delete it.
LEMMA OtherRequestSafe ==
    ASSUME IInv, NEW t \in Thread, NEW q, NEW v,
           NEW step \in {"delete character", "save game", "delete game", "remove member",
                         "save session"},
           Begin(t, q, v, step)
    PROVE  ThreadsInv' /\ DataInv'
<1>1. /\ step \notin MemberSteps /\ step \notin BodySteps /\ step # "bind"
      /\ step # "check character" /\ step # "save character"
  BY DEF MemberSteps, BodySteps
<1>2. QED BY <1>1, NothingFound, BeginSafe, Zenon

LEMMA CreateCharacterSafe ==
    ASSUME IInv, NEW t \in Thread, NEW u \in User, NEW c \in Character,
           NEW w \in World \cup {None}, CreateCharacter(t, u, c, w)
    PROVE  ThreadsInv' /\ DataInv'
<1> DEFINE row == [owner |-> u, world |-> w, entity |-> None]
<1>1. /\ character[c] = None /\ character' = [character EXCEPT ![c] = row]
      /\ UNCHANGED <<member, world, past, locals>>
  BY Zenon DEF CreateCharacter
<1>2. \A d \in Character : character[d] # None => character'[d] = character[d]
  BY <1>1, TypesSplit, Zenon DEF IInv, RowsOK
<1>3. /\ Alive' = Alive /\ Settled' = Settled /\ body' = body /\ spawned' = spawned
      /\ gone' = gone /\ lost' = lost /\ member' = member
  BY <1>1, Zenon DEF Alive, Settled, world, past
<1>4. Alive \subseteq Character /\ Settled \subseteq Character
  BY DEF Alive, Settled
<1>5. \A d \in Character : character'[d] # None /\ character'[d].entity # None =>
         character[d] # None /\ character'[d] = character[d]
  <2>1. row.entity = None
    OBVIOUS
  <2> HIDE DEF row
  <2>2. \A d \in Character : character'[d] = IF d = c THEN row ELSE character[d]
    BY <1>1, TypesSplit, Zenon DEF IInv, RowsOK
  <2>3. QED BY <2>1, <2>2, Zenon
<1> HIDE DEF row
<1>6. Kept
  BY <1>2, <1>3, <1>4, Zenon DEF Kept
<1>7. ThreadsInv'
  BY <1>1, <1>6, ThreadsStay, Zenon DEF IInv
<1>8. RosterOwns'
  BY <1>2, <1>3, Zenon DEF IInv, DataInv, RosterOwns
<1>9. BodiesOwned'
  BY <1>2, <1>3, <1>4, Zenon DEF IInv, DataInv, BodiesOwned
<1>10. EntitiesNamed'
  BY <1>5, Zenon DEF IInv, DataInv, EntitiesNamed
<1>11. ReceiptsCover'
  BY <1>2, <1>3, <1>4, Zenon DEF IInv, DataInv, ReceiptsCover
<1>12. BoundHaveBodies'
  BY <1>3, <1>5, Zenon DEF IInv, DataInv, BoundHaveBodies, Exists
<1>13. QED BY <1>7, <1>8, <1>9, <1>10, <1>11, <1>12, Zenon DEF DataInv

LEMMA RequestSafe ==
    ASSUME IInv, NEW t \in Thread, NEW u \in User, Request(t, u) PROVE ThreadsInv' /\ DataInv'
<1>1. ASSUME NEW g \in Game, NEW w \in World, CreateGame(t, u, g, w)
      PROVE  ThreadsInv' /\ DataInv'
  <2>1. UNCHANGED <<character, world, past>> /\ member' = member /\ UNCHANGED locals
    BY <1>1, Zenon DEF CreateGame
  <2>2. QED BY <2>1, ReadKeeps, ThreadsStay, DataStays, Zenon DEF IInv
<1>2. ASSUME NEW c \in Character, AskDeleteCharacter(t, u, c) PROVE ThreadsInv' /\ DataInv'
  BY <1>2, OtherRequestSafe, Zenon DEF AskDeleteCharacter
<1>3. ASSUME NEW g \in Game, UpdateGame(t, u, g) \/ AskDeleteGame(t, u, g)
      PROVE  ThreadsInv' /\ DataInv'
  BY <1>3, OtherRequestSafe, Zenon DEF UpdateGame, AskDeleteGame
<1>4. ASSUME NEW g \in Game, NEW x \in User, AskRemoveMember(t, u, g, x)
      PROVE  ThreadsInv' /\ DataInv'
  BY <1>4, OtherRequestSafe, Zenon DEF AskRemoveMember
<1>5. ASSUME NEW g \in Game, NEW s \in Session, NEW status \in Status,
             AskSession(t, u, g, s, status)
      PROVE  ThreadsInv' /\ DataInv'
  BY <1>5, OtherRequestSafe, Zenon DEF AskSession
<1>6. QED BY <1>1, <1>2, <1>3, <1>4, <1>5, CreateCharacterSafe, UpdateCharacterSafe, AskMemberSafe,
             Zenon DEF Request

(***************************************************************************)
(* The steps that write no character.                                      *)
(***************************************************************************)
LEMMA EndSafe ==
    ASSUME IInv, NEW t \in Thread, Leave(t), UNCHANGED <<character, world, past>>,
           \A k \in Game \X User : member'[k] \in {member[k], None}
    PROVE  ThreadsInv' /\ DataInv'
  BY ReadKeeps, ThreadsLeave, DataStays, Zenon DEF IInv

LEMMA QuietStepSafe ==
    ASSUME IInv, NEW t \in Thread,
           \/ SaveGame(t) \/ DeleteGame(t) \/ RemoveMember(t) \/ SaveSession(t) \/ Fail(t)
    PROVE  ThreadsInv' /\ DataInv'
<1>1. Leave(t) /\ UNCHANGED <<character, world, past>>
  BY Zenon DEF SaveGame, DeleteGame, RemoveMember, SaveSession, Fail, tables
<1>2. CASE member' = member
  BY <1>1, <1>2, EndSafe, Zenon
<1>3. CASE DeleteGame(t)
  <2>1. \A k \in Game \X User : member'[k] \in {member[k], None}
    BY <1>3, Zenon DEF DeleteGame
  <2>2. QED BY <1>1, <2>1, EndSafe
<1>4. CASE RemoveMember(t)
  <2> DEFINE r == <<job[t].game, job[t].user>>
  <2>1. member' = [member EXCEPT ![r] = None]
    BY <1>4, Zenon DEF RemoveMember
  <2> HIDE DEF r
  <2>2. \A k \in Game \X User : member'[k] \in {member[k], None}
    BY <2>1, TypesSplit, Zenon DEF IInv, RowsOK
  <2>3. QED BY <1>1, <2>2, EndSafe
<1>5. QED BY <1>2, <1>3, <1>4, Zenon DEF SaveGame, SaveSession, Fail, tables

LEMMA CheckCharacterSafe ==
    ASSUME IInv, NEW t \in Thread, CheckCharacter(t) PROVE ThreadsInv' /\ DataInv'
<1> DEFINE q == job[t]
           v == seen[t]
           c == q.character
<1>1. pc[t] = "check character" /\ UNCHANGED <<character, world, past>> /\ member' = member
  BY Zenon DEF CheckCharacter, tables
<1>2. CASE Leave(t)
  BY <1>1, <1>2, EndSafe, Zenon
<1>3. CASE ~Leave(t)
  <2>1. /\ character[c] = None \/ character[c].owner = q.user
        /\ Goto(t, "save member") /\ job' = job /\ seen' = seen
    BY <1>3, Zenon DEF CheckCharacter
  <2>2. c \in Alive => character[c] # None
    <3>1. OwnerFound("check character", q, v, character, Alive)
      BY <1>1, Zenon DEF IInv, ThreadsInv
    <3>2. QED BY <3>1, Zenon DEF OwnerFound
  <2>3. OwnerFound("save member", q, v, character, Alive)
    BY <2>1, <2>2 DEF OwnerFound
  <2>4. "save member" \notin BodySteps /\ "save member" # "bind" /\ "save member" # "save character"
    BY DEF BodySteps
  <2>5. BodyFound("save member", q, v, character, Settled, body, spawned)
    BY <2>4, Zenon DEF BodyFound
  <2>6. /\ character' = character /\ Alive' = Alive /\ Settled' = Settled
        /\ body' = body /\ spawned' = spawned
    BY <1>1, Zenon DEF Alive, Settled, world, past
  <2>7. ThreadsInv'
    BY <1>1, <2>1, <2>3, <2>5, <2>6, ReadKeeps, ThreadsGoOn, Zenon DEF IInv
  <2>8. DataInv'
    BY <1>1, DataStays, Zenon DEF IInv
  <2>9. QED BY <2>7, <2>8
<1>4. QED BY <1>2, <1>3

LEMMA SaveMemberSafe ==
    ASSUME IInv, NEW t \in Thread, SaveMember(t) PROVE ThreadsInv' /\ DataInv'
<1> DEFINE q == job[t]
           v == seen[t]
           c == q.character
           row == [character |-> q.character, role |-> q.role]
           r == <<q.game, q.user>>
<1>1. /\ pc[t] = "save member" /\ UNCHANGED <<character, world, past>>
      /\ member' \in {member, [member EXCEPT ![r] = row]}
      /\ Leave(t) \/ (Goto(t, "embody") /\ job' = job /\ seen' = seen)
  BY Zenon DEF SaveMember
<1>2. /\ character' = character /\ Alive' = Alive /\ Settled' = Settled
      /\ body' = body /\ spawned' = spawned /\ gone' = gone /\ lost' = lost
  BY <1>1, Zenon DEF Alive, Settled, world, past
<1>3. c \in Alive => character[c] # None /\ character[c].owner = q.user
  <2>1. OwnerFound("save member", q, v, character, Alive)
    BY <1>1, Zenon DEF IInv, ThreadsInv
  <2>2. "save member" \in MemberSteps \ {"check character"}
    BY DEF MemberSteps
  <2>3. QED BY <2>1, <2>2, Zenon DEF OwnerFound
<1>4. OwnerFound("embody", q, v, character, Alive)
  BY <1>3 DEF OwnerFound
<1>5. BodyFound("embody", q, v, character, Settled, body, spawned)
  <2>1. "embody" \notin BodySteps /\ "embody" # "bind" /\ "embody" # "save character"
    BY DEF BodySteps
  <2>2. QED BY <2>1, Zenon DEF BodyFound
<1>6. ThreadsInv'
  <2>1. CASE Leave(t)
    BY <1>1, <2>1, ReadKeeps, ThreadsLeave, Zenon DEF IInv
  <2>2. CASE Goto(t, "embody") /\ job' = job /\ seen' = seen
    BY <1>1, <1>2, <1>4, <1>5, <2>2, ReadKeeps, ThreadsGoOn, Zenon DEF IInv
  <2>3. QED BY <1>1, <2>1, <2>2
<1>7. RosterOwns'
  <2>1. r[2] = q.user /\ row.character = c
    OBVIOUS
  <2> HIDE DEF r, row
  <2>2. \A k \in Game \X User : member'[k] = member[k] \/ (k = r /\ member'[k] = row)
    BY <1>1, TypesSplit, Zenon DEF IInv, RowsOK
  <2>3. QED BY <1>2, <1>3, <2>1, <2>2, Zenon DEF IInv, DataInv, RosterOwns, Alive
<1>8. BodiesOwned' /\ EntitiesNamed' /\ ReceiptsCover'
  BY <1>2, Zenon DEF IInv, DataInv, BodiesOwned, EntitiesNamed, ReceiptsCover
<1>9. BoundHaveBodies'
  BY <1>2, Zenon DEF IInv, DataInv, BoundHaveBodies, Exists
<1>10. QED BY <1>6, <1>7, <1>8, <1>9, Zenon DEF DataInv

(***************************************************************************)
(* The body of a character.                                                *)
(***************************************************************************)

\* The owner that a member's request has found is known until it binds.
LEMMA OwnerKnown ==
    ASSUME IInv, NEW t \in Thread, pc[t] \in MemberSteps \ {"check character"},
           job[t].character \in Alive
    PROVE  /\ character[job[t].character] # None
           /\ character[job[t].character].owner = job[t].user
<1>1. OwnerFound(pc[t], job[t], seen[t], character, Alive)
  BY Zenon DEF IInv, ThreadsInv
<1>2. QED BY <1>1, Zenon DEF OwnerFound

LEMMA EmbodySafe ==
    ASSUME IInv, NEW t \in Thread, Embody(t) PROVE ThreadsInv' /\ DataInv'
<1> DEFINE q == job[t]
           c == q.character
           w == seen[t].world
           e == BodyOf(c, w)
           v == [world |-> w, entity |-> e]
           step == IF Exists(w, e) THEN "bind" ELSE "spawn"
<1>1. pc[t] = "embody" /\ UNCHANGED <<character, world, past>> /\ member' = member
  BY Zenon DEF Embody, tables
<1>2. CASE Leave(t)
  BY <1>1, <1>2, EndSafe, Zenon
<1>3. CASE ~Leave(t)
  <2>1. /\ character[c] # None
        /\ Goto(t, step) /\ job' = job /\ seen' = [seen EXCEPT ![t] = v]
    BY <1>3, Zenon DEF Embody
  <2>2. c \in Character
    BY <1>1, HeldTyped DEF IInv, Typed, CharacterSteps
  <2>3. e.character = c
    BY <2>1, <2>2 DEF BodyOf, IInv, DataInv, EntitiesNamed
  <2>4. e = [world |-> w, character |-> c] \/ character[c].entity = e
    BY Zenon DEF BodyOf
  <2>5. step = "bind" => HasBody(body, w, e)
    BY DEF Exists, HasBody
  <2>6. step \in {"bind", "spawn"} /\ step # "save character" /\ step # "check character"
    OBVIOUS
  <2>7. c \in Alive => character[c].owner = q.user
    <3>1. pc[t] \in MemberSteps \ {"check character"}
      BY <1>1 DEF MemberSteps
    <3>2. QED BY <3>1, OwnerKnown
  <2>8. v.world = w /\ v.entity = e
    OBVIOUS
  <2> HIDE DEF v, e, step
  <2>9. OwnerFound(step, q, v, character, Alive)
    BY <2>1, <2>6, <2>7, Zenon DEF OwnerFound
  <2>10. BodyFound(step, q, v, character, Settled, body, spawned)
    BY <2>1, <2>3, <2>4, <2>5, <2>6, <2>8, Zenon DEF BodyFound
  <2>11. /\ character' = character /\ Alive' = Alive /\ Settled' = Settled
         /\ body' = body /\ spawned' = spawned
    BY <1>1, Zenon DEF Alive, Settled, world, past
  <2>12. job' = [job EXCEPT ![t] = q]
    BY <2>1, TypesSplit, Zenon DEF IInv, LocalsOK
  <2> HIDE DEF q
  <2>13. ThreadsInv'
    <3>1. pc' = [pc EXCEPT ![t] = step]
      BY <2>1, Zenon DEF Goto
    <3>2. Kept
      BY <1>1, ReadKeeps, Zenon
    <3>3. QED BY <2>1, <2>9, <2>10, <2>11, <2>12, <3>1, <3>2, ThreadsMove, Zenon DEF IInv
  <2>14. DataInv'
    BY <1>1, DataStays, Zenon DEF IInv
  <2>15. QED BY <2>13, <2>14
<1>4. QED BY <1>2, <1>3

\* What a request that is about to spawn or to bind knows of the entity it carries.
LEMMA BodyKnown ==
    ASSUME IInv, NEW t \in Thread, pc[t] \in BodySteps
    PROVE  LET c == job[t].character
               e == seen[t].entity
           IN  /\ c \in Character /\ e # None /\ e.character = c
               /\ c \in Settled => \/ e = [world |-> seen[t].world, character |-> c]
                                  \/ (character[c] # None /\ character[c].entity = e)
<1>1. BodyFound(pc[t], job[t], seen[t], character, Settled, body, spawned)
  BY Zenon DEF IInv, ThreadsInv
<1>2. job[t].character \in Character /\ seen[t].entity # None
  BY HeldTyped, NoneAssumption DEF IInv, Typed, BodySteps, CharacterSteps
<1>3. QED BY <1>1, <1>2, Zenon DEF BodyFound

LEMMA SpawnSafe ==
    ASSUME IInv, NEW t \in Thread, Spawn(t) PROVE ThreadsInv' /\ DataInv'
<1> DEFINE q == job[t]
           v == seen[t]
           c == q.character
           w == v.world
           b == [world |-> w, entity |-> v.entity, controller |-> q.user]
           key == [world |-> w, by |-> q.by, character |-> c]
<1>1. pc[t] = "spawn" /\ UNCHANGED <<character, past>> /\ member' = member
  BY Zenon DEF Spawn, tables
<1>2. /\ character' = character /\ Alive' = Alive /\ Settled' = Settled
      /\ gone' = gone /\ lost' = lost
  BY <1>1, Zenon DEF Alive, Settled, past
<1>3. \/ Leave(t) /\ UNCHANGED world
      \/ /\ Goto(t, "bind") /\ job' = job /\ seen' = seen
         /\ \/ key \in spawned /\ UNCHANGED world
            \/ body' = body \cup {b} /\ spawned' = spawned \cup {key}
  BY Zenon DEF Spawn
<1>4. /\ c \in Character /\ v.entity # None /\ v.entity.character = c
      /\ c \in Settled => \/ v.entity = [world |-> w, character |-> c]
                         \/ (character[c] # None /\ character[c].entity = v.entity)
  <2>1. pc[t] \in BodySteps
    BY <1>1 DEF BodySteps
  <2>2. QED BY <2>1, BodyKnown
<1>5. c \in Alive => character[c] # None /\ character[c].owner = q.user
  <2>1. pc[t] \in MemberSteps \ {"check character"}
    BY <1>1 DEF MemberSteps
  <2>2. QED BY <2>1, OwnerKnown
<1>6. CASE Leave(t) /\ UNCHANGED world
  BY <1>1, <1>6, EndSafe, Zenon
<1>7. CASE /\ Goto(t, "bind") /\ job' = job /\ seen' = seen
           /\ \/ key \in spawned /\ UNCHANGED world
              \/ body' = body \cup {b} /\ spawned' = spawned \cup {key}
  <2>1. body \subseteq body' /\ spawned \subseteq spawned' /\ key \in spawned'
    BY <1>7 DEF world
  <2>2. /\ b.world = w /\ b.entity = v.entity /\ b.controller = q.user
        /\ key.character = c /\ key.world = w
    OBVIOUS
  <2>3. (body' = body /\ spawned' = spawned) \/ (body' = body \cup {b} /\ spawned' = spawned \cup {key})
    BY <1>7 DEF world
  <2>4. OwnerFound("bind", q, v, character, Alive)
    BY <1>5 DEF OwnerFound
  <2>5. BodyFound("bind", q, v, character, Settled, body', spawned')
    BY <1>4, <2>1 DEF BodyFound
  <2> HIDE DEF b, key
  <2>6. Kept
    BY <1>2, <2>1, Zenon DEF Kept
  <2>7. ThreadsInv'
    BY <1>2, <1>7, <2>4, <2>5, <2>6, ThreadsGoOn, Zenon DEF IInv
  <2>8. RosterOwns'
    BY <1>1, <1>2, Zenon DEF IInv, DataInv, RosterOwns
  <2>9. BodiesOwned'
    <3>1. \A x \in body' : x \in body \/ x = b
      BY <2>3
    <3>2. QED BY <1>2, <1>4, <1>5, <2>2, <3>1, Zenon DEF IInv, DataInv, BodiesOwned
  <2>10. EntitiesNamed'
    BY <1>2, Zenon DEF IInv, DataInv, EntitiesNamed
  <2>11. ReceiptsCover'
    <3>1. ASSUME NEW k \in spawned, k.character \in Settled
          PROVE  \/ HasBody(body', k.world, [world |-> k.world, character |-> k.character])
                 \/ (character[k.character] # None /\ character[k.character].entity # None)
      BY <2>1, <3>1, BodyStays, Zenon DEF IInv, DataInv, ReceiptsCover
    <3>2. ASSUME body' = body \cup {b}, c \in Settled
          PROVE  \/ HasBody(body', w, [world |-> w, character |-> c])
                 \/ (character[c] # None /\ character[c].entity # None)
      BY <1>4, <2>2, <3>2, Zenon DEF HasBody
    <3>3. \A k \in spawned' : k \in spawned \/ (k = key /\ body' = body \cup {b})
      BY <2>3
    <3>4. QED BY <1>2, <2>2, <3>1, <3>2, <3>3, Zenon DEF ReceiptsCover
  <2>12. BoundHaveBodies'
    BY <1>2, <2>1, Zenon DEF IInv, DataInv, BoundHaveBodies, Exists
  <2>13. QED BY <2>7, <2>8, <2>9, <2>10, <2>11, <2>12, Zenon DEF DataInv
<1>8. QED BY <1>3, <1>6, <1>7

LEMMA BindSafe ==
    ASSUME IInv, NEW t \in Thread, Bind(t) PROVE ThreadsInv' /\ DataInv'
<1> DEFINE q == job[t]
           c == q.character
           w == seen[t].world
           e == seen[t].entity
           row == character[c]
           v == [owner |-> row.owner, world |-> w, entity |-> e]
           key == [world |-> w, by |-> q.by, character |-> c]
<1>1. pc[t] = "bind" /\ UNCHANGED <<character, world, past>> /\ member' = member
  BY Zenon DEF Bind, tables
<1>2. CASE Leave(t)
  BY <1>1, <1>2, EndSafe, Zenon
<1>3. CASE ~Leave(t)
  <2>1. /\ row # None /\ row.entity \in {None, e}
        /\ Goto(t, "save character") /\ job' = job /\ seen' = [seen EXCEPT ![t] = v]
    BY <1>3, Zenon DEF Bind
  <2>2. /\ c \in Character /\ e # None /\ e.character = c
        /\ c \in Settled => e = [world |-> w, character |-> c] \/ row.entity = e
    <3>1. pc[t] \in BodySteps
      BY <1>1 DEF BodySteps
    <3>2. QED BY <3>1, BodyKnown
  <2>3. HasBody(body, w, e) \/ key \in spawned
    <3>1. BodyFound("bind", q, seen[t], character, Settled, body, spawned)
      BY <1>1, Zenon DEF IInv, ThreadsInv
    <3>2. QED BY <3>1, Zenon DEF BodyFound
  <2>4. w \in World
    BY <1>1, HeldTyped DEF IInv, Typed, MemberSteps
  <2>5. ASSUME c \in Settled PROVE \E x \in World : HasBody(body, x, e)
    <3>1. CASE row.entity = e
      BY <2>1, <2>2, <2>5, <3>1, Zenon DEF IInv, DataInv, BoundHaveBodies, Exists, HasBody, Settled
    <3>2. CASE row.entity # e
      <4>1. row.entity = None /\ e = [world |-> w, character |-> c]
        BY <2>1, <2>2, <2>5, <3>2, Zenon
      <4>2. key \in spawned => HasBody(body, w, [world |-> w, character |-> c])
        <5>1. key.world = w /\ key.character = c
          OBVIOUS
        <5> HIDE DEF key
        <5>2. QED BY <2>5, <4>1, <5>1, Zenon DEF IInv, DataInv, ReceiptsCover
      <4>3. QED BY <2>3, <2>4, <4>1, <4>2, Zenon
    <3>3. QED BY <3>1, <3>2
  <2>6. v.owner = row.owner /\ v.entity = e
    OBVIOUS
  <2> HIDE DEF v, e, key
  <2>7. "save character" \notin BodySteps /\ "save character" \notin MemberSteps
    BY DEF BodySteps, MemberSteps
  <2>8. OwnerFound("save character", q, v, character, Alive)
    BY <2>1, <2>6, <2>7 DEF OwnerFound
  <2>9. BodyFound("save character", q, v, character, Settled, body, spawned)
    BY <2>2, <2>5, <2>6, <2>7 DEF BodyFound
  <2>10. /\ character' = character /\ Alive' = Alive /\ Settled' = Settled
         /\ body' = body /\ spawned' = spawned
    BY <1>1, Zenon DEF Alive, Settled, world, past
  <2>11. job' = [job EXCEPT ![t] = q] /\ pc' = [pc EXCEPT ![t] = "save character"]
    BY <2>1, TypesSplit, Zenon DEF IInv, LocalsOK, Goto
  <2>12. Kept
    BY <1>1, ReadKeeps, Zenon
  <2> HIDE DEF q
  <2>13. ThreadsInv'
    BY <2>1, <2>8, <2>9, <2>10, <2>11, <2>12, ThreadsMove, Zenon DEF IInv
  <2>14. DataInv'
    BY <1>1, DataStays, Zenon DEF IInv
  <2>15. QED BY <2>13, <2>14
<1>4. QED BY <1>2, <1>3

(***************************************************************************)
(* The steps that write a character.                                       *)
(***************************************************************************)
LEMMA SaveCharacterSafe ==
    ASSUME IInv, NEW t \in Thread, SaveCharacter(t) PROVE ThreadsInv' /\ DataInv'
<1> DEFINE q == job[t]
           v == seen[t]
           c == q.character
           was == character[c]
<1>1. /\ pc[t] = "save character" /\ Leave(t)
      /\ UNCHANGED <<world, gone>> /\ member' = member
      /\ \/ UNCHANGED <<character, lost>>
         \/ /\ character' = [character EXCEPT ![c] = v]
            /\ lost' = IF was # None /\ was.entity \notin {None, v.entity} THEN lost \cup {c} ELSE lost
  BY Zenon DEF SaveCharacter
<1>2. CASE UNCHANGED <<character, lost>>
  <2>1. UNCHANGED <<character, world, past>>
    BY <1>1, <1>2, Zenon DEF past
  <2>2. QED BY <1>1, <2>1, EndSafe, Zenon
<1>3. CASE /\ character' = [character EXCEPT ![c] = v]
           /\ lost' = IF was # None /\ was.entity \notin {None, v.entity} THEN lost \cup {c} ELSE lost
  <2>1. c \in Character /\ v \in CharacterRecord /\ v # None
    BY <1>1, HeldTyped, NoneAssumption DEF IInv, Typed, CharacterSteps
  <2>2. c \in Alive => was # None /\ was.owner = v.owner
    <3>1. OwnerFound("save character", q, v, character, Alive)
      BY <1>1, Zenon DEF IInv, ThreadsInv
    <3>2. QED BY <3>1, Zenon DEF OwnerFound
  <2>3. v.entity # None => /\ v.entity.character = c
                           /\ c \in Settled => \E x \in World : HasBody(body, x, v.entity)
    <3>1. BodyFound("save character", q, v, character, Settled, body, spawned)
      BY <1>1, Zenon DEF IInv, ThreadsInv
    <3>2. QED BY <3>1, Zenon DEF BodyFound
  <2>4. /\ character'[c] = v
        /\ \A d \in Character : d # c => character'[d] = character[d]
    BY <1>3, <2>1, TypesSplit, Zenon DEF IInv, RowsOK
  <2>5. /\ gone' = gone /\ lost \subseteq lost' /\ body' = body /\ spawned' = spawned
        /\ Alive' = Alive /\ Settled' \subseteq Settled
        /\ Alive \subseteq Character /\ Settled \subseteq Character
    BY <1>1, <1>3 DEF Alive, Settled, world
  <2>6. c \in Settled' => was = None \/ was.entity \in {None, v.entity}
    BY <1>3, <2>5 DEF Settled
  <2> HIDE DEF v, c
  <2>7. \A d \in Alive : character[d] # None =>
          character'[d] # None /\ character'[d].owner = character[d].owner
    BY <2>1, <2>2, <2>4, <2>5, Zenon
  <2>8. \A d \in Settled' : character[d] # None /\ character[d].entity # None =>
          character'[d] # None /\ character'[d].entity = character[d].entity
    BY <2>1, <2>4, <2>5, <2>6, Zenon
  <2>9. Kept
    BY <2>5, <2>7, <2>8, Zenon DEF Kept
  <2>10. ThreadsInv'
    BY <1>1, <2>9, ThreadsLeave, Zenon DEF IInv
  <2>11. RosterOwns'
    BY <1>1, <2>5, <2>7, Zenon DEF IInv, DataInv, RosterOwns, Alive
  <2>12. BodiesOwned'
    BY <2>5, <2>7, Zenon DEF IInv, DataInv, BodiesOwned
  <2>13. EntitiesNamed'
    BY <2>3, <2>4, Zenon DEF IInv, DataInv, EntitiesNamed
  <2>14. ReceiptsCover'
    BY <2>5, <2>8, Zenon DEF IInv, DataInv, ReceiptsCover
  <2>15. BoundHaveBodies'
    <3>1. SUFFICES ASSUME NEW d \in Settled', character'[d] # None, character'[d].entity # None
                   PROVE  \E x \in World : HasBody(body, x, character'[d].entity)
      BY <2>5, Zenon DEF BoundHaveBodies, Exists, HasBody, Settled
    <3>2. CASE d = c
      BY <2>3, <2>4, <2>5, <3>1, <3>2, Zenon
    <3>3. CASE d # c
      BY <2>4, <2>5, <3>1, <3>3, Zenon DEF IInv, DataInv, BoundHaveBodies, Exists, HasBody, Settled
    <3>4. QED BY <3>2, <3>3
  <2>16. QED BY <2>10, <2>11, <2>12, <2>13, <2>14, <2>15, Zenon DEF DataInv
<1>4. QED BY <1>1, <1>2, <1>3

LEMMA DeleteCharacterSafe ==
    ASSUME IInv, NEW t \in Thread, DeleteCharacter(t) PROVE ThreadsInv' /\ DataInv'
<1> DEFINE c == job[t].character
<1>1. /\ Leave(t) /\ UNCHANGED <<world, lost>>
      /\ character' = [character EXCEPT ![c] = None] /\ gone' = gone \cup {c}
      /\ member' = [k \in Game \X User |->
                       IF member[k] # None /\ member[k].character = c
                         THEN [member[k] EXCEPT !.character = None] ELSE member[k]]
  BY Zenon DEF DeleteCharacter
<1>2. c \in Character
  BY HeldTyped DEF DeleteCharacter, IInv, Typed, CharacterSteps
<1>3. /\ \A d \in Character : d # c => character'[d] = character[d]
      /\ character'[c] = None
  BY <1>1, <1>2, TypesSplit, Zenon DEF IInv, RowsOK
<1>4. /\ Alive' \subseteq Alive /\ Settled' \subseteq Settled
      /\ body' = body /\ spawned' = spawned /\ lost' = lost /\ gone \subseteq gone'
      /\ c \notin Alive' /\ c \notin Settled' /\ c \in gone'
      /\ Alive' \subseteq Character /\ Settled' \subseteq Character
  BY <1>1 DEF Alive, Settled, world
<1>5. \A k \in Game \X User : member'[k] # None /\ member'[k].character \in Character \ gone' =>
         member[k] # None /\ member'[k] = member[k]
  <2> SUFFICES ASSUME NEW k \in Game \X User, member'[k] # None,
                      member'[k].character \in Character \ gone'
               PROVE  member[k] # None /\ member'[k] = member[k]
    OBVIOUS
  <2>1. CASE member[k] # None /\ member[k].character = c
    <3>1. member[k] \in GameMember
      BY <2>1, TypesSplit, Zenon DEF IInv, RowsOK
    <3>2. [member[k] EXCEPT !.character = None].character = None
      BY <3>1, Zenon DEF GameMember
    <3>3. member'[k].character = None
      BY <1>1, <2>1, <3>2, Zenon
    <3>4. QED BY <3>3, NoneAssumption
  <2>2. CASE ~(member[k] # None /\ member[k].character = c)
    BY <1>1, <2>2, Zenon
  <2>3. QED BY <2>1, <2>2
<1> HIDE DEF c
<1>6. Kept
  BY <1>3, <1>4, Zenon DEF Kept
<1>7. ThreadsInv'
  BY <1>1, <1>6, ThreadsLeave, Zenon DEF IInv
<1>8. RosterOwns'
  <2> SUFFICES ASSUME NEW k \in Game \X User, member'[k] # None,
                      member'[k].character \in Character \ gone'
               PROVE  /\ character'[member'[k].character] # None
                      /\ character'[member'[k].character].owner = k[2]
    BY Zenon DEF RosterOwns
  <2> DEFINE d == member[k].character
  <2>1. member[k] # None /\ member'[k] = member[k]
    BY <1>5
  <2>2. d \in Character /\ d \notin gone /\ d # c
    BY <1>4, <2>1
  <2>3. character[d] # None /\ character[d].owner = k[2]
    BY <2>1, <2>2, Zenon DEF IInv, DataInv, RosterOwns
  <2>4. QED BY <1>3, <2>1, <2>2, <2>3, Zenon
<1>9. BodiesOwned'
  BY <1>3, <1>4, Zenon DEF IInv, DataInv, BodiesOwned
<1>10. EntitiesNamed'
  BY <1>3, Zenon DEF IInv, DataInv, EntitiesNamed
<1>11. ReceiptsCover'
  BY <1>3, <1>4, Zenon DEF IInv, DataInv, ReceiptsCover
<1>12. BoundHaveBodies'
  BY <1>3, <1>4, Zenon DEF IInv, DataInv, BoundHaveBodies, Exists, Settled
<1>13. QED BY <1>7, <1>8, <1>9, <1>10, <1>11, <1>12, Zenon DEF DataInv

(***************************************************************************)
(* The specification.                                                      *)
(***************************************************************************)
LEMMA InitSafe == Init => IInv
<1> SUFFICES ASSUME Init PROVE IInv
  OBVIOUS
<1>1. \A t \in Thread : pc[t] = "idle" /\ \A c \in Character : character[c] = None
  BY Zenon DEF Init
<1>2. /\ "idle" \notin MemberSteps /\ "idle" \notin BodySteps /\ "idle" # "bind"
      /\ "idle" # "check character" /\ "idle" # "save character"
  BY DEF MemberSteps, BodySteps
<1>3. ThreadsInv
  BY <1>1, <1>2, NothingFound, Zenon DEF ThreadsInv
<1>4. RosterOwns /\ BodiesOwned /\ EntitiesNamed /\ ReceiptsCover /\ BoundHaveBodies
  BY Zenon DEF Init, RosterOwns, BodiesOwned, EntitiesNamed, ReceiptsCover, BoundHaveBodies
<1>5. QED BY <1>3, <1>4, InitType DEF IInv, DataInv

LEMMA StepSafe ==
    ASSUME IInv, NEW t \in Thread, Step(t) PROVE ThreadsInv' /\ DataInv'
  BY SaveCharacterSafe, DeleteCharacterSafe, QuietStepSafe, CheckCharacterSafe, SaveMemberSafe,
     EmbodySafe, SpawnSafe, BindSafe, Zenon DEF Step

LEMMA Inductive == IInv /\ [Next]_vars => IInv'
<1> SUFFICES ASSUME IInv, [Next]_vars PROVE IInv'
  OBVIOUS
<1>1. TypeInv'
  BY TypeStep, Zenon DEF IInv
<1>2. ThreadsInv' /\ DataInv'
  <2>1. CASE Next
    BY <2>1, StepSafe, RequestSafe, Zenon DEF Next
  <2>2. CASE UNCHANGED vars
    <3>1. UNCHANGED <<character, world, past>> /\ member' = member /\ UNCHANGED locals
      BY <2>2, Zenon DEF vars, tables
    <3>2. QED BY <3>1, ReadKeeps, ThreadsStay, DataStays, Zenon DEF IInv
  <2>3. QED BY <2>1, <2>2
<1>3. QED BY <1>1, <1>2, Zenon DEF IInv

LEMMA Invariance == Spec => []IInv
  BY InitSafe, Inductive, PTL DEF Spec

\* However requests overlap, the character of a member belongs to that member
\* (portal.py:657-659), unless it was deleted.
THEOREM RosterAlwaysOwns == Spec => []RosterOwns
<1>1. IInv => RosterOwns
  BY Zenon DEF IInv, DataInv
<1>2. QED BY <1>1, Invariance, PTL

\* The body that dm_game_member spawns obeys the owner of its character (app.py:1160-1217).
THEOREM OwnersAlwaysControl == Spec => []OwnersControl
<1>1. IInv => OwnersControl
  BY NoneAssumption DEF IInv, DataInv, BodiesOwned, OwnersControl, Alive, TypeInv, TypeOK, Entity
<1>2. QED BY <1>1, Invariance, PTL

\* A character that is bound to an entity has that entity, unless it was deleted or a late
\* update has taken its entity back (bind_character_entity).
THEOREM BoundAlwaysHaveBodies == Spec => []BoundHaveBodies
<1>1. IInv => BoundHaveBodies
  BY Zenon DEF IInv, DataInv
<1>2. QED BY <1>1, Invariance, PTL

(***************************************************************************)
(* Requests that come one at a time.  While they do, only one request has  *)
(* begun, and the row it is about to write is of an entity that the        *)
(* character had when it was read and, nobody else running, still has.     *)
(***************************************************************************)
OneBusy == \A s, t \in Thread : pc[s] # "idle" /\ pc[t] # "idle" => s = t

\* What is to be written keeps the entity of the character it is written over.
EntityKept(step, q, v, rows) ==
    step = "save character" /\ rows[q.character] # None /\ rows[q.character].entity # None =>
        v.entity = rows[q.character].entity

BindingInv ==
    orderly => OneBusy /\ \A t \in Thread : EntityKept(pc[t], job[t], seen[t], character)

\* The thread that takes a step is, while requests are orderly, the only one that is busy.
Alone(t) == orderly' => orderly /\ (pc[t] # "idle" \/ AllIdle)

LEMMA AdmittedAlone ==
    ASSUME NEW t \in Thread, orderly' = (orderly /\ AllIdle) PROVE Alone(t)
  BY Zenon DEF Alone

LEMMA BusyAlone ==
    ASSUME NEW t \in Thread, pc[t] # "idle", orderly' => orderly PROVE Alone(t)
  BY Zenon DEF Alone

\* A thread that is alone takes a step and is to write `v`, if anything.
LEMMA MoveBinds ==
    ASSUME TypeInv, BindingInv, NEW t \in Thread, Alone(t), NEW step, NEW q, NEW v,
           pc' = [pc EXCEPT ![t] = step], job' = [job EXCEPT ![t] = q],
           seen' = [seen EXCEPT ![t] = v], EntityKept(step, q, v, character')
    PROVE  BindingInv'
<1> SUFFICES ASSUME orderly' PROVE OneBusy' /\ \A x \in Thread :
                                       EntityKept(pc'[x], job'[x], seen'[x], character')
  BY Zenon DEF BindingInv
<1>1. /\ pc'[t] = step /\ job'[t] = q /\ seen'[t] = v
      /\ \A x \in Thread : x # t => pc'[x] = pc[x]
  BY TypesSplit, Zenon DEF LocalsOK
<1>2. \A x \in Thread : x # t => pc[x] = "idle"
  BY Zenon DEF Alone, BindingInv, OneBusy, AllIdle
<1>3. \A x \in Thread : x # t => pc'[x] = "idle"
  BY <1>1, <1>2, Zenon
<1>4. OneBusy'
  BY <1>3, Zenon DEF OneBusy
<1>5. "idle" # "save character"
  OBVIOUS
<1>6. ASSUME NEW x \in Thread PROVE EntityKept(pc'[x], job'[x], seen'[x], character')
  <2>1. CASE x = t
    BY <1>1, <2>1, Zenon
  <2>2. CASE x # t
    BY <1>3, <1>5, <2>2, Zenon DEF EntityKept
  <2>3. QED BY <2>1, <2>2
<1>7. QED BY <1>4, <1>6

LEMMA NothingToWrite ==
    ASSUME NEW step, step # "save character", NEW q, NEW v PROVE EntityKept(step, q, v, character')
  BY Zenon DEF EntityKept

LEMMA LeaveBinds ==
    ASSUME TypeInv, BindingInv, NEW t \in Thread, pc[t] # "idle", orderly' => orderly, Leave(t)
    PROVE  BindingInv'
<1>1. EntityKept("idle", Quiet, None, character')
  <2>1. "idle" # "save character"
    OBVIOUS
  <2>2. QED BY <2>1, NothingToWrite, Zenon
<1>2. QED BY <1>1, BusyAlone, MoveBinds, Zenon DEF Leave, Goto

\* A thread goes on and does not come to write a character.
LEMMA GoOnBinds ==
    ASSUME TypeInv, BindingInv, NEW t \in Thread, pc[t] # "idle", orderly' = orderly,
           NEW step, step # "save character", NEW v, Goto(t, step), job' = job,
           seen' = [seen EXCEPT ![t] = v]
    PROVE  BindingInv'
<1>1. job' = [job EXCEPT ![t] = job[t]]
  BY TypesSplit, Zenon DEF LocalsOK
<1>2. EntityKept(step, job[t], v, character')
  BY NothingToWrite, Zenon
<1>3. Alone(t)
  BY BusyAlone, Zenon
<1>4. QED BY <1>1, <1>2, <1>3, MoveBinds, Zenon DEF Goto

LEMMA StayBinds ==
    ASSUME TypeInv, BindingInv, NEW t \in Thread, pc[t] # "idle", orderly' = orderly,
           NEW step, step # "save character", Goto(t, step), job' = job, seen' = seen
    PROVE  BindingInv'
<1>1. seen' = [seen EXCEPT ![t] = seen[t]]
  BY TypesSplit, Zenon DEF LocalsOK
<1>2. QED BY <1>1, GoOnBinds, Zenon

\* A request that begins, and one that is over at once.
LEMMA BeginBinds ==
    ASSUME TypeInv, BindingInv, NEW t \in Thread, NEW q, NEW v, NEW step, Begin(t, q, v, step),
           EntityKept(step, q, v, character)
    PROVE  BindingInv'
<1>1. Alone(t) /\ character' = character
  BY AdmittedAlone, Zenon DEF Begin, Admitted, tables
<1>2. QED BY <1>1, MoveBinds, Zenon DEF Begin, Goto

LEMMA BeginQuietly ==
    ASSUME TypeInv, BindingInv, NEW t \in Thread, NEW q, NEW v, NEW step, Begin(t, q, v, step),
           step # "save character"
    PROVE  BindingInv'
<1>1. EntityKept(step, q, v, character)
  BY Zenon DEF EntityKept
<1>2. QED BY <1>1, BeginBinds, Zenon

LEMMA AtOnceBinds ==
    ASSUME BindingInv, NEW t \in Thread, Admitted(t), UNCHANGED locals
    PROVE  BindingInv'
<1> SUFFICES ASSUME orderly' PROVE OneBusy' /\ \A x \in Thread :
                                       EntityKept(pc'[x], job'[x], seen'[x], character')
  BY Zenon DEF BindingInv
<1>1. \A x \in Thread : pc'[x] = "idle"
  BY Zenon DEF Admitted, AllIdle, locals
<1>2. "idle" # "save character"
  OBVIOUS
<1>3. QED BY <1>1, <1>2, Zenon DEF OneBusy, EntityKept

\* update_character changes the world of the row that it read, and nothing else of it here.
LEMMA UpdateCharacterBinds ==
    ASSUME TypeInv, BindingInv, NEW t \in Thread, NEW u \in User, NEW c \in Character,
           NEW w \in World \cup {None}, UpdateCharacter(t, u, c, w)
    PROVE  BindingInv'
<1> DEFINE q == [Quiet EXCEPT !.by = u, !.character = c]
           v == [character[c] EXCEPT !.world = w]
<1>1. q.character = c
  BY CharacterRequest
<1>2. v.entity = character[c].entity
  BY RowTyped, TypesSplit DEF UpdateCharacter, Edits, CharacterRecord
<1>3. Begin(t, q, v, "save character")
  BY Zenon DEF UpdateCharacter
<1> HIDE DEF q, v
<1>4. EntityKept("save character", q, v, character)
  BY <1>1, <1>2, Zenon DEF EntityKept
<1>5. QED BY <1>3, <1>4, BeginBinds, Zenon

LEMMA RequestBinds ==
    ASSUME TypeInv, BindingInv, NEW t \in Thread, NEW u \in User, Request(t, u)
    PROVE  BindingInv'
<1>1. /\ "delete character" # "save character" /\ "save game" # "save character"
      /\ "delete game" # "save character" /\ "save member" # "save character"
      /\ "check character" # "save character" /\ "remove member" # "save character"
      /\ "save session" # "save character"
  OBVIOUS
<1>2. ASSUME NEW c \in Character, NEW w \in World \cup {None},
             CreateCharacter(t, u, c, w) \/ UpdateCharacter(t, u, c, w)
      PROVE  BindingInv'
  BY <1>2, AtOnceBinds, UpdateCharacterBinds, Zenon DEF CreateCharacter
<1>3. ASSUME NEW c \in Character, AskDeleteCharacter(t, u, c) PROVE BindingInv'
  BY <1>1, <1>3, BeginQuietly, Zenon DEF AskDeleteCharacter
<1>4. ASSUME NEW g \in Game, NEW w \in World, CreateGame(t, u, g, w) PROVE BindingInv'
  BY <1>4, AtOnceBinds, Zenon DEF CreateGame
<1>5. ASSUME NEW g \in Game, UpdateGame(t, u, g) \/ AskDeleteGame(t, u, g) PROVE BindingInv'
  BY <1>1, <1>5, BeginQuietly, Zenon DEF UpdateGame, AskDeleteGame
<1>6. ASSUME NEW g \in Game, NEW v \in User, NEW c \in Character \cup {None},
             NEW role \in {"PLAYER", "CO_DM"}, AskMember(t, u, g, v, c, role)
      PROVE  BindingInv'
  <2> DEFINE step == IF c = None THEN "save member" ELSE "check character"
  <2>1. step # "save character"
    BY <1>1, Zenon
  <2>2. Begin(t, [Quiet EXCEPT !.by = u, !.game = g, !.user = v, !.character = c, !.role = role],
              game[g], step)
    BY <1>6, Zenon DEF AskMember
  <2> HIDE DEF step
  <2>3. QED BY <2>1, <2>2, BeginQuietly, Zenon
<1>7. ASSUME NEW g \in Game, NEW v \in User, AskRemoveMember(t, u, g, v) PROVE BindingInv'
  BY <1>1, <1>7, BeginQuietly, Zenon DEF AskRemoveMember
<1>8. ASSUME NEW g \in Game, NEW s \in Session, NEW status \in Status,
             AskSession(t, u, g, s, status)
      PROVE  BindingInv'
  BY <1>1, <1>8, BeginQuietly, Zenon DEF AskSession
<1>9. QED BY <1>2, <1>3, <1>4, <1>5, <1>6, <1>7, <1>8, Zenon DEF Request

LEMMA EmbodyBinds ==
    ASSUME TypeInv, BindingInv, NEW t \in Thread, Embody(t) PROVE BindingInv'
<1> DEFINE c == job[t].character
           w == seen[t].world
           v == [world |-> w, entity |-> BodyOf(c, w)]
           step == IF Exists(w, BodyOf(c, w)) THEN "bind" ELSE "spawn"
<1>1. pc[t] # "idle" /\ orderly' = orderly
  BY DEF Embody
<1>2. step # "save character"
  OBVIOUS
<1>3. Leave(t) \/ (seen' = [seen EXCEPT ![t] = v] /\ Goto(t, step) /\ job' = job)
  BY Zenon DEF Embody
<1> HIDE DEF v, step
<1>4. QED BY <1>1, <1>2, <1>3, LeaveBinds, GoOnBinds, Zenon

\* bind_character_entity writes the entity only where there is none or the same one.
LEMMA BindBinds ==
    ASSUME TypeInv, BindingInv, NEW t \in Thread, Bind(t) PROVE BindingInv'
<1> DEFINE q == job[t]
           row == character[q.character]
           e == seen[t].entity
           v == [owner |-> row.owner, world |-> seen[t].world, entity |-> e]
<1>1. pc[t] # "idle" /\ orderly' = orderly /\ character' = character
  BY DEF Bind, tables
<1>2. CASE Leave(t)
  BY <1>1, <1>2, LeaveBinds, Zenon
<1>3. CASE ~Leave(t)
  <2>1. /\ row.entity \in {None, e}
        /\ seen' = [seen EXCEPT ![t] = v] /\ Goto(t, "save character") /\ job' = job
    BY <1>3, Zenon DEF Bind
  <2>2. v.entity = e
    OBVIOUS
  <2>3. job' = [job EXCEPT ![t] = q]
    BY <2>1, TypesSplit, Zenon DEF LocalsOK
  <2> HIDE DEF v
  <2>4. EntityKept("save character", q, v, character')
    BY <1>1, <2>1, <2>2, Zenon DEF EntityKept
  <2>5. Alone(t)
    BY <1>1, BusyAlone, Zenon
  <2> HIDE DEF q
  <2>6. QED BY <2>1, <2>3, <2>4, <2>5, MoveBinds, Zenon DEF Goto
<1>4. QED BY <1>2, <1>3

LEMMA BusySteps ==
    /\ "save character" # "idle" /\ "delete character" # "idle" /\ "save game" # "idle"
    /\ "delete game" # "idle" /\ "remove member" # "idle" /\ "save session" # "idle"
  OBVIOUS

LEMMA StepBinds ==
    ASSUME TypeInv, BindingInv, NEW t \in Thread, Step(t) PROVE BindingInv'
<1>1. CASE \/ SaveCharacter(t) \/ DeleteCharacter(t) \/ SaveGame(t) \/ DeleteGame(t)
           \/ RemoveMember(t) \/ SaveSession(t) \/ Fail(t)
  <2>1. Leave(t) /\ (orderly' = orderly \/ Fail(t))
    BY <1>1, Zenon DEF SaveCharacter, DeleteCharacter, SaveGame, DeleteGame, RemoveMember,
          SaveSession, Fail
  <2>2. pc[t] # "idle"
    BY <1>1, BusySteps, Zenon DEF SaveCharacter, DeleteCharacter, SaveGame, DeleteGame,
          RemoveMember, SaveSession, Fail
  <2>3. orderly' => orderly
    BY <2>1, Zenon DEF Fail
  <2>4. QED BY <2>1, <2>2, <2>3, LeaveBinds
<1>2. CASE CheckCharacter(t) \/ SaveMember(t) \/ Spawn(t)
  <2>1. /\ pc[t] # "idle" /\ orderly' = orderly
        /\ \/ Leave(t)
           \/ \E step \in {"save member", "embody", "bind"} :
                 Goto(t, step) /\ job' = job /\ seen' = seen
    BY <1>2 DEF CheckCharacter, SaveMember, Spawn
  <2>2. \A step \in {"save member", "embody", "bind"} : step # "save character"
    OBVIOUS
  <2>3. QED BY <2>1, <2>2, LeaveBinds, StayBinds, Zenon
<1>3. QED BY <1>1, <1>2, EmbodyBinds, BindBinds, Zenon DEF Step

LEMMA InitBinds == Init => BindingInv
<1>1. "idle" # "save character"
  OBVIOUS
<1>2. QED BY <1>1, Zenon DEF Init, BindingInv, OneBusy, EntityKept

LEMMA NextBinds == TypeInv /\ BindingInv /\ [Next]_vars => BindingInv'
<1> SUFFICES ASSUME TypeInv, BindingInv, [Next]_vars PROVE BindingInv'
  OBVIOUS
<1>1. CASE Next
  BY <1>1, StepBinds, RequestBinds, Zenon DEF Next
<1>2. CASE UNCHANGED vars
  BY <1>2, Zenon DEF vars, tables, locals, BindingInv, OneBusy
<1>3. QED BY <1>1, <1>2

\* What a step does to the characters: one is written by SaveCharacter, created where there
\* was none, or deleted.
BindingKept(c) ==
    orderly' /\ character[c] # None /\ character'[c] # None /\ character[c].entity # None =>
        character'[c].entity = character[c].entity

LEMMA SaveCharacterKeeps ==
    ASSUME TypeInv, BindingInv, NEW t \in Thread, SaveCharacter(t), NEW c \in Character
    PROVE  BindingKept(c)
<1>1. \/ character' = character
      \/ character' = [character EXCEPT ![job[t].character] = seen[t]]
  BY Zenon DEF SaveCharacter
<1>2. pc[t] = "save character" /\ orderly' = orderly
  BY Zenon DEF SaveCharacter
<1>3. orderly => EntityKept("save character", job[t], seen[t], character)
  BY <1>2, Zenon DEF BindingInv
<1>4. CASE c = job[t].character
  BY <1>1, <1>2, <1>3, <1>4, TypesSplit, Zenon DEF EntityKept, BindingKept, RowsOK
<1>5. CASE c # job[t].character
  BY <1>1, <1>5, TypesSplit, Zenon DEF BindingKept, RowsOK
<1>6. QED BY <1>4, <1>5

LEMMA BindingsKept ==
    ASSUME TypeInv, BindingInv, [Next]_vars, NEW c \in Character
    PROVE  BindingKept(c)
<1>1. CASE UNCHANGED character
  BY <1>1, Zenon DEF BindingKept
<1>2. ASSUME NEW t \in Thread, SaveCharacter(t) PROVE BindingKept(c)
  BY <1>2, SaveCharacterKeeps, Zenon
<1>3. ASSUME NEW t \in Thread, DeleteCharacter(t) PROVE BindingKept(c)
  <2>1. character' = [character EXCEPT ![job[t].character] = None]
    BY <1>3, Zenon DEF DeleteCharacter
  <2>2. QED BY <2>1, TypesSplit, Zenon DEF BindingKept, RowsOK
<1>4. ASSUME NEW t \in Thread, NEW u \in User, NEW d \in Character, NEW w \in World \cup {None},
             CreateCharacter(t, u, d, w)
      PROVE  BindingKept(c)
  <2>1. character[d] = None
        /\ character' = [character EXCEPT ![d] = [owner |-> u, world |-> w, entity |-> None]]
    BY <1>4, Zenon DEF CreateCharacter
  <2>2. QED BY <2>1, TypesSplit, Zenon DEF BindingKept, RowsOK
<1>5. ASSUME NEW t \in Thread, Step(t) PROVE BindingKept(c)
  <2>1. CASE \/ SaveGame(t) \/ DeleteGame(t) \/ CheckCharacter(t) \/ SaveMember(t)
             \/ RemoveMember(t) \/ Embody(t) \/ Spawn(t) \/ Bind(t) \/ SaveSession(t) \/ Fail(t)
    <3>1. UNCHANGED character
      BY <2>1, Zenon DEF SaveGame, DeleteGame, CheckCharacter, SaveMember, RemoveMember, Embody,
            Spawn, Bind, SaveSession, Fail, tables
    <3>2. QED BY <1>1, <3>1
  <2>2. QED BY <1>2, <1>3, <1>5, <2>1, Zenon DEF Step
<1>6. ASSUME NEW t \in Thread, NEW u \in User, Request(t, u) PROVE BindingKept(c)
  <2>1. \/ \E d \in Character, w \in World \cup {None} : CreateCharacter(t, u, d, w)
        \/ UNCHANGED character
    BY <1>6, Zenon DEF Request, UpdateCharacter, AskDeleteCharacter, CreateGame, UpdateGame,
          AskDeleteGame, AskMember, AskRemoveMember, AskSession, Begin, tables
  <2>2. QED BY <1>1, <1>4, <2>1, Zenon
<1>7. QED BY <1>1, <1>5, <1>6, Zenon DEF Next, vars, tables

\* "character is already bound to another embodied entity" (portal.py:585-586): while requests
\* come one at a time, neither an update nor a binding takes the entity of a character.
THEOREM BindingsAlwaysStay == Spec => BindingsStay
<1>1. TypeInv /\ BindingInv /\ [Next]_vars =>
        [\A c \in Character :
            orderly' /\ character[c] # None /\ character'[c] # None /\ character[c].entity # None =>
                character'[c].entity = character[c].entity]_vars
  BY BindingsKept, Zenon DEF BindingKept
<1>2. Spec => [](TypeInv /\ BindingInv)
  <2>1. Init => TypeInv /\ BindingInv
    BY InitType, InitBinds
  <2>2. TypeInv /\ BindingInv /\ [Next]_vars => (TypeInv /\ BindingInv)'
    BY TypeStep, NextBinds
  <2>3. QED BY <2>1, <2>2, PTL DEF Spec
<1>3. QED BY <1>1, <1>2, PTL DEF Spec, BindingsStay
================================================================================
