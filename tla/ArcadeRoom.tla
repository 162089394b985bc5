----------------------------- MODULE ArcadeRoom -----------------------------
(***************************************************************************)
(* A room of the arcade, played by one player in several windows: the room *)
(* simulator behind /fx-bento/dev (packages/fx-bento service.ts), the      *)
(* retrying client (apps/web lib/api-client.ts), the board (arcade.tsx)    *)
(* and the room screen (multiplayer.tsx), which commits to the round's     *)
(* selection and reveals it when the round is over.  The price's path, the *)
(* scores and the wallet balance that is only displayed are left out; of   *)
(* the other players only their joining matters.                           *)
(***************************************************************************)
EXTENDS Naturals, FiniteSets, Sequences, TLC

CONSTANTS
    Windows,      \* the player's windows
    Rows, Cols,   \* the board: tiles <<row, col>>, columns swept from left
    MaxTiles,     \* 5: chips of a round, tiles of a selection
    LockBuffer,   \* 3: columns ahead of the sweep that take no chip
    MaxIndex,     \* 7: the largest row and column a reveal may name
    RoomRounds, MinPlayers, MaxPlayers,
    Attempts,     \* 3: of resilientFetch
    MaxVisits,    \* bound on how often a window joins
    MaxCalls,     \* bound on a window's calls under way when it commits
    None

ASSUME ArcadeRoomAssumption ==
    /\ {Cols, MaxTiles, RoomRounds, MinPlayers, Attempts} \subseteq Nat \ {0}
    /\ {LockBuffer, MaxIndex, MaxVisits, MaxCalls} \subseteq Nat
    /\ MaxPlayers \in Nat /\ MinPlayers <= MaxPlayers

VARIABLES
    room,         \* the simulator's room
    window        \* the windows' screens

roomVars == <<room, window>>

Others == {"ghost", "rival"}

Tiles == Rows \X (0..Cols - 1)

Phases == {"lobby", "countdown", "playing", "roundEnd", "final"}

\* What a window still has to send: the calls of handleCreateRoom, of join and
\* of finishRound, in order.
Ops == {"createJoin", "createGhost", "join", "commit", "reveal"}

Job == [op : Ops, round : 0..RoomRounds, attempt : 1..Attempts, chosen : SUBSET Tiles]

RoomTypeOK ==
    /\ room \in [status : {"lobby", "active", "settling"},
                 players : SUBSET (Others \cup {"you"}),
                 commitments : [1..RoomRounds -> SUBSET Tiles],
                 reveals : [1..RoomRounds -> SUBSET Tiles]]
    /\ \A w \in Windows :
         /\ window[w].phase \in Phases
         /\ window[w].joined \in BOOLEAN
         /\ window[w].round \in 1..RoomRounds
         /\ window[w].visits \in 0..MaxVisits
         /\ window[w].chips \subseteq Tiles
         /\ window[w].live \in 0..Cols \cup {None}
         /\ window[w].timer \in [round : 1..RoomRounds, chosen : SUBSET Tiles] \cup {None}
         /\ \A j \in window[w].jobs : j \in Job

Closed == [phase |-> "lobby", joined |-> FALSE, round |-> 1, visits |-> 0,
           chips |-> {}, live |-> None, timer |-> None, jobs |-> {}]

RoomInit ==
    /\ room = [status |-> "lobby", players |-> {},
               commitments |-> [r \in 1..RoomRounds |-> {}],
               reveals |-> [r \in 1..RoomRounds |-> {}]]
    /\ window = [w \in Windows |-> Closed]

-----------------------------------------------------------------------------
(* The simulator.  Each operator is a request's answer and the room after. *)

\* An error the simulator throws is answered with 500 (errorStatus knows none
\* of its messages), a body that does not parse with 400.
Answer(status, r) == [status |-> status, room |-> r]

\* activateIfReady; a room made by the lobby has no start time.
Activated(r) ==
    IF r.status = "lobby" /\ Cardinality(r.players) >= MinPlayers
    THEN [r EXCEPT !.status = "active"] ELSE r

\* joinFxBentoRoom: joining twice is the same as once.
Joining(r, p) ==
    CASE r.status # "lobby" -> Answer("error", r)
      [] p \in r.players -> Answer("ok", Activated(r))
      [] Cardinality(r.players) >= MaxPlayers -> Answer("error", r)
      [] OTHER -> Answer("ok", Activated([r EXCEPT !.players = @ \cup {p}]))

Plays(r) == Activated(r).status = "active" /\ "you" \in r.players

\* Mutant of Committing: a commitment may be replaced until it is revealed.
CommittingAgain(r, round, chosen) ==
    IF Plays(r) /\ r.reveals[round] = {}
    THEN Answer("ok", [Activated(r) EXCEPT !.commitments[round] = chosen])
    ELSE Answer("error", Activated(r))

\* commitFxBentoSelection: the commitment is a hash that binds the
\* tiles.
Committing(r, round, chosen) ==
    IF Plays(r) /\ r.commitments[round] = {}
    THEN Answer("ok", [Activated(r) EXCEPT !.commitments[round] = chosen])
    ELSE Answer("error", Activated(r))

\* RevealSelectionSchema and assertValidTilePattern: how many tiles, in which
\* range, at most two in a row.  (Two in a row leave no room for a chain.)
ValidPattern(tiles) ==
    /\ Cardinality(tiles) \in 1..MaxTiles
    /\ \A t \in tiles : t[1] <= MaxIndex /\ t[2] <= MaxIndex
    /\ \A row \in Rows : Cardinality({t \in tiles : t[1] = row}) <= 2

\* revealFxBentoSelection asks for a commitment and does not compare with it.
Revealing(r, round, chosen) ==
    IF ~ValidPattern(chosen) THEN Answer("bad", r)
    ELSE IF Plays(r) /\ r.commitments[round] # {} /\ r.reveals[round] = {}
    THEN Answer("ok", [Activated(r) EXCEPT !.reveals[round] = chosen])
    ELSE Answer("error", Activated(r))

Handle(r, j) ==
    CASE j.op \in {"createJoin", "join"} -> Joining(r, "you")
      [] j.op = "createGhost" -> Joining(r, "ghost")
      [] j.op = "commit" -> Committing(r, j.round, j.chosen)
      [] j.op = "reveal" -> Revealing(r, j.round, j.chosen)

\* Another player, in another browser.
OtherJoins ==
    /\ Joining(room, "rival").room # room
    /\ room' = Joining(room, "rival").room
    /\ UNCHANGED window

\* settleFxBentoRoom, with enough players; nothing marks the room settled.
SettleRoom ==
    /\ Cardinality(room.players) >= MinPlayers
    /\ room.status # "settling"
    /\ room' = [room EXCEPT !.status = "settling"]
    /\ UNCHANGED window

-----------------------------------------------------------------------------
(* The client.  One attempt of a call either never reaches the server, or  *)
(* is handled and its answer lost, or is answered.  Without an answer, and  *)
(* after a 500, it is sent again, as often as Attempts says: the key that  *)
(* marks the repetition is one the server never looks at.                  *)

Call(op, round, chosen) ==
    [op |-> op, round |-> round, attempt |-> 1, chosen |-> chosen]

\* resilientFetch: attempts are left.
MayRepeat(j) == j.attempt < Attempts

\* What a call is followed by.  A failed join is ignored; a failed commit ends
\* the round's job.
Following(s, j, ok) ==
    CASE j.op = "createJoin" -> {Call("createGhost", 0, {})}
      [] j.op = "commit" /\ ok -> {[j EXCEPT !.op = "reveal", !.attempt = 1]}
      [] OTHER -> {}

\* The screen after a call that has returned.
Screen(s, j, ok) ==
    LET jobs == (s.jobs \ {j}) \cup Following(s, j, ok) IN
    IF j.op = "join"
    THEN [s EXCEPT !.jobs = jobs, !.joined = TRUE, !.round = 1,
                   !.phase = "countdown", !.chips = {},
                   !.live = None]
    ELSE [s EXCEPT !.jobs = jobs]

\* The window after an attempt that is repeated if it may be.
Failed(w, j) ==
    LET s == window[w]
        again == [j EXCEPT !.attempt = @ + 1]
    IN  window' = [window EXCEPT ![w] =
            IF MayRepeat(j) THEN [s EXCEPT !.jobs = (s.jobs \ {j}) \cup {again}]
            ELSE Screen(s, j, FALSE)]

Answered(w, j) ==
    LET answer == Handle(room, j) IN
    /\ room' = answer.room
    /\ IF answer.status = "error" THEN Failed(w, j)
       ELSE window' = [window EXCEPT ![w] = Screen(@, j, answer.status = "ok")]

\* The request or its answer is lost.
Lost(w, j) ==
    /\ room' \in {room, Handle(room, j).room}
    /\ Failed(w, j)

Attempt(w) == \E j \in window[w].jobs : Answered(w, j) \/ Lost(w, j)

Busy(s, ops) == \E j \in s.jobs : j.op \in ops

\* The room screen shows the lobby to who is in no room, or not in its list.
InLobby(s) ==
    \/ s.phase = "lobby" \/ ~s.joined
    \/ s.phase # "countdown" /\ "you" \notin room.players

\* handleCreateRoom, once the room is there.
CreateRoom(w) ==
    /\ InLobby(window[w]) /\ room.players = {}
    /\ ~Busy(window[w], {"createJoin", "createGhost", "join"})
    /\ window' = [window EXCEPT ![w].jobs = @ \cup {Call("createJoin", 0, {})}]
    /\ UNCHANGED room

Join(w) ==
    /\ InLobby(window[w]) /\ ~Busy(window[w], {"join"})
    /\ window[w].visits < MaxVisits
    /\ window' = [window EXCEPT ![w].visits = @ + 1,
                                ![w].jobs = @ \cup {Call("join", 0, {})}]
    /\ UNCHANGED room

\* The countdown takes longer than the 800 ms of the board's timer.
CountdownEnds(w) ==
    /\ window[w].phase = "countdown" /\ window[w].timer = None
    /\ window' = [window EXCEPT ![w].phase = "playing"]
    /\ UNCHANGED room

-----------------------------------------------------------------------------
(* The board.                                                              *)

InRow(tiles, row) == {t \in tiles : t[1] = row}

\* A chip waits until the sweep has passed its column (or has hit it there,
\* which the lock makes no difference to).
Pending(s) == {t \in s.chips : s.live # None /\ t[2] >= s.live}

\* placeChip: at most MaxTiles, two in a row, one in a cell, ahead of the lock.
\* The chips of a round that is over still count.
Places(s, t) ==
    /\ Cardinality(s.chips) < MaxTiles
    /\ Cardinality(InRow(s.chips, t[1])) < 2
    /\ s.live # None => t[2] >= s.live + LockBuffer
    /\ t \notin s.chips

\* The first chip starts the round's clock and takes the place of what is on
\* the board, also between a round's end and the screen's hearing of it.
PlaceChip(w, t) ==
    LET s == window[w] IN
    /\ s.phase = "playing" /\ ~InLobby(s)
    /\ Places(s, t)
    /\ window' = [window EXCEPT ![w] =
         IF s.live = None THEN [s EXCEPT !.chips = {t}, !.live = 0]
         ELSE [s EXCEPT !.chips = @ \cup {t}]]
    /\ UNCHANGED room

\* playAnother: the board is cleared.
PlayAnother(w) ==
    /\ window[w].phase = "playing" /\ ~InLobby(window[w])
    /\ window[w].live = None /\ window[w].chips # {}
    /\ window' = [window EXCEPT ![w].chips = {}]
    /\ UNCHANGED room

\* A chip that is still to come can be taken back.
ReclaimChip(w, t) ==
    /\ window[w].phase = "playing" /\ ~InLobby(window[w])
    /\ t \in Pending(window[w])
    /\ window' = [window EXCEPT ![w].chips = @ \ {t}]
    /\ UNCHANGED room

\* The price passes a column, under the result of the round too.  After the last
\* one the round is over, and 800 ms later, before another can be over, the room
\* screen is told of the round it was in and of its chips.
Sweep(w) ==
    LET s == window[w] IN
    /\ s.phase \in {"playing", "roundEnd", "final"} /\ ~InLobby(s) /\ s.live # None
    /\ s.live + 1 < Cols \/ s.timer = None
    /\ window' = [window EXCEPT ![w] =
         IF s.live + 1 < Cols
         THEN [s EXCEPT !.live = @ + 1]
         ELSE [s EXCEPT !.live = None,
                        !.timer = [round |-> s.round, chosen |-> s.chips]]]
    /\ UNCHANGED room

\* finishRound, also of a room the player has left in the meantime: the screen
\* goes on, and the selection, if any, is committed to.
FinishRound(w) ==
    LET s == window[w] IN
    /\ s.timer # None
    /\ s.timer.chosen = {} \/ Cardinality(s.jobs) < MaxCalls
    /\ window' = [window EXCEPT ![w] =
         [s EXCEPT !.phase = "roundEnd", !.timer = None,
                   !.jobs = IF s.timer.chosen = {} THEN @
                            ELSE @ \cup {Call("commit", s.timer.round, s.timer.chosen)}]]
    /\ UNCHANGED room

NextRound(w) ==
    LET s == window[w] IN
    /\ s.phase = "roundEnd" /\ ~InLobby(s)
    /\ window' = [window EXCEPT ![w] =
         IF s.round >= RoomRounds THEN [s EXCEPT !.phase = "final"]
         ELSE [s EXCEPT !.round = @ + 1, !.phase = "countdown",
                        !.chips = {}, !.live = None]]
    /\ UNCHANGED room

\* The calls in flight, and the timer, go on when the player leaves the room.
BackToLobby(w) ==
    LET s == window[w] IN
    /\ s.phase \in {"playing", "roundEnd", "final"} /\ ~InLobby(s)
    /\ window' = [window EXCEPT ![w] =
         [Closed EXCEPT !.visits = s.visits, !.jobs = s.jobs, !.timer = s.timer]]
    /\ UNCHANGED room

RoomNext ==
    \/ OtherJoins \/ SettleRoom
    \/ \E w \in Windows :
         \/ Attempt(w) \/ CreateRoom(w) \/ Join(w) \/ CountdownEnds(w)
         \/ PlayAnother(w) \/ Sweep(w) \/ FinishRound(w)
         \/ NextRound(w) \/ BackToLobby(w)
         \/ \E t \in Tiles : PlaceChip(w, t) \/ ReclaimChip(w, t)

-----------------------------------------------------------------------------
(* Properties.                                                             *)

\* What is revealed is what was committed to, although the simulator does not
\* compare the two: no repeated call, lost answer, second window or second
\* visit makes a client reveal another selection than the one that counts.
RevealsMatchCommitments ==
    \A r \in 1..RoomRounds :
        room.reveals[r] # {} =>
            room.reveals[r] = room.commitments[r]
=============================================================================
