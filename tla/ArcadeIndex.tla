---------------------------- MODULE ArcadeIndex ----------------------------
(***************************************************************************)
(* The arcade tables of the indexer (handlers/bento.ts) for one room, with *)
(* the FXBento contracts as far as their events and the repository's use   *)
(* of them tell.  A timestamp column is modelled by whether it is set, a   *)
(* hash by a model value; columns that are copied and never read again     *)
(* (block, transaction, log index, configuration) are left out.            *)
(***************************************************************************)
EXTENDS EventLog, FiniteSets

CONSTANTS Players, Rounds, Roots, NoHash

VARIABLES
    escrow,     \* the contracts' state of the room
    room,       \* ArcadeRoom
    placement,  \* ArcadePlacement, one row per player ("_pending" tile)
    round,      \* ArcadeRound
    stages      \* ArcadeSettlement: the stages with a row, and their root

arcadeVars == <<escrow, room, placement, round, stages>>

StatusByEnum == <<"lobby", "locked", "settling", "settled", "finalized", "cancelled">>

Rank == [lobby |-> 1, locked |-> 2, settling |-> 3, settled |-> 4,
         finalized |-> 5, cancelled |-> 6]

Stages == {"submitted", "challenged", "resolved", "finalized", "rescued"}

ContractStatus == {"none", "lobby", "locked", "settling", "settled", "cancelled"}

Escrow == [status : ContractStatus, joined : SUBSET Players,
           refunded : SUBSET Players, claimed : SUBSET Players,
           round : 0..Rounds, phase : {"over", "started", "anchored"},
           commits : [Players -> 0..Rounds], reveals : [Players -> 0..Rounds],
           root : Roots \cup {NoHash}, challenge : {"none", "open", "resolved"},
           cancelEvent : BOOLEAN]

RoomRow == [status : DOMAIN Rank, root : Roots \cup {NoHash}, locked : BOOLEAN,
            settled : BOOLEAN, finalized : BOOLEAN, cancelled : BOOLEAN]

PlacementRow == [joined : BOOLEAN, left : BOOLEAN, refunded : BOOLEAN,
                 claimed : BOOLEAN, round : 0..Rounds, committed : BOOLEAN,
                 revealed : BOOLEAN]

ASSUME ArcadeAssumption ==
    /\ Rounds \in Nat
    /\ NoRow \notin RoomRow \cup PlacementRow

ArcadeEvent ==
    [kind : {"RoomCreated", "RoomCancelled", "RoomLocked", "ResultsChallenged",
             "ChallengeResolved", "SettlementRescued"}]
    \cup [kind : {"RoomStatusUpdated"}, status : 0..5]
    \cup [kind : {"RoomSettled", "ResultsSubmitted", "ResultsFinalized"},
          root : Roots \cup {NoHash}]
    \cup [kind : {"RoundStarted", "AnchorRecorded", "SettlementRecorded"},
          round : 1..Rounds]
    \cup [kind : {"RoomJoined", "RoomLeft", "Refunded", "PrizeClaimed"},
          player : Players]
    \cup [kind : {"SelectionCommitted", "SelectionRevealed"}, player : Players,
          round : 1..Rounds]

ArcadeTypeOK ==
    /\ escrow \in Escrow
    /\ room \in RoomRow \cup {NoRow}
    /\ placement \in [Players -> PlacementRow \cup {NoRow}]
    /\ round \in [1..Rounds -> {"started", "anchor_recorded", "settled", NoRow}]
    /\ stages \in [Stages -> Roots \cup {NoHash, NoRow}]

ArcadeInit ==
    /\ escrow = [status |-> "none", joined |-> {}, refunded |-> {},
                 claimed |-> {}, round |-> 0, phase |-> "over",
                 commits |-> [p \in Players |-> 0],
                 reveals |-> [p \in Players |-> 0], root |-> NoHash,
                 challenge |-> "none", cancelEvent |-> FALSE]
    /\ room = NoRow
    /\ placement = [p \in Players |-> NoRow]
    /\ round = [r \in 1..Rounds |-> NoRow]
    /\ stages = [s \in Stages |-> NoRow]

-----------------------------------------------------------------------------
(* The contracts.                                                          *)

tables == <<room, placement, round, stages>>

Player(kind, p) == [kind |-> kind, player |-> p]

StatusUpdated(n) == [kind |-> "RoomStatusUpdated", status |-> n]

CreateRoom ==
    /\ escrow.status = "none"
    /\ escrow' = [escrow EXCEPT !.status = "lobby"]
    /\ Emit(<<[kind |-> "RoomCreated"]>>)
    /\ UNCHANGED tables

JoinRoom(p) ==
    /\ escrow.status = "lobby" /\ p \notin escrow.joined
    /\ escrow' = [escrow EXCEPT !.joined = @ \cup {p}]
    /\ Emit(<<Player("RoomJoined", p)>>)
    /\ UNCHANGED tables

LeaveRoom(p) ==
    /\ escrow.status = "lobby" /\ p \in escrow.joined
    /\ escrow' = [escrow EXCEPT !.joined = @ \ {p}]
    /\ Emit(<<Player("RoomLeft", p)>>)
    /\ UNCHANGED tables

CancelRoom ==
    /\ escrow.status = "lobby"
    /\ escrow' = [escrow EXCEPT !.status = "cancelled", !.cancelEvent = TRUE]
    /\ Emit(<<StatusUpdated(4), [kind |-> "RoomCancelled"]>>)
    /\ UNCHANGED tables

LockRoom ==
    /\ escrow.status = "lobby" /\ escrow.joined # {}
    /\ escrow' = [escrow EXCEPT !.status = "locked"]
    /\ Emit(<<StatusUpdated(1), [kind |-> "RoomLocked"]>>)
    /\ UNCHANGED tables

StartRound ==
    /\ escrow.status = "locked" /\ escrow.phase = "over" /\ escrow.round < Rounds
    /\ escrow' = [escrow EXCEPT !.round = @ + 1, !.phase = "started"]
    /\ Emit(<<[kind |-> "RoundStarted", round |-> escrow.round + 1]>>)
    /\ UNCHANGED tables

RecordAnchor ==
    /\ escrow.status = "locked" /\ escrow.phase = "started"
    /\ escrow' = [escrow EXCEPT !.phase = "anchored"]
    /\ Emit(<<[kind |-> "AnchorRecorded", round |-> escrow.round]>>)
    /\ UNCHANGED tables

RecordSettlement ==
    /\ escrow.status = "locked" /\ escrow.phase = "anchored"
    /\ escrow' = [escrow EXCEPT !.phase = "over"]
    /\ Emit(<<[kind |-> "SettlementRecorded", round |-> escrow.round]>>)
    /\ UNCHANGED tables

CommitSelection(p) ==
    /\ escrow.status = "locked" /\ p \in escrow.joined
    /\ escrow.phase = "started" /\ escrow.commits[p] < escrow.round
    /\ escrow' = [escrow EXCEPT !.commits[p] = escrow.round]
    /\ Emit(<<[kind |-> "SelectionCommitted", player |-> p, round |-> escrow.round]>>)
    /\ UNCHANGED tables

RevealSelection(p) ==
    /\ escrow.status = "locked" /\ escrow.commits[p] = escrow.round
    /\ escrow.phase # "started" /\ escrow.reveals[p] < escrow.commits[p]
    /\ escrow' = [escrow EXCEPT !.reveals[p] = escrow.round]
    /\ Emit(<<[kind |-> "SelectionRevealed", player |-> p, round |-> escrow.round]>>)
    /\ UNCHANGED tables

SubmitResults(root) ==
    /\ escrow.status = "locked"
    /\ escrow.round = Rounds /\ escrow.phase = "over"
    /\ escrow' = [escrow EXCEPT !.status = "settling", !.root = root]
    /\ Emit(<<StatusUpdated(2), [kind |-> "ResultsSubmitted", root |-> root]>>)
    /\ UNCHANGED tables

ChallengeResults ==
    /\ escrow.status = "settling" /\ escrow.challenge = "none"
    /\ escrow' = [escrow EXCEPT !.challenge = "open"]
    /\ Emit(<<[kind |-> "ResultsChallenged"]>>)
    /\ UNCHANGED tables

\* An accepted challenge replaces the results; no event carries the new root.
ResolveChallenge(root) ==
    /\ escrow.status = "settling" /\ escrow.challenge = "open"
    /\ escrow' = [escrow EXCEPT !.challenge = "resolved", !.root = root]
    /\ Emit(<<[kind |-> "ChallengeResolved"]>>)
    /\ UNCHANGED tables

\* finalizeResults settles the escrow; whether its own event comes before or
\* after the escrow's is not known here.
FinalizeResults ==
    LET settled == [kind |-> "RoomSettled", root |-> escrow.root]
        final == [kind |-> "ResultsFinalized", root |-> escrow.root]
    IN
    /\ escrow.status = "settling" /\ escrow.challenge # "open"
    /\ escrow' = [escrow EXCEPT !.status = "settled"]
    /\ \/ Emit(<<StatusUpdated(3), settled, final>>)
       \/ Emit(<<final, StatusUpdated(3), settled>>)
    /\ UNCHANGED tables

\* rescueFailedSettlement: whether the escrow adds its own event is not known.
RescueFailedSettlement ==
    LET rescued == [kind |-> "SettlementRescued"]
        cancelled == [kind |-> "RoomCancelled"]
    IN
    /\ escrow.status \in {"locked", "settling"}
    /\ \E own \in BOOLEAN :
         /\ escrow' = [escrow EXCEPT !.status = "cancelled", !.cancelEvent = own]
         /\ Emit(IF own THEN <<StatusUpdated(4), rescued, cancelled>>
                 ELSE <<StatusUpdated(4), rescued>>)
    /\ UNCHANGED tables

Refund(p) ==
    /\ escrow.status = "cancelled" /\ p \in escrow.joined \ escrow.refunded
    /\ escrow' = [escrow EXCEPT !.refunded = @ \cup {p}]
    /\ Emit(<<Player("Refunded", p)>>)
    /\ UNCHANGED tables

ClaimPrize(p) ==
    /\ escrow.status = "settled" /\ p \in escrow.joined \ escrow.claimed
    /\ escrow' = [escrow EXCEPT !.claimed = @ \cup {p}]
    /\ Emit(<<Player("PrizeClaimed", p)>>)
    /\ UNCHANGED tables

Contracts ==
    \/ CreateRoom \/ CancelRoom \/ LockRoom \/ StartRound \/ RecordAnchor
    \/ RecordSettlement \/ ChallengeResults \/ FinalizeResults
    \/ RescueFailedSettlement
    \/ \E root \in Roots : SubmitResults(root) \/ ResolveChallenge(root)
    \/ \E p \in Players :
         \/ JoinRoom(p) \/ LeaveRoom(p) \/ CommitSelection(p)
         \/ RevealSelection(p) \/ Refund(p) \/ ClaimPrize(p)

-----------------------------------------------------------------------------
(* The handlers.                                                           *)

EmptyRoom == [status |-> "lobby", root |-> NoHash, locked |-> FALSE,
              settled |-> FALSE, finalized |-> FALSE, cancelled |-> FALSE]

\* Mutant of NextStatus: the last event's status wins.
LastStatus(current, new) == new

\* A status never goes back in rank.
NextStatus(current, new) == IF Rank[new] >= Rank[current] THEN new ELSE current

\* patchRoom: a patch is over the row, or over a stub when there is none.
RoomOrStub(row) == IF row = NoRow THEN EmptyRoom ELSE row

PatchRoom(patched, status) ==
    room' = [patched EXCEPT !.status =
                IF room = NoRow THEN status ELSE NextStatus(room.status, status)]

OnRoomCreated ==
    /\ Handling("RoomCreated") /\ Handled
    /\ room' = EmptyRoom
    /\ UNCHANGED <<escrow, placement, round, stages>>

OnRoomStatusUpdated ==
    /\ Handling("RoomStatusUpdated") /\ Handled
    /\ PatchRoom(RoomOrStub(room), StatusByEnum[This.status + 1])
    /\ UNCHANGED <<escrow, placement, round, stages>>

OnRoomCancelled ==
    /\ Handling("RoomCancelled") /\ Handled
    /\ PatchRoom([RoomOrStub(room) EXCEPT !.cancelled = TRUE], "cancelled")
    /\ UNCHANGED <<escrow, placement, round, stages>>

OnRoomLocked ==
    /\ Handling("RoomLocked") /\ Handled
    /\ PatchRoom([RoomOrStub(room) EXCEPT !.locked = TRUE], "locked")
    /\ UNCHANGED <<escrow, placement, round, stages>>

OnRoomSettled ==
    /\ Handling("RoomSettled") /\ Handled
    /\ PatchRoom([RoomOrStub(room) EXCEPT !.settled = TRUE, !.root = This.root], "settled")
    /\ UNCHANGED <<escrow, placement, round, stages>>

NewPlacement == [joined |-> FALSE, left |-> FALSE, refunded |-> FALSE,
                 claimed |-> FALSE, round |-> 0, committed |-> FALSE,
                 revealed |-> FALSE]

\* Mutant of JoinedPlacement: a player who comes back keeps the row.
JoinedAgain(p) ==
    IF placement[p] = NoRow THEN [NewPlacement EXCEPT !.joined = TRUE]
    ELSE [placement[p] EXCEPT !.joined = TRUE]

\* Joining writes the whole row, whatever was there.
JoinedPlacement(p) == [NewPlacement EXCEPT !.joined = TRUE]

OnRoomJoined ==
    /\ Handling("RoomJoined") /\ Handled
    /\ placement' = [placement EXCEPT ![This.player] =
                        JoinedPlacement(This.player)]
    /\ UNCHANGED <<escrow, room, round, stages>>

\* The handlers that change a row only if there is one.
PatchPlacement(p, patched) ==
    placement' = IF placement[p] = NoRow THEN placement
                 ELSE [placement EXCEPT ![p] = patched]

OnRoomLeft ==
    /\ Handling("RoomLeft") /\ Handled
    /\ PatchPlacement(This.player, [placement[This.player] EXCEPT !.left = TRUE])
    /\ UNCHANGED <<escrow, room, round, stages>>

OnRefunded ==
    /\ Handling("Refunded") /\ Handled
    /\ PatchPlacement(This.player, [placement[This.player] EXCEPT !.refunded = TRUE])
    /\ UNCHANGED <<escrow, room, round, stages>>

OnPrizeClaimed ==
    /\ Handling("PrizeClaimed") /\ Handled
    /\ PatchPlacement(This.player, [placement[This.player] EXCEPT !.claimed = TRUE])
    /\ UNCHANGED <<escrow, room, round, stages>>

\* A commitment makes a row for a player it has not seen.
OnSelectionCommitted ==
    LET p == This.player
        base == IF placement[p] = NoRow THEN NewPlacement ELSE placement[p]
    IN
    /\ Handling("SelectionCommitted") /\ Handled
    /\ placement' = [placement EXCEPT ![p] =
            [base EXCEPT !.committed = TRUE, !.round = This.round]]
    /\ UNCHANGED <<escrow, room, round, stages>>

OnSelectionRevealed ==
    /\ Handling("SelectionRevealed") /\ Handled
    /\ PatchPlacement(This.player, [placement[This.player] EXCEPT !.revealed = TRUE,
                                                              !.round = This.round])
    /\ UNCHANGED <<escrow, room, round, stages>>

RoundStep(kind, status) ==
    /\ Handling(kind) /\ Handled
    /\ round' = [round EXCEPT ![This.round] = status]
    /\ UNCHANGED <<escrow, room, placement, stages>>

OnRoundStarted == RoundStep("RoundStarted", "started")

OnAnchorRecorded == RoundStep("AnchorRecorded", "anchor_recorded")

OnSettlementRecorded == RoundStep("SettlementRecorded", "settled")

\* insertSettlement
Stage(stage, root) == stages' = [stages EXCEPT ![stage] = root]

OnResultsSubmitted ==
    /\ Handling("ResultsSubmitted") /\ Handled
    /\ Stage("submitted", This.root)
    /\ PatchRoom([RoomOrStub(room) EXCEPT !.root = This.root], "settling")
    /\ UNCHANGED <<escrow, placement, round>>

OnResultsFinalized ==
    /\ Handling("ResultsFinalized") /\ Handled
    /\ Stage("finalized", This.root)
    /\ PatchRoom([RoomOrStub(room) EXCEPT !.root = This.root, !.finalized = TRUE],
                 "finalized")
    /\ UNCHANGED <<escrow, placement, round>>

StageOnly(kind, stage) ==
    /\ Handling(kind) /\ Handled
    /\ Stage(stage, NoHash)
    /\ UNCHANGED <<escrow, room, placement, round>>

OnResultsChallenged == StageOnly("ResultsChallenged", "challenged")

OnChallengeResolved == StageOnly("ChallengeResolved", "resolved")

OnSettlementRescued == StageOnly("SettlementRescued", "rescued")

ArcadeHandlers ==
    \/ OnRoomCreated \/ OnRoomStatusUpdated \/ OnRoomCancelled \/ OnRoomLocked
    \/ OnRoomSettled \/ OnRoomJoined \/ OnRoomLeft \/ OnRefunded
    \/ OnPrizeClaimed \/ OnSelectionCommitted \/ OnSelectionRevealed
    \/ OnRoundStarted \/ OnAnchorRecorded \/ OnSettlementRecorded
    \/ OnResultsSubmitted \/ OnResultsFinalized \/ OnResultsChallenged
    \/ OnChallengeResolved \/ OnSettlementRescued

ArcadeNext == product = "arcade" /\ (Contracts \/ ArcadeHandlers)

-----------------------------------------------------------------------------
(* Properties.                                                             *)

\* Once the indexer has caught up, the room's row is told by the contract, in
\* whatever order a transaction's events came: its status, the root the escrow
\* pays by once settled, also when a challenge replaced the submitted one, and
\* finalizedAt and cancelledAt, set just when results were finalized and when
\* the escrow said RoomCancelled.  A rescue without that event is indexed
\* "finalized": bento.ts:8 reads status 4 so, where packages/fx-bento
\* src/index.ts:610 reads 4 as cancelled.  Only finalizedAt then tells a
\* rescued room from a settled one.
RoomFollowsContract ==
    CaughtUp =>
        /\ escrow.status = "none" <=> room = NoRow
        /\ escrow.status \in {"lobby", "locked", "settling"} =>
              room.status = escrow.status
        /\ escrow.status = "settled" =>
              /\ room.status = "finalized"
              /\ room.root = escrow.root
              /\ stages["finalized"] = escrow.root
        /\ escrow.status = "cancelled" =>
              room.status = IF escrow.cancelEvent THEN "cancelled" ELSE "finalized"
        /\ room # NoRow =>
              /\ room.finalized <=> escrow.status = "settled"
              /\ room.cancelled <=> escrow.cancelEvent

\* Once the indexer has caught up, the placements show who is in the escrow,
\* who was refunded and who was paid, through any leaving and coming back, and
\* the last round a player committed to.
PlacementsFollowEscrow ==
    CaughtUp => \A p \in Players :
        LET row == placement[p] IN
        /\ p \in escrow.joined <=> row # NoRow /\ row.joined /\ ~row.left
        /\ p \in escrow.refunded <=> row # NoRow /\ row.refunded
        /\ p \in escrow.claimed <=> row # NoRow /\ row.claimed
        /\ row # NoRow => /\ row.round = escrow.commits[p]
                          /\ row.committed <=> escrow.commits[p] > 0
=============================================================================
