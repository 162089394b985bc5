----------------------------- MODULE ArcadeProofs -----------------------------
(* Theorems about Arcade's rooms, for any number of windows, rounds and      *)
(* attempts, and about the claims of its results, for any number of winners. *)
EXTENDS Arcade, FiniteSetTheorems, SequenceTheorems, WellFoundedInduction, TLAPS

Selections == [1..RoomRounds -> SUBSET Tiles]

Rooms == [status : {"lobby", "active", "settling"}, players : SUBSET (Others \cup {"you"}),
          commitments : Selections, reveals : Selections]

Screens == [phase : Phases, joined : BOOLEAN, round : 1..RoomRounds, visits : Nat,
            chips : SUBSET Tiles, live : Nat \cup {None},
            timer : [round : 1..RoomRounds, chosen : SUBSET Tiles] \cup {None},
            jobs : SUBSET Job]

\* A call that commits or reveals names a round and some tiles; one that reveals
\* holds what the round's commitment is of.
CallFits(j, r) ==
    /\ j.op \in {"commit", "reveal"} => j.round \in 1..RoomRounds /\ j.chosen # {}
    /\ j.op = "reveal" => j.chosen = r.commitments[j.round]

CallsFit(s, r) == \A j \in s.jobs : CallFits(j, r)

RevealsFit(r) ==
    \A n \in 1..RoomRounds : r.reveals[n] # {} => r.reveals[n] = r.commitments[n]

RoomInv ==
    /\ room \in Rooms
    /\ window \in [Windows -> Screens]
    /\ \A w \in Windows : CallsFit(window[w], room)
    /\ RevealsFit(room)

-----------------------------------------------------------------------------
(* The simulator: whatever it is asked, a commitment that is made stays, and *)
(* reveals go on to match.                                                   *)

Keeps(r, s) ==
    /\ s \in Rooms
    /\ \A n \in 1..RoomRounds :
         r.commitments[n] # {} => s.commitments[n] = r.commitments[n]
    /\ RevealsFit(r) => RevealsFit(s)

LEMMA ActivatedSame ==
  ASSUME NEW r \in Rooms
  PROVE  /\ Activated(r) \in Rooms
         /\ Activated(r).commitments = r.commitments /\ Activated(r).reveals = r.reveals
BY DEF Activated, Rooms

LEMMA ActivatedKeeps ==
  ASSUME NEW r \in Rooms
  PROVE  Keeps(r, r) /\ Keeps(r, Activated(r))
BY ActivatedSame DEF Keeps, RevealsFit

LEMMA JoiningKeeps ==
  ASSUME NEW r \in Rooms, NEW p \in Others \cup {"you"}
  PROVE  Keeps(r, Joining(r, p).room)
<1> DEFINE s == [r EXCEPT !.players = @ \cup {p}]
<1>1. s \in Rooms /\ s.commitments = r.commitments /\ s.reveals = r.reveals
  BY DEF Rooms
<1>2. Keeps(r, r) /\ Keeps(r, Activated(r)) /\ Keeps(r, Activated(s))
  <2>1. PICK t \in Rooms : /\ t = Activated(s)
                           /\ t.commitments = r.commitments /\ t.reveals = r.reveals
    BY <1>1, ActivatedSame
  <2>2. Keeps(r, t)
    BY <2>1 DEF Keeps, RevealsFit
  <2>3. QED
    BY <2>1, <2>2, ActivatedKeeps
<1>3. QED
  BY <1>2 DEF Joining, Answer

LEMMA CommittingKeeps ==
  ASSUME NEW r \in Rooms, NEW n \in 1..RoomRounds, NEW chosen \in SUBSET Tiles, RevealsFit(r)
  PROVE  LET a == Committing(r, n, chosen) IN
         Keeps(r, a.room) /\ (a.status = "ok" => a.room.commitments[n] = chosen)
<1> DEFINE s == [Activated(r) EXCEPT !.commitments[n] = chosen]
<1>1. /\ s \in Rooms /\ s.reveals = r.reveals
      /\ s.commitments = [r.commitments EXCEPT ![n] = chosen]
      /\ s.commitments[n] = chosen
  BY ActivatedSame DEF Rooms, Selections
<1>2. r.commitments[n] = {} => Keeps(r, s)
  BY <1>1 DEF Keeps, RevealsFit, Rooms, Selections
<1>3. QED
  BY <1>1, <1>2, ActivatedKeeps DEF Committing, Answer

LEMMA RevealingKeeps ==
  ASSUME NEW r \in Rooms, NEW n \in 1..RoomRounds, NEW chosen \in SUBSET Tiles,
         chosen = r.commitments[n]
  PROVE  Keeps(r, Revealing(r, n, chosen).room)
<1> DEFINE s == [Activated(r) EXCEPT !.reveals[n] = chosen]
<1>1. /\ s \in Rooms /\ s.commitments = r.commitments
      /\ s.reveals = [r.reveals EXCEPT ![n] = chosen]
  BY ActivatedSame DEF Rooms, Selections
<1>2. Keeps(r, s)
  BY <1>1 DEF Keeps, RevealsFit, Rooms, Selections
<1>3. QED
  BY <1>2, ActivatedKeeps DEF Revealing, Answer
LEMMA HandleKeeps ==
  ASSUME NEW r \in Rooms, RevealsFit(r), NEW j \in Job, CallFits(j, r)
  PROVE  /\ Keeps(r, Handle(r, j).room)
         /\ j.op = "commit" /\ Handle(r, j).status = "ok" =>
              Handle(r, j).room.commitments[j.round] = j.chosen
<1>1. j.op \in Ops /\ j.chosen \in SUBSET Tiles
  BY DEF Job
<1>2. CASE j.op \in {"createJoin", "join", "createGhost"}
  BY <1>2, JoiningKeeps DEF Handle, Others
<1>3. CASE j.op = "commit"
  BY <1>1, <1>3, CommittingKeeps DEF Handle, CallFits
<1>4. CASE j.op = "reveal"
  BY <1>1, <1>4, RevealingKeeps DEF Handle, CallFits
<1>5. QED
  BY <1>1, <1>2, <1>3, <1>4 DEF Ops

-----------------------------------------------------------------------------
(* The client.                                                             *)

\* What the calls of a screen hold goes on to fit a room that kept its
\* commitments.
LEMMA KeptCallsFit ==
  ASSUME NEW r \in Rooms, NEW s, Keeps(r, s), NEW scr \in Screens, CallsFit(scr, r)
  PROVE  CallsFit(scr, s)
BY DEF Keeps, CallsFit, CallFits, Screens

LEMMA Bounds == Attempts \in Nat \ {0} /\ RoomRounds \in Nat \ {0}
BY ArcadeRoomAssumption

LEMMA RepeatedFits ==
  ASSUME NEW r \in Rooms, NEW scr \in Screens, CallsFit(scr, r),
         NEW j \in scr.jobs, MayRepeat(j)
  PROVE  LET again == [scr EXCEPT !.jobs = (@ \ {j}) \cup {[j EXCEPT !.attempt = @ + 1]}]
         IN  again \in Screens /\ CallsFit(again, r)
<1> DEFINE k == [j EXCEPT !.attempt = @ + 1]
           again == [scr EXCEPT !.jobs = (@ \ {j}) \cup {k}]
<1>1. j \in Job /\ CallFits(j, r)
  BY DEF Screens, CallsFit
<1>2. k \in Job /\ CallFits(k, r)
  BY <1>1, ArcadeRoomAssumption DEF Job, MayRepeat, CallFits
<1>3. again \in Screens /\ again.jobs = (scr.jobs \ {j}) \cup {k}
  BY <1>2 DEF Screens
<1>4. QED
  BY <1>2, <1>3 DEF CallsFit

LEMMA FollowingFits ==
  ASSUME NEW r \in Rooms, NEW scr \in Screens, NEW j \in Job, CallFits(j, r),
         NEW ok \in BOOLEAN,
         j.op = "commit" /\ ok => r.commitments[j.round] = j.chosen
  PROVE  \A k \in Following(scr, j, ok) : k \in Job /\ CallFits(k, r)
<1>1. CASE j.op = "createJoin"
  <2>1. Call("createGhost", 0, {}) \in Job /\ CallFits(Call("createGhost", 0, {}), r)
    BY ArcadeRoomAssumption DEF Call, Job, Ops, CallFits
  <2>2. QED
    BY <1>1, <2>1 DEF Following
<1>2. CASE j.op = "commit" /\ ok
  <2> DEFINE k == [j EXCEPT !.op = "reveal", !.attempt = 1]
  <2>1. /\ k \in Job
        /\ k.op = "reveal" /\ k.round = j.round /\ k.chosen = j.chosen
    <3>1. 1 \in 1..Attempts /\ "reveal" \in Ops
      BY Bounds DEF Ops
    <3>2. QED
      BY <3>1 DEF Job
  <2>2. CallFits(k, r)
    BY <1>2, <2>1 DEF CallFits
  <2>3. QED
    BY <1>2, <2>1, <2>2 DEF Following
<1>3. CASE j.op # "createJoin" /\ ~(j.op = "commit" /\ ok)
  BY <1>3 DEF Following
<1>4. QED
  BY <1>1, <1>2, <1>3

LEMMA ScreenFits ==
  ASSUME NEW r \in Rooms, NEW scr \in Screens, CallsFit(scr, r), NEW j \in scr.jobs,
         NEW ok \in BOOLEAN,
         j.op = "commit" /\ ok => r.commitments[j.round] = j.chosen
  PROVE  Screen(scr, j, ok) \in Screens /\ CallsFit(Screen(scr, j, ok), r)
<1> DEFINE next == (scr.jobs \ {j}) \cup Following(scr, j, ok)
<1>1. j \in Job /\ CallFits(j, r)
  BY DEF Screens, CallsFit
<1>2. \A k \in Following(scr, j, ok) : k \in Job /\ CallFits(k, r)
  BY <1>1, FollowingFits
<1>3. next \in SUBSET Job /\ \A k \in next : CallFits(k, r)
  BY <1>2 DEF Screens, CallsFit
<1>4. \/ Screen(scr, j, ok) = [scr EXCEPT !.jobs = next]
      \/ Screen(scr, j, ok) = [scr EXCEPT !.jobs = next, !.joined = TRUE, !.round = 1,
                                !.phase = "countdown", !.chips = {}, !.live = None]
  BY Zenon DEF Screen
<1> HIDE DEF next
<1>5. 1 \in 1..RoomRounds /\ "countdown" \in Phases
  BY Bounds DEF Phases
<1>6. Screen(scr, j, ok) \in Screens /\ Screen(scr, j, ok).jobs = next
  BY <1>3, <1>4, <1>5 DEF Screens
<1>7. QED
  BY <1>3, <1>6 DEF CallsFit

-----------------------------------------------------------------------------
(* A step replaces one window's screen, and perhaps the room.                *)

LEMMA WindowReplaced ==
  ASSUME RoomInv, NEW w \in Windows, NEW scr,
         Keeps(room, room'), scr \in Screens, CallsFit(scr, room'),
         window' = [window EXCEPT ![w] = scr]
  PROVE  RoomInv'
<1>1. room' \in Rooms /\ window' \in [Windows -> Screens] /\ RevealsFit(room')
  BY DEF RoomInv, Keeps
<1>2. ASSUME NEW v \in Windows
      PROVE  CallsFit(window'[v], room')
  BY KeptCallsFit DEF RoomInv
<1>3. QED
  BY <1>1, <1>2 DEF RoomInv

\* A screen whose calls are those it had, and perhaps one that fits.
LEMMA ScreenReplaced ==
  ASSUME RoomInv, NEW w \in Windows, NEW scr \in Screens, UNCHANGED room,
         \A j \in scr.jobs : j \in window[w].jobs \/ CallFits(j, room),
         window' = [window EXCEPT ![w] = scr]
  PROVE  RoomInv'
<1>1. Keeps(room, room')
  BY ActivatedKeeps DEF RoomInv
<1>2. CallsFit(scr, room')
  BY DEF RoomInv, CallsFit
<1>3. QED
  BY <1>1, <1>2, WindowReplaced

LEMMA AttemptStep ==
  ASSUME RoomInv, NEW w \in Windows, Attempt(w)
  PROVE  RoomInv'
<1>1. PICK j \in window[w].jobs : Answered(w, j) \/ Lost(w, j)
  BY DEF Attempt
<1>2. /\ room \in Rooms /\ RevealsFit(room)
      /\ window[w] \in Screens /\ CallsFit(window[w], room)
      /\ j \in Job /\ CallFits(j, room)
  BY DEF RoomInv, Screens, CallsFit
<1>3. /\ Keeps(room, room) /\ Keeps(room, Handle(room, j).room)
      /\ j.op = "commit" /\ Handle(room, j).status = "ok" =>
           Handle(room, j).room.commitments[j.round] = j.chosen
  BY <1>2, HandleKeeps, ActivatedKeeps
<1>4. /\ Keeps(room, room')
      /\ j.op = "commit" /\ Answered(w, j) /\ Handle(room, j).status = "ok" =>
           room'.commitments[j.round] = j.chosen
  BY <1>1, <1>3 DEF Answered, Lost
<1>5. room' \in Rooms /\ CallsFit(window[w], room')
  BY <1>2, <1>4, KeptCallsFit DEF Keeps
<1>6. CASE Failed(w, j)
  <2>1. CASE MayRepeat(j)
    <3> DEFINE again == [window[w] EXCEPT
                           !.jobs = (@ \ {j}) \cup {[j EXCEPT !.attempt = @ + 1]}]
    <3>1. again \in Screens /\ CallsFit(again, room')
      BY <1>2, <1>5, <2>1, RepeatedFits
    <3>2. window' = [window EXCEPT ![w] = again]
      BY <1>6, <2>1, Zenon DEF Failed
    <3>3. QED
      BY <1>4, <3>1, <3>2, WindowReplaced
  <2>2. CASE ~MayRepeat(j)
    <3>1. Screen(window[w], j, FALSE) \in Screens /\ CallsFit(Screen(window[w], j, FALSE), room')
      BY <1>2, <1>5, ScreenFits
    <3>2. window' = [window EXCEPT ![w] = Screen(window[w], j, FALSE)]
      BY <1>6, <2>2 DEF Failed
    <3>3. QED
      BY <1>4, <3>1, <3>2, WindowReplaced
  <2>3. QED
    BY <2>1, <2>2
<1>7. CASE Answered(w, j) /\ ~Failed(w, j)
  <2> DEFINE ok == Handle(room, j).status = "ok"
  <2>1. Screen(window[w], j, ok) \in Screens /\ CallsFit(Screen(window[w], j, ok), room')
    BY <1>2, <1>4, <1>5, <1>7, ScreenFits
  <2>2. window' = [window EXCEPT ![w] = Screen(window[w], j, ok)]
    BY <1>7 DEF Answered
  <2>3. QED
    BY <1>4, <2>1, <2>2, WindowReplaced
<1>8. QED
  BY <1>1, <1>6, <1>7 DEF Lost

LEMMA RoomStep ==
  ASSUME RoomInv, OtherJoins \/ SettleRoom
  PROVE  RoomInv'
<1>1. room \in Rooms
  BY DEF RoomInv
<1>2. Keeps(room, room')
  <2>1. CASE OtherJoins
    BY <1>1, <2>1, JoiningKeeps DEF OtherJoins, Others
  <2>2. CASE SettleRoom
    BY <1>1, <2>2 DEF SettleRoom, Keeps, Rooms, RevealsFit
  <2>3. QED
    BY <2>1, <2>2
<1>3. UNCHANGED window
  BY DEF OtherJoins, SettleRoom
<1>4. QED
  BY <1>1, <1>2, <1>3, KeptCallsFit DEF RoomInv, Keeps
-----------------------------------------------------------------------------
(* The steps of the screen and of the board send nothing but joins and the    *)
(* commitment of the round that is over.                                      *)

LEMMA LobbyStep ==
  ASSUME RoomInv, NEW w \in Windows,
         CreateRoom(w) \/ Join(w) \/ CountdownEnds(w) \/ NextRound(w) \/ BackToLobby(w)
  PROVE  RoomInv'
<1> DEFINE s == window[w]
<1>1. s \in Screens /\ window \in [Windows -> Screens]
  BY DEF RoomInv
<1>2. CASE CreateRoom(w) \/ Join(w)
  <2> DEFINE join(op) == Call(op, 0, {})
  <2>1. \A op \in {"createJoin", "join"} : join(op) \in Job /\ CallFits(join(op), room)
    BY Bounds DEF Call, Job, Ops, CallFits
  <2> HIDE DEF join
  <2>2. PICK scr \in {[s EXCEPT !.jobs = @ \cup {join("createJoin")}],
                      [s EXCEPT !.visits = @ + 1, !.jobs = @ \cup {join("join")}]} :
             window' = [window EXCEPT ![w] = scr]
    BY <1>1, <1>2, Zenon DEF CreateRoom, Join, join
  <2>3. scr \in Screens /\ \A j \in scr.jobs : j \in s.jobs \/ CallFits(j, room)
    <3>1. ASSUME NEW op \in {"createJoin", "join"}
          PROVE  s.jobs \cup {join(op)} \in SUBSET Job
      BY <1>1, <2>1 DEF Screens
    <3>2. CASE scr = [s EXCEPT !.jobs = s.jobs \cup {join("createJoin")}]
      BY <1>1, <2>1, <3>1, <3>2 DEF Screens
    <3>3. CASE scr = [s EXCEPT !.visits = s.visits + 1, !.jobs = s.jobs \cup {join("join")}]
      <4>1. s.visits + 1 \in Nat
        BY <1>1 DEF Screens
      <4>2. scr \in Screens
        BY <1>1, <3>1, <3>3, <4>1 DEF Screens
      <4>3. scr.jobs = s.jobs \cup {join("join")}
        BY <1>1, <3>3 DEF Screens
      <4>4. QED
        BY <2>1, <4>2, <4>3
    <3>4. QED
      BY <2>2, <3>2, <3>3
  <2>4. UNCHANGED room
    BY <1>2 DEF CreateRoom, Join
  <2>5. QED
    BY <2>2, <2>3, <2>4, ScreenReplaced
<1>3. CASE CountdownEnds(w)
  <2>1. [s EXCEPT !.phase = "playing"] \in Screens
        /\ [s EXCEPT !.phase = "playing"].jobs = s.jobs
    BY <1>1 DEF Screens, Phases
  <2>2. window' = [window EXCEPT ![w] = [s EXCEPT !.phase = "playing"]] /\ UNCHANGED room
    BY <1>3 DEF CountdownEnds
  <2>3. QED
    BY <2>1, <2>2, ScreenReplaced
<1>4. CASE NextRound(w)
  <2> DEFINE scr == IF s.round >= RoomRounds THEN [s EXCEPT !.phase = "final"]
                    ELSE [s EXCEPT !.round = @ + 1, !.phase = "countdown",
                                   !.chips = {}, !.live = None]
  <2>1. scr \in Screens /\ scr.jobs = s.jobs
    <3>1. CASE s.round >= RoomRounds
      <4>1. [s EXCEPT !.phase = "final"] \in Screens
        BY <1>1 DEF Screens, Phases
      <4>2. [s EXCEPT !.phase = "final"].jobs = s.jobs
        BY <1>1 DEF Screens
      <4>3. QED
        BY <3>1, <4>1, <4>2
    <3>2. CASE ~(s.round >= RoomRounds)
      <4>1. s.round + 1 \in 1..RoomRounds
        BY <1>1, <3>2, Bounds DEF Screens
      <4>2. [s EXCEPT !.round = s.round + 1, !.phase = "countdown",
                      !.chips = {}, !.live = None] \in Screens
        BY <1>1, <4>1 DEF Screens, Phases
      <4>3. [s EXCEPT !.round = s.round + 1, !.phase = "countdown",
                      !.chips = {}, !.live = None].jobs = s.jobs
        BY <1>1 DEF Screens
      <4>4. QED
        BY <3>2, <4>2, <4>3
    <3>3. QED
      BY <3>1, <3>2
  <2>2. window' = [window EXCEPT ![w] = scr] /\ UNCHANGED room
    BY <1>4, Zenon DEF NextRound
  <2>3. QED
    BY <2>1, <2>2, ScreenReplaced
<1>5. CASE BackToLobby(w)
  <2> DEFINE scr == [Closed EXCEPT !.visits = s.visits, !.jobs = s.jobs, !.timer = s.timer]
  <2>1. Closed \in Screens
    BY Bounds DEF Screens, Phases, Closed
  <2>2. scr \in Screens /\ scr.jobs = s.jobs
    BY <1>1, <2>1 DEF Screens
  <2>3. window' = [window EXCEPT ![w] = scr] /\ UNCHANGED room
    BY <1>5 DEF BackToLobby
  <2>4. QED
    BY <2>2, <2>3, ScreenReplaced
<1>6. QED
  BY <1>2, <1>3, <1>4, <1>5

LEMMA BoardStep ==
  ASSUME RoomInv, NEW w \in Windows,
         \/ PlayAnother(w) \/ Sweep(w) \/ FinishRound(w)
         \/ \E t \in Tiles : PlaceChip(w, t) \/ ReclaimChip(w, t)
  PROVE  RoomInv'
<1> DEFINE s == window[w]
<1>1. s \in Screens /\ window \in [Windows -> Screens]
  BY DEF RoomInv
<1>2. ASSUME NEW t \in Tiles, PlaceChip(w, t) \/ ReclaimChip(w, t)
      PROVE  RoomInv'
  <2>1. PICK scr \in {[s EXCEPT !.chips = s.chips \cup {t}],
                      [s EXCEPT !.chips = {t}, !.live = 0],
                      [s EXCEPT !.chips = s.chips \ {t}]} :
             window' = [window EXCEPT ![w] = scr]
    <3>1. CASE PlaceChip(w, t) /\ s.live = None
      BY <1>1, <3>1, Zenon DEF PlaceChip
    <3>2. CASE PlaceChip(w, t) /\ s.live # None
      BY <1>1, <3>2, Zenon DEF PlaceChip
    <3>3. CASE ReclaimChip(w, t)
      BY <1>1, <3>3, Zenon DEF ReclaimChip
    <3>4. QED
      BY <1>2, <3>1, <3>2, <3>3
  <2>2. scr \in Screens /\ scr.jobs = s.jobs
    <3>1. CASE scr = [s EXCEPT !.chips = s.chips \ {t}]
      BY <1>1, <3>1 DEF Screens
    <3>2. CASE scr = [s EXCEPT !.chips = s.chips \cup {t}]
      BY <1>1, <3>2 DEF Screens
    <3>3. CASE scr = [s EXCEPT !.chips = {t}, !.live = 0]
      BY <1>1, <3>3 DEF Screens
    <3>4. QED
      BY <2>1, <3>1, <3>2, <3>3
  <2>3. UNCHANGED room
    BY <1>2 DEF PlaceChip, ReclaimChip
  <2>4. QED
    BY <2>1, <2>2, <2>3, ScreenReplaced
<1>3. CASE Sweep(w)
  <2> DEFINE passed == [s EXCEPT !.live = @ + 1]
             over == [s EXCEPT !.live = None,
                               !.timer = [round |-> s.round, chosen |-> s.chips]]
             scr == IF s.live + 1 < Cols THEN passed ELSE over
  <2>1. s.live \in Nat
    BY <1>1, <1>3 DEF Sweep, Screens
  <2>2. passed \in Screens /\ passed.jobs = s.jobs
    BY <1>1, <2>1 DEF Screens
  <2>3. over \in Screens /\ over.jobs = s.jobs
    BY <1>1 DEF Screens
  <2>4. window' = [window EXCEPT ![w] = scr] /\ UNCHANGED room
    BY <1>3 DEF Sweep
  <2>5. QED
    BY <2>2, <2>3, <2>4, ScreenReplaced
<1>4. CASE FinishRound(w)
  <2> DEFINE c == Call("commit", s.timer.round, s.timer.chosen)
             jobs == IF s.timer.chosen = {} THEN s.jobs ELSE s.jobs \cup {c}
             scr == [s EXCEPT !.phase = "roundEnd", !.timer = None, !.jobs = jobs]
  <2>1. s.timer \in [round : 1..RoomRounds, chosen : SUBSET Tiles]
    BY <1>1, <1>4 DEF FinishRound, Screens
  <2>2. c \in Job /\ (s.timer.chosen # {} => CallFits(c, room))
    BY <2>1, Bounds DEF Call, Job, Ops, CallFits
  <2> HIDE DEF c
  <2>3. jobs \in SUBSET Job /\ \A j \in jobs : j \in s.jobs \/ CallFits(j, room)
    BY <1>1, <2>2 DEF Screens
  <2>4. window' = [window EXCEPT ![w] = scr] /\ UNCHANGED room
    BY <1>4 DEF FinishRound, c
  <2> HIDE DEF jobs
  <2>5. scr \in Screens /\ scr.jobs = jobs
    BY <1>1, <2>3 DEF Screens, Phases
  <2>6. QED
    BY <2>3, <2>4, <2>5, ScreenReplaced
<1>5. CASE PlayAnother(w)
  <2> DEFINE scr == [s EXCEPT !.chips = {}]
  <2>1. scr \in Screens /\ scr.jobs = s.jobs
    BY <1>1 DEF Screens
  <2>2. window' = [window EXCEPT ![w] = scr] /\ UNCHANGED room
    BY <1>1, <1>5 DEF PlayAnother
  <2>3. QED
    BY <2>1, <2>2, ScreenReplaced
<1>6. QED
  BY <1>2, <1>3, <1>4, <1>5

-----------------------------------------------------------------------------

LEMMA RoomInvInit == Init => RoomInv
BY Bounds DEF Init, RoomInit, RoomInv, Rooms, Selections, Screens, Closed, Phases,
   CallsFit, RevealsFit

LEMMA RoomInvNext == RoomInv /\ [Next]_vars => RoomInv'
<1> SUFFICES ASSUME RoomInv, [Next]_vars
             PROVE  RoomInv'
  OBVIOUS
<1>1. CASE RoomNext
  BY <1>1, AttemptStep, RoomStep, LobbyStep, BoardStep DEF RoomNext
<1>2. CASE UNCHANGED roomVars
  BY <1>2 DEF roomVars, RoomInv, CallsFit, CallFits, RevealsFit
<1>3. QED
  BY <1>1, <1>2 DEF Next, vars, roomVars

\* However often a call is repeated, whichever answers are lost and in as many
\* windows as there are, what a room's player reveals is what is committed to
\* (api-client.ts retries; revealFxBentoSelection does not compare).
THEOREM ArcadeRevealsMatch == Spec => []RevealsMatchCommitments
<1>1. RoomInv => RevealsMatchCommitments
  BY DEF RoomInv, RevealsFit, RevealsMatchCommitments
<1>2. QED
  BY RoomInvInit, RoomInvNext, <1>1, PTL DEF Spec

-----------------------------------------------------------------------------
(* The prizes.  The leaves can be sorted by their hashes, whatever the       *)
(* winners: shown by an induction over Nat stated with sets.                 *)

LEMMA LeastNat ==
  ASSUME NEW T, T \subseteq Nat, T # {}
  PROVE  \E x \in T : \A y \in T : x <= y
<1>1. PICK x \in T : \A y \in T : ~ (<<y, x>> \in OpToRel(<, Nat))
  BY WFMin, NatLessThanWellFounded
<1>2. \A y \in T : ~ (y < x)
  BY <1>1 DEF OpToRel
<1>3. QED
  BY <1>2

\* A set of naturals with 0 and the successors of its elements is all of Nat.
LEMMA Inductive ==
  ASSUME NEW S, S \subseteq Nat, 0 \in S, \A n \in S : n + 1 \in S
  PROVE  \A n \in Nat : n \in S
<1>1. SUFFICES ASSUME Nat \ S # {} PROVE FALSE
  OBVIOUS
<1>2. PICK x \in Nat \ S : \A y \in Nat \ S : x <= y
  <2>1. Nat \ S \subseteq Nat
    OBVIOUS
  <2>2. QED
    BY <1>1, <2>1, LeastNat
<1>3. x - 1 \in Nat /\ x - 1 < x
  BY <1>2
<1>4. x - 1 \in S
  BY <1>2, <1>3
<1>5. (x - 1) + 1 = x
  BY <1>2
<1>6. QED
  BY <1>2, <1>4, <1>5

\* A sequence of n of the players T, each with a greater hash than the last.
InOrder(n, T) ==
  {seq \in [1 .. n -> T] : \A i, j \in 1 .. n : i < j => Hash[seq[i]] < Hash[seq[j]]}

\* The player of the least hash goes before the others in their order.
LEMMA FirstInOrder ==
  ASSUME NEW n \in Nat, NEW T \in SUBSET Players, NEW first \in T,
         \A p \in T : Hash[first] <= Hash[p],
         NEW seq \in InOrder(n, T \ {first})
  PROVE  InOrder(n + 1, T) # {}
<1> DEFINE longer == [i \in 1 .. n + 1 |-> IF i = 1 THEN first ELSE seq[i - 1]]
<1>1. seq \in [1 .. n -> T \ {first}]
      /\ \A i, j \in 1 .. n : i < j => Hash[seq[i]] < Hash[seq[j]]
  BY DEF InOrder
<1>2. \A i \in 1 .. n + 1 : i = 1 \/ i - 1 \in 1 .. n
  OBVIOUS
<1>3. longer \in [1 .. n + 1 -> T]
  BY <1>1, <1>2
<1>4. ASSUME NEW i \in 1 .. n + 1, NEW j \in 1 .. n + 1, i < j
      PROVE  Hash[longer[i]] < Hash[longer[j]]
  <2>1. j - 1 \in 1 .. n /\ longer[j] = seq[j - 1] /\ seq[j - 1] \in T \ {first}
    BY <1>1, <1>4
  <2>2. CASE i = 1
    <3>1. longer[i] = first
      BY <2>2
    <3>2. PICK other \in T \ {first} : other = seq[j - 1]
      BY <2>1
    <3>3. first \in Players /\ other \in Players /\ first # other
      OBVIOUS
    <3>4. Hash[first] \in Nat /\ Hash[other] \in Nat /\ Hash[first] # Hash[other]
      BY <3>3, ArcadeResultsAssumption
    <3>5. Hash[first] <= Hash[other]
      OBVIOUS
    <3>6. Hash[first] < Hash[other]
      BY <3>4, <3>5
    <3>7. QED
      BY <2>1, <3>1, <3>2, <3>6
  <2>3. CASE i # 1
    <3>1. i - 1 \in 1 .. n /\ longer[i] = seq[i - 1] /\ i - 1 < j - 1
      BY <1>4, <2>3
    <3>2. QED
      BY <1>1, <2>1, <3>1
  <2>4. QED
    BY <2>2, <2>3
<1> HIDE DEF longer
<1>5. longer \in InOrder(n + 1, T)
  BY <1>3, <1>4 DEF InOrder
<1>6. QED
  BY <1>5

LEMMA OrderExists ==
  \A n \in Nat : \A T \in SUBSET Players : Cardinality(T) = n => InOrder(n, T) # {}
<1> DEFINE S == {n \in Nat : \A T \in SUBSET Players : Cardinality(T) = n => InOrder(n, T) # {}}
<1>1. 0 \in S
  <2>1. ASSUME NEW T PROVE <<>> \in InOrder(0, T)
    <3>1. <<>> \in [1 .. 0 -> T]
      OBVIOUS
    <3>2. QED
      BY <3>1 DEF InOrder
  <2>2. QED
    BY <2>1
<1>2. ASSUME NEW n \in S PROVE n + 1 \in S
  <2>1. SUFFICES ASSUME NEW T \in SUBSET Players, Cardinality(T) = n + 1
                 PROVE  InOrder(n + 1, T) # {}
    OBVIOUS
  <2>2. IsFiniteSet(T) /\ n \in Nat
    BY FS_Subset, ArcadeResultsAssumption
  <2>3. PICK first \in T : \A p \in T : Hash[first] <= Hash[p]
    <3>1. PICK hashes : hashes = {Hash[p] : p \in T}
      OBVIOUS
    <3>2. hashes \subseteq Nat
      BY <3>1, ArcadeResultsAssumption
    <3>3. T # {}
      BY <2>1, <2>2, FS_EmptySet
    <3>4. hashes # {}
      BY <3>1, <3>3
    <3>5. PICK x \in hashes : \A y \in hashes : x <= y
      BY <3>2, <3>4, LeastNat
    <3>6. QED
      BY <3>1, <3>5
  <2>4. PICK seq : seq \in InOrder(n, T \ {first})
    <3>1. Cardinality(T \ {first}) = n
      BY <2>1, <2>2, FS_RemoveElement
    <3>2. T \ {first} \in SUBSET Players
      OBVIOUS
    <3>3. QED
      BY <3>1, <3>2
  <2>5. QED
    BY <2>2, <2>3, <2>4, FirstInOrder
<1>3. S \subseteq Nat
  OBVIOUS
<1>4. \A n \in Nat : n \in S
  <2> HIDE DEF S
  <2>1. QED
    BY <1>1, <1>2, <1>3, Inductive
<1>5. QED
  BY <1>4

\* The sorted leaves hold every winner once.
LEMMA SortedIs ==
  ASSUME NEW W \in Outcomes
  PROVE  \E n \in Nat \ {0} :
           /\ n = Cardinality(W) /\ Sorted(W) \in [1 .. n -> W]
           /\ \A i, j \in 1 .. n : Sorted(W)[i] = Sorted(W)[j] => i = j
           /\ \A p \in W : \E i \in 1 .. n : Sorted(W)[i] = p
<1>1. W \in SUBSET Players /\ W # {} /\ IsFiniteSet(W)
  BY FS_Subset, ArcadeResultsAssumption
<1>2. PICK n \in Nat \ {0} : n = Cardinality(W)
  BY <1>1, FS_CardinalityType, FS_EmptySet
<1>3. PICK sorted : sorted \in InOrder(n, W)
  BY <1>1, <1>2, OrderExists
<1>4. \A seq \in InOrder(n, W) : seq \in SetToSeqs(W)
  <2>1. SUFFICES ASSUME NEW seq \in InOrder(n, W), NEW i \in 1 .. n, NEW j \in 1 .. n,
                        i # j, seq[i] = seq[j]
                 PROVE  FALSE
    BY <1>2 DEF InOrder, SetToSeqs
  <2>2. seq[i] \in Players /\ Hash[seq[i]] \in Nat
    BY <1>1, ArcadeResultsAssumption DEF InOrder
  <2>3. i < j \/ j < i
    BY <2>1
  <2>4. QED
    BY <2>1, <2>2, <2>3 DEF InOrder
<1>5. Sorted(W) \in SetToSeqs(W)
      /\ \A i, j \in DOMAIN Sorted(W) : i < j => Hash[Sorted(W)[i]] < Hash[Sorted(W)[j]]
  <2>1. sorted \in SetToSeqs(W) /\ \A i, j \in DOMAIN sorted : i < j => Hash[sorted[i]] < Hash[sorted[j]]
    BY <1>3, <1>4 DEF InOrder
  <2>2. QED
    BY <2>1 DEF Sorted
<1>6. /\ Sorted(W) \in [1 .. n -> W]
      /\ \A i, j \in 1 .. n : Sorted(W)[i] = Sorted(W)[j] => i = j
  BY <1>2, <1>5 DEF SetToSeqs
<1>7. \A p \in W : \E i \in 1 .. n : Sorted(W)[i] = p
  <2>1. Sorted(W) \in Injection(1 .. n, W)
    BY <1>6 DEF Injection, IsInjective
  <2>2. Cardinality(1 .. n) = Cardinality(W)
    BY <1>2, FS_Interval
  <2>3. Sorted(W) \in Surjection(1 .. n, W)
    BY <1>1, <2>1, <2>2, FS_Injection
  <2>4. QED
    BY <2>3 DEF Surjection
<1>8. QED
  BY <1>2, <1>6, <1>7

LEMMA PositionIs ==
  ASSUME NEW W \in Outcomes, NEW p \in W
  PROVE  \E i \in 1 .. Cardinality(W) : Sorted(W)[i] = p /\ Position(p, W) = i - 1
<1>1. PICK n \in Nat \ {0} :
        /\ n = Cardinality(W) /\ Sorted(W) \in [1 .. n -> W]
        /\ \A i, j \in 1 .. n : Sorted(W)[i] = Sorted(W)[j] => i = j
        /\ \A q \in W : \E i \in 1 .. n : Sorted(W)[i] = q
  BY SortedIs
<1>2. DOMAIN Sorted(W) = 1 .. n
  BY <1>1
<1>3. PICK i \in 1 .. n : Sorted(W)[i] = p
  BY <1>1
<1>4. (CHOOSE j \in DOMAIN Sorted(W) : Sorted(W)[j] = p) = i
  BY <1>1, <1>2, <1>3
<1>5. QED
  BY <1>1, <1>3, <1>4 DEF Position

\* One level up: the nodes above, and the place there of the node one follows.
Up(x) == <<Above(x[1]), x[2] \div 2>>

\* The levels and the places exist as the recursive definitions have them.
LEMMA ClimbExists ==
  ASSUME NEW a
  PROVE  \E f : f = [h \in Nat |-> IF h = 0 THEN a ELSE Up(f[h - 1])]
<1> DEFINE Upto(n, g) == /\ g[0] = a
                         /\ \A k \in Nat : k < n => g[k + 1] = Up(g[k])
<1>1. \A n \in Nat : \E g : Upto(n, g)
  <2> DEFINE S == {n \in Nat : \E g : Upto(n, g)}
  <2>1. 0 \in S
    <3>1. Upto(0, [k \in Nat |-> a])
      OBVIOUS
    <3>2. QED
      BY <3>1
  <2>2. \A n \in S : n + 1 \in S
    <3>1. TAKE n \in S
    <3>2. PICK g : Upto(n, g)
      OBVIOUS
    <3> DEFINE h == [k \in Nat |-> IF k = 0 THEN a ELSE Up(g[k - 1])]
    <3>3. \A k \in Nat : k < n + 1 => h[k] = g[k]
      <4>1. TAKE k \in Nat
      <4>2. CASE k = 0
        BY <3>2, <4>2
      <4>3. CASE k # 0
        <5>1. k - 1 \in Nat /\ (k - 1) + 1 = k /\ (k < n + 1 => k - 1 < n)
          BY <4>3
        <5>2. k < n + 1 => g[k] = Up(g[k - 1])
          BY <3>2, <5>1
        <5>3. QED
          BY <4>3, <5>2
      <4>4. QED
        BY <4>2, <4>3
    <3>4. Upto(n + 1, h)
      <4>1. h[0] = a
        OBVIOUS
      <4>2. \A k \in Nat : h[k + 1] = Up(g[k])
        OBVIOUS
      <4>3. QED
        BY <3>3, <4>1, <4>2
    <3>5. n + 1 \in Nat
      OBVIOUS
    <3> HIDE DEF Upto, h
    <3>6. QED
      BY <3>4, <3>5
  <2>3. S \subseteq Nat
    OBVIOUS
  <2>4. \A n \in Nat : n \in S
    <3> HIDE DEF S
    <3>1. QED
      BY <2>1, <2>2, <2>3, Inductive
  <2>5. QED
    BY <2>4
<1>2. ASSUME NEW n \in Nat, NEW m \in Nat, NEW g, NEW h, Upto(n, g), Upto(m, h)
      PROVE  \A k \in Nat : k <= n /\ k <= m => g[k] = h[k]
  <2> DEFINE S == {k \in Nat : k <= n /\ k <= m => g[k] = h[k]}
  <2>1. 0 \in S
    BY <1>2
  <2>2. \A k \in S : k + 1 \in S
    BY <1>2
  <2>3. S \subseteq Nat
    OBVIOUS
  <2>4. \A k \in Nat : k \in S
    <3> HIDE DEF S
    <3>1. QED
      BY <2>1, <2>2, <2>3, Inductive
  <2>5. QED
    BY <2>4
<1> DEFINE some(n) == CHOOSE g : Upto(n, g)
           f == [n \in Nat |-> some(n)[n]]
<1>3. \A n \in Nat : Upto(n, some(n))
  BY <1>1
<1> HIDE DEF some
<1>4. f[0] = a
  BY <1>3
<1>5. ASSUME NEW n \in Nat PROVE f[n + 1] = Up(f[n])
  <2>1. n + 1 \in Nat /\ n < n + 1
    OBVIOUS
  <2>2. some(n + 1)[n + 1] = Up(some(n + 1)[n])
    BY <1>3, <2>1
  <2>3. some(n + 1)[n] = some(n)[n]
    <3>1. Upto(n + 1, some(n + 1)) /\ Upto(n, some(n))
      BY <1>3, <2>1
    <3> HIDE DEF Upto
    <3>2. QED
      BY <1>2, <2>1, <3>1
  <2>4. QED
    BY <2>1, <2>2, <2>3
<1>6. \A n \in Nat : f[n] = IF n = 0 THEN a ELSE Up(f[n - 1])
  <2>1. TAKE n \in Nat
  <2>2. CASE n = 0
    BY <1>4, <2>2
  <2>3. CASE n # 0
    <3>1. n - 1 \in Nat /\ (n - 1) + 1 = n
      BY <2>3
    <3>2. f[(n - 1) + 1] = Up(f[n - 1])
      BY <1>5, <3>1
    <3>3. QED
      BY <2>3, <3>1, <3>2
  <2>4. QED
    BY <2>2, <2>3
<1>7. f = [n \in Nat |-> IF n = 0 THEN a ELSE Up(f[n - 1])]
  BY <1>6
<1>8. QED
  BY <1>7

Leaves(W) == [i \in DOMAIN Sorted(W) |-> Leaf(Sorted(W)[i])]

LevelsOf(W) ==
  CHOOSE level : level = [h \in Nat |-> IF h = 0 THEN Leaves(W) ELSE Above(level[h - 1])]

PlacesOf(p, W) ==
  CHOOSE index : index = [h \in Nat |-> IF h = 0 THEN Position(p, W) ELSE index[h - 1] \div 2]

LEMMA LevelsAre ==
  ASSUME NEW W
  PROVE  Levels(W) = LevelsOf(W)
BY Zenon DEF Levels, LevelsOf, Leaves

LEMMA LevelIs ==
  ASSUME NEW W
  PROVE  /\ Levels(W)[0] = Leaves(W)
         /\ \A h \in Nat : Levels(W)[h + 1] = Above(Levels(W)[h])
<1>1. PICK f : f = [h \in Nat |-> IF h = 0 THEN <<Leaves(W), 0>> ELSE Up(f[h - 1])]
  BY ClimbExists
<1> DEFINE g == [h \in Nat |-> f[h][1]]
<1>2. \A h \in Nat : g[h] = IF h = 0 THEN Leaves(W) ELSE Above(g[h - 1])
  <2>1. TAKE h \in Nat
  <2>2. CASE h = 0
    BY <1>1, <2>2
  <2>3. CASE h # 0
    <3>1. h - 1 \in Nat
      BY <2>3
    <3>2. f[h] = Up(f[h - 1])
      BY <1>1, <2>3
    <3>3. QED
      BY <2>3, <3>1, <3>2 DEF Up
  <2>4. QED
    BY <2>2, <2>3
<1>3. g = [h \in Nat |-> IF h = 0 THEN Leaves(W) ELSE Above(g[h - 1])]
  BY <1>2
<1> HIDE DEF g
<1>4. LevelsOf(W) = [h \in Nat |-> IF h = 0 THEN Leaves(W) ELSE Above(LevelsOf(W)[h - 1])]
  BY <1>3, Zenon DEF LevelsOf
<1>5. PICK l : l = LevelsOf(W)
  OBVIOUS
<1>6. l = [h \in Nat |-> IF h = 0 THEN Leaves(W) ELSE Above(l[h - 1])]
  BY <1>4, <1>5
<1>7. \A h \in Nat : h + 1 \in Nat /\ h + 1 # 0 /\ (h + 1) - 1 = h
  OBVIOUS
<1>8. l[0] = Leaves(W) /\ \A h \in Nat : l[h + 1] = Above(l[h])
  BY <1>6, <1>7
<1>9. QED
  BY <1>5, <1>8, LevelsAre

LEMMA PlaceIs ==
  ASSUME NEW p, NEW W
  PROVE  /\ PlacesOf(p, W)[0] = Position(p, W)
         /\ \A h \in Nat : PlacesOf(p, W)[h + 1] = PlacesOf(p, W)[h] \div 2
<1>1. PICK f : f = [h \in Nat |-> IF h = 0 THEN <<0, Position(p, W)>> ELSE Up(f[h - 1])]
  BY ClimbExists
<1> DEFINE g == [h \in Nat |-> f[h][2]]
<1>2. \A h \in Nat : g[h] = IF h = 0 THEN Position(p, W) ELSE g[h - 1] \div 2
  <2>1. TAKE h \in Nat
  <2>2. CASE h = 0
    BY <1>1, <2>2
  <2>3. CASE h # 0
    <3>1. h - 1 \in Nat
      BY <2>3
    <3>2. f[h] = Up(f[h - 1])
      BY <1>1, <2>3
    <3>3. QED
      BY <2>3, <3>1, <3>2 DEF Up
  <2>4. QED
    BY <2>2, <2>3
<1>3. g = [h \in Nat |-> IF h = 0 THEN Position(p, W) ELSE g[h - 1] \div 2]
  BY <1>2
<1> HIDE DEF g
<1>4. PICK x : x = PlacesOf(p, W)
  OBVIOUS
<1>5. x = [h \in Nat |-> IF h = 0 THEN Position(p, W) ELSE x[h - 1] \div 2]
  BY <1>3, <1>4, Zenon DEF PlacesOf
<1>6. \A h \in Nat : h + 1 \in Nat /\ h + 1 # 0 /\ (h + 1) - 1 = h
  OBVIOUS
<1>7. x[0] = Position(p, W) /\ \A h \in Nat : x[h + 1] = x[h] \div 2
  BY <1>5, <1>6
<1>8. QED
  BY <1>4, <1>7

-----------------------------------------------------------------------------
(* The check of a claim, a fold over the prefixes of the proof.              *)

LEMMA MaxIs ==
  ASSUME NEW n \in Nat, NEW T, T \subseteq 0 .. n, T # {}
  PROVE  Max(T) \in T /\ \A y \in T : Max(T) >= y
<1>1. \E x \in T : \A y \in T : x >= y
  <2>1. PICK z \in {n - x : x \in T} : \A y \in {n - x : x \in T} : z <= y
    <3>1. {n - x : x \in T} \subseteq Nat
      OBVIOUS
    <3>2. {n - x : x \in T} # {}
      OBVIOUS
    <3>3. QED
      BY <3>1, <3>2, LeastNat
  <2>2. PICK x \in T : z = n - x
    BY <2>1
  <2>3. \A y \in T : n - x <= n - y
    BY <2>1, <2>2
  <2>4. QED
    BY <2>3
<1>2. QED
  BY <1>1 DEF Max

LEMMA MaxOfIndices ==
  ASSUME NEW n \in Nat
  PROVE  \A s \in SUBSET (1 .. n) : s # {} => Max(s) \in s /\ \A y \in s : y <= Max(s)
<1>1. TAKE s \in SUBSET (1 .. n)
<1>2. HAVE s # {}
<1>3. s \subseteq 0 .. n
  OBVIOUS
<1>4. Max(s) \in s /\ \A y \in s : Max(s) >= y
  BY <1>2, <1>3, MaxIs
<1>5. QED
  BY <1>3, <1>4

\* Without its largest index, the prefix 1 .. k + 1 is the prefix 1 .. k.
UpToNext(n, k) ==
  /\ 1 .. k + 1 \in SUBSET (1 .. n) /\ 1 .. k + 1 # {}
  /\ Max(1 .. k + 1) = k + 1
  /\ (1 .. k + 1) \ {k + 1} = 1 .. k

LEMMA NextPrefix ==
  ASSUME NEW n \in Nat, NEW k \in Nat, k + 1 <= n
  PROVE  UpToNext(n, k)
<1>1. 1 .. k + 1 \in SUBSET (1 .. n)
  OBVIOUS
<1>2. k + 1 \in 1 .. k + 1 /\ \A y \in 1 .. k + 1 : y <= k + 1
  OBVIOUS
<1>3. 1 .. k + 1 # {}
  BY <1>2
<1>4. PICK s : s = 1 .. k + 1
  OBVIOUS
<1>5. Max(s) \in s /\ \A y \in s : y <= Max(s)
  BY <1>1, <1>3, <1>4, MaxOfIndices
<1>6. Max(s) = k + 1
  <2>1. k + 1 <= Max(s) /\ Max(s) <= k + 1 /\ Max(s) \in Int
    BY <1>1, <1>4, <1>5
  <2>2. QED
    BY <2>1
<1>7. (1 .. k + 1) \ {k + 1} = 1 .. k
  <2>1. \A x : x \in (1 .. k + 1) \ {k + 1} <=> x \in 1 .. k
    OBVIOUS
  <2>2. QED
    BY <2>1
<1>8. Max(1 .. k + 1) = k + 1
  BY <1>4, <1>6
<1>9. QED
  BY <1>1, <1>3, <1>7, <1>8, Zenon DEF UpToNext


\* Hashing what `proof` holds at the indices of a set from the leaf of p on,
\* the largest index last.
Hashes(g, S, p, proof) ==
  g = [s \in SUBSET S |->
         IF s = {} THEN Leaf(p) ELSE HashPair(g[s \ {Max(s)}], proof[Max(s)])]

HashedOf(p, proof) == CHOOSE iter : Hashes(iter, DOMAIN proof, p, proof)

LEMMA VerifiesIs ==
  ASSUME NEW p, NEW proof, NEW root
  PROVE  Verifies(p, proof, root) <=> HashedOf(p, proof)[DOMAIN proof] = root
BY DEF Verifies, FoldLeft, MapThenFoldSet, HashedOf, Hashes

LEMMA HashesExist ==
  ASSUME NEW n \in Nat, NEW p, NEW proof
  PROVE  \E g : Hashes(g, 1 .. n, p, proof)
<1> DEFINE D == 1 .. n
           At(g, s) == IF s = {} THEN Leaf(p) ELSE HashPair(g[s \ {Max(s)}], proof[Max(s)])
           Upto(k, g) == \A s \in SUBSET D : s \subseteq 1 .. k => g[s] = At(g, s)
           S == {k \in Nat : \E g : Upto(k, g)}
<1>1. \A s \in SUBSET D : s # {} => Max(s) \in s /\ \A y \in s : y <= Max(s)
  BY MaxOfIndices
<1>2. 0 \in S
  <2> DEFINE g == [s \in SUBSET D |-> Leaf(p)]
  <2>1. Upto(0, g)
    <3>1. \A s \in SUBSET D : s \subseteq 1 .. 0 => s = {}
      OBVIOUS
    <3>2. QED
      BY <3>1
  <2> HIDE DEF g, Upto
  <2>2. QED
    BY <2>1
<1>3. \A k \in S : k + 1 \in S
  <2>1. TAKE k \in S
  <2>2. PICK g : Upto(k, g)
    OBVIOUS
  <2>3. k \in Nat
    OBVIOUS
  <2> DEFINE h == [s \in SUBSET D |-> At(g, s)]
  <2>4. \A s \in SUBSET D : s \subseteq 1 .. k => h[s] = g[s]
    BY <2>2
  <2>5. Upto(k + 1, h)
    <3>1. SUFFICES ASSUME NEW s \in SUBSET D, s \subseteq 1 .. k + 1
                   PROVE  h[s] = At(h, s)
      OBVIOUS
    <3>2. CASE s = {}
      BY <3>2
    <3>3. CASE s # {}
      <4>1. Max(s) \in s /\ \A y \in s : y <= Max(s)
        BY <1>1, <3>3
      <4>2. s \ {Max(s)} \subseteq 1 .. k
        <5>1. PICK m \in s : m = Max(s) /\ \A y \in s : y <= m
          BY <4>1
        <5>2. \A y \in s \ {m} : y \in 1 .. k
          BY <2>3, <3>1, <5>1
        <5>3. QED
          BY <5>1, <5>2
      <4>3. h[s \ {Max(s)}] = g[s \ {Max(s)}]
        BY <2>4, <4>2
      <4>4. QED
        BY <3>3, <4>3
    <3>4. QED
      BY <3>2, <3>3
  <2>6. k + 1 \in Nat
    BY <2>3
  <2> HIDE DEF h, Upto
  <2>7. QED
    BY <2>5, <2>6
<1>4. n \in S
  <2>1. S \subseteq Nat
    OBVIOUS
  <2> HIDE DEF S
  <2>2. QED
    BY <1>2, <1>3, <2>1, Inductive
<1>5. PICK g : Upto(n, g)
  BY <1>4
<1>6. PICK h : h = [s \in SUBSET D |-> g[s]]
  OBVIOUS
<1>7. \A s \in SUBSET D : h[s] = At(h, s)
  <2>1. \A s \in SUBSET D : g[s] = At(g, s)
    BY <1>5
  <2>2. \A s \in SUBSET D : s \ {Max(s)} \in SUBSET D
    OBVIOUS
  <2>3. QED
    BY <1>6, <2>1, <2>2
<1>8. h = [s \in SUBSET D |-> At(h, s)]
  <2> HIDE DEF At
  <2>1. QED
    BY <1>6, <1>7
<1>9. QED
  BY <1>8 DEF Hashes

\* Each entry of the proof is hashed with what the entries before it give.
LEMMA HashedIs ==
  ASSUME NEW n \in Nat, NEW p, NEW proof, DOMAIN proof = 1 .. n
  PROVE  /\ HashedOf(p, proof)[1 .. 0] = Leaf(p)
         /\ \A k \in Nat : k + 1 <= n =>
              HashedOf(p, proof)[1 .. k + 1]
                = HashPair(HashedOf(p, proof)[1 .. k], proof[k + 1])
<1>1. PICK iter : iter = HashedOf(p, proof)
  OBVIOUS
<1>2. Hashes(iter, DOMAIN proof, p, proof)
  <2>1. PICK g : Hashes(g, DOMAIN proof, p, proof)
    BY HashesExist
  <2>2. QED
    BY <1>1, <2>1, Zenon DEF HashedOf
<1>3. iter = [s \in SUBSET (1 .. n) |->
                IF s = {} THEN Leaf(p) ELSE HashPair(iter[s \ {Max(s)}], proof[Max(s)])]
  BY <1>2 DEF Hashes
<1>4. iter[1 .. 0] = Leaf(p)
  <2>1. 1 .. 0 = {} /\ 1 .. 0 \in SUBSET (1 .. n)
    OBVIOUS
  <2>2. QED
    BY <1>3, <2>1
<1>5. ASSUME NEW k \in Nat, k + 1 <= n
      PROVE  iter[1 .. k + 1] = HashPair(iter[1 .. k], proof[k + 1])
  <2>1. UpToNext(n, k)
    BY <1>5, NextPrefix
  <2>2. QED
    BY <1>3, <2>1 DEF UpToNext
<1>6. QED
  BY <1>1, <1>4, <1>5

-----------------------------------------------------------------------------
\* A level of n nodes, all of them h above the leaves.
IsLevel(level, n, h) ==
  /\ DOMAIN level = 1 .. n /\ Len(level) = n
  /\ \A i \in 1 .. n : level[i].height = h

Sibling(x) == IF x % 2 = 0 THEN x + 1 ELSE x - 1

\* What buildMerkleProof pushes for the place x of a level.
Pushed(level, x) ==
  IF Sibling(x) < Len(level) THEN level[Sibling(x) + 1] ELSE level[x + 1]

LEMMA Halves ==
  ASSUME NEW x \in Nat
  PROVE  \E y \in Nat : /\ x \div 2 = y
                        /\ \/ x % 2 = 0 /\ x = 2 * y
                           \/ x % 2 = 1 /\ x = 2 * y + 1
OBVIOUS

LEMMA AboveIs ==
  ASSUME NEW n \in Nat \ {0}, NEW h \in Nat, NEW level, IsLevel(level, n, h)
  PROVE  IsLevel(Above(level), (n + 1) \div 2, h + 1)
<1>1. PICK m \in Nat : m = (n + 1) \div 2 /\ (n + 1 = 2 * m \/ n + 1 = 2 * m + 1)
  BY Halves
<1>2. Len(level) = n
  BY DEF IsLevel
<1>3. Above(level) = [i \in 1 .. m |->
                        HashPair(level[2 * i - 1],
                                 IF 2 * i <= Len(level) THEN level[2 * i] ELSE level[2 * i - 1])]
  BY <1>1, <1>2 DEF Above
<1>4. DOMAIN Above(level) = 1 .. m
  BY <1>3
<1>5. Len(Above(level)) = m
  BY <1>3
<1>6. ASSUME NEW i \in 1 .. m PROVE Above(level)[i].height = h + 1
  <2>1. 2 * i - 1 \in 1 .. n
    BY <1>1
  <2>2. level[2 * i - 1].height = h
    BY <2>1 DEF IsLevel
  <2>3. QED
    BY <1>3, <2>2 DEF HashPair
<1>7. QED
  BY <1>1, <1>4, <1>5, <1>6 DEF IsLevel

\* The node of place x hashed with what is pushed is the node above.
LEMMA PushedHashes ==
  ASSUME NEW n \in Nat \ {0}, NEW h \in Nat, NEW level, IsLevel(level, n, h),
         NEW x \in 0 .. n - 1
  PROVE  /\ x \div 2 \in 0 .. ((n + 1) \div 2) - 1
         /\ HashPair(level[x + 1], Pushed(level, x)) = Above(level)[(x \div 2) + 1]
<1>1. PICK m \in Nat : m = (n + 1) \div 2 /\ (n + 1 = 2 * m \/ n + 1 = 2 * m + 1)
  BY Halves
<1>2. PICK y \in Nat : /\ x \div 2 = y
                       /\ \/ x % 2 = 0 /\ x = 2 * y
                          \/ x % 2 = 1 /\ x = 2 * y + 1
  BY Halves
<1>3. y \in 0 .. m - 1 /\ y + 1 \in 1 .. m /\ 2 * (y + 1) - 1 = 2 * y + 1 /\ 2 * (y + 1) = 2 * y + 2
  BY <1>1, <1>2
<1>4. Len(level) = n
  BY DEF IsLevel
<1>5. Above(level)[y + 1] =
        HashPair(level[2 * y + 1], IF 2 * y + 2 <= n THEN level[2 * y + 2] ELSE level[2 * y + 1])
  BY <1>1, <1>3, <1>4 DEF Above
<1>6. HashPair(level[x + 1], Pushed(level, x)) = Above(level)[y + 1]
  <2>1. CASE x % 2 = 0 /\ x = 2 * y
    <3>1. Sibling(x) = 2 * y + 1 /\ Sibling(x) + 1 = 2 * y + 2 /\ x + 1 = 2 * y + 1
      BY <2>1 DEF Sibling
    <3>2. 2 * y + 1 < n <=> 2 * y + 2 <= n
      OBVIOUS
    <3>3. Pushed(level, x) = IF 2 * y + 2 <= n THEN level[2 * y + 2] ELSE level[2 * y + 1]
      BY <1>4, <3>1, <3>2 DEF Pushed
    <3>4. QED
      BY <1>5, <3>1, <3>3
  <2>2. CASE x % 2 = 1 /\ x = 2 * y + 1
    <3>1. Sibling(x) = 2 * y /\ Sibling(x) + 1 = 2 * y + 1 /\ x + 1 = 2 * y + 2
      BY <2>2 DEF Sibling
    <3>2. 2 * y < n /\ 2 * y + 2 <= n /\ 2 * y + 1 \in 1 .. n /\ 2 * y + 2 \in 1 .. n
      BY <2>2
    <3>3. Pushed(level, x) = level[2 * y + 1]
      BY <1>4, <3>1, <3>2 DEF Pushed
    <3>4. level[2 * y + 1].height = h /\ level[2 * y + 2].height = h
      BY <3>2 DEF IsLevel
    <3>5. {level[2 * y + 1], level[2 * y + 2]} = {level[2 * y + 2], level[2 * y + 1]}
      OBVIOUS
    <3>6. HashPair(level[2 * y + 2], level[2 * y + 1]) = HashPair(level[2 * y + 1], level[2 * y + 2])
      BY <3>4, <3>5 DEF HashPair
    <3>7. QED
      BY <1>5, <3>1, <3>2, <3>3, <3>6
  <2>3. QED
    BY <1>2, <2>1, <2>2
<1>7. QED
  BY <1>1, <1>2, <1>3, <1>6

\* The levels of the tree: each has a node at least, and until one has a single
\* node each has fewer than the one below.
LEMMA LevelLengths ==
  ASSUME NEW W \in Outcomes
  PROVE  /\ Cardinality(W) \in Nat \ {0}
         /\ \A h \in Nat : \E n \in Nat \ {0} :
              IsLevel(Levels(W)[h], n, h) /\ (n = 1 \/ n + h <= Cardinality(W))
<1>1. PICK N \in Nat \ {0} : N = Cardinality(W) /\ Sorted(W) \in [1 .. N -> W]
  BY SortedIs
<1>2. PICK l : l = Levels(W) /\ l[0] = Leaves(W) /\ \A h \in Nat : l[h + 1] = Above(l[h])
  BY LevelIs
<1> DEFINE S == {h \in Nat : \E n \in Nat \ {0} : IsLevel(l[h], n, h) /\ (n = 1 \/ n + h <= N)}
<1>3. 0 \in S
  <2>1. l[0] = [i \in 1 .. N |-> Leaf(Sorted(W)[i])]
    BY <1>1, <1>2 DEF Leaves
  <2>2. DOMAIN l[0] = 1 .. N /\ Len(l[0]) = N
    BY <2>1
  <2>3. \A i \in 1 .. N : l[0][i].height = 0
    BY <2>1 DEF Leaf
  <2>4. IsLevel(l[0], N, 0)
    BY <2>2, <2>3 DEF IsLevel
  <2>5. QED
    BY <2>4
<1>4. \A h \in S : h + 1 \in S
  <2>1. TAKE h \in S
  <2>2. PICK n \in Nat \ {0} : IsLevel(l[h], n, h) /\ (n = 1 \/ n + h <= N)
    OBVIOUS
  <2>3. PICK m \in Nat : m = (n + 1) \div 2 /\ (n + 1 = 2 * m \/ n + 1 = 2 * m + 1)
    BY Halves
  <2>4. m \in Nat \ {0} /\ (m = 1 \/ m + (h + 1) <= N)
    BY <2>2, <2>3
  <2>5. IsLevel(l[h + 1], m, h + 1)
    BY <1>2, <2>2, <2>3, AboveIs
  <2>6. QED
    BY <2>4, <2>5
<1>5. S \subseteq Nat
  OBVIOUS
<1>6. \A h \in Nat : h \in S
  <2> HIDE DEF S
  <2>1. QED
    BY <1>3, <1>4, <1>5, Inductive
<1>7. QED
  BY <1>1, <1>2, <1>6

\* The tree ends at the first level of a single node.
LEMMA HeightIs ==
  ASSUME NEW W \in Outcomes
  PROVE  \E m \in Nat : Height(W) = m /\ Len(Levels(W)[m]) = 1
<1>1. PICK l : l = Levels(W)
  OBVIOUS
<1>2. PICK N \in Nat \ {0} :
        /\ N = Cardinality(W)
        /\ \A h \in Nat : \E n \in Nat \ {0} : IsLevel(l[h], n, h) /\ (n = 1 \/ n + h <= N)
  BY <1>1, LevelLengths
<1>3. \A h \in Nat : Len(l[h]) \in Nat \ {0} /\ (Len(l[h]) = 1 \/ Len(l[h]) + h <= N)
  BY <1>2 DEF IsLevel
<1> DEFINE T == {h \in Nat : Len(l[h]) = 1}
<1>4. N \in T
  BY <1>3
<1>5. PICK m \in T : \A h \in T : m <= h
  <2>1. T \subseteq Nat /\ T # {}
    BY <1>4
  <2> HIDE DEF T
  <2>2. QED
    BY <2>1, LeastNat
<1>6. m \in 0 .. N
  BY <1>4, <1>5
<1>7. \A k \in 0 .. m - 1 : Len(l[k]) > 1
  <2>1. TAKE k \in 0 .. m - 1
  <2>2. k \in Nat /\ ~ (m <= k)
    BY <1>5
  <2>3. Len(l[k]) # 1
    BY <1>5, <2>2
  <2>4. Len(l[k]) \in Nat \ {0}
    BY <1>3, <2>2
  <2>5. \A c \in Nat \ {0} : c # 1 => c > 1
    OBVIOUS
  <2>6. QED
    BY <2>3, <2>4, <2>5
<1>8. \A h \in 0 .. N : (Len(l[h]) = 1 /\ \A k \in 0 .. h - 1 : Len(l[k]) > 1) => h = m
  <2>1. TAKE h \in 0 .. N
  <2>2. HAVE Len(l[h]) = 1 /\ \A k \in 0 .. h - 1 : Len(l[k]) > 1
  <2>3. m <= h /\ Len(l[m]) = 1
    BY <1>5, <2>2
  <2>4. ~ (m \in 0 .. h - 1)
    <3>1. m \in 0 .. h - 1 => Len(l[m]) > 1
      BY <2>2
    <3>2. ~ (1 > 1)
      OBVIOUS
    <3>3. QED
      BY <2>3, <3>1, <3>2
  <2>5. QED
    BY <1>6, <2>3, <2>4
<1>9. Height(W) = m
  <2>1. \E h \in 0 .. N : Len(l[h]) = 1 /\ \A k \in 0 .. h - 1 : Len(l[k]) > 1
    BY <1>5, <1>6, <1>7
  <2>2. Height(W) = CHOOSE h \in 0 .. N : Len(l[h]) = 1 /\ \A k \in 0 .. h - 1 : Len(l[k]) > 1
    BY <1>1, <1>2 DEF Height
  <2>3. QED
    BY <1>8, <2>1, <2>2
<1>10. QED
  BY <1>1, <1>5, <1>9

LEMMA ProofIs ==
  ASSUME NEW p, NEW W
  PROVE  Proof(p, W) =
           [k \in 1 .. Height(W) |-> Pushed(Levels(W)[k - 1], PlacesOf(p, W)[k - 1])]
BY DEF Proof, PlacesOf, Pushed, Sibling

\* The proof of a winner leads from her leaf to the root of the tree.
LEMMA ProofVerifies ==
  ASSUME NEW W \in Outcomes, NEW p \in W
  PROVE  Verifies(p, Proof(p, W), Root(W))
<1>1. PICK l : l = Levels(W) /\ l[0] = Leaves(W) /\ \A h \in Nat : l[h + 1] = Above(l[h])
  BY LevelIs
<1>2. PICK x : /\ x = PlacesOf(p, W)
               /\ x[0] = Position(p, W) /\ \A h \in Nat : x[h + 1] = x[h] \div 2
  BY PlaceIs
<1>3. PICK m \in Nat : Height(W) = m /\ Len(l[m]) = 1
  BY <1>1, HeightIs
<1>4. PICK proof : proof = Proof(p, W)
  OBVIOUS
<1>5. proof = [k \in 1 .. m |-> Pushed(l[k - 1], x[k - 1])]
  BY <1>1, <1>2, <1>3, <1>4, ProofIs
<1>6. DOMAIN proof = 1 .. m
  BY <1>5
<1>7. PICK iter : /\ iter = HashedOf(p, proof) /\ iter[1 .. 0] = Leaf(p)
                  /\ \A k \in Nat : k + 1 <= m => iter[1 .. k + 1] = HashPair(iter[1 .. k], proof[k + 1])
  BY <1>6, HashedIs
<1>8. PICK N \in Nat \ {0} :
        /\ N = Cardinality(W) /\ Sorted(W) \in [1 .. N -> W]
        /\ \A i, j \in 1 .. N : Sorted(W)[i] = Sorted(W)[j] => i = j
        /\ \A q \in W : \E i \in 1 .. N : Sorted(W)[i] = q
  BY SortedIs
<1> DEFINE At(h) == \E n \in Nat \ {0} :
                      /\ IsLevel(l[h], n, h) /\ x[h] \in 0 .. n - 1
                      /\ iter[1 .. h] = l[h][x[h] + 1]
           S == {h \in Nat : h <= m => At(h)}
<1>9. 0 \in S
  <2>1. PICK i \in 1 .. N : Sorted(W)[i] = p /\ Position(p, W) = i - 1
    BY <1>8, PositionIs
  <2>2. PICK n \in Nat \ {0} : IsLevel(l[0], n, 0)
    BY <1>1, LevelLengths
  <2>3. l[0] = [j \in 1 .. N |-> Leaf(Sorted(W)[j])]
    BY <1>1, <1>8 DEF Leaves
  <2>4. Len(l[0]) = N
    BY <2>3
  <2>5. n = N
    BY <2>2, <2>4 DEF IsLevel
  <2>6. x[0] \in 0 .. n - 1 /\ x[0] + 1 = i
    BY <1>2, <2>1, <2>5
  <2>7. iter[1 .. 0] = l[0][x[0] + 1]
    BY <1>7, <2>1, <2>3, <2>6
  <2>8. At(0)
    BY <2>2, <2>6, <2>7
  <2>9. QED
    BY <2>8
<1>10. \A h \in S : h + 1 \in S
  <2>1. SUFFICES ASSUME NEW h \in Nat, h <= m => At(h), h + 1 <= m
                 PROVE  At(h + 1)
    OBVIOUS
  <2>2. PICK n \in Nat \ {0} : /\ IsLevel(l[h], n, h) /\ x[h] \in 0 .. n - 1
                               /\ iter[1 .. h] = l[h][x[h] + 1]
    BY <2>1
  <2>3. PICK k \in Nat \ {0} : k = (n + 1) \div 2
    <3>1. PICK k \in Nat : k = (n + 1) \div 2 /\ (n + 1 = 2 * k \/ n + 1 = 2 * k + 1)
      BY Halves
    <3>2. QED
      BY <3>1
  <2>4. IsLevel(l[h + 1], k, h + 1)
    BY <1>1, <2>2, <2>3, AboveIs
  <2>5. /\ x[h + 1] \in 0 .. k - 1
        /\ HashPair(l[h][x[h] + 1], Pushed(l[h], x[h])) = l[h + 1][x[h + 1] + 1]
    <3>1. PICK level, y : level = l[h] /\ y = x[h]
      OBVIOUS
    <3>2. l[h + 1] = Above(level) /\ x[h + 1] = y \div 2
      BY <1>1, <1>2, <3>1
    <3>3. IsLevel(level, n, h) /\ y \in 0 .. n - 1
      BY <2>2, <3>1
    <3>4. /\ y \div 2 \in 0 .. ((n + 1) \div 2) - 1
          /\ HashPair(level[y + 1], Pushed(level, y)) = Above(level)[(y \div 2) + 1]
      BY <3>3, PushedHashes
    <3>5. QED
      BY <2>3, <3>1, <3>2, <3>4
  <2>6. proof[h + 1] = Pushed(l[h], x[h])
    <3>1. h + 1 \in 1 .. m /\ (h + 1) - 1 = h
      BY <2>1
    <3>2. QED
      BY <1>5, <3>1
  <2>7. iter[1 .. h + 1] = HashPair(iter[1 .. h], proof[h + 1])
    BY <1>7, <2>1
  <2>8. iter[1 .. h + 1] = l[h + 1][x[h + 1] + 1]
    BY <2>2, <2>5, <2>6, <2>7
  <2>9. QED
    BY <2>4, <2>5, <2>8
<1>11. S \subseteq Nat
  OBVIOUS
<1>12. m \in S
  <2> HIDE DEF S
  <2>1. QED
    BY <1>9, <1>10, <1>11, Inductive
<1>13. iter[1 .. m] = l[m][1]
  <2>1. PICK n \in Nat \ {0} : /\ IsLevel(l[m], n, m) /\ x[m] \in 0 .. n - 1
                               /\ iter[1 .. m] = l[m][x[m] + 1]
    BY <1>12
  <2>2. n = 1
    BY <1>3, <2>1 DEF IsLevel
  <2>3. x[m] + 1 = 1
    BY <2>1, <2>2
  <2>4. QED
    BY <2>1, <2>3
<1>14. HashedOf(p, proof)[DOMAIN proof] = Root(W)
  BY <1>1, <1>3, <1>6, <1>7, <1>13 DEF Root
<1>15. QED
  BY <1>4, <1>14, VerifiesIs

-----------------------------------------------------------------------------
\* What is stored, or held by a call that is going to store it, can be paid.
HeldOK(r) == r # NoResult => r \in Result /\ Payable(r.winners)

ResultInv == HeldOK(result) /\ HeldOK(saving) /\ HeldOK(finalizing)

LEMMA ResultsGood ==
  Spec => []ResultInv
<1>1. Init => ResultInv
  BY DEF Init, ResultInit, ResultInv, HeldOK
<1>2. ResultInv /\ [Next]_vars => ResultInv'
  <2>1. SUFFICES ASSUME ResultInv, [Next]_vars
                 PROVE  ResultInv'
    OBVIOUS
  <2>2. CASE UNCHANGED resultVars
    BY <2>1, <2>2 DEF ResultInv, HeldOK, resultVars
  <2>3. CASE ResultNext
    <3>1. ASSUME NEW winners \in Outcomes, Save(winners) PROVE ResultInv'
      <4>1. Status(result) \in {"built", "finalized"}
        BY <2>1 DEF ResultInv, HeldOK, Result, Status
      <4>2. HeldOK(saving')
        BY <3>1, <4>1 DEF Save, HeldOK, Result
      <4>3. QED
        BY <2>1, <3>1, <4>2 DEF Save, ResultInv, HeldOK
    <3>2. CASE SaveWrites
      BY <2>1, <3>2 DEF SaveWrites, ResultInv, HeldOK
    <3>3. CASE Finalize
      <4>1. result \in Result /\ Payable(result.winners)
        BY <2>1, <3>3 DEF Finalize, ResultInv, HeldOK
      <4>2. finalizing' \in Result /\ finalizing'.winners = result.winners
        BY <3>3, <4>1 DEF Finalize, Result
      <4>3. HeldOK(finalizing')
        BY <4>1, <4>2 DEF HeldOK
      <4>4. QED
        BY <2>1, <3>3, <4>3 DEF Finalize, ResultInv, HeldOK
    <3>4. CASE FinalizationWrites
      BY <2>1, <3>4 DEF FinalizationWrites, ResultInv, HeldOK
    <3>5. QED
      BY <2>3, <3>1, <3>2, <3>3, <3>4 DEF ResultNext
  <2>4. UNCHANGED resultVars \/ ResultNext
    BY <2>1 DEF Next, vars, resultVars
  <2>5. QED
    BY <2>2, <2>3, <2>4
<1>3. QED
  BY <1>1, <1>2, PTL DEF Spec

\* Whatever the winners, however their leaves are ordered and whatever calls are
\* interleaved on the store, the proof that GET claims hands out is accepted with
\* the root it comes with.
THEOREM ArcadeClaimsVerify == Spec => []ClaimsVerify
<1>1. ResultInv => ClaimsVerify
  <2>1. SUFFICES ASSUME ResultInv, NEW p \in Players, ClaimProof(p) # NoResult
                 PROVE  Verifies(p, ClaimProof(p).proof, ClaimProof(p).settlementRoot)
    BY DEF ClaimsVerify
  <2>2. result # NoResult /\ p \in result.winners
    BY <2>1 DEF ClaimProof
  <2>3. PICK W \in Outcomes : W = result.winners /\ p \in W
    BY <2>1, <2>2 DEF ResultInv, HeldOK, Result
  <2>4. ClaimProof(p).proof = Proof(p, W) /\ ClaimProof(p).settlementRoot = Root(W)
    BY <2>2, <2>3 DEF ClaimProof, Built
  <2>5. QED
    BY <2>3, <2>4, ProofVerifies
<1>2. QED
  BY <1>1, ResultsGood, PTL
=============================================================================
