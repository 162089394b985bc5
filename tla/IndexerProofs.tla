--------------------------- MODULE IndexerProofs ---------------------------
(***************************************************************************)
(* Proofs about the event handlers of the indexer: for every number of     *)
(* players, rounds, roots, days and amounts, and however far the indexer   *)
(* is behind the chain.                                                    *)
(*                                                                         *)
(* What the tables will show once the indexer has caught up follows from   *)
(* what they show and from the log (Caught, a run of the handlers over the *)
(* events to come).  The invariant relates these future tables to the      *)
(* contracts: an event that is emitted is one more step of the run, and a  *)
(* handler only makes the first of its steps.                              *)
(***************************************************************************)
EXTENDS Indexer, FiniteSetTheorems, SequenceTheorems, WellFoundedInduction, TLAPS

Entry == [day : 0..Days, event : Event]

-----------------------------------------------------------------------------
(* The handlers as functions of the tables and of the next event.          *)

RoomPatched(row, patched, status) ==
    [patched EXCEPT !.status =
        IF row = NoRow THEN status ELSE NextStatus(row.status, status)]

RoomAfter(row, e) ==
    LET stub == RoomOrStub(row) IN
    CASE e.kind = "RoomCreated" -> EmptyRoom
      [] e.kind = "RoomStatusUpdated" ->
            RoomPatched(row, stub, StatusByEnum[e.status + 1])
      [] e.kind = "RoomCancelled" ->
            RoomPatched(row, [stub EXCEPT !.cancelled = TRUE], "cancelled")
      [] e.kind = "RoomLocked" ->
            RoomPatched(row, [stub EXCEPT !.locked = TRUE], "locked")
      [] e.kind = "RoomSettled" ->
            RoomPatched(row, [stub EXCEPT !.settled = TRUE, !.root = e.root], "settled")
      [] e.kind = "ResultsSubmitted" ->
            RoomPatched(row, [stub EXCEPT !.root = e.root], "settling")
      [] e.kind = "ResultsFinalized" ->
            RoomPatched(row, [stub EXCEPT !.root = e.root, !.finalized = TRUE],
                        "finalized")
      [] OTHER -> row

\* The row of a player after an event about that player.
PlacedAfter(row, e) ==
    IF e.kind = "RoomJoined" THEN [NewPlacement EXCEPT !.joined = TRUE]
    ELSE IF e.kind = "SelectionCommitted"
         THEN [(IF row = NoRow THEN NewPlacement ELSE row)
                 EXCEPT !.committed = TRUE, !.round = e.round]
    ELSE IF row = NoRow THEN NoRow
    ELSE IF e.kind = "RoomLeft" THEN [row EXCEPT !.left = TRUE]
    ELSE IF e.kind = "Refunded" THEN [row EXCEPT !.refunded = TRUE]
    ELSE IF e.kind = "PrizeClaimed" THEN [row EXCEPT !.claimed = TRUE]
    ELSE [row EXCEPT !.revealed = TRUE, !.round = e.round]

PlayerKinds == {"RoomJoined", "RoomLeft", "Refunded", "PrizeClaimed",
                "SelectionCommitted", "SelectionRevealed"}

PlacementAfter(rows, e) ==
    IF e.kind \in PlayerKinds
    THEN [rows EXCEPT ![e.player] = PlacedAfter(rows[e.player], e)] ELSE rows

StagesAfter(rows, e) ==
    CASE e.kind = "ResultsSubmitted" -> [rows EXCEPT !["submitted"] = e.root]
      [] e.kind = "ResultsFinalized" -> [rows EXCEPT !["finalized"] = e.root]
      [] e.kind = "ResultsChallenged" -> [rows EXCEPT !["challenged"] = NoHash]
      [] e.kind = "ChallengeResolved" -> [rows EXCEPT !["resolved"] = NoHash]
      [] e.kind = "SettlementRescued" -> [rows EXCEPT !["rescued"] = NoHash]
      [] OTHER -> rows

RequestAfter(row, kind, day) ==
    CASE kind \in Upserting ->
            IF row = NoRow
            THEN [status |-> kind, acceptedAt |-> day, cancelled |-> FALSE]
            ELSE IF StatusRank[row.status] >= StatusRank[kind] THEN row
            ELSE [row EXCEPT !.status = kind]
      [] kind = "cancelled" ->
            IF row = NoRow
            THEN [status |-> "cancelled", acceptedAt |-> day, cancelled |-> TRUE]
            ELSE [row EXCEPT !.status = "cancelled", !.cancelled = TRUE]
      [] OTHER -> row

LoanAfter(row, kind, day) ==
    CASE kind \in LoanOpening -> [status |-> "open", openedAt |-> day, known |-> TRUE]
      [] kind \in LoanClosing ->
            IF row = NoRow
            THEN [status |-> "repaid", openedAt |-> day, known |-> FALSE]
            ELSE [row EXCEPT !.status = "repaid"]
      [] OTHER -> row

DepositAfter(row, kind) ==
    IF kind \in DepositStatus
    THEN [status |-> kind, executed |-> kind = "executed",
          stranded |-> kind = "stranded", swept |-> kind = "swept"]
    ELSE row

Tables == [room |-> room, placement |-> placement, stages |-> stages,
           request |-> request, context |-> context, loan |-> loan,
           deposit |-> deposit]

After(t, x) ==
    [room |-> RoomAfter(t.room, x.event),
     placement |-> PlacementAfter(t.placement, x.event),
     stages |-> StagesAfter(t.stages, x.event),
     request |-> RequestAfter(t.request, x.event.kind, x.day),
     context |-> (t.context \/ x.event.kind = "gateway_prepared"),
     loan |-> LoanAfter(t.loan, x.event.kind, x.day),
     deposit |-> DepositAfter(t.deposit, x.event.kind)]

\* Handling the events of s turns the tables from t into last.
Caught(s, t, last) ==
    \E rows : /\ rows = [k \in 0..Len(s) |-> rows[k]]
              /\ rows[0] = t /\ rows[Len(s)] = last
              /\ \A k \in 1..Len(s) : rows[k] = After(rows[k - 1], s[k])

LEMMA CaughtNow == ASSUME NEW t PROVE Caught(<<>>, t, t)
<1> DEFINE rows == [k \in 0 .. 0 |-> t]
<1>1. rows = [k \in 0 .. 0 |-> rows[k]] /\ rows[0] = t
  OBVIOUS
<1>2. Len(<<>>) = 0 /\ 1 .. 0 = {}
  OBVIOUS
<1> HIDE DEF rows
<1>3. QED
  BY <1>1, <1>2 DEF Caught

LEMMA CaughtEnd == ASSUME NEW t, NEW last, Caught(<<>>, t, last) PROVE last = t
BY DEF Caught

LEMMA CaughtEmit ==
  ASSUME NEW s \in Seq(Entry), NEW t, NEW last, Caught(s, t, last), NEW x \in Entry
  PROVE  Caught(Append(s, x), t, After(last, x))
<1>1. PICK rows : /\ rows = [k \in 0 .. Len(s) |-> rows[k]]
                  /\ rows[0] = t /\ rows[Len(s)] = last
                  /\ \A k \in 1 .. Len(s) : rows[k] = After(rows[k - 1], s[k])
  BY DEF Caught
<1>2. PICK n \in Nat : n = Len(s)
  OBVIOUS
<1>3. PICK u \in Seq(Entry) : u = Append(s, x)
  <2>1. Append(s, x) \in Seq(Entry)
    OBVIOUS
  <2>2. QED
    BY <2>1
<1>4. Len(u) = n + 1 /\ u[n + 1] = x /\ \A k \in 1 .. n : u[k] = s[k]
  BY <1>2, <1>3
<1> DEFINE more == [k \in 0 .. n + 1 |-> IF k = n + 1 THEN After(last, x) ELSE rows[k]]
<1>5. more[0] = t /\ more[n + 1] = After(last, x) /\ \A k \in 0 .. n : more[k] = rows[k]
  BY <1>1, <1>2
<1>6. more = [k \in 0 .. n + 1 |-> more[k]]
  OBVIOUS
<1> HIDE DEF more
<1>7. \A k \in 1 .. n + 1 : more[k] = After(more[k - 1], u[k])
  <2>1. TAKE k \in 1 .. n + 1
  <2>2. CASE k = n + 1
    <3>1. k - 1 = n /\ n \in 0 .. n
      BY <2>2
    <3>2. more[k - 1] = last
      BY <1>1, <1>2, <1>5, <3>1
    <3>3. QED
      BY <1>4, <1>5, <2>2, <3>2
  <2>3. CASE k # n + 1
    <3>1. k \in 1 .. n /\ k - 1 \in 0 .. n /\ k \in 0 .. n
      BY <2>3
    <3>2. QED
      BY <1>1, <1>2, <1>4, <1>5, <3>1
  <2>4. QED
    BY <2>2, <2>3
<1>8. QED
  BY <1>3, <1>4, <1>5, <1>6, <1>7 DEF Caught

LEMMA CaughtHandle ==
  ASSUME NEW s \in Seq(Entry), s # <<>>, NEW t, NEW last, Caught(s, t, last)
  PROVE  Caught(Tail(s), After(t, Head(s)), last)
<1>1. PICK rows : /\ rows = [k \in 0 .. Len(s) |-> rows[k]]
                  /\ rows[0] = t /\ rows[Len(s)] = last
                  /\ \A k \in 1 .. Len(s) : rows[k] = After(rows[k - 1], s[k])
  BY DEF Caught
<1>2. PICK u \in Seq(Entry) : u = Tail(s)
  BY HeadTailProperties
<1>3. PICK n \in Nat : Len(s) = n + 1 /\ Len(u) = n
  <2>1. Len(s) \in Nat /\ Len(s) # 0
    BY EmptySeq
  <2>2. Len(u) = Len(s) - 1
    BY <1>2, HeadTailProperties
  <2>3. QED
    BY <2>1, <2>2
<1>4. Head(s) = s[1] /\ \A k \in 1 .. n : u[k] = s[k + 1]
  BY <1>2, <1>3, HeadTailProperties
<1> DEFINE fewer == [k \in 0 .. n |-> rows[k + 1]]
<1>5. fewer = [k \in 0 .. n |-> fewer[k]] /\ \A k \in 0 .. n : fewer[k] = rows[k + 1]
  OBVIOUS
<1> HIDE DEF fewer
<1>6. fewer[0] = After(t, Head(s))
  <2>1. 1 \in 1 .. n + 1 /\ 1 - 1 = 0 /\ 0 \in 0 .. n /\ 0 + 1 = 1
    OBVIOUS
  <2>2. QED
    BY <1>1, <1>3, <1>4, <1>5, <2>1
<1>7. fewer[n] = last
  BY <1>1, <1>3, <1>5
<1>8. \A k \in 1 .. n : fewer[k] = After(fewer[k - 1], u[k])
  <2>1. TAKE k \in 1 .. n
  <2>2. k \in 0 .. n /\ k - 1 \in 0 .. n /\ k + 1 \in 1 .. n + 1 /\ (k + 1) - 1 = k
        /\ (k - 1) + 1 = k
    OBVIOUS
  <2>3. rows[k + 1] = After(rows[k], s[k + 1])
    BY <1>1, <1>3, <2>2
  <2>4. QED
    BY <1>4, <1>5, <2>2, <2>3
<1>9. QED
  BY <1>2, <1>3, <1>5, <1>6, <1>7, <1>8 DEF Caught

-----------------------------------------------------------------------------
(* Every handler is one step of such a run.                                *)

RoomKinds == {"RoomCreated", "RoomStatusUpdated", "RoomCancelled", "RoomLocked",
              "RoomSettled", "ResultsSubmitted", "ResultsFinalized"}

StageKinds == {"ResultsSubmitted", "ResultsFinalized", "ResultsChallenged",
               "ChallengeResolved", "SettlementRescued"}

RoundKinds == {"RoundStarted", "AnchorRecorded", "SettlementRecorded"}

ArcadeKinds == RoomKinds \cup StageKinds \cup RoundKinds \cup PlayerKinds

MarketKinds == TradeKinds \cup VaultKinds \cup PositionKinds

LEMMA RequestKinds ==
  /\ DOMAIN StatusRank = {"submitted", "fee_quoted", "accepted", "rfq_accepted",
                          "perp_accepted", "gateway_prepared", "cancelled"}
  /\ Upserting = {"submitted", "fee_quoted", "accepted", "rfq_accepted",
                  "perp_accepted", "gateway_prepared"}
<1>1. DOMAIN StatusRank = {"submitted", "fee_quoted", "accepted", "rfq_accepted",
                           "perp_accepted", "gateway_prepared", "cancelled"}
  BY DEF StatusRank
<1>2. QED
  BY <1>1 DEF Upserting

LEMMA RoomKept ==
  ASSUME NEW row, NEW e, e.kind \notin RoomKinds PROVE RoomAfter(row, e) = row
BY DEF RoomAfter, RoomKinds

LEMMA PlacementKept ==
  ASSUME NEW rows, NEW e, e.kind \notin PlayerKinds PROVE PlacementAfter(rows, e) = rows
BY DEF PlacementAfter

LEMMA StagesKept ==
  ASSUME NEW rows, NEW e, e.kind \notin StageKinds PROVE StagesAfter(rows, e) = rows
BY DEF StagesAfter, StageKinds

LEMMA RequestsKept ==
  ASSUME NEW kind, NEW row, NEW day
  PROVE  /\ kind \notin DOMAIN StatusRank => RequestAfter(row, kind, day) = row
         /\ kind \notin LoanOpening \cup LoanClosing => LoanAfter(row, kind, day) = row
         /\ kind \notin DepositStatus => DepositAfter(row, kind) = row
<1>1. kind \notin DOMAIN StatusRank => RequestAfter(row, kind, day) = row
  <2>1. kind \notin DOMAIN StatusRank => kind \notin Upserting /\ kind # "cancelled"
    BY RequestKinds
  <2>2. QED
    BY <2>1 DEF RequestAfter
<1>2. kind \notin LoanOpening \cup LoanClosing => LoanAfter(row, kind, day) = row
  BY DEF LoanAfter
<1>3. kind \notin DepositStatus => DepositAfter(row, kind) = row
  BY DEF DepositAfter
<1>4. QED
  BY <1>1, <1>2, <1>3

\* The kinds of the three products have nothing in common.
LEMMA KindsApart ==
  /\ \A kind \in ArcadeKinds \cup MarketKinds : kind \notin RequestEvents
  /\ \A kind \in RequestEvents \cup MarketKinds : kind \notin ArcadeKinds
  /\ "gateway_prepared" \in RequestEvents
BY RequestKinds DEF RequestEvents, LoanOpening, LoanClosing, DepositStatus, ArcadeKinds,
  RoomKinds, StageKinds, RoundKinds, PlayerKinds, MarketKinds, TradeKinds, VaultKinds,
  PositionKinds

ArcadeHandles ==
    /\ room' = RoomAfter(room, This)
    /\ placement' = PlacementAfter(placement, This)
    /\ stages' = StagesAfter(stages, This)

RequestHandles ==
    /\ request' = RequestAfter(request, This.kind, ThisDay)
    /\ context' = (context \/ This.kind = "gateway_prepared")
    /\ loan' = LoanAfter(loan, This.kind, ThisDay)
    /\ deposit' = DepositAfter(deposit, This.kind)

LEMMA HandlesIs ==
  ASSUME ArcadeHandles, RequestHandles
  PROVE  Tables' = After(Tables, Head(log))
BY DEF Tables, After, ArcadeHandles, RequestHandles, This, ThisDay

LEMMA RequestsUntouched ==
  ASSUME context \in BOOLEAN, This.kind \notin RequestEvents, UNCHANGED requestVars
  PROVE  RequestHandles
<1>1. /\ This.kind \notin DOMAIN StatusRank /\ This.kind \notin LoanOpening \cup LoanClosing
      /\ This.kind \notin DepositStatus /\ This.kind # "gateway_prepared"
  BY KindsApart DEF RequestEvents
<1>2. QED
  BY <1>1, RequestsKept DEF requestVars, RequestHandles

LEMMA ArcadeUntouched ==
  ASSUME This.kind \notin ArcadeKinds, UNCHANGED arcadeVars
  PROVE  ArcadeHandles
<1>1. This.kind \notin RoomKinds /\ This.kind \notin PlayerKinds
      /\ This.kind \notin StageKinds
  BY DEF ArcadeKinds
<1>2. QED
  BY <1>1, RoomKept, PlacementKept, StagesKept DEF arcadeVars, ArcadeHandles

LEMMA RoomAfterIs ==
  ASSUME NEW row, NEW e
  PROVE
    LET stub == RoomOrStub(row)
        patched(p, status) == RoomPatched(row, p, status)
    IN
    /\ e.kind = "RoomCreated" => RoomAfter(row, e) = EmptyRoom
    /\ e.kind = "RoomStatusUpdated" =>
         RoomAfter(row, e) = patched(stub, StatusByEnum[e.status + 1])
    /\ e.kind = "RoomCancelled" =>
         RoomAfter(row, e) = patched([stub EXCEPT !.cancelled = TRUE], "cancelled")
    /\ e.kind = "RoomLocked" =>
         RoomAfter(row, e) = patched([stub EXCEPT !.locked = TRUE], "locked")
    /\ e.kind = "RoomSettled" =>
         RoomAfter(row, e)
           = patched([stub EXCEPT !.settled = TRUE, !.root = e.root], "settled")
    /\ e.kind = "ResultsSubmitted" =>
         RoomAfter(row, e) = patched([stub EXCEPT !.root = e.root], "settling")
    /\ e.kind = "ResultsFinalized" =>
         RoomAfter(row, e)
           = patched([stub EXCEPT !.root = e.root, !.finalized = TRUE], "finalized")
BY Zenon DEF RoomAfter

LEMMA PlacedAfterIs ==
  ASSUME NEW row, NEW e
  PROVE
    /\ e.kind = "RoomJoined" => PlacedAfter(row, e) = [NewPlacement EXCEPT !.joined = TRUE]
    /\ e.kind = "SelectionCommitted" =>
         PlacedAfter(row, e) = [(IF row = NoRow THEN NewPlacement ELSE row)
                                  EXCEPT !.committed = TRUE, !.round = e.round]
    /\ row = NoRow /\ e.kind # "RoomJoined" /\ e.kind # "SelectionCommitted" =>
         PlacedAfter(row, e) = NoRow
    /\ row # NoRow =>
         /\ e.kind = "RoomLeft" => PlacedAfter(row, e) = [row EXCEPT !.left = TRUE]
         /\ e.kind = "Refunded" => PlacedAfter(row, e) = [row EXCEPT !.refunded = TRUE]
         /\ e.kind = "PrizeClaimed" => PlacedAfter(row, e) = [row EXCEPT !.claimed = TRUE]
         /\ e.kind = "SelectionRevealed" =>
              PlacedAfter(row, e) = [row EXCEPT !.revealed = TRUE, !.round = e.round]
BY Zenon DEF PlacedAfter

LEMMA CommitIs ==
  ASSUME NEW row, NEW e, e.kind = "SelectionCommitted"
  PROVE  PlacedAfter(row, e) = [(IF row = NoRow THEN NewPlacement ELSE row)
                                  EXCEPT !.committed = TRUE, !.round = e.round]
BY Zenon DEF PlacedAfter

LEMMA StagesAfterIs ==
  ASSUME NEW rows, NEW e
  PROVE
    /\ e.kind = "ResultsSubmitted" =>
         StagesAfter(rows, e) = [rows EXCEPT !["submitted"] = e.root]
    /\ e.kind = "ResultsFinalized" =>
         StagesAfter(rows, e) = [rows EXCEPT !["finalized"] = e.root]
    /\ e.kind = "ResultsChallenged" =>
         StagesAfter(rows, e) = [rows EXCEPT !["challenged"] = NoHash]
    /\ e.kind = "ChallengeResolved" =>
         StagesAfter(rows, e) = [rows EXCEPT !["resolved"] = NoHash]
    /\ e.kind = "SettlementRescued" =>
         StagesAfter(rows, e) = [rows EXCEPT !["rescued"] = NoHash]
BY Zenon DEF StagesAfter

LEMMA RequestAfterIs ==
  ASSUME NEW row, NEW kind, NEW day
  PROVE
    /\ kind \in Upserting =>
         /\ row = NoRow =>
              RequestAfter(row, kind, day)
                = [status |-> kind, acceptedAt |-> day, cancelled |-> FALSE]
         /\ row # NoRow =>
              RequestAfter(row, kind, day)
                = IF StatusRank[row.status] >= StatusRank[kind] THEN row
                  ELSE [row EXCEPT !.status = kind]
    /\ kind = "cancelled" =>
         RequestAfter(row, kind, day)
           = IF row = NoRow
             THEN [status |-> "cancelled", acceptedAt |-> day, cancelled |-> TRUE]
             ELSE [row EXCEPT !.status = "cancelled", !.cancelled = TRUE]
<1>1. "cancelled" \notin Upserting
  BY RequestKinds
<1>2. QED
  BY <1>1, Zenon DEF RequestAfter

LEMMA UpsertIs ==
  ASSUME NEW kind \in Upserting, NEW day
  PROVE  RequestAfter(request, kind, day) = UpsertRequest(kind, day)
<1>1. CASE request = NoRow
  BY <1>1, Zenon, RequestAfterIs DEF UpsertRequest
<1>2. CASE request # NoRow
  BY <1>2, Zenon, RequestAfterIs DEF UpsertRequest
<1>3. QED
  BY <1>1, <1>2

LEMMA CancelIs ==
  ASSUME NEW row, NEW day
  PROVE  RequestAfter(row, "cancelled", day)
           = IF row = NoRow
             THEN [status |-> "cancelled", acceptedAt |-> day, cancelled |-> TRUE]
             ELSE [row EXCEPT !.status = "cancelled", !.cancelled = TRUE]
BY Zenon, RequestAfterIs

LEMMA LoanAfterIs ==
  ASSUME NEW row, NEW kind, NEW day
  PROVE
    /\ kind \in LoanOpening =>
         LoanAfter(row, kind, day) = [status |-> "open", openedAt |-> day, known |-> TRUE]
    /\ kind \in LoanClosing =>
         LoanAfter(row, kind, day)
           = IF row = NoRow
             THEN [status |-> "repaid", openedAt |-> day, known |-> FALSE]
             ELSE [row EXCEPT !.status = "repaid"]
<1>1. \A k \in LoanClosing : k \notin LoanOpening
  BY DEF LoanClosing, LoanOpening
<1>2. QED
  BY <1>1, Zenon DEF LoanAfter

LEMMA RoomHandler ==
  ASSUME OnRoomCreated \/ OnRoomStatusUpdated \/ OnRoomCancelled \/ OnRoomLocked
           \/ OnRoomSettled
  PROVE  ArcadeHandles /\ This.kind \in ArcadeKinds
<1> DEFINE e == This
<1>1. UNCHANGED <<placement, stages>>
  BY DEF OnRoomCreated, OnRoomStatusUpdated, OnRoomCancelled, OnRoomLocked, OnRoomSettled
<1>2. CASE OnRoomCreated
  <2>1. e.kind = "RoomCreated" /\ room' = EmptyRoom
    BY <1>2 DEF OnRoomCreated, Handling
  <2> HIDE DEF e
  <2>2. room' = RoomAfter(room, e)
    BY <2>1, RoomAfterIs
  <2>3. e.kind \in ArcadeKinds /\ e.kind \notin PlayerKinds /\ e.kind \notin StageKinds
    BY <2>1 DEF ArcadeKinds, RoomKinds, PlayerKinds, StageKinds
  <2>4. placement' = PlacementAfter(placement, e) /\ stages' = StagesAfter(stages, e)
    BY <1>1, <2>3, PlacementKept, StagesKept
  <2>5. QED
    BY <2>2, <2>3, <2>4 DEF ArcadeHandles, e
<1>3. CASE OnRoomStatusUpdated
  <2>1. e.kind = "RoomStatusUpdated"
        /\ room' = RoomPatched(room, RoomOrStub(room), StatusByEnum[e.status + 1])
    BY <1>3 DEF OnRoomStatusUpdated, Handling, PatchRoom, RoomPatched
  <2> HIDE DEF e
  <2>2. room' = RoomAfter(room, e)
    BY <2>1, RoomAfterIs
  <2>3. e.kind \in ArcadeKinds /\ e.kind \notin PlayerKinds /\ e.kind \notin StageKinds
    BY <2>1 DEF ArcadeKinds, RoomKinds, PlayerKinds, StageKinds
  <2>4. placement' = PlacementAfter(placement, e) /\ stages' = StagesAfter(stages, e)
    BY <1>1, <2>3, PlacementKept, StagesKept
  <2>5. QED
    BY <2>2, <2>3, <2>4 DEF ArcadeHandles, e
<1>4. CASE OnRoomCancelled
  <2>1. e.kind = "RoomCancelled"
        /\ room' = RoomPatched(room, [RoomOrStub(room) EXCEPT !.cancelled = TRUE],
                               "cancelled")
    BY <1>4 DEF OnRoomCancelled, Handling, PatchRoom, RoomPatched
  <2> HIDE DEF e
  <2>2. room' = RoomAfter(room, e)
    BY <2>1, RoomAfterIs
  <2>3. e.kind \in ArcadeKinds /\ e.kind \notin PlayerKinds /\ e.kind \notin StageKinds
    BY <2>1 DEF ArcadeKinds, RoomKinds, PlayerKinds, StageKinds
  <2>4. placement' = PlacementAfter(placement, e) /\ stages' = StagesAfter(stages, e)
    BY <1>1, <2>3, PlacementKept, StagesKept
  <2>5. QED
    BY <2>2, <2>3, <2>4 DEF ArcadeHandles, e
<1>5. CASE OnRoomLocked
  <2>1. e.kind = "RoomLocked"
        /\ room' = RoomPatched(room, [RoomOrStub(room) EXCEPT !.locked = TRUE], "locked")
    BY <1>5 DEF OnRoomLocked, Handling, PatchRoom, RoomPatched
  <2> HIDE DEF e
  <2>2. room' = RoomAfter(room, e)
    BY <2>1, RoomAfterIs
  <2>3. e.kind \in ArcadeKinds /\ e.kind \notin PlayerKinds /\ e.kind \notin StageKinds
    BY <2>1 DEF ArcadeKinds, RoomKinds, PlayerKinds, StageKinds
  <2>4. placement' = PlacementAfter(placement, e) /\ stages' = StagesAfter(stages, e)
    BY <1>1, <2>3, PlacementKept, StagesKept
  <2>5. QED
    BY <2>2, <2>3, <2>4 DEF ArcadeHandles, e
<1>6. CASE OnRoomSettled
  <2>1. e.kind = "RoomSettled"
        /\ room' = RoomPatched(room, [RoomOrStub(room) EXCEPT !.settled = TRUE,
                                                              !.root = e.root], "settled")
    BY <1>6 DEF OnRoomSettled, Handling, PatchRoom, RoomPatched
  <2> HIDE DEF e
  <2>2. room' = RoomAfter(room, e)
    BY <2>1, RoomAfterIs
  <2>3. e.kind \in ArcadeKinds /\ e.kind \notin PlayerKinds /\ e.kind \notin StageKinds
    BY <2>1 DEF ArcadeKinds, RoomKinds, PlayerKinds, StageKinds
  <2>4. placement' = PlacementAfter(placement, e) /\ stages' = StagesAfter(stages, e)
    BY <1>1, <2>3, PlacementKept, StagesKept
  <2>5. QED
    BY <2>2, <2>3, <2>4 DEF ArcadeHandles, e
<1>7. QED
  BY <1>2, <1>3, <1>4, <1>5, <1>6

LEMMA StageHandler ==
  ASSUME OnResultsSubmitted \/ OnResultsFinalized \/ OnResultsChallenged
           \/ OnChallengeResolved \/ OnSettlementRescued
  PROVE  ArcadeHandles /\ This.kind \in ArcadeKinds
<1> DEFINE e == This
<1>1. UNCHANGED placement
  BY DEF OnResultsSubmitted, OnResultsFinalized, OnResultsChallenged,
         OnChallengeResolved, OnSettlementRescued, StageOnly
<1>2. CASE OnResultsSubmitted
  <2>1. e.kind = "ResultsSubmitted" /\ stages' = [stages EXCEPT !["submitted"] = e.root]
        /\ room' = RoomPatched(room, [RoomOrStub(room) EXCEPT !.root = e.root], "settling")
    BY <1>2 DEF OnResultsSubmitted, Handling, Stage, PatchRoom, RoomPatched
  <2> HIDE DEF e
  <2>2. room' = RoomAfter(room, e) /\ stages' = StagesAfter(stages, e)
    BY <2>1, RoomAfterIs, StagesAfterIs
  <2>3. e.kind \in ArcadeKinds /\ e.kind \notin PlayerKinds
    BY <2>1 DEF ArcadeKinds, RoomKinds, PlayerKinds
  <2>4. QED
    BY <1>1, <2>2, <2>3, PlacementKept DEF ArcadeHandles, e
<1>3. CASE OnResultsFinalized
  <2>1. e.kind = "ResultsFinalized" /\ stages' = [stages EXCEPT !["finalized"] = e.root]
        /\ room' = RoomPatched(room, [RoomOrStub(room) EXCEPT !.root = e.root,
                                        !.finalized = TRUE], "finalized")
    BY <1>3 DEF OnResultsFinalized, Handling, Stage, PatchRoom, RoomPatched
  <2> HIDE DEF e
  <2>2. room' = RoomAfter(room, e) /\ stages' = StagesAfter(stages, e)
    BY <2>1, RoomAfterIs, StagesAfterIs
  <2>3. e.kind \in ArcadeKinds /\ e.kind \notin PlayerKinds
    BY <2>1 DEF ArcadeKinds, RoomKinds, PlayerKinds
  <2>4. QED
    BY <1>1, <2>2, <2>3, PlacementKept DEF ArcadeHandles, e
<1>4. ASSUME OnResultsChallenged \/ OnChallengeResolved \/ OnSettlementRescued
      PROVE  ArcadeHandles /\ This.kind \in ArcadeKinds
  <2>1. room' = room
    BY <1>4 DEF OnResultsChallenged, OnChallengeResolved, OnSettlementRescued, StageOnly
  <2>2. \/ e.kind = "ResultsChallenged" /\ stages' = [stages EXCEPT !["challenged"] = NoHash]
        \/ e.kind = "ChallengeResolved" /\ stages' = [stages EXCEPT !["resolved"] = NoHash]
        \/ e.kind = "SettlementRescued" /\ stages' = [stages EXCEPT !["rescued"] = NoHash]
    BY <1>4 DEF OnResultsChallenged, OnChallengeResolved, OnSettlementRescued, StageOnly,
                Stage, Handling
  <2> HIDE DEF e
  <2>3. stages' = StagesAfter(stages, e)
    BY <2>2, StagesAfterIs
  <2>4. e.kind \in ArcadeKinds /\ e.kind \notin PlayerKinds /\ e.kind \notin RoomKinds
    BY <2>2 DEF ArcadeKinds, RoomKinds, StageKinds, PlayerKinds
  <2>5. QED
    BY <1>1, <2>1, <2>3, <2>4, PlacementKept, RoomKept DEF ArcadeHandles, e
<1>5. QED
  BY <1>2, <1>3, <1>4

LEMMA PlacementHandler ==
  ASSUME placement \in [Players -> PlacementRow \cup {NoRow}],
         OnRoomJoined \/ OnRoomLeft \/ OnRefunded \/ OnPrizeClaimed
           \/ OnSelectionCommitted \/ OnSelectionRevealed
  PROVE  ArcadeHandles /\ This.kind \in ArcadeKinds
<1> DEFINE e == This
           p == e.player
           row == placement[p]
<1>1. UNCHANGED <<room, stages>>
  BY DEF OnRoomJoined, OnRoomLeft, OnRefunded, OnPrizeClaimed, OnSelectionCommitted,
         OnSelectionRevealed
<1>2. e.kind \in PlayerKinds
  BY DEF OnRoomJoined, OnRoomLeft, OnRefunded, OnPrizeClaimed, OnSelectionCommitted,
         OnSelectionRevealed, PlayerKinds, Handling
<1>3. placement' = [placement EXCEPT ![p] = PlacedAfter(row, e)]
  <2>1. PICK x : x = PlacedAfter(row, e)
    OBVIOUS
  <2>2. SUFFICES placement' = [placement EXCEPT ![p] = x]
    BY <2>1
  <2>3. CASE OnRoomJoined
    <3>1. e.kind = "RoomJoined"
      BY <2>3 DEF OnRoomJoined, Handling
    <3>2. x = [NewPlacement EXCEPT !.joined = TRUE]
      BY <2>1, <3>1, PlacedAfterIs
    <3>3. QED
      BY <2>3, <3>2 DEF OnRoomJoined, JoinedPlacement
  <2>4. CASE OnSelectionCommitted
    <3>1. e.kind = "SelectionCommitted"
      BY <2>4 DEF OnSelectionCommitted, Handling
    <3> HIDE DEF e, row
    <3>2. x = [(IF row = NoRow THEN NewPlacement ELSE row)
                  EXCEPT !.committed = TRUE, !.round = e.round]
      BY <2>1, <3>1, CommitIs
    <3>3. QED
      BY <2>4, <3>2 DEF OnSelectionCommitted, e, row
  <2>5. CASE OnRoomLeft \/ OnRefunded \/ OnPrizeClaimed \/ OnSelectionRevealed
    <3>1. e.kind # "RoomJoined" /\ e.kind # "SelectionCommitted"
      BY <2>5 DEF OnRoomLeft, OnRefunded, OnPrizeClaimed, OnSelectionRevealed, Handling
    <3>2. CASE row = NoRow
      <4>1. placement = [placement EXCEPT ![p] = placement[p]]
        OBVIOUS
      <4>2. x = NoRow
        BY <2>1, <3>1, <3>2, PlacedAfterIs
      <4>3. placement' = placement
        BY <2>5, <3>2 DEF OnRoomLeft, OnRefunded, OnPrizeClaimed, OnSelectionRevealed,
                          PatchPlacement
      <4>4. QED
        BY <3>2, <4>1, <4>2, <4>3
    <3>3. CASE row # NoRow
      <4>1. CASE OnRoomLeft
        <5>1. x = [row EXCEPT !.left = TRUE]
          BY <2>1, <3>3, <4>1, PlacedAfterIs DEF OnRoomLeft, Handling
        <5>2. QED
          BY <3>3, <4>1, <5>1 DEF OnRoomLeft, PatchPlacement
      <4>2. CASE OnRefunded
        <5>1. x = [row EXCEPT !.refunded = TRUE]
          BY <2>1, <3>3, <4>2, PlacedAfterIs DEF OnRefunded, Handling
        <5>2. QED
          BY <3>3, <4>2, <5>1 DEF OnRefunded, PatchPlacement
      <4>3. CASE OnPrizeClaimed
        <5>1. x = [row EXCEPT !.claimed = TRUE]
          BY <2>1, <3>3, <4>3, PlacedAfterIs DEF OnPrizeClaimed, Handling
        <5>2. QED
          BY <3>3, <4>3, <5>1 DEF OnPrizeClaimed, PatchPlacement
      <4>4. CASE OnSelectionRevealed
        <5>1. x = [row EXCEPT !.revealed = TRUE, !.round = e.round]
          BY <2>1, <3>3, <4>4, PlacedAfterIs DEF OnSelectionRevealed, Handling
        <5>2. QED
          BY <3>3, <4>4, <5>1 DEF OnSelectionRevealed, PatchPlacement
      <4>5. QED
        BY <2>5, <4>1, <4>2, <4>3, <4>4
    <3>4. QED
      BY <3>2, <3>3
  <2>6. QED
    BY <2>3, <2>4, <2>5
<1> HIDE DEF e
<1>4. placement' = PlacementAfter(placement, e)
  BY <1>2, <1>3 DEF PlacementAfter
<1>5. e.kind \in ArcadeKinds /\ e.kind \notin RoomKinds /\ e.kind \notin StageKinds
  BY <1>2 DEF ArcadeKinds, RoomKinds, StageKinds, PlayerKinds
<1>6. QED
  BY <1>1, <1>4, <1>5, RoomKept, StagesKept DEF ArcadeHandles, e

LEMMA RoundHandler ==
  ASSUME OnRoundStarted \/ OnAnchorRecorded \/ OnSettlementRecorded
  PROVE  ArcadeHandles /\ This.kind \in ArcadeKinds
<1>1. UNCHANGED <<room, placement, stages>> /\ This.kind \in RoundKinds
  BY DEF OnRoundStarted, OnAnchorRecorded, OnSettlementRecorded, RoundStep, Handling,
         RoundKinds
<1>2. This.kind \in ArcadeKinds /\ This.kind \notin RoomKinds
      /\ This.kind \notin PlayerKinds /\ This.kind \notin StageKinds
  BY <1>1 DEF ArcadeKinds, RoomKinds, RoundKinds, PlayerKinds, StageKinds
<1>3. QED
  BY <1>1, <1>2, RoomKept, PlacementKept, StagesKept DEF ArcadeHandles

LEMMA RequestHandler ==
  ASSUME context \in BOOLEAN, NEW kind,
         \/ OnRequest(kind) \/ OpenLoan(kind) \/ CloseLoan(kind) \/ UpsertDeposit(kind)
         \/ OnTelaranaRequestCancelled
  PROVE  RequestHandles /\ This.kind \in RequestEvents
<1> DEFINE k == This.kind
<1>0. \A c : /\ c \in DOMAIN StatusRank =>
                  c \notin LoanOpening \cup LoanClosing /\ c \notin DepositStatus
             /\ c \in LoanOpening \cup LoanClosing =>
                  c \notin DepositStatus /\ c # "gateway_prepared"
             /\ c \in DepositStatus => c # "gateway_prepared"
  BY RequestKinds DEF LoanOpening, LoanClosing, DepositStatus
<1>1. CASE OnRequest(kind)
  <2>1. k = kind /\ k \in Upserting /\ request' = UpsertRequest(k, ThisDay)
        /\ context' = (context \/ k = "gateway_prepared") /\ UNCHANGED <<loan, deposit>>
    BY <1>1 DEF OnRequest, Handling
  <2> HIDE DEF k
  <2>2. k \in DOMAIN StatusRank
    BY <2>1, RequestKinds
  <2>3. request' = RequestAfter(request, k, ThisDay)
    BY <2>1, UpsertIs
  <2>4. loan' = LoanAfter(loan, k, ThisDay) /\ deposit' = DepositAfter(deposit, k)
    BY <1>0, <2>1, <2>2, RequestsKept
  <2>5. QED
    BY <2>1, <2>2, <2>3, <2>4 DEF RequestHandles, k, RequestEvents
<1>2. CASE OnTelaranaRequestCancelled
  <2>1. k = "cancelled" /\ UNCHANGED <<context, loan, deposit>>
        /\ request' = IF request = NoRow
                      THEN [status |-> "cancelled", acceptedAt |-> ThisDay,
                            cancelled |-> TRUE]
                      ELSE [request EXCEPT !.status = "cancelled", !.cancelled = TRUE]
    BY <1>2 DEF OnTelaranaRequestCancelled, Handling
  <2> HIDE DEF k
  <2>2. k \in DOMAIN StatusRank /\ k # "gateway_prepared"
    BY <2>1, RequestKinds
  <2>3. request' = RequestAfter(request, k, ThisDay)
    BY <2>1, CancelIs
  <2>4. loan' = LoanAfter(loan, k, ThisDay) /\ deposit' = DepositAfter(deposit, k)
    BY <1>0, <2>1, <2>2, RequestsKept
  <2>5. QED
    BY <2>1, <2>2, <2>3, <2>4 DEF RequestHandles, k, RequestEvents
<1>3. CASE OpenLoan(kind) \/ CloseLoan(kind)
  <2>1. k \in LoanOpening \cup LoanClosing /\ UNCHANGED <<request, context, deposit>>
    BY <1>3 DEF OpenLoan, CloseLoan, Handling
  <2>2. loan' = LoanAfter(loan, k, ThisDay)
    <3>1. CASE OpenLoan(kind)
      <4>1. k \in LoanOpening
            /\ loan' = [status |-> "open", openedAt |-> ThisDay, known |-> TRUE]
        BY <3>1 DEF OpenLoan, Handling
      <4> HIDE DEF k
      <4>2. QED
        BY <4>1, LoanAfterIs
    <3>2. CASE CloseLoan(kind)
      <4>1. k \in LoanClosing
            /\ loan' = IF loan = NoRow
                       THEN [status |-> "repaid", openedAt |-> ThisDay, known |-> FALSE]
                       ELSE [loan EXCEPT !.status = "repaid"]
        BY <3>2 DEF CloseLoan, Handling
      <4> HIDE DEF k
      <4>2. QED
        BY <4>1, LoanAfterIs
    <3>3. QED
      BY <1>3, <3>1, <3>2
  <2> HIDE DEF k
  <2>3. k \notin DOMAIN StatusRank /\ k \notin DepositStatus /\ k # "gateway_prepared"
    BY <1>0, <2>1
  <2>4. request' = RequestAfter(request, k, ThisDay) /\ deposit' = DepositAfter(deposit, k)
    BY <2>1, <2>3, RequestsKept
  <2>5. QED
    BY <2>1, <2>2, <2>3, <2>4 DEF RequestHandles, k, RequestEvents
<1>4. CASE UpsertDeposit(kind)
  <2>1. k \in DepositStatus /\ UNCHANGED <<request, context, loan>>
    BY <1>4 DEF UpsertDeposit, Handling
  <2>2. deposit' = DepositAfter(deposit, k)
    BY <1>4, <2>1 DEF UpsertDeposit, Handling, DepositAfter
  <2> HIDE DEF k
  <2>3. k \notin DOMAIN StatusRank /\ k \notin LoanOpening \cup LoanClosing
        /\ k # "gateway_prepared"
    BY <1>0, <2>1
  <2>4. request' = RequestAfter(request, k, ThisDay) /\ loan' = LoanAfter(loan, k, ThisDay)
    BY <2>1, <2>3, RequestsKept
  <2>5. QED
    BY <2>1, <2>2, <2>3, <2>4 DEF RequestHandles, k, RequestEvents
<1>5. QED
  BY <1>1, <1>2, <1>3, <1>4

-----------------------------------------------------------------------------
(* The types of the tables, and what a step is for them: it handles the    *)
(* next event, or emits some, or is about something else.                  *)

TableSet ==
    [room : RoomRow \cup {NoRow},
     placement : [Players -> PlacementRow \cup {NoRow}],
     stages : [Stages -> Roots \cup {NoHash, NoRow}],
     request : RequestRow \cup {NoRow}, context : BOOLEAN,
     loan : LoanRow \cup {NoRow}, deposit : DepositRow \cup {NoRow}]

Handles ==
    /\ log # <<>> /\ log' = Tail(log)
    /\ Tables' = After(Tables, Head(log))
    /\ UNCHANGED <<escrow, history, today>>

MarketHandlers ==
    \/ \E kind \in TradeKinds : OnTrade(kind)
    \/ \E kind \in VaultKinds : OnVault(kind)
    \/ OnPositionIncreased \/ OnPositionDecreased

RequestHandlers ==
    \/ \E kind \in RequestEvents : \/ OnRequest(kind) \/ OpenLoan(kind)
                                   \/ CloseLoan(kind) \/ UpsertDeposit(kind)
    \/ OnTelaranaRequestCancelled

LEMMA ArcadeHandlersAre ==
  ASSUME Tables \in TableSet, ArcadeHandlers, UNCHANGED requestVars
  PROVE  Handles
<1>0. placement \in [Players -> PlacementRow \cup {NoRow}]
  BY DEF Tables, TableSet
<1>1. ArcadeHandles /\ This.kind \in ArcadeKinds
  BY <1>0, RoomHandler, StageHandler, PlacementHandler, RoundHandler DEF ArcadeHandlers
<1>2. context \in BOOLEAN
  BY DEF Tables, TableSet
<1>3. RequestHandles
  BY <1>1, <1>2, KindsApart, RequestsUntouched
<1>4. log # <<>> /\ log' = Tail(log) /\ UNCHANGED <<escrow, today>>
  BY DEF ArcadeHandlers, OnRoomCreated, OnRoomStatusUpdated, OnRoomCancelled, OnRoomLocked,
         OnRoomSettled, OnRoomJoined, OnRoomLeft, OnRefunded, OnPrizeClaimed,
         OnSelectionCommitted, OnSelectionRevealed, OnRoundStarted, OnAnchorRecorded,
         OnSettlementRecorded, RoundStep, OnResultsSubmitted, OnResultsFinalized,
         OnResultsChallenged, OnChallengeResolved, OnSettlementRescued, StageOnly,
         Handling, Handled
<1>5. QED
  BY <1>1, <1>3, <1>4, HandlesIs DEF Handles, requestVars

LEMMA MarketHandlersAre ==
  ASSUME Tables \in TableSet, MarketHandlers, UNCHANGED <<arcadeVars, requestVars>>
  PROVE  Handles
<1>1. /\ log # <<>> /\ log' = Tail(log) /\ UNCHANGED today
      /\ This.kind \in MarketKinds
  BY DEF MarketHandlers, OnTrade, OnVault, OnPositionIncreased, OnPositionDecreased,
         Handling, Handled, MarketKinds, PositionKinds
<1>2. context \in BOOLEAN
  BY DEF Tables, TableSet
<1>3. ArcadeHandles /\ RequestHandles
  BY <1>1, <1>2, KindsApart, RequestsUntouched, ArcadeUntouched
<1>4. QED
  BY <1>1, <1>3, HandlesIs DEF Handles, requestVars, arcadeVars

LEMMA RequestHandlersAre ==
  ASSUME Tables \in TableSet, RequestHandlers, UNCHANGED arcadeVars
  PROVE  Handles
<1>1. log # <<>> /\ log' = Tail(log) /\ UNCHANGED <<history, today>>
  BY DEF RequestHandlers, OnRequest, OpenLoan, CloseLoan, UpsertDeposit,
         OnTelaranaRequestCancelled, Handling, Handled
<1>2. context \in BOOLEAN
  BY DEF Tables, TableSet
<1>3. RequestHandles /\ This.kind \in RequestEvents
  BY <1>2, RequestHandler DEF RequestHandlers
<1>4. ArcadeHandles
  BY <1>3, KindsApart, ArcadeUntouched
<1>5. QED
  BY <1>1, <1>3, <1>4, HandlesIs DEF Handles, arcadeVars

-----------------------------------------------------------------------------
LEMMA RoomTyped ==
  ASSUME NEW row \in RoomRow \cup {NoRow}, NEW e \in Event
  PROVE  RoomAfter(row, e) \in RoomRow \cup {row}
<1>1. CASE e.kind \notin RoomKinds
  BY <1>1, RoomKept
<1>2. CASE e.kind \in RoomKinds
  <2>1. PICK stub \in RoomRow : stub = RoomOrStub(row)
    BY DEF RoomOrStub, RoomRow, EmptyRoom, Rank
  <2>2. ASSUME NEW patched \in RoomRow, NEW status \in DOMAIN Rank
        PROVE  RoomPatched(row, patched, status) \in RoomRow
    <3>1. row # NoRow => NextStatus(row.status, status) \in DOMAIN Rank
      BY DEF NextStatus, RoomRow
    <3>2. PICK s \in DOMAIN Rank :
             s = IF row = NoRow THEN status ELSE NextStatus(row.status, status)
      BY <3>1
    <3>3. [patched EXCEPT !.status = s] \in RoomRow
      BY DEF RoomRow
    <3>4. QED
      BY <3>2, <3>3 DEF RoomPatched
  <2>3. EmptyRoom \in RoomRow
    BY DEF RoomRow, EmptyRoom, Rank
  <2>4. {"lobby", "locked", "settling", "settled", "finalized", "cancelled"} = DOMAIN Rank
    BY DEF Rank
  <2>5. CASE e.kind = "RoomCreated"
    BY <2>3, <2>5, RoomAfterIs
  <2>6. CASE e.kind = "RoomStatusUpdated"
    <3>1. e.status \in 0 .. 5
      BY <2>6, KindsApart DEF Event, ArcadeEvent, MarketEvent, PositionEvent, RequestEvent,
         ArcadeKinds, MarketKinds, RoomKinds
    <3>2. StatusByEnum[e.status + 1] \in DOMAIN Rank
      BY <2>4, <3>1 DEF StatusByEnum
    <3>3. QED
      BY <2>1, <2>2, <2>6, <3>2, RoomAfterIs
  <2>7. CASE e.kind \in {"RoomCancelled", "RoomLocked"}
    <3>1. [stub EXCEPT !.cancelled = TRUE] \in RoomRow /\ [stub EXCEPT !.locked = TRUE] \in RoomRow
      BY DEF RoomRow
    <3>2. CASE e.kind = "RoomCancelled"
      <4>1. RoomAfter(row, e)
              = RoomPatched(row, [stub EXCEPT !.cancelled = TRUE], "cancelled")
        BY <2>1, <3>2, RoomAfterIs
      <4>2. QED
        BY <2>2, <2>4, <3>1, <4>1
    <3>3. CASE e.kind = "RoomLocked"
      <4>1. RoomAfter(row, e) = RoomPatched(row, [stub EXCEPT !.locked = TRUE], "locked")
        BY <2>1, <3>3, RoomAfterIs
      <4>2. QED
        BY <2>2, <2>4, <3>1, <4>1
    <3>4. QED
      BY <2>7, <3>2, <3>3
  <2>8. CASE e.kind \in {"RoomSettled", "ResultsSubmitted", "ResultsFinalized"}
    <3>1. PICK r \in Roots \cup {NoHash} : r = e.root
      BY <2>8, KindsApart DEF Event, ArcadeEvent, MarketEvent, PositionEvent, RequestEvent,
         ArcadeKinds, MarketKinds, RoomKinds
    <3>2. /\ [stub EXCEPT !.settled = TRUE, !.root = r] \in RoomRow
          /\ [stub EXCEPT !.root = r] \in RoomRow
          /\ [stub EXCEPT !.root = r, !.finalized = TRUE] \in RoomRow
      BY DEF RoomRow
    <3>3. CASE e.kind = "RoomSettled"
      <4>1. RoomAfter(row, e)
              = RoomPatched(row, [stub EXCEPT !.settled = TRUE, !.root = r], "settled")
        BY <2>1, <3>1, <3>3, RoomAfterIs
      <4>2. QED
        BY <2>2, <2>4, <3>2, <4>1
    <3>4. CASE e.kind = "ResultsSubmitted"
      <4>1. RoomAfter(row, e) = RoomPatched(row, [stub EXCEPT !.root = r], "settling")
        BY <2>1, <3>1, <3>4, RoomAfterIs
      <4>2. QED
        BY <2>2, <2>4, <3>2, <4>1
    <3>5. CASE e.kind = "ResultsFinalized"
      <4>1. RoomAfter(row, e)
              = RoomPatched(row, [stub EXCEPT !.root = r, !.finalized = TRUE], "finalized")
        BY <2>1, <3>1, <3>5, RoomAfterIs
      <4>2. QED
        BY <2>2, <2>4, <3>2, <4>1
    <3>6. QED
      BY <2>8, <3>3, <3>4, <3>5
  <2>9. QED
    BY <1>2, <2>5, <2>6, <2>7, <2>8 DEF RoomKinds
<1>3. QED
  BY <1>1, <1>2

LEMMA PlacementTyped ==
  ASSUME NEW rows \in [Players -> PlacementRow \cup {NoRow}], NEW e \in Event
  PROVE  PlacementAfter(rows, e) \in [Players -> PlacementRow \cup {NoRow}]
<1>1. CASE e.kind \notin PlayerKinds
  BY <1>1, PlacementKept
<1>2. CASE e.kind \in PlayerKinds
  <2>1. PICK p \in Players : p = e.player
    BY <1>2, KindsApart DEF Event, ArcadeEvent, MarketEvent, PositionEvent, RequestEvent,
       ArcadeKinds, MarketKinds, PlayerKinds
  <2>2. PICK row \in PlacementRow \cup {NoRow} : row = rows[p]
    OBVIOUS
  <2>3. /\ [NewPlacement EXCEPT !.joined = TRUE] \in PlacementRow
        /\ NewPlacement \in PlacementRow
    <3>1. NewPlacement \in PlacementRow
      BY ArcadeAssumption DEF NewPlacement, PlacementRow
    <3>2. \A new \in PlacementRow : [new EXCEPT !.joined = TRUE] \in PlacementRow
      BY DEF PlacementRow
    <3>3. QED
      BY <3>1, <3>2
  <2>4. PICK x : x = PlacedAfter(row, e)
    OBVIOUS
  <2>5. x \in PlacementRow \cup {NoRow}
    <3>1. CASE e.kind = "RoomJoined"
      BY <2>3, <2>4, <3>1, PlacedAfterIs
    <3>2. CASE e.kind = "SelectionCommitted"
      <4>1. PICK base \in PlacementRow : base = IF row = NoRow THEN NewPlacement ELSE row
        BY <2>3
      <4>2. PICK r \in 0 .. Rounds : r = e.round
        BY <3>2, KindsApart, ArcadeAssumption DEF Event, ArcadeEvent, MarketEvent,
           PositionEvent, RequestEvent, ArcadeKinds, MarketKinds, PlayerKinds
      <4>3. [base EXCEPT !.committed = TRUE, !.round = r] \in PlacementRow
        BY DEF PlacementRow
      <4>4. x = [base EXCEPT !.committed = TRUE, !.round = r]
        <5>1. x = [(IF row = NoRow THEN NewPlacement ELSE row)
                     EXCEPT !.committed = TRUE, !.round = e.round]
          BY <2>4, <3>2, PlacedAfterIs
        <5>2. QED
          BY <4>1, <4>2, <5>1
      <4>5. QED
        BY <4>3, <4>4
    <3>3. CASE row = NoRow /\ e.kind # "RoomJoined" /\ e.kind # "SelectionCommitted"
      BY <2>4, <3>3, PlacedAfterIs
    <3>4. CASE row # NoRow /\ e.kind \in {"RoomLeft", "Refunded", "PrizeClaimed"}
      <4>1. /\ [row EXCEPT !.left = TRUE] \in PlacementRow
            /\ [row EXCEPT !.refunded = TRUE] \in PlacementRow
            /\ [row EXCEPT !.claimed = TRUE] \in PlacementRow
        BY <3>4 DEF PlacementRow
      <4>2. QED
        BY <2>4, <3>4, <4>1, PlacedAfterIs
    <3>5. CASE row # NoRow /\ e.kind = "SelectionRevealed"
      <4>1. PICK r \in 0 .. Rounds : r = e.round
        BY <3>5, KindsApart, ArcadeAssumption DEF Event, ArcadeEvent, MarketEvent,
           PositionEvent, RequestEvent, ArcadeKinds, MarketKinds, PlayerKinds
      <4>2. [row EXCEPT !.revealed = TRUE, !.round = r] \in PlacementRow
        BY <3>5 DEF PlacementRow
      <4>3. QED
        BY <2>4, <3>5, <4>1, <4>2, PlacedAfterIs
    <3>6. QED
      BY <1>2, <3>1, <3>2, <3>3, <3>4, <3>5 DEF PlayerKinds
  <2>6. [rows EXCEPT ![p] = x] \in [Players -> PlacementRow \cup {NoRow}]
    BY <2>5
  <2>7. QED
    BY <1>2, <2>1, <2>2, <2>4, <2>6 DEF PlacementAfter
<1>3. QED
  BY <1>1, <1>2

LEMMA StagesTyped ==
  ASSUME NEW rows \in [Stages -> Roots \cup {NoHash, NoRow}], NEW e \in Event
  PROVE  StagesAfter(rows, e) \in [Stages -> Roots \cup {NoHash, NoRow}]
<1>1. CASE e.kind \notin StageKinds
  BY <1>1, StagesKept
<1>2. ASSUME NEW s, NEW r \in Roots \cup {NoHash}
      PROVE  [rows EXCEPT ![s] = r] \in [Stages -> Roots \cup {NoHash, NoRow}]
  OBVIOUS
<1>3. CASE e.kind \in {"ResultsSubmitted", "ResultsFinalized"}
  <2>1. e.root \in Roots \cup {NoHash}
    BY <1>3, KindsApart DEF Event, ArcadeEvent, MarketEvent, PositionEvent, RequestEvent,
       ArcadeKinds, MarketKinds, RoomKinds
  <2>2. QED
    BY <1>2, <1>3, <2>1, StagesAfterIs
<1>4. CASE e.kind \in {"ResultsChallenged", "ChallengeResolved", "SettlementRescued"}
  BY <1>2, <1>4, StagesAfterIs
<1>5. QED
  BY <1>1, <1>3, <1>4 DEF StageKinds

LEMMA RequestTyped ==
  ASSUME NEW row \in RequestRow \cup {NoRow}, NEW kind, NEW day \in 0 .. Days
  PROVE  RequestAfter(row, kind, day) \in RequestRow \cup {NoRow}
<1>1. CASE kind \notin DOMAIN StatusRank
  BY <1>1, RequestsKept
<1>2. CASE kind \in Upserting
  <2>1. kind \in DOMAIN StatusRank
    BY <1>2, RequestKinds
  <2>2. [status |-> kind, acceptedAt |-> day, cancelled |-> FALSE] \in RequestRow
    BY <2>1 DEF RequestRow
  <2>3. row # NoRow => [row EXCEPT !.status = kind] \in RequestRow
    BY <2>1 DEF RequestRow
  <2>4. CASE row = NoRow
    <3>1. RequestAfter(row, kind, day)
            = [status |-> kind, acceptedAt |-> day, cancelled |-> FALSE]
      BY <1>2, <2>4, RequestAfterIs
    <3>2. QED
      BY <2>2, <3>1
  <2>5. CASE row # NoRow
    <3>1. RequestAfter(row, kind, day) = IF StatusRank[row.status] >= StatusRank[kind] THEN row
                                         ELSE [row EXCEPT !.status = kind]
      BY <1>2, <2>5, RequestAfterIs
    <3>2. QED
      BY <2>3, <2>5, <3>1
  <2>6. QED
    BY <2>4, <2>5
<1>3. CASE kind = "cancelled"
  <2>1. "cancelled" \in DOMAIN StatusRank
    BY RequestKinds
  <2>2. [status |-> "cancelled", acceptedAt |-> day, cancelled |-> TRUE] \in RequestRow
    BY <2>1 DEF RequestRow
  <2>3. row # NoRow =>
          [row EXCEPT !.status = "cancelled", !.cancelled = TRUE] \in RequestRow
    BY <2>1 DEF RequestRow
  <2>4. RequestAfter(row, kind, day)
          = IF row = NoRow
            THEN [status |-> "cancelled", acceptedAt |-> day, cancelled |-> TRUE]
            ELSE [row EXCEPT !.status = "cancelled", !.cancelled = TRUE]
    BY <1>3, RequestAfterIs
  <2>5. QED
    BY <2>2, <2>3, <2>4
<1>4. QED
  BY <1>1, <1>2, <1>3 DEF Upserting

LEMMA LoanTyped ==
  ASSUME NEW row \in LoanRow \cup {NoRow}, NEW kind, NEW day \in 0 .. Days
  PROVE  LoanAfter(row, kind, day) \in LoanRow \cup {NoRow}
<1>1. /\ [status |-> "open", openedAt |-> day, known |-> TRUE] \in LoanRow
      /\ [status |-> "repaid", openedAt |-> day, known |-> FALSE] \in LoanRow
      /\ row # NoRow => [row EXCEPT !.status = "repaid"] \in LoanRow
  BY DEF LoanRow
<1>2. CASE kind \in LoanOpening
  <2>1. LoanAfter(row, kind, day) = [status |-> "open", openedAt |-> day, known |-> TRUE]
    BY <1>2, LoanAfterIs
  <2>2. QED
    BY <1>1, <2>1
<1>3. CASE kind \in LoanClosing
  <2>1. LoanAfter(row, kind, day) = IF row = NoRow
                                    THEN [status |-> "repaid", openedAt |-> day, known |-> FALSE]
                                    ELSE [row EXCEPT !.status = "repaid"]
    BY <1>3, LoanAfterIs
  <2>2. QED
    BY <1>1, <2>1
<1>4. CASE kind \notin LoanOpening \cup LoanClosing
  BY <1>4, RequestsKept
<1>5. QED
  BY <1>2, <1>3, <1>4

LEMMA DepositTyped ==
  ASSUME NEW row \in DepositRow \cup {NoRow}, NEW kind
  PROVE  DepositAfter(row, kind) \in DepositRow \cup {NoRow}
BY DEF DepositAfter, DepositRow

LEMMA AfterTyped ==
  ASSUME NEW t \in TableSet, NEW x \in Entry
  PROVE  After(t, x) \in TableSet
<1>1. x.event \in Event /\ x.day \in 0 .. Days
  BY DEF Entry
<1>2. /\ t.room \in RoomRow \cup {NoRow}
      /\ t.placement \in [Players -> PlacementRow \cup {NoRow}]
      /\ t.stages \in [Stages -> Roots \cup {NoHash, NoRow}]
      /\ t.request \in RequestRow \cup {NoRow} /\ t.context \in BOOLEAN
      /\ t.loan \in LoanRow \cup {NoRow} /\ t.deposit \in DepositRow \cup {NoRow}
  BY DEF TableSet
<1>3. /\ RoomAfter(t.room, x.event) \in RoomRow \cup {NoRow}
      /\ PlacementAfter(t.placement, x.event) \in [Players -> PlacementRow \cup {NoRow}]
      /\ StagesAfter(t.stages, x.event) \in [Stages -> Roots \cup {NoHash, NoRow}]
      /\ RequestAfter(t.request, x.event.kind, x.day) \in RequestRow \cup {NoRow}
      /\ LoanAfter(t.loan, x.event.kind, x.day) \in LoanRow \cup {NoRow}
      /\ DepositAfter(t.deposit, x.event.kind) \in DepositRow \cup {NoRow}
  BY <1>1, <1>2, RoomTyped, PlacementTyped, StagesTyped, RequestTyped, LoanTyped,
     DepositTyped
<1>4. (t.context \/ x.event.kind = "gateway_prepared") \in BOOLEAN
  BY <1>2
<1>5. QED
  BY <1>3, <1>4 DEF After, TableSet

-----------------------------------------------------------------------------
(* What is emitted is one more step of the run.                            *)

At(e) == [day |-> today, event |-> e]

LEMMA EntriesAre ==
  /\ \A a : [k \in 1 .. Len(<<a>>) |-> At(<<a>>[k])] = <<At(a)>>
  /\ \A a, b : [k \in 1 .. Len(<<a, b>>) |-> At(<<a, b>>[k])] = <<At(a), At(b)>>
  /\ \A a, b, c : [k \in 1 .. Len(<<a, b, c>>) |-> At(<<a, b, c>>[k])]
                    = <<At(a), At(b), At(c)>>
OBVIOUS

LEMMA EmitOne ==
  ASSUME log \in Seq(Entry), today \in 0 .. Days, NEW a \in Event, Emit(<<a>>),
         NEW last \in TableSet, Caught(log, Tables, last), Tables' = Tables,
         NEW next, next = After(last, At(a))
  PROVE  /\ log' \in Seq(Entry) /\ UNCHANGED today
         /\ next \in TableSet /\ Caught(log', Tables', next)
<1>1. PICK x \in Entry : x = At(a)
  BY DEF Entry, At
<1>2. log' = log \o <<x>> /\ UNCHANGED today
  BY <1>1, EntriesAre DEF Emit, At
<1>3. log' = Append(log, x)
  BY <1>2
<1>4. Caught(Append(log, x), Tables, After(last, x))
  BY <1>1, CaughtEmit
<1>5. log' \in Seq(Entry)
  BY <1>3
<1>6. next \in TableSet
  BY <1>1, AfterTyped
<1>7. Caught(log', Tables, next)
  BY <1>1, <1>3, <1>4
<1>8. Caught(log', Tables', next)
  BY <1>7
<1>9. QED
  BY <1>2, <1>5, <1>6, <1>8

LEMMA EmitTwo ==
  ASSUME log \in Seq(Entry), today \in 0 .. Days, NEW a \in Event, NEW b \in Event,
         Emit(<<a, b>>),
         NEW last \in TableSet, Caught(log, Tables, last), Tables' = Tables,
         NEW mid, mid = After(last, At(a)),
         NEW next, next = After(mid, At(b))
  PROVE  /\ log' \in Seq(Entry) /\ UNCHANGED today
         /\ mid \in TableSet /\ next \in TableSet /\ Caught(log', Tables', next)
<1>1. PICK x \in Entry : x = At(a)
  BY DEF Entry, At
<1>2. PICK y \in Entry : y = At(b)
  BY DEF Entry, At
<1>3. log' = log \o <<x, y>> /\ UNCHANGED today
  BY <1>1, <1>2, EntriesAre DEF Emit, At
<1>4. PICK one \in Seq(Entry) : one = Append(log, x)
  <2>1. Append(log, x) \in Seq(Entry)
    OBVIOUS
  <2>2. QED
    BY <2>1
<1>5. log' = Append(one, y)
  BY <1>3, <1>4
<1>6. Caught(one, Tables, mid) /\ mid \in TableSet
  BY <1>1, <1>4, CaughtEmit, AfterTyped
<1>7. Caught(Append(one, y), Tables, next) /\ next \in TableSet
  BY <1>2, <1>6, CaughtEmit, AfterTyped
<1>8. log' \in Seq(Entry)
  BY <1>5
<1>9. Caught(log', Tables, next)
  BY <1>5, <1>7
<1>10. Caught(log', Tables', next)
  BY <1>9
<1>11. QED
  BY <1>3, <1>6, <1>7, <1>8, <1>10

LEMMA EmitThree ==
  ASSUME log \in Seq(Entry), today \in 0 .. Days,
         NEW a \in Event, NEW b \in Event, NEW c \in Event, Emit(<<a, b, c>>),
         NEW last \in TableSet, Caught(log, Tables, last), Tables' = Tables,
         NEW mid, mid = After(last, At(a)),
         NEW mid2, mid2 = After(mid, At(b)),
         NEW next, next = After(mid2, At(c))
  PROVE  /\ log' \in Seq(Entry) /\ UNCHANGED today
         /\ mid \in TableSet /\ mid2 \in TableSet
         /\ next \in TableSet /\ Caught(log', Tables', next)
<1>1. PICK x \in Entry : x = At(a)
  BY DEF Entry, At
<1>2. PICK y \in Entry : y = At(b)
  BY DEF Entry, At
<1>3. PICK z \in Entry : z = At(c)
  BY DEF Entry, At
<1>4. log' = log \o <<x, y, z>> /\ UNCHANGED today
  <2>1. log' = log \o [k \in 1 .. Len(<<a, b, c>>) |-> At(<<a, b, c>>[k])] /\ UNCHANGED today
    BY DEF Emit, At
  <2>2. [k \in 1 .. Len(<<a, b, c>>) |-> At(<<a, b, c>>[k])] = <<x, y, z>>
    BY <1>1, <1>2, <1>3, EntriesAre
  <2>3. QED
    BY <2>1, <2>2
<1>5. PICK one \in Seq(Entry) : one = Append(log, x)
  <2>1. Append(log, x) \in Seq(Entry)
    OBVIOUS
  <2>2. QED
    BY <2>1
<1>6. PICK two \in Seq(Entry) : two = Append(one, y)
  <2>1. Append(one, y) \in Seq(Entry)
    OBVIOUS
  <2>2. QED
    BY <2>1
<1>7. log' = Append(two, z)
  BY <1>4, <1>5, <1>6
<1>8. Caught(one, Tables, mid) /\ mid \in TableSet
  BY <1>1, <1>5, CaughtEmit, AfterTyped
<1>9. Caught(two, Tables, mid2) /\ mid2 \in TableSet
  BY <1>2, <1>6, <1>8, CaughtEmit, AfterTyped
<1>10. Caught(Append(two, z), Tables, next) /\ next \in TableSet
  BY <1>3, <1>9, CaughtEmit, AfterTyped
<1>11. log' \in Seq(Entry)
  BY <1>7
<1>12. Caught(log', Tables, next)
  BY <1>7, <1>10
<1>13. Caught(log', Tables', next)
  BY <1>12
<1>14. QED
  BY <1>4, <1>8, <1>9, <1>10, <1>11, <1>13

-----------------------------------------------------------------------------
(* The inductive invariant: what the tables will show is what the          *)
(* contracts are.  The tables themselves are behind, by what is in the log.*)

FlagsGood(t) ==
    /\ t.room.finalized <=> escrow.status = "settled"
    /\ t.room.cancelled <=> escrow.cancelEvent

RoomGood(t) ==
    /\ escrow.status = "none" <=> t.room = NoRow
    /\ escrow.status \in {"lobby", "locked", "settling"} => t.room.status = escrow.status
    /\ escrow.status = "settled" =>
          /\ t.room.status = "finalized"
          /\ t.room.root = escrow.root
          /\ t.stages["finalized"] = escrow.root
    /\ escrow.status = "cancelled" =>
          t.room.status = IF escrow.cancelEvent THEN "cancelled" ELSE "finalized"
    /\ escrow.cancelEvent => escrow.status = "cancelled"
    /\ t.room # NoRow => FlagsGood(t)

PlayerGood(row, p) ==
    /\ p \in escrow.joined <=> row # NoRow /\ row.joined /\ ~row.left
    /\ p \in escrow.refunded <=> row # NoRow /\ row.refunded
    /\ p \in escrow.claimed <=> row # NoRow /\ row.claimed
    /\ row # NoRow => /\ row.round = escrow.commits[p]
                      /\ row.committed <=> escrow.commits[p] > 0

PlacementGood(t) == \A p \in Players : PlayerGood(t.placement[p], p)

\* Nobody has committed or been paid before the room is locked or cancelled:
\* a player who comes back to the lobby loses nothing with the old row.
EscrowOK ==
    escrow.status \in {"none", "lobby"} =>
        /\ escrow.refunded = {} /\ escrow.claimed = {}
        /\ \A p \in Players : escrow.commits[p] = 0

\* An anchor or a settlement is recorded for a round that was started.
RoundOK == escrow.phase # "over" => escrow.round > 0

FirstOn(kinds, day) ==
    \E k \in Times(kinds) :
        (\A j \in Times(kinds) : k <= j) /\ history[k].day = day

LastWas(kinds, kind) ==
    \E k \in Times(kinds) :
        (\A j \in Times(kinds) : j <= k) /\ history[k].kind = kind

LoanKinds == LoanOpening \cup LoanClosing

Below(rank) ==
    \A k \in Times(DOMAIN StatusRank) : StatusRank[history[k].kind] <= rank

RouteGood(t) ==
    /\ SomeHappened(DOMAIN StatusRank) <=> t.request # NoRow
    /\ SomeHappened(DOMAIN StatusRank) =>
         /\ Below(StatusRank[t.request.status])
         /\ Happened(t.request.status)
         /\ FirstOn(DOMAIN StatusRank, t.request.acceptedAt)
         /\ t.request.cancelled <=> Happened("cancelled")
    /\ t.context <=> Happened("gateway_prepared")

LoanGood(t) ==
    /\ SomeHappened(LoanKinds) <=> t.loan # NoRow
    /\ SomeHappened(LoanKinds) =>
         /\ t.loan.known /\ FirstOn(LoanKinds, t.loan.openedAt)
         /\ t.loan.status = "repaid" <=> SomeHappened(LoanClosing)

DepositGood(t) ==
    /\ SomeHappened(DepositStatus) <=> t.deposit # NoRow
    /\ SomeHappened(DepositStatus) => LastWas(DepositStatus, t.deposit.status)

RequestGood(t) == RouteGood(t) /\ LoanGood(t) /\ DepositGood(t)

\* A loan is closed only after it was asked for.
HistoryOK == SomeHappened(LoanClosing) => SomeHappened(LoanOpening)

HistorySet == Seq([kind : RequestEvents, day : 0..Days])

Typed ==
    /\ log \in Seq(Entry)
    /\ today \in 0..Days
    /\ escrow \in Escrow
    /\ history \in HistorySet
    /\ Tables \in TableSet

Good(t) == RoomGood(t) /\ PlacementGood(t) /\ RequestGood(t)

Foreseen == \E last \in TableSet : Caught(log, Tables, last) /\ Good(last)

Follows == Typed /\ EscrowOK /\ RoundOK /\ HistoryOK /\ Foreseen

LEMMA AfterQuiet ==
  ASSUME NEW t \in TableSet, NEW e, NEW next, next = After(t, At(e))
  PROVE  /\ e.kind \notin RoomKinds => next.room = t.room
         /\ e.kind \notin PlayerKinds => next.placement = t.placement
         /\ e.kind \notin StageKinds => next.stages = t.stages
         /\ e.kind \notin RequestEvents =>
               /\ next.request = t.request /\ next.context = t.context
               /\ next.loan = t.loan /\ next.deposit = t.deposit
<1>1. /\ next.room = RoomAfter(t.room, e)
      /\ next.placement = PlacementAfter(t.placement, e)
      /\ next.stages = StagesAfter(t.stages, e)
      /\ next.request = RequestAfter(t.request, e.kind, today)
      /\ next.context = (t.context \/ e.kind = "gateway_prepared")
      /\ next.loan = LoanAfter(t.loan, e.kind, today)
      /\ next.deposit = DepositAfter(t.deposit, e.kind)
  BY DEF After, At
<1>2. t.context \in BOOLEAN
  BY DEF TableSet
<1>3. ASSUME e.kind \notin RequestEvents
      PROVE  /\ next.request = t.request /\ next.context = t.context
             /\ next.loan = t.loan /\ next.deposit = t.deposit
  <2>1. /\ e.kind \notin DOMAIN StatusRank /\ e.kind \notin LoanOpening \cup LoanClosing
        /\ e.kind \notin DepositStatus /\ e.kind # "gateway_prepared"
    BY <1>3, KindsApart DEF RequestEvents
  <2>2. QED
    BY <1>1, <1>2, <2>1, RequestsKept
<1>4. QED
  BY <1>1, <1>3, RoomKept, PlacementKept, StagesKept

LEMMA RoomGoodKept ==
  ASSUME NEW t, NEW next, RoomGood(t),
         next.room = t.room, next.stages["finalized"] = t.stages["finalized"],
         escrow'.status = escrow.status, escrow'.cancelEvent = escrow.cancelEvent,
         escrow.status = "settled" => escrow'.root = escrow.root
  PROVE  RoomGood(next)'
BY DEF RoomGood, FlagsGood

LEMMA PlacementGoodKept ==
  ASSUME NEW t, NEW next, PlacementGood(t), next.placement = t.placement,
         escrow'.joined = escrow.joined, escrow'.refunded = escrow.refunded,
         escrow'.claimed = escrow.claimed, escrow'.commits = escrow.commits
  PROVE  PlacementGood(next)'
BY DEF PlacementGood, PlayerGood

LEMMA RequestGoodKept ==
  ASSUME NEW t, NEW next, RequestGood(t),
         next.request = t.request, next.context = t.context, next.loan = t.loan,
         next.deposit = t.deposit, UNCHANGED history
  PROVE  RequestGood(next)'
BY DEF RequestGood, RouteGood, LoanGood, DepositGood, Below, FirstOn, LastWas, Times,
       SomeHappened, Happened

LEMMA KindSorts ==
  /\ \A k \in {"RoundStarted", "AnchorRecorded", "SettlementRecorded"} :
       k \notin RoomKinds \cup PlayerKinds \cup StageKinds
  /\ \A k \in {"ResultsChallenged", "ChallengeResolved", "SettlementRescued"} :
       k \notin RoomKinds \cup PlayerKinds
  /\ \A k \in PlayerKinds : k \notin RoomKinds \cup StageKinds
  /\ \A k \in {"RoomCreated", "RoomStatusUpdated", "RoomCancelled", "RoomLocked",
               "RoomSettled"} : k \in RoomKinds /\ k \notin PlayerKinds \cup StageKinds
  /\ \A k \in {"ResultsSubmitted", "ResultsFinalized"} : k \notin PlayerKinds
  /\ \A k \in RoomKinds \cup PlayerKinds \cup StageKinds \cup RoundKinds :
       k \notin RequestEvents
<1>1. \A k \in RoomKinds \cup PlayerKinds \cup StageKinds \cup RoundKinds :
        k \notin RequestEvents
  BY KindsApart DEF ArcadeKinds
<1>2. QED
  BY <1>1 DEF RoomKinds, PlayerKinds, StageKinds

\* What an action of the contracts has to do.
Foresees == log' \in Seq(Entry) /\ escrow' \in Escrow /\ EscrowOK' /\ RoundOK' /\ Foreseen'

LEMMA FinalStageKept ==
  ASSUME NEW t \in TableSet, NEW e,
         e.kind \notin {"ResultsSubmitted", "ResultsFinalized"},
         NEW next, next = After(t, At(e))
  PROVE  next.stages["finalized"] = t.stages["finalized"]
<1>1. next.stages = StagesAfter(t.stages, e) /\ "finalized" \in DOMAIN t.stages
  BY DEF After, At, TableSet, Stages
<1>2. CASE e.kind \notin StageKinds
  BY <1>1, <1>2, StagesKept
<1>3. CASE e.kind \in {"ResultsChallenged", "ChallengeResolved", "SettlementRescued"}
  BY <1>1, <1>3, StagesAfterIs
<1>4. QED
  BY <1>2, <1>3 DEF StageKinds

LEMMA QuietContract ==
  ASSUME Typed, EscrowOK, RoundOK, Foreseen, UNCHANGED history,
         \/ StartRound \/ RecordAnchor \/ RecordSettlement \/ ChallengeResults
         \/ \E root \in Roots : ResolveChallenge(root),
         Tables' = Tables
  PROVE  Foresees
<1>1. PICK last \in TableSet : Caught(log, Tables, last) /\ Good(last)
  BY DEF Foreseen
<1>2. escrow.status \in ContractStatus /\ escrow.round \in 0 .. Rounds /\ Rounds \in Nat
  BY ArcadeAssumption DEF Typed, Escrow
<1> DEFINE next(e) == After(last, At(e))
<1>3. PICK e \in Event :
         /\ Emit(<<e>>)
         /\ e.kind \in {"RoundStarted", "AnchorRecorded", "SettlementRecorded",
                        "ResultsChallenged", "ChallengeResolved"}
  <2>1. CASE StartRound
    <3>1. escrow.round + 1 \in 1 .. Rounds
      BY <1>2, <2>1 DEF StartRound
    <3>2. [kind |-> "RoundStarted", round |-> escrow.round + 1] \in Event
      BY <3>1 DEF Event, ArcadeEvent
    <3>3. QED
      BY <2>1, <3>2 DEF StartRound
  <2>2. CASE RecordAnchor \/ RecordSettlement
    <3>1. escrow.round \in 1 .. Rounds
      BY <1>2, <2>2 DEF RecordAnchor, RecordSettlement, RoundOK
    <3>2. /\ [kind |-> "AnchorRecorded", round |-> escrow.round] \in Event
          /\ [kind |-> "SettlementRecorded", round |-> escrow.round] \in Event
      BY <3>1 DEF Event, ArcadeEvent
    <3>3. QED
      BY <2>2, <3>2 DEF RecordAnchor, RecordSettlement
  <2>3. CASE ChallengeResults \/ \E root \in Roots : ResolveChallenge(root)
    <3>1. [kind |-> "ResultsChallenged"] \in Event /\ [kind |-> "ChallengeResolved"] \in Event
      BY DEF Event, ArcadeEvent
    <3>2. QED
      BY <2>3, <3>1 DEF ChallengeResults, ResolveChallenge
  <2>4. QED
    BY <2>1, <2>2, <2>3
<1>4. /\ log' \in Seq(Entry) /\ UNCHANGED today
      /\ next(e) \in TableSet /\ Caught(log', Tables', next(e))
  BY <1>1, <1>3, EmitOne DEF Typed
<1>5. /\ escrow' \in Escrow /\ RoundOK'
      /\ escrow'.joined = escrow.joined /\ escrow'.refunded = escrow.refunded
      /\ escrow'.claimed = escrow.claimed /\ escrow'.commits = escrow.commits
      /\ escrow'.status = escrow.status /\ escrow'.cancelEvent = escrow.cancelEvent
      /\ escrow.status = "settled" => escrow'.root = escrow.root
  <2>1. escrow \in Escrow
    BY DEF Typed
  <2>2. CASE StartRound
    <3>1. PICK r \in 0 .. Rounds : r = escrow.round + 1 /\ r > 0
      BY <1>2, <2>2 DEF StartRound
    <3>2. escrow' = [escrow EXCEPT !.round = r, !.phase = "started"]
      BY <2>2, <3>1 DEF StartRound
    <3>3. QED
      BY <2>1, <3>1, <3>2 DEF Escrow, RoundOK
  <2>3. CASE RecordAnchor
    BY <1>2, <2>1, <2>3 DEF RecordAnchor, Escrow, RoundOK
  <2>4. CASE RecordSettlement
    BY <1>2, <2>1, <2>4 DEF RecordSettlement, Escrow, RoundOK
  <2>5. CASE ChallengeResults
    BY <1>2, <2>1, <2>5 DEF ChallengeResults, Escrow, RoundOK
  <2>6. CASE \E root \in Roots : ResolveChallenge(root)
    BY <1>2, <2>1, <2>6 DEF ResolveChallenge, Escrow, RoundOK
  <2>7. QED
    BY <2>2, <2>3, <2>4, <2>5, <2>6
<1>6. EscrowOK'
  BY <1>5 DEF EscrowOK
<1>7. PICK new : new = next(e)
  OBVIOUS
<1>8. /\ new.room = last.room /\ new.placement = last.placement
      /\ new.stages["finalized"] = last.stages["finalized"]
      /\ new.request = last.request /\ new.context = last.context
      /\ new.loan = last.loan /\ new.deposit = last.deposit
  <2>1. /\ e.kind \notin RoomKinds \cup PlayerKinds /\ e.kind \notin RequestEvents
        /\ e.kind \notin {"ResultsSubmitted", "ResultsFinalized"}
    BY <1>3, KindSorts DEF RoundKinds, StageKinds
  <2>2. QED
    BY <1>7, <2>1, AfterQuiet, FinalStageKept
<1>9. RoomGood(new)'
  BY <1>1, <1>5, <1>8, RoomGoodKept DEF Good
<1>10. PlacementGood(new)'
  BY <1>1, <1>5, <1>8, PlacementGoodKept DEF Good
<1>11. RequestGood(new)'
  BY <1>1, <1>8, RequestGoodKept DEF Good
<1>12. Foreseen'
  BY <1>4, <1>7, <1>9, <1>10, <1>11 DEF Foreseen, Good
<1>13. QED
  BY <1>4, <1>5, <1>6, <1>12 DEF Foresees

\* What an event about a player leaves as it is.
Apart(p) ==
    /\ escrow'.status = escrow.status /\ escrow'.cancelEvent = escrow.cancelEvent
    /\ escrow'.root = escrow.root /\ escrow'.phase = escrow.phase
    /\ escrow'.round = escrow.round
    /\ \A q \in Players \ {p} :
         /\ q \in escrow'.joined <=> q \in escrow.joined
         /\ q \in escrow'.refunded <=> q \in escrow.refunded
         /\ q \in escrow'.claimed <=> q \in escrow.claimed
         /\ escrow'.commits[q] = escrow.commits[q]

Shows(row, p) ==
    \E e \in Event : /\ Emit(<<e>>)
                     /\ e.kind \in PlayerKinds /\ e.player = p
                     /\ PlayerGood(PlacedAfter(row, e), p)'

LEMMA PlayersComeAndGo ==
  ASSUME Typed, EscrowOK, NEW p \in Players, JoinRoom(p) \/ LeaveRoom(p),
         NEW row \in PlacementRow \cup {NoRow}, PlayerGood(row, p)
  PROVE  escrow' \in Escrow /\ EscrowOK' /\ Apart(p) /\ Shows(row, p)
<1>1. escrow \in Escrow /\ escrow.status = "lobby"
  BY DEF Typed, JoinRoom, LeaveRoom
<1>2. escrow.refunded = {} /\ escrow.claimed = {} /\ escrow.commits[p] = 0
  BY <1>1 DEF EscrowOK
<1>3. CASE JoinRoom(p)
  <2>1. escrow' \in Escrow /\ EscrowOK' /\ Apart(p) /\ p \in escrow'.joined
        /\ escrow'.refunded = {} /\ escrow'.claimed = {} /\ escrow'.commits[p] = 0
    BY <1>1, <1>2, <1>3 DEF JoinRoom, Escrow, EscrowOK, Apart
  <2>2. PICK e \in Event : e = Player("RoomJoined", p)
    BY DEF Event, ArcadeEvent, Player
  <2>3. Emit(<<e>>) /\ e.kind = "RoomJoined" /\ e.player = p
    BY <1>3, <2>2 DEF JoinRoom, Player
  <2>4. NewPlacement \in PlacementRow
    BY ArcadeAssumption DEF NewPlacement, PlacementRow
  <2>5. PICK new \in PlacementRow : new = [NewPlacement EXCEPT !.joined = TRUE]
    BY <2>4 DEF PlacementRow
  <2>6. new = PlacedAfter(row, e) /\ new # NoRow
    BY <2>3, <2>5, PlacedAfterIs, ArcadeAssumption
  <2>7. new.joined /\ ~new.left /\ ~new.refunded /\ ~new.claimed /\ new.round = 0
        /\ ~new.committed
    BY <2>5 DEF NewPlacement
  <2>8. PlayerGood(new, p)'
    BY <2>1, <2>6, <2>7 DEF PlayerGood
  <2>9. QED
    BY <2>1, <2>3, <2>6, <2>8 DEF Shows, PlayerKinds
<1>4. CASE LeaveRoom(p)
  <2>1. escrow' \in Escrow /\ EscrowOK' /\ Apart(p) /\ p \notin escrow'.joined
        /\ escrow'.refunded = {} /\ escrow'.claimed = {} /\ escrow'.commits[p] = 0
    BY <1>1, <1>2, <1>4 DEF LeaveRoom, Escrow, EscrowOK, Apart
  <2>2. PICK e \in Event : e = Player("RoomLeft", p)
    BY DEF Event, ArcadeEvent, Player
  <2>3. Emit(<<e>>) /\ e.kind = "RoomLeft" /\ e.player = p
    BY <1>4, <2>2 DEF LeaveRoom, Player
  <2>4. row # NoRow /\ row \in PlacementRow
    BY <1>4 DEF LeaveRoom, PlayerGood
  <2>5. PICK new \in PlacementRow : new = [row EXCEPT !.left = TRUE]
    BY <2>4 DEF PlacementRow
  <2>6. new = PlacedAfter(row, e) /\ new # NoRow
    BY <2>3, <2>4, <2>5, PlacedAfterIs, ArcadeAssumption
  <2>7. new.left /\ new.refunded = row.refunded /\ new.claimed = row.claimed
        /\ new.round = row.round /\ new.committed = row.committed
    BY <2>4, <2>5 DEF PlacementRow
  <2>8. ~row.refunded /\ ~row.claimed /\ row.round = 0 /\ ~row.committed
    BY <1>2, <2>4 DEF PlayerGood
  <2>9. PlayerGood(new, p)'
    BY <2>1, <2>6, <2>7, <2>8 DEF PlayerGood
  <2>10. QED
    BY <2>1, <2>3, <2>6, <2>9 DEF Shows, PlayerKinds
<1>5. QED
  BY <1>3, <1>4

LEMMA PlayersCommit ==
  ASSUME Typed, EscrowOK, RoundOK, NEW p \in Players,
         CommitSelection(p) \/ RevealSelection(p),
         NEW row \in PlacementRow \cup {NoRow}, PlayerGood(row, p)
  PROVE  escrow' \in Escrow /\ EscrowOK' /\ Apart(p) /\ Shows(row, p)
<1>1. escrow \in Escrow /\ escrow.status = "locked" /\ Rounds \in Nat
  BY ArcadeAssumption DEF Typed, CommitSelection, RevealSelection
<1>2. /\ escrow.round \in 0 .. Rounds /\ escrow.commits \in [Players -> 0 .. Rounds]
      /\ escrow.reveals \in [Players -> 0 .. Rounds]
  BY <1>1 DEF Escrow
<1>3. PICK r \in 1 .. Rounds : r = escrow.round
  <2>1. escrow.commits[p] \in Nat /\ escrow.reveals[p] \in Nat
    BY <1>1, <1>2
  <2>2. escrow.round > 0
    BY <1>2, <2>1 DEF CommitSelection, RevealSelection
  <2>3. QED
    BY <1>1, <1>2, <2>2
<1>4. CASE CommitSelection(p)
  <2>1. escrow' = [escrow EXCEPT !.commits = [escrow.commits EXCEPT ![p] = r]]
    BY <1>1, <1>3, <1>4 DEF CommitSelection
  <2>2. PICK commits \in [Players -> 0 .. Rounds] :
           commits = [escrow.commits EXCEPT ![p] = r]
    BY <1>1, <1>2, <1>3
  <2>3. escrow' = [escrow EXCEPT !.commits = commits] /\ commits[p] = r
        /\ \A q \in Players \ {p} : commits[q] = escrow.commits[q]
    BY <1>2, <2>1, <2>2
  <2>4. /\ escrow' \in Escrow /\ EscrowOK' /\ Apart(p)
        /\ escrow'.joined = escrow.joined /\ escrow'.refunded = escrow.refunded
        /\ escrow'.claimed = escrow.claimed /\ escrow'.commits[p] = r
    BY <1>1, <2>3 DEF Escrow, EscrowOK, Apart
  <2>5. PICK e \in Event : e = [kind |-> "SelectionCommitted", player |-> p, round |-> r]
    BY DEF Event, ArcadeEvent
  <2>6. Emit(<<e>>) /\ e.kind = "SelectionCommitted" /\ e.player = p /\ e.round = r
    BY <1>3, <1>4, <2>5 DEF CommitSelection
  <2>7. row # NoRow /\ row \in PlacementRow
    BY <1>4 DEF CommitSelection, PlayerGood
  <2>8. PICK new \in PlacementRow : new = [row EXCEPT !.committed = TRUE, !.round = r]
    <3>1. PICK n \in 0 .. Rounds : n = r
      BY <1>1
    <3>2. [row EXCEPT !.committed = TRUE, !.round = n] \in PlacementRow
      BY <2>7 DEF PlacementRow
    <3>3. QED
      BY <3>1, <3>2
  <2>9. new = PlacedAfter(row, e) /\ new # NoRow
    <3>1. PlacedAfter(row, e) = [row EXCEPT !.committed = TRUE, !.round = e.round]
      BY <2>6, <2>7 DEF PlacedAfter
    <3>2. QED
      BY <2>6, <2>8, <3>1, ArcadeAssumption
  <2>10. new.joined = row.joined /\ new.left = row.left /\ new.refunded = row.refunded
         /\ new.claimed = row.claimed /\ new.round = r /\ new.committed
    BY <2>7, <2>8 DEF PlacementRow
  <2>11. PlayerGood(new, p)'
    BY <2>4, <2>7, <2>9, <2>10 DEF PlayerGood
  <2>12. QED
    BY <2>4, <2>6, <2>9, <2>11 DEF Shows, PlayerKinds
<1>5. CASE RevealSelection(p)
  <2>1. escrow' = [escrow EXCEPT !.reveals = [escrow.reveals EXCEPT ![p] = r]]
    BY <1>1, <1>3, <1>5 DEF RevealSelection
  <2>2. PICK reveals \in [Players -> 0 .. Rounds] :
           reveals = [escrow.reveals EXCEPT ![p] = r]
    BY <1>1, <1>2, <1>3
  <2>3. escrow' = [escrow EXCEPT !.reveals = reveals]
    BY <2>1, <2>2
  <2>4. /\ escrow' \in Escrow /\ EscrowOK' /\ Apart(p)
        /\ escrow'.joined = escrow.joined /\ escrow'.refunded = escrow.refunded
        /\ escrow'.claimed = escrow.claimed /\ escrow'.commits = escrow.commits
    BY <1>1, <2>3 DEF Escrow, EscrowOK, Apart
  <2>5. PICK e \in Event : e = [kind |-> "SelectionRevealed", player |-> p, round |-> r]
    BY DEF Event, ArcadeEvent
  <2>6. Emit(<<e>>) /\ e.kind = "SelectionRevealed" /\ e.player = p /\ e.round = r
        /\ escrow.commits[p] = r
    BY <1>3, <1>5, <2>5 DEF RevealSelection
  <2>7. CASE row = NoRow
    <3>1. PlacedAfter(row, e) = NoRow
      BY <2>6, <2>7, PlacedAfterIs
    <3>2. PlayerGood(row, p)'
      BY <2>4, <2>7 DEF PlayerGood
    <3>3. QED
      BY <2>4, <2>6, <2>7, <3>1, <3>2 DEF Shows, PlayerKinds
  <2>8. CASE row # NoRow
    <3>1. PICK new \in PlacementRow : new = [row EXCEPT !.revealed = TRUE, !.round = r]
      <4>1. PICK n \in 0 .. Rounds : n = r
        BY <1>1
      <4>2. [row EXCEPT !.revealed = TRUE, !.round = n] \in PlacementRow
        BY <2>8 DEF PlacementRow
      <4>3. QED
        BY <4>1, <4>2
    <3>2. new = PlacedAfter(row, e) /\ new # NoRow
      <4>1. PlacedAfter(row, e) = [row EXCEPT !.revealed = TRUE, !.round = e.round]
        BY <2>6, <2>8, PlacedAfterIs
      <4>2. QED
        BY <2>6, <3>1, <4>1, ArcadeAssumption
    <3>3. new.joined = row.joined /\ new.left = row.left /\ new.refunded = row.refunded
          /\ new.claimed = row.claimed /\ new.round = r /\ new.committed = row.committed
      BY <2>8, <3>1 DEF PlacementRow
    <3>4. PlayerGood(new, p)'
      BY <2>4, <2>6, <2>8, <3>2, <3>3 DEF PlayerGood
    <3>5. QED
      BY <2>4, <2>6, <3>2, <3>4 DEF Shows, PlayerKinds
  <2>9. QED
    BY <2>7, <2>8
<1>6. QED
  BY <1>4, <1>5

LEMMA PlayersArePaid ==
  ASSUME Typed, EscrowOK, NEW p \in Players, Refund(p) \/ ClaimPrize(p),
         NEW row \in PlacementRow \cup {NoRow}, PlayerGood(row, p)
  PROVE  escrow' \in Escrow /\ EscrowOK' /\ Apart(p) /\ Shows(row, p)
<1>1. escrow \in Escrow /\ escrow.status \in {"cancelled", "settled"} /\ p \in escrow.joined
  BY DEF Typed, Refund, ClaimPrize
<1>2. row # NoRow /\ row \in PlacementRow /\ row.joined /\ ~row.left
  BY <1>1 DEF PlayerGood
<1>3. CASE Refund(p)
  <2>1. /\ escrow' \in Escrow /\ EscrowOK' /\ Apart(p)
        /\ escrow'.joined = escrow.joined /\ p \in escrow'.refunded
        /\ escrow'.claimed = escrow.claimed /\ escrow'.commits = escrow.commits
    BY <1>1, <1>3 DEF Refund, Escrow, EscrowOK, Apart
  <2>2. PICK e \in Event : e = Player("Refunded", p)
    BY DEF Event, ArcadeEvent, Player
  <2>3. Emit(<<e>>) /\ e.kind = "Refunded" /\ e.player = p
    BY <1>3, <2>2 DEF Refund, Player
  <2>4. PICK new \in PlacementRow : new = [row EXCEPT !.refunded = TRUE]
    BY <1>2 DEF PlacementRow
  <2>5. new = PlacedAfter(row, e) /\ new # NoRow
    BY <1>2, <2>3, <2>4, PlacedAfterIs, ArcadeAssumption
  <2>6. new.joined = row.joined /\ new.left = row.left /\ new.refunded
        /\ new.claimed = row.claimed /\ new.round = row.round
        /\ new.committed = row.committed
    BY <1>2, <2>4 DEF PlacementRow
  <2>7. PlayerGood(new, p)'
    BY <1>2, <2>1, <2>5, <2>6 DEF PlayerGood
  <2>8. QED
    BY <2>1, <2>3, <2>5, <2>7 DEF Shows, PlayerKinds
<1>4. CASE ClaimPrize(p)
  <2>1. /\ escrow' \in Escrow /\ EscrowOK' /\ Apart(p)
        /\ escrow'.joined = escrow.joined /\ p \in escrow'.claimed
        /\ escrow'.refunded = escrow.refunded /\ escrow'.commits = escrow.commits
    BY <1>1, <1>4 DEF ClaimPrize, Escrow, EscrowOK, Apart
  <2>2. PICK e \in Event : e = Player("PrizeClaimed", p)
    BY DEF Event, ArcadeEvent, Player
  <2>3. Emit(<<e>>) /\ e.kind = "PrizeClaimed" /\ e.player = p
    BY <1>4, <2>2 DEF ClaimPrize, Player
  <2>4. PICK new \in PlacementRow : new = [row EXCEPT !.claimed = TRUE]
    BY <1>2 DEF PlacementRow
  <2>5. new = PlacedAfter(row, e) /\ new # NoRow
    BY <1>2, <2>3, <2>4, PlacedAfterIs, ArcadeAssumption
  <2>6. new.joined = row.joined /\ new.left = row.left /\ new.claimed
        /\ new.refunded = row.refunded /\ new.round = row.round
        /\ new.committed = row.committed
    BY <1>2, <2>4 DEF PlacementRow
  <2>7. PlayerGood(new, p)'
    BY <1>2, <2>1, <2>5, <2>6 DEF PlayerGood
  <2>8. QED
    BY <2>1, <2>3, <2>5, <2>7 DEF Shows, PlayerKinds
<1>5. QED
  BY <1>3, <1>4

LEMMA PlayerContract ==
  ASSUME Typed, EscrowOK, RoundOK, Foreseen, UNCHANGED history, Tables' = Tables,
         NEW p \in Players,
         \/ JoinRoom(p) \/ LeaveRoom(p) \/ CommitSelection(p) \/ RevealSelection(p)
         \/ Refund(p) \/ ClaimPrize(p)
  PROVE  Foresees
<1>1. PICK last \in TableSet : Caught(log, Tables, last) /\ Good(last)
  BY DEF Foreseen
<1>2. last.placement \in [Players -> PlacementRow \cup {NoRow}]
  BY DEF TableSet
<1>3. PICK row \in PlacementRow \cup {NoRow} : row = last.placement[p]
  BY <1>2
<1>4. PlayerGood(row, p)
  BY <1>1, <1>3 DEF Good, PlacementGood
<1>5. escrow' \in Escrow /\ EscrowOK' /\ Apart(p) /\ Shows(row, p)
  BY <1>4, PlayersComeAndGo, PlayersCommit, PlayersArePaid
<1>6. PICK e \in Event : /\ Emit(<<e>>) /\ e.kind \in PlayerKinds /\ e.player = p
                         /\ PlayerGood(PlacedAfter(row, e), p)'
  BY <1>5 DEF Shows
<1>7. PICK next : next = After(last, At(e))
  OBVIOUS
<1>8. /\ log' \in Seq(Entry) /\ next \in TableSet /\ Caught(log', Tables', next)
  BY <1>1, <1>6, <1>7, EmitOne DEF Typed
<1>9. /\ next.room = last.room /\ next.stages = last.stages
      /\ next.request = last.request /\ next.context = last.context
      /\ next.loan = last.loan /\ next.deposit = last.deposit
  <2>1. e.kind \notin RoomKinds \cup StageKinds /\ e.kind \notin RequestEvents
    BY <1>6, KindSorts
  <2>2. QED
    BY <1>7, <2>1, AfterQuiet
<1>10. PICK new : new = PlacedAfter(row, e)
  OBVIOUS
<1>11. next.placement = [last.placement EXCEPT ![p] = new]
  BY <1>3, <1>6, <1>7, <1>10 DEF After, At, PlacementAfter
<1>12. RoomGood(next)' /\ RequestGood(next)'
  BY <1>1, <1>5, <1>9, RoomGoodKept, RequestGoodKept DEF Good, Apart
<1>13. PlacementGood(next)'
  <2>1. SUFFICES ASSUME NEW q \in Players PROVE PlayerGood(next.placement[q], q)'
    BY DEF PlacementGood
  <2>2. CASE q = p
    <3>1. next.placement[q] = new
      BY <1>2, <1>11, <2>2
    <3>2. QED
      BY <1>6, <1>10, <2>2, <3>1
  <2>3. CASE q # p
    <3>1. next.placement[q] = last.placement[q]
      BY <1>2, <1>11, <2>3
    <3>2. PlayerGood(last.placement[q], q)
      BY <1>1 DEF Good, PlacementGood
    <3>3. PlayerGood(last.placement[q], q)'
      BY <1>5, <2>3, <3>2 DEF PlayerGood, Apart
    <3>4. QED
      BY <3>1, <3>3
  <2>4. QED
    BY <2>2, <2>3
<1>14. RoundOK' /\ Foreseen'
  BY <1>5, <1>8, <1>12, <1>13 DEF RoundOK, Apart, Foreseen, Good
<1>15. QED
  BY <1>5, <1>8, <1>14 DEF Foresees

\* A patch of a row that is there: its status never goes back.
LEMMA Patched ==
  ASSUME NEW row \in RoomRow, NEW patched \in RoomRow, NEW status \in DOMAIN Rank
  PROVE  /\ RoomPatched(row, patched, status).status = NextStatus(row.status, status)
         /\ RoomPatched(row, patched, status).root = patched.root
<1> DEFINE new == RoomPatched(row, patched, status)
<1>1. NextStatus(row.status, status) \in DOMAIN Rank
  BY DEF NextStatus, RoomRow
<1>2. PICK s : s = NextStatus(row.status, status)
  OBVIOUS
<1>3. row # NoRow
  BY ArcadeAssumption
<1>4. new = [patched EXCEPT !.status = s]
  BY <1>2, <1>3 DEF RoomPatched
<1>5. QED
  BY <1>1, <1>2, <1>4 DEF RoomRow

\* The status and the root of a room that is there, after an event.
LEMMA RoomStatusAfter ==
  ASSUME NEW row \in RoomRow, NEW e, NEW new, new = RoomAfter(row, e)
  PROVE
    /\ e.kind = "RoomStatusUpdated" /\ e.status \in 0 .. 5 =>
         /\ new.status = NextStatus(row.status, StatusByEnum[e.status + 1])
         /\ new.root = row.root
    /\ e.kind = "RoomCancelled" => new.status = NextStatus(row.status, "cancelled")
    /\ e.kind = "RoomLocked" => new.status = NextStatus(row.status, "locked")
    /\ e.kind \in {"RoomSettled", "ResultsSubmitted", "ResultsFinalized"}
         /\ e.root \in Roots \cup {NoHash} => new.root = e.root
    /\ e.kind = "RoomSettled" /\ e.root \in Roots \cup {NoHash} =>
         new.status = NextStatus(row.status, "settled")
    /\ e.kind = "ResultsSubmitted" /\ e.root \in Roots \cup {NoHash} =>
         new.status = NextStatus(row.status, "settling")
    /\ e.kind = "ResultsFinalized" /\ e.root \in Roots \cup {NoHash} =>
         new.status = NextStatus(row.status, "finalized")
<1>1. RoomOrStub(row) = row
  BY ArcadeAssumption DEF RoomOrStub
<1>2. {"lobby", "locked", "settling", "settled", "finalized", "cancelled"} = DOMAIN Rank
  BY DEF Rank
<1>3. CASE e.kind = "RoomStatusUpdated" /\ e.status \in 0 .. 5
  <2>1. PICK s \in DOMAIN Rank : s = StatusByEnum[e.status + 1]
    BY <1>2, <1>3 DEF StatusByEnum
  <2>2. new = RoomPatched(row, row, s)
    BY <1>1, <1>3, <2>1, RoomAfterIs
  <2>3. QED
    BY <1>3, <2>1, <2>2, Patched
<1>4. CASE e.kind = "RoomCancelled"
  <2>1. PICK p \in RoomRow : p = [row EXCEPT !.cancelled = TRUE]
    BY DEF RoomRow
  <2>2. new = RoomPatched(row, p, "cancelled")
    BY <1>1, <1>4, <2>1, RoomAfterIs
  <2>3. QED
    BY <1>2, <1>4, <2>2, Patched
<1>5. CASE e.kind = "RoomLocked"
  <2>1. PICK p \in RoomRow : p = [row EXCEPT !.locked = TRUE]
    BY DEF RoomRow
  <2>2. new = RoomPatched(row, p, "locked")
    BY <1>1, <1>5, <2>1, RoomAfterIs
  <2>3. QED
    BY <1>2, <1>5, <2>2, Patched
<1>6. CASE e.kind = "RoomSettled" /\ e.root \in Roots \cup {NoHash}
  <2>1. PICK r \in Roots \cup {NoHash} : r = e.root
    BY <1>6
  <2>2. PICK p \in RoomRow : p = [row EXCEPT !.settled = TRUE, !.root = r] /\ p.root = r
    <3>1. /\ [row EXCEPT !.settled = TRUE, !.root = r] \in RoomRow
          /\ [row EXCEPT !.settled = TRUE, !.root = r].root = r
      BY DEF RoomRow
    <3>2. QED
      BY <3>1
  <2>3. new = RoomPatched(row, p, "settled")
    BY <1>1, <1>6, <2>1, <2>2, RoomAfterIs
  <2>4. new.status = NextStatus(row.status, "settled") /\ new.root = e.root
    <3>1. "settled" \in DOMAIN Rank
      BY <1>2
    <3>2. PICK s \in DOMAIN Rank : s = "settled"
      BY <3>1
    <3>3. new = RoomPatched(row, p, s)
      BY <2>3, <3>2
    <3>4. new.status = NextStatus(row.status, s) /\ new.root = p.root
      BY <3>3, Patched
    <3>5. p.root = e.root
      BY <2>1, <2>2
    <3>6. QED
      BY <3>2, <3>4, <3>5
  <2>5. QED
    BY <1>6, <2>4
<1>7. CASE e.kind = "ResultsSubmitted" /\ e.root \in Roots \cup {NoHash}
  <2>1. PICK r \in Roots \cup {NoHash} : r = e.root
    BY <1>7
  <2>2. PICK p \in RoomRow : p = [row EXCEPT !.root = r] /\ p.root = r
    <3>1. [row EXCEPT !.root = r] \in RoomRow /\ [row EXCEPT !.root = r].root = r
      BY DEF RoomRow
    <3>2. QED
      BY <3>1
  <2>3. new = RoomPatched(row, p, "settling")
    BY <1>1, <1>7, <2>1, <2>2, RoomAfterIs
  <2>4. new.status = NextStatus(row.status, "settling") /\ new.root = e.root
    <3>1. "settling" \in DOMAIN Rank
      BY <1>2
    <3>2. PICK s \in DOMAIN Rank : s = "settling"
      BY <3>1
    <3>3. new = RoomPatched(row, p, s)
      BY <2>3, <3>2
    <3>4. new.status = NextStatus(row.status, s) /\ new.root = p.root
      BY <3>3, Patched
    <3>5. p.root = e.root
      BY <2>1, <2>2
    <3>6. QED
      BY <3>2, <3>4, <3>5
  <2>5. QED
    BY <1>7, <2>4
<1>8. CASE e.kind = "ResultsFinalized" /\ e.root \in Roots \cup {NoHash}
  <2>1. PICK r \in Roots \cup {NoHash} : r = e.root
    BY <1>8
  <2>2. PICK p \in RoomRow : p = [row EXCEPT !.root = r, !.finalized = TRUE] /\ p.root = r
    <3>1. /\ [row EXCEPT !.root = r, !.finalized = TRUE] \in RoomRow
          /\ [row EXCEPT !.root = r, !.finalized = TRUE].root = r
      BY DEF RoomRow
    <3>2. QED
      BY <3>1
  <2>3. new = RoomPatched(row, p, "finalized")
    BY <1>1, <1>8, <2>1, <2>2, RoomAfterIs
  <2>4. new.status = NextStatus(row.status, "finalized") /\ new.root = e.root
    <3>1. "finalized" \in DOMAIN Rank
      BY <1>2
    <3>2. PICK s \in DOMAIN Rank : s = "finalized"
      BY <3>1
    <3>3. new = RoomPatched(row, p, s)
      BY <2>3, <3>2
    <3>4. new.status = NextStatus(row.status, s) /\ new.root = p.root
      BY <3>3, Patched
    <3>5. p.root = e.root
      BY <2>1, <2>2
    <3>6. QED
      BY <3>2, <3>4, <3>5
  <2>5. QED
    BY <1>8, <2>4
<1>9. QED
  BY <1>3, <1>4, <1>5, <1>6, <1>7, <1>8

\* finalizedAt and cancelledAt of a room that is there, after an event.
LEMMA RoomFlagsAfter ==
  ASSUME NEW row \in RoomRow, NEW e, e.kind # "RoomCreated",
         NEW new, new = RoomAfter(row, e)
  PROVE  /\ new.finalized <=> (row.finalized \/ e.kind = "ResultsFinalized")
         /\ new.cancelled <=> (row.cancelled \/ e.kind = "RoomCancelled")
<1>1. RoomOrStub(row) = row
  BY ArcadeAssumption DEF RoomOrStub
<1>2. ASSUME NEW patched, NEW status, DOMAIN patched = DOMAIN row
      PROVE  /\ RoomPatched(row, patched, status).finalized = patched.finalized
             /\ RoomPatched(row, patched, status).cancelled = patched.cancelled
  BY <1>2 DEF RoomPatched, RoomRow
<1>3. {"finalized", "cancelled"} \subseteq DOMAIN row
  BY DEF RoomRow
<1>4. CASE e.kind = "RoomStatusUpdated"
  <2>1. PICK status : status = StatusByEnum[e.status + 1]
    OBVIOUS
  <2>2. new = RoomPatched(row, row, status)
    BY <1>1, <1>4, <2>1, RoomAfterIs
  <2>3. QED
    BY <1>2, <1>4, <2>2
<1>5. CASE e.kind = "RoomCancelled"
  <2>1. PICK p : p = [row EXCEPT !.cancelled = TRUE]
    OBVIOUS
  <2>2. DOMAIN p = DOMAIN row /\ p.finalized = row.finalized /\ p.cancelled = TRUE
    BY <1>3, <2>1
  <2>3. new = RoomPatched(row, p, "cancelled")
    BY <1>1, <1>5, <2>1, RoomAfterIs
  <2>4. QED
    BY <1>2, <1>5, <2>2, <2>3
<1>6. CASE e.kind = "RoomLocked"
  <2>1. PICK p : p = [row EXCEPT !.locked = TRUE]
    OBVIOUS
  <2>2. DOMAIN p = DOMAIN row /\ p.finalized = row.finalized /\ p.cancelled = row.cancelled
    BY <1>3, <2>1
  <2>3. new = RoomPatched(row, p, "locked")
    BY <1>1, <1>6, <2>1, RoomAfterIs
  <2>4. QED
    BY <1>2, <1>6, <2>2, <2>3
<1>7. CASE e.kind = "RoomSettled"
  <2>1. PICK p : p = [row EXCEPT !.settled = TRUE, !.root = e.root]
    OBVIOUS
  <2>2. DOMAIN p = DOMAIN row /\ p.finalized = row.finalized /\ p.cancelled = row.cancelled
    BY <1>3, <2>1
  <2>3. new = RoomPatched(row, p, "settled")
    BY <1>1, <1>7, <2>1, RoomAfterIs
  <2>4. QED
    BY <1>2, <1>7, <2>2, <2>3
<1>8. CASE e.kind = "ResultsSubmitted"
  <2>1. PICK p : p = [row EXCEPT !.root = e.root]
    OBVIOUS
  <2>2. DOMAIN p = DOMAIN row /\ p.finalized = row.finalized /\ p.cancelled = row.cancelled
    BY <1>3, <2>1
  <2>3. new = RoomPatched(row, p, "settling")
    BY <1>1, <1>8, <2>1, RoomAfterIs
  <2>4. QED
    BY <1>2, <1>8, <2>2, <2>3
<1>9. CASE e.kind = "ResultsFinalized"
  <2>1. PICK p : p = [row EXCEPT !.root = e.root, !.finalized = TRUE]
    OBVIOUS
  <2>2. DOMAIN p = DOMAIN row /\ p.finalized = TRUE /\ p.cancelled = row.cancelled
    BY <1>3, <2>1
  <2>3. new = RoomPatched(row, p, "finalized")
    BY <1>1, <1>9, <2>1, RoomAfterIs
  <2>4. QED
    BY <1>2, <1>9, <2>2, <2>3
<1>10. CASE e.kind \notin RoomKinds
  BY <1>10, RoomKept DEF RoomKinds
<1>11. QED
  BY <1>4, <1>5, <1>6, <1>7, <1>8, <1>9, <1>10 DEF RoomKinds

LEMMA FlagsAfter ==
  ASSUME NEW t, t.room \in RoomRow, NEW e, e.kind # "RoomCreated",
         NEW next, next = After(t, At(e))
  PROVE  /\ next.room.finalized <=> (t.room.finalized \/ e.kind = "ResultsFinalized")
         /\ next.room.cancelled <=> (t.room.cancelled \/ e.kind = "RoomCancelled")
<1>1. next.room = RoomAfter(t.room, e)
  BY DEF After, At
<1> QED
  BY <1>1, RoomFlagsAfter

\* The moves of a status the contracts ask for.
LEMMA StatusMoves ==
  /\ NextStatus("lobby", "locked") = "locked" /\ NextStatus("locked", "locked") = "locked"
  /\ NextStatus("locked", "settling") = "settling"
  /\ NextStatus("settling", "settling") = "settling"
  /\ NextStatus("settling", "settled") = "settled"
  /\ NextStatus("settled", "settled") = "settled"
  /\ NextStatus("settled", "finalized") = "finalized"
  /\ NextStatus("settling", "finalized") = "finalized"
  /\ NextStatus("locked", "finalized") = "finalized"
  /\ NextStatus("finalized", "settled") = "finalized"
  /\ \A s \in DOMAIN Rank : NextStatus(s, "cancelled") = "cancelled"
BY DEF NextStatus, Rank

LEMMA AfterRoom ==
  ASSUME NEW t, NEW e
  PROVE  /\ After(t, At(e)).room = RoomAfter(t.room, e)
         /\ After(t, At(e)).stages = StagesAfter(t.stages, e)
BY DEF After, At

\* A room that is there stays there.
LEMMA RoomStays ==
  ASSUME NEW t \in TableSet, t.room \in RoomRow, NEW e \in Event,
         e.kind \in RoomKinds \cup StageKinds,
         NEW next \in TableSet, next = After(t, At(e))
  PROVE  /\ next.room \in RoomRow /\ next.placement = t.placement
         /\ next.request = t.request /\ next.context = t.context
         /\ next.loan = t.loan /\ next.deposit = t.deposit
<1>1. e.kind \notin PlayerKinds /\ e.kind \notin RequestEvents
  BY KindSorts DEF PlayerKinds, RoomKinds, StageKinds
<1>2. next.room \in RoomRow
  BY AfterRoom, RoomTyped
<1>3. QED
  BY <1>1, <1>2, AfterQuiet

LEMMA RoomContract ==
  ASSUME Typed, EscrowOK, RoundOK, Foreseen, UNCHANGED history, Tables' = Tables,
         \/ CreateRoom \/ CancelRoom \/ LockRoom \/ FinalizeResults
         \/ RescueFailedSettlement
         \/ \E root \in Roots : SubmitResults(root)
  PROVE  Foresees
<1>1. PICK last \in TableSet : Caught(log, Tables, last) /\ Good(last)
  BY DEF Foreseen
<1>2. escrow \in Escrow
  BY DEF Typed
<1>3. ASSUME NEW next \in TableSet, Caught(log', Tables', next), log' \in Seq(Entry),
             next.placement = last.placement,
             next.request = last.request, next.context = last.context,
             next.loan = last.loan, next.deposit = last.deposit,
             escrow' \in Escrow, EscrowOK', RoundOK',
             escrow'.joined = escrow.joined, escrow'.refunded = escrow.refunded,
             escrow'.claimed = escrow.claimed, escrow'.commits = escrow.commits,
             RoomGood(next)'
      PROVE  Foresees
  <2>1. PlacementGood(next)' /\ RequestGood(next)'
    BY <1>1, <1>3, PlacementGoodKept, RequestGoodKept DEF Good
  <2>2. QED
    BY <1>3, <2>1 DEF Foresees, Foreseen, Good
<1>4. escrow.status # "none" => last.room \in RoomRow
  BY <1>1 DEF Good, RoomGood, TableSet
<1> DEFINE status(n) == [kind |-> "RoomStatusUpdated", status |-> n]
<1>5. \A n \in 0 .. 5 : status(n) \in Event
  BY DEF Event, ArcadeEvent
<1>6. \A k \in {"RoomCreated", "RoomCancelled", "RoomLocked", "SettlementRescued"} :
        [kind |-> k] \in Event
  BY DEF Event, ArcadeEvent
<1>7. StatusByEnum[1 + 1] = "locked" /\ StatusByEnum[2 + 1] = "settling"
      /\ StatusByEnum[3 + 1] = "settled" /\ StatusByEnum[4 + 1] = "finalized"
  BY DEF StatusByEnum
<1>8. ASSUME NEW e \in Event, e.kind \in {"RoomStatusUpdated", "RoomCancelled", "RoomLocked",
             "RoomSettled", "ResultsSubmitted", "ResultsFinalized", "SettlementRescued"}
      PROVE  e.kind \in RoomKinds \cup StageKinds
  BY <1>8 DEF RoomKinds, StageKinds
<1>9. /\ escrow.status # "cancelled" => ~ escrow.cancelEvent
      /\ escrow.status # "none" => FlagsGood(last)
  BY <1>1 DEF Good, RoomGood
<1>10. CASE CreateRoom
  <2>1. escrow' = [escrow EXCEPT !.status = "lobby"] /\ escrow.status = "none"
    BY <1>10 DEF CreateRoom
  <2>2. /\ escrow' \in Escrow /\ EscrowOK' /\ RoundOK' /\ escrow'.status = "lobby"
        /\ escrow'.joined = escrow.joined /\ escrow'.refunded = escrow.refunded
        /\ escrow'.claimed = escrow.claimed /\ escrow'.commits = escrow.commits
        /\ escrow'.cancelEvent = escrow.cancelEvent
    BY <1>2, <2>1 DEF Escrow, EscrowOK, RoundOK, ContractStatus
  <2>3. PICK e \in Event : e = [kind |-> "RoomCreated"] /\ e.kind = "RoomCreated"
    BY <1>6
  <2>4. PICK next : next = After(last, At(e))
    OBVIOUS
  <2>5. log' \in Seq(Entry) /\ next \in TableSet /\ Caught(log', Tables', next)
    BY <1>1, <1>10, <2>3, <2>4, EmitOne DEF Typed, CreateRoom
  <2>6. /\ next.placement = last.placement
        /\ next.request = last.request /\ next.context = last.context
        /\ next.loan = last.loan /\ next.deposit = last.deposit
    BY <2>3, <2>4, AfterQuiet, KindSorts
  <2>7. /\ next.room.status = "lobby" /\ next.room # NoRow
        /\ ~ next.room.finalized /\ ~ next.room.cancelled
    <3>1. next.room = RoomAfter(last.room, e)
      BY <2>4, AfterRoom
    <3>2. next.room = EmptyRoom
      BY <2>3, <3>1, RoomAfterIs
    <3>3. /\ EmptyRoom \in RoomRow /\ EmptyRoom.status = "lobby"
          /\ ~ EmptyRoom.finalized /\ ~ EmptyRoom.cancelled
      BY DEF EmptyRoom, RoomRow, Rank
    <3>4. QED
      BY <3>2, <3>3, ArcadeAssumption
  <2>8. RoomGood(next)'
    BY <1>9, <2>1, <2>2, <2>7 DEF RoomGood, FlagsGood
  <2>9. QED
    BY <1>3, <2>2, <2>5, <2>6, <2>8
<1>11. CASE CancelRoom
  <2>1. escrow' = [escrow EXCEPT !.status = "cancelled", !.cancelEvent = TRUE]
        /\ escrow.status = "lobby"
    BY <1>11 DEF CancelRoom
  <2>2. /\ escrow' \in Escrow /\ EscrowOK' /\ RoundOK' /\ escrow'.status = "cancelled"
        /\ escrow'.joined = escrow.joined /\ escrow'.refunded = escrow.refunded
        /\ escrow'.claimed = escrow.claimed /\ escrow'.commits = escrow.commits
        /\ escrow'.cancelEvent
    BY <1>2, <2>1 DEF Escrow, EscrowOK, RoundOK, ContractStatus
  <2>3. PICK a \in Event : a = status(4) /\ a.kind = "RoomStatusUpdated"
    BY <1>5
  <2>4. PICK b \in Event : b = [kind |-> "RoomCancelled"] /\ b.kind = "RoomCancelled"
    BY <1>6
  <2>5. PICK mid : mid = After(last, At(a))
    OBVIOUS
  <2>6. PICK next : next = After(mid, At(b))
    OBVIOUS
  <2>7. /\ log' \in Seq(Entry) /\ mid \in TableSet
        /\ next \in TableSet /\ Caught(log', Tables', next)
    BY <1>1, <1>11, <2>3, <2>4, <2>5, <2>6, EmitTwo DEF Typed, CancelRoom, StatusUpdated
  <2>8. /\ mid.room \in RoomRow /\ mid.placement = last.placement
        /\ mid.request = last.request /\ mid.context = last.context
        /\ mid.loan = last.loan /\ mid.deposit = last.deposit
    BY <1>4, <1>8, <2>1, <2>3, <2>5, <2>7, RoomStays
  <2>9. /\ next.room \in RoomRow /\ next.placement = mid.placement
        /\ next.request = mid.request /\ next.context = mid.context
        /\ next.loan = mid.loan /\ next.deposit = mid.deposit
    BY <1>8, <2>4, <2>6, <2>7, <2>8, RoomStays
  <2>10. next.room.status = "cancelled"
    <3>1. mid.room.status \in DOMAIN Rank /\ next.room = RoomAfter(mid.room, b)
      BY <2>6, <2>8, AfterRoom DEF RoomRow
    <3>2. QED
      BY <2>4, <2>8, <3>1, RoomStatusAfter, StatusMoves
  <2>11. RoomGood(next)'
    <3>1. ~ next.room.finalized /\ next.room.cancelled
      BY <1>4, <1>9, <2>1, <2>3, <2>4, <2>5, <2>6, <2>8, FlagsAfter DEF FlagsGood
    <3>2. QED
      BY <2>2, <2>9, <2>10, <3>1, ArcadeAssumption DEF RoomGood, FlagsGood
  <2>12. QED
    BY <1>3, <2>2, <2>7, <2>8, <2>9, <2>11
<1>12. CASE LockRoom
  <2>1. escrow' = [escrow EXCEPT !.status = "locked"] /\ escrow.status = "lobby"
    BY <1>12 DEF LockRoom
  <2>2. /\ escrow' \in Escrow /\ EscrowOK' /\ RoundOK' /\ escrow'.status = "locked"
        /\ escrow'.joined = escrow.joined /\ escrow'.refunded = escrow.refunded
        /\ escrow'.claimed = escrow.claimed /\ escrow'.commits = escrow.commits
        /\ escrow'.cancelEvent = escrow.cancelEvent
    BY <1>2, <2>1 DEF Escrow, EscrowOK, RoundOK, ContractStatus
  <2>3. PICK a \in Event : a = status(1) /\ a.kind = "RoomStatusUpdated" /\ a.status = 1
    BY <1>5
  <2>4. PICK b \in Event : b = [kind |-> "RoomLocked"] /\ b.kind = "RoomLocked"
    BY <1>6
  <2>5. PICK mid : mid = After(last, At(a))
    OBVIOUS
  <2>6. PICK next : next = After(mid, At(b))
    OBVIOUS
  <2>7. /\ log' \in Seq(Entry) /\ mid \in TableSet
        /\ next \in TableSet /\ Caught(log', Tables', next)
    BY <1>1, <1>12, <2>3, <2>4, <2>5, <2>6, EmitTwo DEF Typed, LockRoom, StatusUpdated
  <2>8. /\ mid.room \in RoomRow /\ mid.placement = last.placement
        /\ mid.request = last.request /\ mid.context = last.context
        /\ mid.loan = last.loan /\ mid.deposit = last.deposit
    BY <1>4, <1>8, <2>1, <2>3, <2>5, <2>7, RoomStays
  <2>9. /\ next.room \in RoomRow /\ next.placement = mid.placement
        /\ next.request = mid.request /\ next.context = mid.context
        /\ next.loan = mid.loan /\ next.deposit = mid.deposit
    BY <1>8, <2>4, <2>6, <2>7, <2>8, RoomStays
  <2>10. next.room.status = "locked"
    <3>1. last.room \in RoomRow /\ last.room.status = "lobby"
      BY <1>1, <1>4, <2>1 DEF Good, RoomGood
    <3>2. mid.room.status = "locked"
      BY <1>7, <2>3, <2>5, <3>1, AfterRoom, RoomStatusAfter, StatusMoves
    <3>3. QED
      BY <2>4, <2>6, <2>8, <3>2, AfterRoom, RoomStatusAfter, StatusMoves
  <2>11. RoomGood(next)'
    <3>1. ~ next.room.finalized /\ ~ next.room.cancelled
      BY <1>4, <1>9, <2>1, <2>3, <2>4, <2>5, <2>6, <2>8, FlagsAfter DEF FlagsGood
    <3>2. QED
      BY <1>9, <2>1, <2>2, <2>9, <2>10, <3>1, ArcadeAssumption DEF RoomGood, FlagsGood
  <2>12. QED
    BY <1>3, <2>2, <2>7, <2>8, <2>9, <2>11
<1>13. CASE \E root \in Roots : SubmitResults(root)
  <2>0. PICK root \in Roots : SubmitResults(root)
    BY <1>13
  <2>1. escrow' = [escrow EXCEPT !.status = "settling", !.root = root]
        /\ escrow.status = "locked"
    BY <2>0 DEF SubmitResults
  <2>2. /\ escrow' \in Escrow /\ EscrowOK' /\ RoundOK' /\ escrow'.status = "settling"
        /\ escrow'.joined = escrow.joined /\ escrow'.refunded = escrow.refunded
        /\ escrow'.claimed = escrow.claimed /\ escrow'.commits = escrow.commits
        /\ escrow'.cancelEvent = escrow.cancelEvent
    BY <1>2, <2>1 DEF Escrow, EscrowOK, RoundOK, ContractStatus
  <2>3. PICK a \in Event : a = status(2) /\ a.kind = "RoomStatusUpdated" /\ a.status = 2
    BY <1>5
  <2>4. PICK b \in Event : b = [kind |-> "ResultsSubmitted", root |-> root]
                          /\ b.kind = "ResultsSubmitted" /\ b.root = root
    <3>1. [kind |-> "ResultsSubmitted", root |-> root] \in Event
      BY DEF Event, ArcadeEvent
    <3>2. QED
      BY <3>1
  <2>5. PICK mid : mid = After(last, At(a))
    OBVIOUS
  <2>6. PICK next : next = After(mid, At(b))
    OBVIOUS
  <2>7. /\ log' \in Seq(Entry) /\ mid \in TableSet
        /\ next \in TableSet /\ Caught(log', Tables', next)
    BY <1>1, <2>0, <2>3, <2>4, <2>5, <2>6, EmitTwo DEF Typed, SubmitResults, StatusUpdated
  <2>8. /\ mid.room \in RoomRow /\ mid.placement = last.placement
        /\ mid.request = last.request /\ mid.context = last.context
        /\ mid.loan = last.loan /\ mid.deposit = last.deposit
    BY <1>4, <1>8, <2>1, <2>3, <2>5, <2>7, RoomStays
  <2>9. /\ next.room \in RoomRow /\ next.placement = mid.placement
        /\ next.request = mid.request /\ next.context = mid.context
        /\ next.loan = mid.loan /\ next.deposit = mid.deposit
    BY <1>8, <2>4, <2>6, <2>7, <2>8, RoomStays
  <2>10. next.room.status = "settling"
    <3>1. last.room \in RoomRow /\ last.room.status = "locked"
      BY <1>1, <1>4, <2>1 DEF Good, RoomGood
    <3>2. mid.room.status = "settling"
      BY <1>7, <2>3, <2>5, <3>1, AfterRoom, RoomStatusAfter, StatusMoves
    <3>3. QED
      BY <2>4, <2>6, <2>8, <3>2, AfterRoom, RoomStatusAfter, StatusMoves
  <2>11. RoomGood(next)'
    <3>1. ~ next.room.finalized /\ ~ next.room.cancelled
      BY <1>4, <1>9, <2>1, <2>3, <2>4, <2>5, <2>6, <2>8, FlagsAfter DEF FlagsGood
    <3>2. QED
      BY <1>9, <2>1, <2>2, <2>9, <2>10, <3>1, ArcadeAssumption DEF RoomGood, FlagsGood
  <2>12. QED
    BY <1>3, <2>2, <2>7, <2>8, <2>9, <2>11
<1>14. CASE FinalizeResults
  <2>1. escrow' = [escrow EXCEPT !.status = "settled"] /\ escrow.status = "settling"
    BY <1>14 DEF FinalizeResults
  <2>2. /\ escrow' \in Escrow /\ EscrowOK' /\ RoundOK' /\ escrow'.status = "settled"
        /\ escrow'.joined = escrow.joined /\ escrow'.refunded = escrow.refunded
        /\ escrow'.claimed = escrow.claimed /\ escrow'.commits = escrow.commits
        /\ escrow'.root = escrow.root /\ escrow'.cancelEvent = escrow.cancelEvent
    BY <1>2, <2>1 DEF Escrow, EscrowOK, RoundOK, ContractStatus
  <2>3. PICK root \in Roots \cup {NoHash} : root = escrow.root
    BY <1>2 DEF Escrow
  <2>4. PICK a \in Event : a = status(3) /\ a.kind = "RoomStatusUpdated" /\ a.status = 3
    BY <1>5
  <2>5. PICK b \in Event : b = [kind |-> "RoomSettled", root |-> root]
                          /\ b.kind = "RoomSettled" /\ b.root = root
    <3>1. [kind |-> "RoomSettled", root |-> root] \in Event
      BY DEF Event, ArcadeEvent
    <3>2. QED
      BY <3>1
  <2>6. PICK c \in Event : c = [kind |-> "ResultsFinalized", root |-> root]
                          /\ c.kind = "ResultsFinalized" /\ c.root = root
    <3>1. [kind |-> "ResultsFinalized", root |-> root] \in Event
      BY DEF Event, ArcadeEvent
    <3>2. QED
      BY <3>1
  <2>7. Emit(<<a, b, c>>) \/ Emit(<<c, a, b>>)
    BY <1>14, <2>3, <2>4, <2>5, <2>6 DEF FinalizeResults, StatusUpdated
  <2>8. last.room \in RoomRow /\ last.room.status = "settling"
    BY <1>1, <1>4, <2>1 DEF Good, RoomGood
  <2>9. ASSUME NEW t \in TableSet PROVE "finalized" \in DOMAIN t.stages
    BY DEF TableSet, Stages
  <2>10. CASE Emit(<<a, b, c>>)
    <3>1. PICK mid : mid = After(last, At(a))
      OBVIOUS
    <3>2. PICK mid2 : mid2 = After(mid, At(b))
      OBVIOUS
    <3>3. PICK next : next = After(mid2, At(c))
      OBVIOUS
    <3>4. /\ log' \in Seq(Entry) /\ mid \in TableSet /\ mid2 \in TableSet
          /\ next \in TableSet /\ Caught(log', Tables', next)
      BY <1>1, <2>10, <3>1, <3>2, <3>3, EmitThree DEF Typed
    <3>5. /\ mid.room \in RoomRow /\ mid.placement = last.placement
          /\ mid.request = last.request /\ mid.context = last.context
          /\ mid.loan = last.loan /\ mid.deposit = last.deposit
      BY <1>8, <2>4, <2>8, <3>1, <3>4, RoomStays
    <3>6. /\ mid2.room \in RoomRow /\ mid2.placement = mid.placement
          /\ mid2.request = mid.request /\ mid2.context = mid.context
          /\ mid2.loan = mid.loan /\ mid2.deposit = mid.deposit
      BY <1>8, <2>5, <3>2, <3>4, <3>5, RoomStays
    <3>7. /\ next.room \in RoomRow /\ next.placement = mid2.placement
          /\ next.request = mid2.request /\ next.context = mid2.context
          /\ next.loan = mid2.loan /\ next.deposit = mid2.deposit
      BY <1>8, <2>6, <3>3, <3>4, <3>6, RoomStays
    <3>8. mid.room.status = "settled"
      BY <1>7, <2>4, <2>8, <3>1, AfterRoom, RoomStatusAfter, StatusMoves
    <3>9. mid2.room.status = "settled"
      BY <2>5, <3>2, <3>5, <3>8, AfterRoom, RoomStatusAfter, StatusMoves
    <3>10. next.room.status = "finalized" /\ next.room.root = root
      BY <2>6, <3>3, <3>6, <3>9, AfterRoom, RoomStatusAfter, StatusMoves
    <3>11. next.stages["finalized"] = root
      BY <2>6, <2>9, <3>3, <3>4, AfterRoom, StagesAfterIs
    <3>12. RoomGood(next)'
      <4>1. next.room.finalized /\ ~ next.room.cancelled
        BY <1>9, <2>1, <2>4, <2>5, <2>6, <2>8, <3>1, <3>2, <3>3, <3>5, <3>6, FlagsAfter
           DEF FlagsGood
      <4>2. QED
        BY <1>9, <2>1, <2>2, <2>3, <3>7, <3>10, <3>11, <4>1, ArcadeAssumption
           DEF RoomGood, FlagsGood
    <3>13. QED
      BY <1>3, <2>2, <3>4, <3>5, <3>6, <3>7, <3>12
  <2>11. CASE Emit(<<c, a, b>>)
    <3>1. PICK mid : mid = After(last, At(c))
      OBVIOUS
    <3>2. PICK mid2 : mid2 = After(mid, At(a))
      OBVIOUS
    <3>3. PICK next : next = After(mid2, At(b))
      OBVIOUS
    <3>4. /\ log' \in Seq(Entry) /\ mid \in TableSet /\ mid2 \in TableSet
          /\ next \in TableSet /\ Caught(log', Tables', next)
      BY <1>1, <2>11, <3>1, <3>2, <3>3, EmitThree DEF Typed
    <3>5. /\ mid.room \in RoomRow /\ mid.placement = last.placement
          /\ mid.request = last.request /\ mid.context = last.context
          /\ mid.loan = last.loan /\ mid.deposit = last.deposit
      BY <1>8, <2>6, <2>8, <3>1, <3>4, RoomStays
    <3>6. /\ mid2.room \in RoomRow /\ mid2.placement = mid.placement
          /\ mid2.request = mid.request /\ mid2.context = mid.context
          /\ mid2.loan = mid.loan /\ mid2.deposit = mid.deposit
      BY <1>8, <2>4, <3>2, <3>4, <3>5, RoomStays
    <3>7. /\ next.room \in RoomRow /\ next.placement = mid2.placement
          /\ next.request = mid2.request /\ next.context = mid2.context
          /\ next.loan = mid2.loan /\ next.deposit = mid2.deposit
      BY <1>8, <2>5, <3>3, <3>4, <3>6, RoomStays
    <3>8. mid.room.status = "finalized"
      BY <2>6, <2>8, <3>1, AfterRoom, RoomStatusAfter, StatusMoves
    <3>9. mid2.room.status = "finalized"
      BY <1>7, <2>4, <3>2, <3>5, <3>8, AfterRoom, RoomStatusAfter, StatusMoves
    <3>10. next.room.status = "finalized" /\ next.room.root = root
      BY <2>5, <3>3, <3>6, <3>9, AfterRoom, RoomStatusAfter, StatusMoves
    <3>11. next.stages["finalized"] = root
      <4>1. mid.stages["finalized"] = root
        BY <2>6, <2>9, <3>1, AfterRoom, StagesAfterIs
      <4>2. mid2.stages["finalized"] = root
        BY <2>4, <3>2, <3>4, <4>1, FinalStageKept
      <4>3. QED
        BY <2>5, <3>3, <3>4, <4>2, FinalStageKept
    <3>12. RoomGood(next)'
      <4>1. next.room.finalized /\ ~ next.room.cancelled
        BY <1>9, <2>1, <2>4, <2>5, <2>6, <2>8, <3>1, <3>2, <3>3, <3>5, <3>6, FlagsAfter
           DEF FlagsGood
      <4>2. QED
        BY <1>9, <2>1, <2>2, <2>3, <3>7, <3>10, <3>11, <4>1, ArcadeAssumption
           DEF RoomGood, FlagsGood
    <3>13. QED
      BY <1>3, <2>2, <3>4, <3>5, <3>6, <3>7, <3>12
  <2>12. QED
    BY <2>7, <2>10, <2>11
<1>15. CASE RescueFailedSettlement
  <2>1. PICK own \in BOOLEAN :
          /\ escrow' = [escrow EXCEPT !.status = "cancelled", !.cancelEvent = own]
          /\ Emit(IF own THEN <<status(4), [kind |-> "SettlementRescued"],
                                [kind |-> "RoomCancelled"]>>
                         ELSE <<status(4), [kind |-> "SettlementRescued"]>>)
    BY <1>15 DEF RescueFailedSettlement, StatusUpdated
  <2>2. /\ escrow' \in Escrow /\ EscrowOK' /\ RoundOK' /\ escrow'.status = "cancelled"
        /\ escrow'.joined = escrow.joined /\ escrow'.refunded = escrow.refunded
        /\ escrow'.claimed = escrow.claimed /\ escrow'.commits = escrow.commits
        /\ escrow'.cancelEvent = own
    BY <1>2, <2>1 DEF Escrow, EscrowOK, RoundOK, ContractStatus
  <2>3. last.room \in RoomRow
    BY <1>4, <1>15 DEF RescueFailedSettlement
  <2>4. PICK a \in Event : a = status(4) /\ a.kind = "RoomStatusUpdated" /\ a.status = 4
    BY <1>5
  <2>5. PICK b \in Event : b = [kind |-> "SettlementRescued"] /\ b.kind = "SettlementRescued"
    BY <1>6
  <2>6. PICK c \in Event : c = [kind |-> "RoomCancelled"] /\ c.kind = "RoomCancelled"
    BY <1>6
  <2>7. PICK mid : mid = After(last, At(a))
    OBVIOUS
  <2>8. PICK mid2 : mid2 = After(mid, At(b))
    OBVIOUS
  <2>9. ASSUME mid \in TableSet, mid2 \in TableSet
        PROVE  /\ mid2.room \in RoomRow /\ mid2.placement = last.placement
               /\ mid2.request = last.request /\ mid2.context = last.context
               /\ mid2.loan = last.loan /\ mid2.deposit = last.deposit
    <3>1. /\ mid.room \in RoomRow /\ mid.placement = last.placement
          /\ mid.request = last.request /\ mid.context = last.context
          /\ mid.loan = last.loan /\ mid.deposit = last.deposit
      BY <1>8, <2>3, <2>4, <2>7, <2>9, RoomStays
    <3>2. /\ mid2.room \in RoomRow /\ mid2.placement = mid.placement
          /\ mid2.request = mid.request /\ mid2.context = mid.context
          /\ mid2.loan = mid.loan /\ mid2.deposit = mid.deposit
      BY <1>8, <2>5, <2>8, <2>9, <3>1, RoomStays
    <3>3. QED
      BY <3>1, <3>2
  <2>10. ASSUME mid \in TableSet, mid2 \in TableSet
         PROVE  /\ mid2.room.status = "finalized"
                /\ ~ mid2.room.finalized /\ ~ mid2.room.cancelled
    <3>1. mid.room \in RoomRow
      BY <1>8, <2>3, <2>4, <2>7, <2>10, RoomStays
    <3>2. last.room.status \in {"locked", "settling"}
      BY <1>1, <1>15 DEF RescueFailedSettlement, Good, RoomGood
    <3>3. mid.room.status = "finalized"
      BY <1>7, <2>3, <2>4, <2>7, <3>2, AfterRoom, RoomStatusAfter, StatusMoves
    <3>4. mid2.room = mid.room
      BY <2>5, <2>8, AfterRoom, RoomKept DEF RoomKinds
    <3>5. ~ last.room.finalized /\ ~ last.room.cancelled
      BY <1>15, <1>9 DEF RescueFailedSettlement, FlagsGood
    <3>6. ~ mid.room.finalized /\ ~ mid.room.cancelled
      BY <2>3, <2>4, <2>7, <3>5, FlagsAfter
    <3>7. QED
      BY <3>3, <3>4, <3>6
  <2>11. CASE own
    <3>1. Emit(<<a, b, c>>)
      BY <2>1, <2>4, <2>5, <2>6, <2>11
    <3>2. PICK next : next = After(mid2, At(c))
      OBVIOUS
    <3>3. /\ log' \in Seq(Entry) /\ mid \in TableSet /\ mid2 \in TableSet
          /\ next \in TableSet /\ Caught(log', Tables', next)
      BY <1>1, <2>7, <2>8, <3>1, <3>2, EmitThree DEF Typed
    <3>4. /\ next.room \in RoomRow /\ next.placement = mid2.placement
          /\ next.request = mid2.request /\ next.context = mid2.context
          /\ next.loan = mid2.loan /\ next.deposit = mid2.deposit
      BY <1>8, <2>6, <2>9, <3>2, <3>3, RoomStays
    <3>5. next.room.status = "cancelled"
      <4>1. mid2.room \in RoomRow /\ mid2.room.status \in DOMAIN Rank
        BY <2>9, <3>3 DEF RoomRow
      <4>2. QED
        BY <2>6, <3>2, <4>1, AfterRoom, RoomStatusAfter, StatusMoves
    <3>6. RoomGood(next)'
      <4>1. ~ next.room.finalized /\ next.room.cancelled
        BY <2>6, <2>9, <2>10, <3>2, <3>3, FlagsAfter
      <4>2. QED
        BY <2>2, <2>11, <3>4, <3>5, <4>1, ArcadeAssumption DEF RoomGood, FlagsGood
    <3>7. QED
      BY <1>3, <2>2, <2>9, <3>3, <3>4, <3>6
  <2>12. CASE ~own
    <3>1. Emit(<<a, b>>)
      BY <2>1, <2>4, <2>5, <2>12
    <3>2. /\ log' \in Seq(Entry) /\ mid \in TableSet /\ mid2 \in TableSet
          /\ Caught(log', Tables', mid2)
      BY <1>1, <2>7, <2>8, <3>1, EmitTwo DEF Typed
    <3>3. RoomGood(mid2)'
      BY <2>2, <2>9, <2>12, <2>10, <3>2, ArcadeAssumption DEF RoomGood, FlagsGood
    <3>4. QED
      BY <1>3, <2>2, <2>9, <3>2, <3>3
  <2>13. QED
    BY <2>11, <2>12
<1>16. QED
  BY <1>10, <1>11, <1>12, <1>13, <1>14, <1>15

-----------------------------------------------------------------------------
(* The request, the loan and the message.                                  *)

LEMMA KindSets ==
  /\ DOMAIN StatusRank \subseteq RequestEvents /\ LoanKinds \subseteq RequestEvents
  /\ DepositStatus \subseteq RequestEvents
  /\ LoanOpening \subseteq LoanKinds /\ LoanClosing \subseteq LoanKinds
  /\ \A k \in DOMAIN StatusRank : k \notin LoanKinds /\ k \notin DepositStatus
  /\ \A k \in LoanKinds : k \notin DOMAIN StatusRank /\ k \notin DepositStatus
  /\ \A k \in DepositStatus : k \notin DOMAIN StatusRank /\ k \notin LoanKinds
  /\ \A k \in LoanOpening : k \notin LoanClosing
  /\ "cancelled" \in DOMAIN StatusRank /\ "gateway_prepared" \in DOMAIN StatusRank
BY RequestKinds DEF RequestEvents, LoanKinds, LoanOpening, LoanClosing, DepositStatus

\* One more event in the history.
LEMMA MoreHistory ==
  ASSUME history \in HistorySet, NEW kind \in RequestEvents, NEW day \in 0 .. Days,
         history' = Append(history, [kind |-> kind, day |-> day]),
         NEW n \in Nat, n = Len(history) + 1, NEW kinds
  PROVE  /\ history' \in HistorySet
         /\ history'[n].kind = kind /\ history'[n].day = day
         /\ \A k \in Times(kinds) : k < n /\ k \in Nat
         /\ \A k \in Times(kinds) : history'[k] = history[k]
         /\ Times(kinds)' = Times(kinds) \cup IF kind \in kinds THEN {n} ELSE {}
         /\ SomeHappened(kinds) <=> Times(kinds) # {}
         /\ SomeHappened(kinds)' <=> Times(kinds)' # {}
<1> DEFINE H == [kind : RequestEvents, day : 0 .. Days]
<1>1. PICK x \in H : x = [kind |-> kind, day |-> day] /\ x.kind = kind /\ x.day = day
  <2>1. [kind |-> kind, day |-> day] \in H
    OBVIOUS
  <2>2. QED
    BY <2>1
<1>2. history \in Seq(H) /\ history' = Append(history, x)
  BY <1>1 DEF HistorySet
<1> HIDE DEF H
<1>3. PICK u \in Seq(H) : u = Append(history, x)
  <2>1. Append(history, x) \in Seq(H)
    BY <1>2
  <2>2. QED
    BY <2>1
<1>4. /\ DOMAIN history = 1 .. n - 1 /\ DOMAIN u = 1 .. n
      /\ u[n] = x /\ \A k \in 1 .. n - 1 : u[k] = history[k]
  BY <1>2, <1>3
<1>5. history' = u
  BY <1>2, <1>3
<1>6. history' \in HistorySet /\ history'[n].kind = kind /\ history'[n].day = day
  BY <1>1, <1>4, <1>5 DEF HistorySet, H
<1>7. Times(kinds) = {k \in 1 .. n - 1 : history[k].kind \in kinds}
  BY <1>4 DEF Times
<1>8. Times(kinds)' = {k \in 1 .. n : u[k].kind \in kinds}
  BY <1>4, <1>5 DEF Times
<1>9. \A k : k \in Times(kinds)' <=>
        k \in Times(kinds) \cup IF kind \in kinds THEN {n} ELSE {}
  BY <1>1, <1>4, <1>7, <1>8
<1>10. SomeHappened(kinds) <=> Times(kinds) # {}
  BY DEF SomeHappened, Happened, Times
<1>11. SomeHappened(kinds)' <=> Times(kinds)' # {}
  BY DEF SomeHappened, Happened, Times
<1>12. QED
  BY <1>4, <1>5, <1>6, <1>7, <1>9, <1>10, <1>11

LEMMA HappenedIs ==
  ASSUME NEW k
  PROVE  (Happened(k) <=> Times({k}) # {}) /\ (Happened(k)' <=> Times({k})' # {})
BY DEF Happened, Times

\* What one more event does to what has happened, and when first and last.
LEMMA MoreHappened ==
  ASSUME history \in HistorySet, NEW kind \in RequestEvents, NEW day \in 0 .. Days,
         history' = Append(history, [kind |-> kind, day |-> day])
  PROVE  /\ history' \in HistorySet
         /\ \A kinds : SomeHappened(kinds)' <=> SomeHappened(kinds) \/ kind \in kinds
         /\ \A k : Happened(k)' <=> Happened(k) \/ kind = k
         /\ \A kinds, d :
              /\ FirstOn(kinds, d) => FirstOn(kinds, d)'
              /\ kind \notin kinds /\ LastWas(kinds, d) => LastWas(kinds, d)'
         /\ \A kinds : kind \in kinds => LastWas(kinds, kind)'
         /\ \A kinds : kind \in kinds /\ ~SomeHappened(kinds) => FirstOn(kinds, day)'
<1>1. PICK n \in Nat : n = Len(history) + 1
  BY DEF HistorySet
<1>2. /\ history' \in HistorySet
      /\ history'[n].kind = kind /\ history'[n].day = day
  BY <1>1, MoreHistory
<1>3. ASSUME NEW kinds
      PROVE  /\ \A k \in Times(kinds) : k < n /\ k \in Nat
             /\ \A k \in Times(kinds) : history'[k] = history[k]
             /\ Times(kinds)' = Times(kinds) \cup IF kind \in kinds THEN {n} ELSE {}
             /\ SomeHappened(kinds) <=> Times(kinds) # {}
             /\ SomeHappened(kinds)' <=> Times(kinds)' # {}
  <2>1. \A k \in Times(kinds) : k < n /\ k \in Nat
    BY <1>1, MoreHistory
  <2>2. \A k \in Times(kinds) : history'[k] = history[k]
    BY <1>1, MoreHistory
  <2>3. Times(kinds)' = Times(kinds) \cup IF kind \in kinds THEN {n} ELSE {}
    BY <1>1, MoreHistory
  <2>4. SomeHappened(kinds) <=> Times(kinds) # {}
    BY <1>1, MoreHistory
  <2>5. SomeHappened(kinds)' <=> Times(kinds)' # {}
    BY <1>1, MoreHistory
  <2>6. QED
    BY <2>1, <2>2, <2>3, <2>4, <2>5
<1>4. \A kinds : SomeHappened(kinds)' <=> SomeHappened(kinds) \/ kind \in kinds
  <2>1. SUFFICES ASSUME NEW kinds
                 PROVE  SomeHappened(kinds)' <=> SomeHappened(kinds) \/ kind \in kinds
    OBVIOUS
  <2>2. QED
    BY <1>3
<1>5. \A k : Happened(k)' <=> Happened(k) \/ kind = k
  <2>1. SUFFICES ASSUME NEW k PROVE Happened(k)' <=> Happened(k) \/ kind = k
    OBVIOUS
  <2>2. Times({k})' = Times({k}) \cup IF kind \in {k} THEN {n} ELSE {}
    BY <1>3
  <2>3. QED
    BY <2>2, HappenedIs
<1>6. ASSUME NEW kinds, NEW d
      PROVE  /\ FirstOn(kinds, d) => FirstOn(kinds, d)'
             /\ kind \notin kinds /\ LastWas(kinds, d) => LastWas(kinds, d)'
  <2>1. ASSUME FirstOn(kinds, d) PROVE FirstOn(kinds, d)'
    <3>1. PICK k \in Times(kinds) : (\A j \in Times(kinds) : k <= j) /\ history[k].day = d
      BY <2>1 DEF FirstOn
    <3>2. k \in Times(kinds)' /\ history'[k].day = d
      BY <1>3, <3>1
    <3>3. \A j \in Times(kinds)' : k <= j
      BY <1>3, <3>1
    <3>4. QED
      BY <3>2, <3>3 DEF FirstOn
  <2>2. ASSUME kind \notin kinds, LastWas(kinds, d) PROVE LastWas(kinds, d)'
    <3>1. PICK k \in Times(kinds) : (\A j \in Times(kinds) : j <= k) /\ history[k].kind = d
      BY <2>2 DEF LastWas
    <3>2. k \in Times(kinds)' /\ history'[k].kind = d
      BY <1>3, <3>1
    <3>3. \A j \in Times(kinds)' : j <= k
      BY <1>3, <2>2, <3>1
    <3>4. QED
      BY <3>2, <3>3 DEF LastWas
  <2>3. QED
    BY <2>1, <2>2
<1>7. ASSUME NEW kinds, kind \in kinds
      PROVE  LastWas(kinds, kind)' /\ (~SomeHappened(kinds) => FirstOn(kinds, day)')
  <2>1. n \in Times(kinds)' /\ \A j \in Times(kinds)' : j <= n
    BY <1>3, <1>7
  <2>2. LastWas(kinds, kind)'
    BY <1>2, <2>1 DEF LastWas
  <2>3. ASSUME ~SomeHappened(kinds) PROVE FirstOn(kinds, day)'
    <3>1. \A j \in Times(kinds)' : n <= j
      BY <1>3, <1>7, <2>3
    <3>2. QED
      BY <1>2, <2>1, <3>1 DEF FirstOn
  <2>4. QED
    BY <2>2, <2>3
<1>8. QED
  BY <1>2, <1>4, <1>5, <1>6, <1>7

LEMMA RanksAre ==
  /\ \A k \in DOMAIN StatusRank : StatusRank[k] \in 1 .. 5
  /\ StatusRank["cancelled"] = 5
BY RequestKinds DEF StatusRank

LEMMA MoreBelow ==
  ASSUME history \in HistorySet, NEW kind \in RequestEvents, NEW day \in 0 .. Days,
         history' = Append(history, [kind |-> kind, day |-> day])
  PROVE  /\ \A r, s \in 1 .. 5 :
              Below(r) /\ r <= s /\ (kind \in DOMAIN StatusRank => StatusRank[kind] <= s)
                => Below(s)'
         /\ ~SomeHappened(DOMAIN StatusRank) => \A r \in 1 .. 5 : Below(r)
<1> DEFINE kinds == DOMAIN StatusRank
<1>1. PICK n \in Nat : n = Len(history) + 1
  BY DEF HistorySet
<1>2. ASSUME NEW r \in 1 .. 5, NEW s \in 1 .. 5, Below(r), r <= s,
             kind \in kinds => StatusRank[kind] <= s,
             NEW k \in Times(kinds)'
      PROVE  StatusRank[history'[k].kind] <= s
  <2>1. history'[n].kind = kind
    BY <1>1, MoreHistory
  <2>2. Times(kinds)' = Times(kinds) \cup IF kind \in kinds THEN {n} ELSE {}
    BY <1>1, MoreHistory
  <2>3. CASE k \in Times(kinds)
    <3>1. history'[k] = history[k]
      BY <1>1, <2>3, MoreHistory
    <3>2. StatusRank[history[k].kind] <= r /\ history[k].kind \in kinds
      BY <1>2, <2>3 DEF Below, Times
    <3>3. PICK v \in 1 .. 5 : v = StatusRank[history[k].kind]
      BY <3>2, RanksAre
    <3>4. v <= s
      BY <1>2, <3>2, <3>3
    <3>5. QED
      BY <3>1, <3>3, <3>4
  <2>4. CASE k \notin Times(kinds)
    BY <1>2, <2>1, <2>2, <2>4
  <2>5. QED
    BY <2>3, <2>4
<1>3. ~SomeHappened(kinds) => \A r \in 1 .. 5 : Below(r)
  BY DEF SomeHappened, Happened, Below, Times
<1>4. \A r, s \in 1 .. 5 :
        Below(r) /\ r <= s /\ (kind \in kinds => StatusRank[kind] <= s) => Below(s)'
  BY <1>2 DEF Below
<1>5. QED
  BY <1>3, <1>4

\* The row after an event: its status goes up in rank only.
RequestStep(row, kind, day, new) ==
    /\ new \in RequestRow
    /\ row = NoRow => /\ new.status = kind /\ new.acceptedAt = day
                      /\ new.cancelled <=> kind = "cancelled"
    /\ row # NoRow => /\ new.acceptedAt = row.acceptedAt
                      /\ new.cancelled <=> row.cancelled \/ kind = "cancelled"
                      /\ new.status \in {row.status, kind}
                      /\ StatusRank[row.status] <= StatusRank[new.status]
                      /\ StatusRank[kind] <= StatusRank[new.status]

LEMMA RequestSteps ==
  ASSUME NEW row \in RequestRow \cup {NoRow}, NEW kind \in DOMAIN StatusRank,
         NEW day \in 0 .. Days
  PROVE  RequestStep(row, kind, day, RequestAfter(row, kind, day))
<1>0. PICK new : new = RequestAfter(row, kind, day)
  OBVIOUS
<1> SUFFICES RequestStep(row, kind, day, new)
  BY <1>0
<1>1. /\ \A k \in DOMAIN StatusRank : StatusRank[k] \in 1 .. 5
      /\ StatusRank["cancelled"] = 5 /\ "cancelled" \in DOMAIN StatusRank
  BY RanksAre, KindSets
<1>2. row # NoRow => row \in RequestRow /\ row.status \in DOMAIN StatusRank
  BY DEF RequestRow
<1>3. CASE kind = "cancelled"
  <2>1. new = IF row = NoRow
              THEN [status |-> "cancelled", acceptedAt |-> day, cancelled |-> TRUE]
              ELSE [row EXCEPT !.status = "cancelled", !.cancelled = TRUE]
    BY <1>0, <1>3, RequestAfterIs
  <2>2. CASE row = NoRow
    <3>1. new = [status |-> "cancelled", acceptedAt |-> day, cancelled |-> TRUE]
      BY <2>1, <2>2
    <3>2. new \in RequestRow
      BY <1>1, <3>1 DEF RequestRow
    <3>3. new.status = kind /\ new.acceptedAt = day /\ new.cancelled
      BY <1>3, <3>1
    <3>4. QED
      BY <1>3, <2>2, <3>2, <3>3 DEF RequestStep
  <2>3. CASE row # NoRow
    <3>1. new \in RequestRow /\ new.status = "cancelled"
          /\ new.acceptedAt = row.acceptedAt /\ new.cancelled
      BY <1>1, <1>2, <2>1, <2>3 DEF RequestRow
    <3>2. StatusRank[row.status] <= 5 /\ StatusRank[kind] <= 5
      BY <1>1, <1>2, <2>3
    <3>3. QED
      BY <1>1, <1>3, <2>3, <3>1, <3>2 DEF RequestStep
  <2>4. QED
    BY <2>2, <2>3
<1>4. CASE kind # "cancelled" /\ row = NoRow
  <2>1. kind \in Upserting
    BY <1>4 DEF Upserting
  <2>2. new = [status |-> kind, acceptedAt |-> day, cancelled |-> FALSE]
    BY <1>0, <1>4, <2>1, RequestAfterIs
  <2>3. new \in RequestRow
    BY <2>2 DEF RequestRow
  <2>4. new.status = kind /\ new.acceptedAt = day /\ ~new.cancelled
    BY <2>2
  <2>5. QED
    BY <1>4, <2>3, <2>4 DEF RequestStep
<1>5. CASE kind # "cancelled" /\ row # NoRow
  <2>1. kind \in Upserting
    BY <1>5 DEF Upserting
  <2>2. new = IF StatusRank[row.status] >= StatusRank[kind] THEN row
              ELSE [row EXCEPT !.status = kind]
    BY <1>0, <1>5, <2>1, RequestAfterIs
  <2>3. PICK old \in 1 .. 5 : old = StatusRank[row.status]
    BY <1>1, <1>2, <1>5
  <2>4. PICK rank \in 1 .. 5 : rank = StatusRank[kind]
    BY <1>1
  <2>5. CASE old >= rank
    BY <1>2, <1>5, <2>2, <2>3, <2>4, <2>5 DEF RequestStep
  <2>6. CASE old < rank
    <3>1. new = [row EXCEPT !.status = kind]
      BY <2>2, <2>3, <2>4, <2>6
    <3>2. new \in RequestRow /\ new.status = kind
          /\ new.acceptedAt = row.acceptedAt /\ new.cancelled = row.cancelled
      BY <1>2, <1>5, <3>1 DEF RequestRow
    <3>3. QED
      BY <1>5, <2>3, <2>4, <2>6, <3>2 DEF RequestStep
  <2>7. QED
    BY <2>5, <2>6
<1>6. QED
  BY <1>3, <1>4, <1>5

LEMMA RouteKept ==
  ASSUME history \in HistorySet, NEW kind \in RequestEvents, NEW day \in 0 .. Days,
         history' = Append(history, [kind |-> kind, day |-> day]),
         NEW t \in TableSet, NEW next, RouteGood(t),
         next.request = RequestAfter(t.request, kind, day),
         next.context = (t.context \/ kind = "gateway_prepared")
  PROVE  RouteGood(next)'
<1> DEFINE kinds == DOMAIN StatusRank
<1>1. /\ SomeHappened(kinds)' <=> SomeHappened(kinds) \/ kind \in kinds
      /\ \A k : Happened(k)' <=> Happened(k) \/ kind = k
      /\ \A d : FirstOn(kinds, d) => FirstOn(kinds, d)'
      /\ kind \in kinds /\ ~SomeHappened(kinds) => FirstOn(kinds, day)'
  BY MoreHappened
<1>2. next.context <=> Happened("gateway_prepared")'
  BY <1>1 DEF RouteGood, TableSet
<1>3. /\ \A r, s \in 1 .. 5 :
           Below(r) /\ r <= s /\ (kind \in kinds => StatusRank[kind] <= s) => Below(s)'
      /\ ~SomeHappened(kinds) => \A r \in 1 .. 5 : Below(r)
  BY MoreBelow
<1>4. PICK row \in RequestRow \cup {NoRow} : row = t.request
  BY DEF TableSet
<1>5. row # NoRow => row.status \in kinds
  BY DEF RequestRow
<1>6. \A k \in kinds : StatusRank[k] \in 1 .. 5
  BY RanksAre
<1>7. "cancelled" \in kinds /\ \A k \in kinds : Happened(k) => SomeHappened(kinds)
  BY KindSets DEF SomeHappened
<1>8. SomeHappened(kinds) <=> row # NoRow
  BY <1>4 DEF RouteGood
<1>9. row # NoRow =>
        /\ Below(StatusRank[row.status]) /\ Happened(row.status)
        /\ FirstOn(kinds, row.acceptedAt) /\ (row.cancelled <=> Happened("cancelled"))
  BY <1>4, <1>8 DEF RouteGood
<1>10. CASE kind \notin kinds
  <2>1. next.request = row
    BY <1>4, <1>10, RequestsKept
  <2>2. CASE row = NoRow
    BY <1>1, <1>2, <1>8, <1>10, <2>1, <2>2 DEF RouteGood
  <2>3. CASE row # NoRow
    <3>1. Below(StatusRank[row.status])' /\ Happened(row.status)'
          /\ FirstOn(kinds, row.acceptedAt)' /\ (row.cancelled <=> Happened("cancelled")')
      BY <1>1, <1>3, <1>5, <1>6, <1>7, <1>9, <1>10, <2>3
    <3>2. QED
      BY <1>1, <1>2, <1>8, <2>1, <2>3, <3>1 DEF RouteGood
  <2>4. QED
    BY <2>2, <2>3
<1>11. CASE kind \in kinds
  <2>1. PICK new : new = RequestAfter(row, kind, day)
    OBVIOUS
  <2>2. next.request = new
    BY <1>4, <2>1
  <2>3. RequestStep(row, kind, day, new)
    BY <1>11, <2>1, RequestSteps
  <2>4. PICK s \in kinds : s = new.status
    BY <2>3 DEF RequestStep, RequestRow
  <2>5. PICK d : d = new.acceptedAt
    OBVIOUS
  <2>6. new # NoRow
    BY <2>3, RequestAssumption DEF RequestStep
  <2>7. /\ row = NoRow => s = kind /\ d = day
        /\ row # NoRow => /\ d = row.acceptedAt /\ s \in {row.status, kind}
                          /\ StatusRank[row.status] <= StatusRank[s]
                          /\ StatusRank[kind] <= StatusRank[s]
    <3>1. CASE row = NoRow
      BY <2>3, <2>4, <2>5, <3>1, Zenon DEF RequestStep
    <3>2. CASE row # NoRow
      BY <2>3, <2>4, <2>5, <3>2, Zenon DEF RequestStep
    <3>3. QED
      BY <3>1, <3>2
  <2>8. Below(StatusRank[s])'
    <3>1. CASE row = NoRow
      <4>1. Below(StatusRank[kind])
        BY <1>3, <1>6, <1>8, <1>11, <3>1
      <4>2. QED
        BY <1>3, <1>6, <1>11, <2>7, <4>1
    <3>2. CASE row # NoRow
      BY <1>3, <1>5, <1>6, <1>9, <2>7, <3>2
    <3>3. QED
      BY <3>1, <3>2
  <2>9. Happened(s)'
    <3>1. CASE s = kind
      BY <1>1, <3>1
    <3>2. CASE s # kind
      <4>1. row # NoRow /\ s = row.status
        BY <2>7, <3>2
      <4>2. QED
        BY <1>1, <1>9, <4>1
    <3>3. QED
      BY <3>1, <3>2
  <2>10. FirstOn(kinds, d)'
    BY <1>1, <1>8, <1>9, <1>11, <2>7
  <2>11. new.cancelled <=> Happened("cancelled")'
    <3>0. Happened("cancelled")' <=> Happened("cancelled") \/ kind = "cancelled"
      BY <1>1
    <3>1. CASE row = NoRow
      <4>1. ~Happened("cancelled")
        BY <1>7, <1>8, <3>1
      <4>2. new.cancelled <=> kind = "cancelled"
        BY <2>3, <3>1, Zenon DEF RequestStep
      <4>3. QED
        BY <3>0, <4>1, <4>2, Zenon
    <3>2. CASE row # NoRow
      <4>1. row.cancelled <=> Happened("cancelled")
        BY <1>9, <3>2, Zenon
      <4>2. new.cancelled <=> row.cancelled \/ kind = "cancelled"
        BY <2>3, <3>2, Zenon DEF RequestStep
      <4>3. QED
        BY <3>0, <4>1, <4>2, Zenon
    <3>3. QED
      BY <3>1, <3>2
  <2>12. QED
    BY <1>1, <1>2, <1>11, <2>2, <2>4, <2>5, <2>6, <2>8, <2>9, <2>10, <2>11 DEF RouteGood
<1>12. QED
  BY <1>10, <1>11

\* What the hub allows of a loan.
LEMMA MayLoan ==
  ASSUME NEW kind, May(kind)
  PROVE  /\ kind \in LoanOpening => ~SomeHappened(LoanOpening)
         /\ kind \in LoanClosing => SomeHappened(LoanOpening)
<1>1. kind \in LoanOpening \cup LoanClosing =>
        /\ kind \notin {"accepted", "rfq_accepted", "perp_accepted"}
        /\ kind # "fee_quoted" /\ kind # "submitted"
        /\ kind \notin {"gateway_prepared", "cancelled"}
        /\ kind \notin {"executed", "stranded"} /\ kind # "swept"
  BY DEF LoanOpening, LoanClosing
<1>2. CASE kind \in LoanOpening
  <2>1. kind # "GatewayHubLiquidityReceived" /\ kind # "GatewayAtomicFxSwapSettled"
        /\ kind \notin LoanClosing
    BY <1>2 DEF LoanOpening, LoanClosing
  <2>2. ~SomeHappened(LoanOpening)
    BY <1>1, <1>2, <2>1, Zenon DEF May
  <2>3. QED
    BY <2>1, <2>2
<1>3. CASE kind \in LoanClosing
  <2>1. kind \notin LoanOpening
    BY <1>3 DEF LoanOpening, LoanClosing
  <2>2. CASE kind = "GatewayHubLiquidityReceived"
    <3>1. Happened("GatewayHubTransferRequested")
      BY <1>1, <1>3, <2>1, <2>2, Zenon DEF May
    <3>2. QED
      BY <2>1, <3>1 DEF SomeHappened, LoanOpening
  <2>3. CASE kind = "GatewayAtomicFxSwapSettled"
    <3>1. Happened("GatewayAtomicFxSwapRequested")
      BY <1>1, <1>3, <2>1, <2>3, Zenon DEF May
    <3>2. QED
      BY <2>1, <3>1 DEF SomeHappened, LoanOpening
  <2>4. QED
    BY <1>3, <2>2, <2>3 DEF LoanClosing
<1>4. QED
  BY <1>2, <1>3

\* The row after an event: opened by a request, and closed by what answers it.
LoanStep(row, kind, day, new) ==
    /\ kind \in LoanOpening =>
         new \in LoanRow /\ new.status = "open" /\ new.openedAt = day /\ new.known
    /\ kind \in LoanClosing /\ row # NoRow =>
         /\ new \in LoanRow /\ new.status = "repaid" /\ new.openedAt = row.openedAt
         /\ new.known = row.known

LEMMA LoanSteps ==
  ASSUME NEW row \in LoanRow \cup {NoRow}, NEW kind, NEW day \in 0 .. Days
  PROVE  LoanStep(row, kind, day, LoanAfter(row, kind, day))
<1>1. PICK new : new = LoanAfter(row, kind, day)
  OBVIOUS
<1>2. ASSUME kind \in LoanOpening
      PROVE  new \in LoanRow /\ new.status = "open" /\ new.openedAt = day /\ new.known
  <2>1. LoanAfter(row, kind, day) = [status |-> "open", openedAt |-> day, known |-> TRUE]
    BY <1>2, LoanAfterIs
  <2>2. QED
    BY <1>1, <2>1 DEF LoanRow
<1>3. ASSUME kind \in LoanClosing, row # NoRow
      PROVE  /\ new \in LoanRow /\ new.status = "repaid" /\ new.openedAt = row.openedAt
             /\ new.known = row.known
  <2>1. LoanAfter(row, kind, day)
          = IF row = NoRow THEN [status |-> "repaid", openedAt |-> day, known |-> FALSE]
            ELSE [row EXCEPT !.status = "repaid"]
    BY <1>3, LoanAfterIs
  <2>2. new = [row EXCEPT !.status = "repaid"]
    BY <1>1, <1>3, <2>1
  <2>3. QED
    BY <1>3, <2>2 DEF LoanRow
<1>4. LoanStep(row, kind, day, new)
  BY <1>2, <1>3 DEF LoanStep
<1>5. QED
  BY <1>1, <1>4

\* A row fits what has happened.
LoanFits(row) ==
    /\ SomeHappened(LoanKinds) <=> row # NoRow
    /\ row # NoRow => row.known /\ FirstOn(LoanKinds, row.openedAt)
    /\ row # NoRow => (row.status = "repaid" <=> SomeHappened(LoanClosing))

LEMMA LoanFitsIs ==
  ASSUME NEW t
  PROVE  (LoanGood(t) <=> LoanFits(t.loan)) /\ (LoanGood(t)' <=> LoanFits(t.loan)')
BY DEF LoanGood, LoanFits

LEMMA LoanRowKept ==
  ASSUME history \in HistorySet, HistoryOK, NEW kind \in RequestEvents, NEW day \in 0 .. Days,
         May(kind), history' = Append(history, [kind |-> kind, day |-> day]),
         NEW row \in LoanRow \cup {NoRow}, LoanFits(row), NEW new,
         kind \notin LoanKinds => new = row, LoanStep(row, kind, day, new)
  PROVE  LoanFits(new)' /\ HistoryOK'
<1>1. /\ SomeHappened(LoanKinds)' <=> SomeHappened(LoanKinds) \/ kind \in LoanKinds
      /\ SomeHappened(LoanClosing)' <=> SomeHappened(LoanClosing) \/ kind \in LoanClosing
      /\ SomeHappened(LoanOpening)' <=> SomeHappened(LoanOpening) \/ kind \in LoanOpening
  BY MoreHappened
<1>2. /\ \A d : FirstOn(LoanKinds, d) => FirstOn(LoanKinds, d)'
      /\ kind \in LoanKinds /\ ~SomeHappened(LoanKinds) => FirstOn(LoanKinds, day)'
  BY MoreHappened
<1>3. PICK d : d = row.openedAt
  OBVIOUS
<1>4. /\ SomeHappened(LoanKinds) <=> row # NoRow
      /\ row # NoRow => row.known /\ FirstOn(LoanKinds, d)
      /\ row # NoRow => (row.status = "repaid" <=> SomeHappened(LoanClosing))
  BY <1>3 DEF LoanFits
<1>5. SomeHappened(LoanKinds) <=> SomeHappened(LoanOpening) \/ SomeHappened(LoanClosing)
  BY DEF SomeHappened, LoanKinds
<1>6. /\ kind \in LoanOpening => ~SomeHappened(LoanOpening)
      /\ kind \in LoanClosing => SomeHappened(LoanOpening)
  BY MayLoan
<1>7. /\ kind \in LoanOpening => kind \in LoanKinds /\ kind \notin LoanClosing
      /\ kind \in LoanClosing => kind \in LoanKinds
      /\ kind \in LoanKinds => kind \in LoanOpening \/ kind \in LoanClosing
  BY KindSets DEF LoanKinds
<1>8. HistoryOK'
  BY <1>1, <1>6 DEF HistoryOK
<1>9. CASE kind \notin LoanKinds
  <2>1. /\ SomeHappened(LoanKinds)' <=> SomeHappened(LoanKinds)
        /\ SomeHappened(LoanClosing)' <=> SomeHappened(LoanClosing)
    BY <1>1, <1>7, <1>9
  <2>2. new = row /\ new.openedAt = d
    BY <1>3, <1>9
  <2>3. row # NoRow => FirstOn(LoanKinds, d)'
    BY <1>2, <1>4
  <2>4. QED
    BY <1>4, <1>8, <2>1, <2>2, <2>3 DEF LoanFits
<1>10. CASE kind \in LoanOpening
  <2>1. /\ new \in LoanRow /\ new.status = "open" /\ new.openedAt = day /\ new.known
        /\ new # NoRow
    BY <1>10, RequestAssumption DEF LoanStep
  <2>2. ~SomeHappened(LoanClosing) /\ ~SomeHappened(LoanKinds)
    BY <1>5, <1>6, <1>10 DEF HistoryOK
  <2>3. SomeHappened(LoanKinds)' /\ ~SomeHappened(LoanClosing)' /\ FirstOn(LoanKinds, day)'
    BY <1>1, <1>2, <1>7, <1>10, <2>2
  <2>4. QED
    BY <1>8, <2>1, <2>3 DEF LoanFits
<1>11. CASE kind \in LoanClosing
  <2>1. row # NoRow
    BY <1>4, <1>5, <1>6, <1>11
  <2>2. /\ new \in LoanRow /\ new.status = "repaid" /\ new.openedAt = d
        /\ new.known = row.known /\ new # NoRow
    BY <1>3, <1>11, <2>1, RequestAssumption DEF LoanStep
  <2>3. SomeHappened(LoanKinds)' /\ SomeHappened(LoanClosing)' /\ FirstOn(LoanKinds, d)'
    BY <1>1, <1>2, <1>4, <1>7, <1>11, <2>1
  <2>4. new.known
    BY <1>4, <2>1, <2>2
  <2>5. QED
    BY <1>8, <2>2, <2>3, <2>4 DEF LoanFits
<1>12. QED
  BY <1>7, <1>9, <1>10, <1>11

LEMMA LoanKept ==
  ASSUME history \in HistorySet, HistoryOK, NEW kind \in RequestEvents, NEW day \in 0 .. Days,
         May(kind), history' = Append(history, [kind |-> kind, day |-> day]),
         NEW t \in TableSet, NEW next, LoanGood(t),
         next.loan = LoanAfter(t.loan, kind, day)
  PROVE  LoanGood(next)' /\ HistoryOK'
<1>1. PICK row \in LoanRow \cup {NoRow} : row = t.loan
  BY DEF TableSet
<1>2. PICK new : new = LoanAfter(row, kind, day)
  OBVIOUS
<1>3. next.loan = new
  BY <1>1, <1>2
<1>4. kind \notin LoanKinds => new = row
  BY <1>2, RequestsKept DEF LoanKinds
<1>5. LoanStep(row, kind, day, new)
  BY <1>2, LoanSteps
<1>6. LoanFits(row)
  BY <1>1, LoanFitsIs
<1>7. LoanFits(new)' /\ HistoryOK'
  BY <1>4, <1>5, <1>6, LoanRowKept
<1>8. LoanFits(next.loan)'
  BY <1>3, <1>7 DEF LoanFits
<1>9. QED
  BY <1>7, <1>8, LoanFitsIs

LEMMA DepositKept ==
  ASSUME history \in HistorySet, NEW kind \in RequestEvents, NEW day \in 0 .. Days,
         history' = Append(history, [kind |-> kind, day |-> day]),
         NEW t \in TableSet, NEW next, DepositGood(t),
         next.deposit = DepositAfter(t.deposit, kind)
  PROVE  DepositGood(next)'
<1>1. SomeHappened(DepositStatus)' <=> SomeHappened(DepositStatus) \/ kind \in DepositStatus
  BY MoreHappened
<1>2. /\ kind \in DepositStatus => LastWas(DepositStatus, kind)'
      /\ \A d : kind \notin DepositStatus /\ LastWas(DepositStatus, d)
                  => LastWas(DepositStatus, d)'
  BY MoreHappened
<1>3. CASE kind \in DepositStatus
  <2>1. PICK new : new = [status |-> kind, executed |-> kind = "executed",
                          stranded |-> kind = "stranded", swept |-> kind = "swept"]
    OBVIOUS
  <2>2. next.deposit = new
    BY <1>3, <2>1 DEF DepositAfter
  <2>3. new \in DepositRow /\ new.status = kind
    BY <1>3, <2>1 DEF DepositRow
  <2>4. QED
    BY <1>1, <1>2, <1>3, <2>2, <2>3, RequestAssumption DEF DepositGood
<1>4. CASE kind \notin DepositStatus
  <2>1. next.deposit = t.deposit
    BY <1>4, RequestsKept
  <2>2. PICK d : d = t.deposit.status
    OBVIOUS
  <2>3. QED
    BY <1>1, <1>2, <1>4, <2>1, <2>2 DEF DepositGood
<1>5. QED
  BY <1>3, <1>4

LEMMA RequestContract ==
  ASSUME Typed, EscrowOK, RoundOK, HistoryOK, Foreseen,
         NEW kind \in RequestEvents, Occur(kind), UNCHANGED arcadeVars
  PROVE  Follows'
<1>1. PICK last \in TableSet : Caught(log, Tables, last) /\ Good(last)
  BY DEF Foreseen
<1>2. PICK e \in Event : e = [kind |-> kind] /\ e.kind = kind
  <2>1. [kind |-> kind] \in Event
    BY DEF Event, RequestEvent
  <2>2. QED
    BY <2>1
<1>3. Emit(<<e>>) /\ Tables' = Tables /\ UNCHANGED escrow
      /\ history' = Append(history, [kind |-> kind, day |-> today]) /\ May(kind)
  BY <1>2 DEF Occur, Tables, arcadeVars
<1>4. PICK next : next = After(last, At(e))
  OBVIOUS
<1>5. /\ log' \in Seq(Entry) /\ UNCHANGED today
      /\ next \in TableSet /\ Caught(log', Tables', next)
  BY <1>1, <1>3, <1>4, EmitOne DEF Typed
<1>6. today \in 0 .. Days /\ history \in HistorySet
  BY DEF Typed
<1>7. /\ next.request = RequestAfter(last.request, kind, today)
      /\ next.context = (last.context \/ kind = "gateway_prepared")
      /\ next.loan = LoanAfter(last.loan, kind, today)
      /\ next.deposit = DepositAfter(last.deposit, kind)
  BY <1>2, <1>4 DEF After, At
<1>8. /\ next.room = last.room /\ next.placement = last.placement
      /\ next.stages = last.stages
  <2>1. kind \notin RoomKinds /\ kind \notin PlayerKinds /\ kind \notin StageKinds
    BY KindSorts
  <2>2. QED
    BY <1>2, <1>4, <2>1, AfterQuiet
<1>9. RouteGood(next)'
  BY <1>1, <1>3, <1>6, <1>7, RouteKept DEF Good, RequestGood
<1>10. LoanGood(next)' /\ HistoryOK'
  BY <1>1, <1>3, <1>6, <1>7, LoanKept DEF Good, RequestGood
<1>11. DepositGood(next)'
  BY <1>1, <1>3, <1>6, <1>7, DepositKept DEF Good, RequestGood
<1>12. RoomGood(next)'
  BY <1>1, <1>3, <1>8, RoomGoodKept DEF Good
<1>13. PlacementGood(next)'
  BY <1>1, <1>3, <1>8, PlacementGoodKept DEF Good
<1>14. Foreseen'
  BY <1>5, <1>9, <1>10, <1>11, <1>12, <1>13 DEF Foreseen, Good, RequestGood
<1>15. history' \in HistorySet
  BY <1>3, <1>6, MoreHappened
<1>16. Typed'
  BY <1>3, <1>5, <1>15 DEF Typed
<1>17. EscrowOK' /\ RoundOK'
  BY <1>3 DEF EscrowOK, RoundOK
<1>18. QED
  BY <1>10, <1>14, <1>16, <1>17 DEF Follows

-----------------------------------------------------------------------------
(* The market, the days, and the handlers: what they emit or handle is not *)
(* about a room or a request, or is the first step of the run.             *)

ClearingOK == clearing \in [size : Nat, margin : Nat, entry : Nat]

\* The margin that is released is at most the margin there is.
LEMMA Released ==
  ASSUME NEW m \in Nat, NEW a \in Nat, NEW s \in Nat \ {0}, a <= s
  PROVE  (m * a) \div s \in 0 .. m
<1>1. PICK u \in Nat : u = m * a
  OBVIOUS
<1>2. PICK v \in Nat : v = m * s
  OBVIOUS
<1>3. u <= v
  BY <1>1, <1>2
<1>4. PICK q \in Nat : q = u \div s
  OBVIOUS
<1>5. s * q <= u
  BY <1>4
<1>6. q <= m
  <2>1. SUFFICES ASSUME q >= m + 1 PROVE FALSE
    OBVIOUS
  <2>2. s * q >= s * (m + 1)
    BY <2>1
  <2>3. s * (m + 1) = v + s
    BY <1>2
  <2>4. PICK w \in Nat : w = s * q
    OBVIOUS
  <2>5. QED
    BY <1>3, <1>5, <2>2, <2>3, <2>4
<1>7. QED
  BY <1>1, <1>4, <1>6

\* What the market's contracts emit is an event of the market.
LEMMA MarketEmits ==
  ASSUME ClearingOK, NEW amount \in Amounts, NEW price \in Amounts,
         NEW kind \in TradeKinds \cup VaultKinds,
         \/ Trade(kind, amount)
         \/ IncreasePosition(amount, price)
         \/ DecreasePosition(amount, price)
  PROVE  ClearingOK' /\ \E e \in Event : Emit(<<e>>) /\ e.kind \in MarketKinds
<1>1. amount \in Nat /\ amount > 0 /\ price \in Nat
  BY MarketAssumption
<1>2. PICK s \in Nat, m \in Nat, n \in Nat :
         clearing = [size |-> s, margin |-> m, entry |-> n]
  BY DEF ClearingOK
<1>3. CASE Trade(kind, amount)
  <2>1. PICK e : e = [kind |-> kind, amount |-> amount]
    OBVIOUS
  <2>2. e \in MarketEvent /\ e.kind \in MarketKinds
    BY <1>1, <2>1 DEF MarketEvent, MarketKinds
  <2>3. Emit(<<e>>) /\ clearing' = clearing
    BY <1>3, <2>1 DEF Trade, marketVars
  <2>4. QED
    BY <2>2, <2>3 DEF Event, ClearingOK
<1>4. CASE IncreasePosition(amount, price)
  <2>1. PICK entry \in Nat : entry = (s * n + amount * price) \div (s + amount)
    <3>1. PICK u \in Nat : u = s * n
      OBVIOUS
    <3>2. PICK v \in Nat : v = amount * price
      BY <1>1
    <3>3. (u + v) \div (s + amount) \in Nat
      BY <1>1
    <3>4. QED
      BY <3>1, <3>2, <3>3
  <2>2. PICK e : e = [kind |-> "PositionIncreased", amount |-> amount, size |-> s + amount,
                      price |-> entry, margin |-> m + amount]
    OBVIOUS
  <2>3. e \in PositionEvent /\ e.kind \in MarketKinds
    BY <1>1, <2>2 DEF PositionEvent, PositionKinds, MarketKinds
  <2>4. /\ Emit(<<e>>)
        /\ clearing' = [size |-> s + amount, margin |-> m + amount, entry |-> entry]
    BY <1>2, <1>4, <2>1, <2>2 DEF IncreasePosition
  <2>5. ClearingOK'
    BY <1>1, <2>4 DEF ClearingOK
  <2>6. QED
    BY <2>3, <2>4, <2>5 DEF Event, MarketEvent
<1>5. CASE DecreasePosition(amount, price)
  <2>1. amount <= s /\ s \in Nat \ {0}
    BY <1>1, <1>2, <1>5 DEF DecreasePosition
  <2>2. PICK released \in 0 .. m : released = (m * amount) \div s
    BY <1>1, <2>1, Released
  <2>3. s - amount \in Nat /\ m - released \in Nat /\ released \in Nat
    BY <1>1, <2>1
  <2>4. PICK e : e = [kind |-> "PositionDecreased", amount |-> amount, size |-> s - amount,
                      price |-> price, margin |-> released]
    OBVIOUS
  <2>5. e \in PositionEvent /\ e.kind \in MarketKinds
    BY <1>1, <2>3, <2>4 DEF PositionEvent, PositionKinds, MarketKinds
  <2>6. /\ Emit(<<e>>)
        /\ clearing' = [clearing EXCEPT !.size = s - amount, !.margin = m - released]
    BY <1>2, <1>5, <2>2, <2>4 DEF DecreasePosition
  <2>7. ClearingOK'
    BY <2>3, <2>6 DEF ClearingOK
  <2>8. QED
    BY <2>5, <2>6, <2>7 DEF Event, MarketEvent
<1>6. QED
  BY <1>3, <1>4, <1>5

LEMMA MarketContract ==
  ASSUME Follows, NEW e \in Event, e.kind \in MarketKinds, Emit(<<e>>),
         UNCHANGED <<arcadeVars, requestVars>>
  PROVE  Follows'
<1>1. PICK last \in TableSet : Caught(log, Tables, last) /\ Good(last)
  BY DEF Follows, Foreseen
<1>2. Tables' = Tables /\ UNCHANGED <<escrow, history>>
  BY DEF Tables, arcadeVars, requestVars
<1>3. PICK next : next = After(last, At(e))
  OBVIOUS
<1>4. /\ log' \in Seq(Entry) /\ UNCHANGED today
      /\ next \in TableSet /\ Caught(log', Tables', next)
  BY <1>1, <1>2, <1>3, EmitOne DEF Follows, Typed
<1>5. e.kind \notin ArcadeKinds /\ e.kind \notin RequestEvents
  BY KindsApart
<1>6. /\ next.room = last.room /\ next.placement = last.placement
      /\ next.stages = last.stages
      /\ next.request = last.request /\ next.context = last.context
      /\ next.loan = last.loan /\ next.deposit = last.deposit
  BY <1>3, <1>5, AfterQuiet DEF ArcadeKinds
<1>7. RoomGood(next)'
  BY <1>1, <1>2, <1>6, RoomGoodKept DEF Good
<1>8. PlacementGood(next)'
  BY <1>1, <1>2, <1>6, PlacementGoodKept DEF Good
<1>9. RequestGood(next)'
  BY <1>1, <1>2, <1>6, RequestGoodKept DEF Good
<1>10. Foreseen'
  BY <1>4, <1>7, <1>8, <1>9 DEF Foreseen, Good
<1>11. Typed'
  BY <1>2, <1>4 DEF Follows, Typed
<1>12. EscrowOK' /\ RoundOK'
  BY <1>2 DEF Follows, EscrowOK, RoundOK
<1>13. HistoryOK'
  BY <1>2 DEF Follows, HistoryOK, SomeHappened, Happened
<1>14. QED
  BY <1>10, <1>11, <1>12, <1>13 DEF Follows

LEMMA HandledFollows ==
  ASSUME Follows, Handles
  PROVE  Follows'
<1>1. PICK last \in TableSet : Caught(log, Tables, last) /\ Good(last)
  BY DEF Follows, Foreseen
<1>2. /\ log # <<>> /\ log' = Tail(log) /\ Tables' = After(Tables, Head(log))
      /\ UNCHANGED <<escrow, history, today>>
  BY DEF Handles
<1>3. log \in Seq(Entry) /\ Tables \in TableSet
  BY DEF Follows, Typed
<1>4. Head(log) \in Entry /\ log' \in Seq(Entry)
  BY <1>2, <1>3, HeadTailProperties
<1>5. Tables' \in TableSet
  BY <1>2, <1>3, <1>4, AfterTyped
<1>6. Caught(log', Tables', last)
  <2>1. Caught(Tail(log), After(Tables, Head(log)), last)
    BY <1>1, <1>2, <1>3, CaughtHandle
  <2>2. QED
    BY <1>2, <2>1
<1>7. RoomGood(last)'
  BY <1>1, <1>2, RoomGoodKept DEF Good
<1>8. PlacementGood(last)'
  BY <1>1, <1>2, PlacementGoodKept DEF Good
<1>9. RequestGood(last)'
  BY <1>1, <1>2, RequestGoodKept DEF Good
<1>10. Foreseen'
  BY <1>6, <1>7, <1>8, <1>9 DEF Foreseen, Good
<1>11. Typed'
  BY <1>2, <1>4, <1>5 DEF Follows, Typed
<1>12. EscrowOK' /\ RoundOK'
  BY <1>2 DEF Follows, EscrowOK, RoundOK
<1>13. HistoryOK'
  BY <1>2 DEF Follows, HistoryOK, SomeHappened, Happened
<1>14. QED
  BY <1>10, <1>11, <1>12, <1>13 DEF Follows

\* A day passes, or nothing that matters here changes.
LEMMA DayPasses ==
  ASSUME Follows, today' \in 0 .. Days, UNCHANGED <<log, arcadeVars, requestVars>>
  PROVE  Follows'
<1>1. PICK last \in TableSet : Caught(log, Tables, last) /\ Good(last)
  BY DEF Follows, Foreseen
<1>2. Tables' = Tables /\ UNCHANGED <<log, escrow, history>>
  BY DEF Tables, arcadeVars, requestVars
<1>3. Caught(log', Tables', last)
  BY <1>1, <1>2
<1>4. RoomGood(last)'
  BY <1>1, <1>2, RoomGoodKept DEF Good
<1>5. PlacementGood(last)'
  BY <1>1, <1>2, PlacementGoodKept DEF Good
<1>6. RequestGood(last)'
  BY <1>1, <1>2, RequestGoodKept DEF Good
<1>7. Foreseen'
  BY <1>3, <1>4, <1>5, <1>6 DEF Foreseen, Good
<1>8. Typed'
  BY <1>2 DEF Follows, Typed
<1>9. EscrowOK' /\ RoundOK'
  BY <1>2 DEF Follows, EscrowOK, RoundOK
<1>10. HistoryOK'
  BY <1>2 DEF Follows, HistoryOK, SomeHappened, Happened
<1>11. QED
  BY <1>7, <1>8, <1>9, <1>10 DEF Follows

-----------------------------------------------------------------------------
(* The invariant.                                                          *)

IInv == Follows /\ ClearingOK

LEMMA InitFollows == Init => IInv
<1> SUFFICES ASSUME Init PROVE IInv
  OBVIOUS
<1>1. ArcadeInit /\ MarketInit /\ RequestInit /\ log = <<>> /\ today = 0
  BY DEF Init
<1>2. escrow \in Escrow /\ EscrowOK /\ RoundOK
  <2>1. Rounds \in Nat /\ 0 \in 0 .. Rounds
    BY ArcadeAssumption
  <2>2. /\ [p \in Players |-> 0] \in [Players -> 0 .. Rounds]
        /\ {} \in SUBSET Players
    BY <2>1
  <2>3. escrow \in Escrow
    BY <1>1, <2>1, <2>2 DEF ArcadeInit, Escrow, ContractStatus
  <2>4. QED
    BY <1>1, <2>3 DEF ArcadeInit, EscrowOK, RoundOK
<1>3. Tables \in TableSet
  <2>1. /\ room \in RoomRow \cup {NoRow}
        /\ placement \in [Players -> PlacementRow \cup {NoRow}]
        /\ stages \in [Stages -> Roots \cup {NoHash, NoRow}]
    BY <1>1 DEF ArcadeInit
  <2>2. /\ request \in RequestRow \cup {NoRow} /\ context \in BOOLEAN
        /\ loan \in LoanRow \cup {NoRow} /\ deposit \in DepositRow \cup {NoRow}
    BY <1>1 DEF RequestInit
  <2>3. QED
    BY <2>1, <2>2 DEF Tables, TableSet
<1>4. \A kinds : ~SomeHappened(kinds)
  BY <1>1 DEF RequestInit, SomeHappened, Happened
<1>5. RoomGood(Tables)
  BY <1>1 DEF ArcadeInit, RoomGood, Tables
<1>6. PlacementGood(Tables)
  BY <1>1 DEF ArcadeInit, PlacementGood, PlayerGood, Tables
<1>7. RequestGood(Tables)
  <2>1. ~Happened("gateway_prepared")
    BY <1>1 DEF RequestInit, Happened
  <2>2. RouteGood(Tables)
    BY <1>1, <1>4, <2>1 DEF RequestInit, RouteGood, Tables
  <2>3. LoanGood(Tables) /\ DepositGood(Tables)
    BY <1>1, <1>4 DEF RequestInit, LoanGood, DepositGood, Tables
  <2>4. QED
    BY <2>2, <2>3 DEF RequestGood
<1>8. Foreseen
  <2>1. Caught(log, Tables, Tables)
    BY <1>1, CaughtNow
  <2>2. QED
    BY <1>3, <1>5, <1>6, <1>7, <2>1 DEF Foreseen, Good
<1>9. Typed
  <2>1. log \in Seq(Entry) /\ history \in HistorySet
    BY <1>1 DEF RequestInit, HistorySet
  <2>2. today \in 0 .. Days
    BY <1>1, EventLogAssumption
  <2>3. QED
    BY <1>2, <1>3, <2>1, <2>2 DEF Typed
<1>10. HistoryOK
  BY <1>4 DEF HistoryOK
<1>11. ClearingOK
  BY <1>1 DEF MarketInit, ClearingOK
<1>12. QED
  BY <1>2, <1>8, <1>9, <1>10, <1>11 DEF IInv, Follows

LEMMA ArcadeFollows ==
  ASSUME IInv, ArcadeNext, UNCHANGED <<marketVars, requestVars>>
  PROVE  IInv'
<1>1. Typed /\ EscrowOK /\ RoundOK /\ Foreseen /\ Tables \in TableSet
  BY DEF IInv, Follows, Typed
<1>2. ClearingOK'
  BY DEF IInv, ClearingOK, marketVars
<1>3. CASE ArcadeHandlers
  BY <1>1, <1>2, <1>3, ArcadeHandlersAre, HandledFollows DEF IInv
<1>4. CASE Contracts
  <2>1. UNCHANGED history
    BY DEF requestVars
  <2>2. Tables' = Tables
    <3>1. UNCHANGED tables
      BY <1>4 DEF Contracts, CreateRoom, CancelRoom, LockRoom, StartRound, RecordAnchor,
         RecordSettlement, ChallengeResults, FinalizeResults, RescueFailedSettlement,
         SubmitResults, ResolveChallenge, JoinRoom, LeaveRoom, CommitSelection,
         RevealSelection, Refund, ClaimPrize
    <3>2. QED
      BY <3>1 DEF tables, Tables, requestVars
  <2>3. UNCHANGED today
    BY <1>4 DEF Contracts, CreateRoom, CancelRoom, LockRoom, StartRound, RecordAnchor,
       RecordSettlement, ChallengeResults, FinalizeResults, RescueFailedSettlement,
       SubmitResults, ResolveChallenge, JoinRoom, LeaveRoom, CommitSelection,
       RevealSelection, Refund, ClaimPrize, Emit
  <2>4. Foresees
    <3>1. CASE \E p \in Players : \/ JoinRoom(p) \/ LeaveRoom(p) \/ CommitSelection(p)
                                  \/ RevealSelection(p) \/ Refund(p) \/ ClaimPrize(p)
      BY <1>1, <2>1, <2>2, <3>1, PlayerContract
    <3>2. CASE \/ StartRound \/ RecordAnchor \/ RecordSettlement \/ ChallengeResults
               \/ \E root \in Roots : ResolveChallenge(root)
      BY <1>1, <2>1, <2>2, <3>2, QuietContract
    <3>3. CASE \/ CreateRoom \/ CancelRoom \/ LockRoom \/ FinalizeResults
               \/ RescueFailedSettlement
               \/ \E root \in Roots : SubmitResults(root)
      BY <1>1, <2>1, <2>2, <3>3, RoomContract
    <3>4. QED
      BY <1>4, <3>1, <3>2, <3>3 DEF Contracts
  <2>5. Typed'
    BY <1>1, <2>1, <2>2, <2>3, <2>4 DEF Typed, Foresees
  <2>6. HistoryOK'
    BY <2>1 DEF IInv, Follows, HistoryOK, SomeHappened, Happened
  <2>7. QED
    BY <1>2, <2>4, <2>5, <2>6 DEF IInv, Follows, Foresees
<1>5. QED
  BY <1>3, <1>4 DEF ArcadeNext

LEMMA MarketFollows ==
  ASSUME IInv, MarketNext, UNCHANGED <<arcadeVars, requestVars>>
  PROVE  IInv'
<1>1. Follows /\ ClearingOK /\ Tables \in TableSet
  BY DEF IInv, Follows, Typed
<1>2. CASE MarketHandlers
  <2>1. ClearingOK'
    BY <1>1, <1>2 DEF MarketHandlers, OnTrade, OnVault, OnPositionIncreased,
       OnPositionDecreased, ClearingOK
  <2>2. QED
    BY <1>1, <1>2, <2>1, MarketHandlersAre, HandledFollows DEF IInv
<1>3. CASE NewDay
  <2>1. today' \in 0 .. Days /\ UNCHANGED log
    BY <1>1, <1>3, EventLogAssumption DEF NewDay, Follows, Typed
  <2>2. ClearingOK'
    BY <1>1, <1>3 DEF NewDay, ClearingOK, marketVars
  <2>3. QED
    BY <1>1, <2>1, <2>2, DayPasses DEF IInv
<1>4. CASE \/ \E kind \in TradeKinds \cup VaultKinds, a \in Amounts : Trade(kind, a)
           \/ \E a, price \in Amounts : IncreasePosition(a, price) \/ DecreasePosition(a, price)
  <2>1. "Supply" \in TradeKinds \cup VaultKinds
    BY DEF TradeKinds
  <2>2. PICK kind \in TradeKinds \cup VaultKinds, a \in Amounts, price \in Amounts :
          Trade(kind, a) \/ IncreasePosition(a, price) \/ DecreasePosition(a, price)
    BY <1>4, <2>1
  <2>3. ClearingOK' /\ \E e \in Event : Emit(<<e>>) /\ e.kind \in MarketKinds
    BY <1>1, <2>2, MarketEmits
  <2>4. QED
    BY <1>1, <2>3, MarketContract DEF IInv
<1>5. QED
  BY <1>2, <1>3, <1>4 DEF MarketNext, MarketHandlers

LEMMA RequestFollows ==
  ASSUME IInv, RequestNext, UNCHANGED <<arcadeVars, marketVars>>
  PROVE  IInv'
<1>1. Follows /\ Tables \in TableSet
  BY DEF IInv, Follows, Typed
<1>2. ClearingOK'
  BY DEF IInv, ClearingOK, marketVars
<1>3. CASE RequestHandlers
  BY <1>1, <1>2, <1>3, RequestHandlersAre, HandledFollows DEF IInv
<1>4. CASE RequestDay
  <2>1. today' \in 0 .. Days /\ UNCHANGED <<log, requestVars>>
    BY <1>1, <1>4, EventLogAssumption DEF RequestDay, Follows, Typed
  <2>2. QED
    BY <1>1, <1>2, <2>1, DayPasses DEF IInv
<1>5. CASE \E kind \in RequestEvents : Occur(kind)
  <2>1. Typed /\ EscrowOK /\ RoundOK /\ HistoryOK /\ Foreseen
    BY <1>1 DEF Follows
  <2>2. Follows'
    BY <1>5, <2>1, RequestContract
  <2>3. QED
    BY <1>2, <2>2 DEF IInv
<1>6. QED
  BY <1>3, <1>4, <1>5 DEF RequestNext, RequestHandlers

LEMMA StepFollows == IInv /\ [Next]_vars => IInv'
<1> SUFFICES ASSUME IInv, [Next]_vars PROVE IInv'
  OBVIOUS
<1>1. CASE UNCHANGED vars
  <2>1. UNCHANGED <<today, log, arcadeVars, requestVars, clearing>>
    BY <1>1 DEF vars, logVars, marketVars
  <2>2. today' \in 0 .. Days /\ Follows
    BY <2>1 DEF IInv, Follows, Typed
  <2>3. Follows'
    BY <2>1, <2>2, DayPasses
  <2>4. QED
    BY <2>1, <2>3 DEF IInv, ClearingOK
<1>2. QED
  BY <1>1, ArcadeFollows, MarketFollows, RequestFollows DEF Next

\* The tables are on their way to the contracts' state: handling the events
\* that are still in the log ends in tables that show it.  Every property of
\* the room, the placements and the requests follows from this.
THEOREM IndexerForesees == Spec => []IInv
<1>1. Init => IInv
  BY InitFollows
<1>2. IInv /\ [Next]_vars => IInv'
  BY StepFollows
<1>3. QED
  BY <1>1, <1>2, PTL DEF Spec

\* Once every event has been handled the tables are the foreseen ones.
LEMMA CaughtUpGood == IInv /\ CaughtUp => Good(Tables)
<1> SUFFICES ASSUME IInv, CaughtUp PROVE Good(Tables)
  OBVIOUS
<1>1. PICK last \in TableSet : Caught(log, Tables, last) /\ Good(last)
  BY DEF IInv, Follows, Foreseen
<1>2. last = Tables
  BY <1>1, CaughtEnd DEF CaughtUp
<1>3. QED
  BY <1>1, <1>2

\* RoomFollowsContract: in whatever order the events of a transaction come,
\* the contract's room tells the row: its status, the root it pays by, and
\* whether finalizedAt and cancelledAt are set; a room rescued without
\* RoomCancelled has the status "finalized" and no finalizedAt.
THEOREM IndexerRoomFollows == Spec => []RoomFollowsContract
<1>1. IInv => RoomFollowsContract
  <2> SUFFICES ASSUME IInv, CaughtUp PROVE RoomFollowsContract
    BY DEF RoomFollowsContract
  <2>1. RoomGood(Tables)
    BY CaughtUpGood DEF Good
  <2>2. QED
    BY <2>1 DEF RoomGood, FlagsGood, Tables, RoomFollowsContract
<1>2. QED
  BY <1>1, IndexerForesees, PTL

\* PlacementsFollowEscrow: the placements show who is in the escrow, who was
\* refunded and who was paid, through any leaving and coming back.
THEOREM IndexerPlacementsFollow == Spec => []PlacementsFollowEscrow
<1>1. IInv => PlacementsFollowEscrow
  <2> SUFFICES ASSUME IInv, CaughtUp PROVE PlacementsFollowEscrow
    BY DEF PlacementsFollowEscrow
  <2>1. PlacementGood(Tables)
    BY CaughtUpGood DEF Good
  <2>2. QED
    BY <2>1 DEF PlacementGood, PlayerGood, Tables, PlacementsFollowEscrow
<1>2. QED
  BY <1>1, IndexerForesees, PTL

\* The events of some kinds have a first and a last one.
LEMMA FirstAndLast ==
  ASSUME history \in HistorySet, NEW kinds, NEW d
  PROVE  /\ FirstOn(kinds, d) => FirstOf(kinds).day = d
         /\ LastWas(kinds, d) => LastOf(kinds).kind = d
<1>1. Times(kinds) \subseteq Nat
  BY DEF Times, HistorySet
<1>2. ASSUME FirstOn(kinds, d) PROVE FirstOf(kinds).day = d
  <2>1. PICK k \in Times(kinds) : (\A j \in Times(kinds) : k <= j) /\ history[k].day = d
    BY <1>2 DEF FirstOn
  <2>2. \A x \in Times(kinds) : (\A y \in Times(kinds) : x <= y) => x = k
    BY <1>1, <2>1
  <2>3. Min(Times(kinds)) = k
    BY <2>1, <2>2 DEF Min
  <2>4. QED
    BY <2>1, <2>3 DEF FirstOf
<1>3. ASSUME LastWas(kinds, d) PROVE LastOf(kinds).kind = d
  <2>1. PICK k \in Times(kinds) : (\A j \in Times(kinds) : j <= k) /\ history[k].kind = d
    BY <1>3 DEF LastWas
  <2>2. \A x \in Times(kinds) : (\A y \in Times(kinds) : x >= y) => x = k
    BY <1>1, <2>1
  <2>3. Max(Times(kinds)) = k
    BY <1>1, <2>1, <2>2 DEF Max
  <2>4. QED
    BY <2>1, <2>3 DEF LastOf
<1>4. QED
  BY <1>2, <1>3

\* RequestsFollowRouter: each row shows the furthest state its contract reached
\* and the day it began.
THEOREM IndexerRequestsFollow == Spec => []RequestsFollowRouter
<1>1. IInv => RequestsFollowRouter
  <2> SUFFICES ASSUME IInv, CaughtUp PROVE RequestsFollowRouter
    BY DEF RequestsFollowRouter
  <2>1. RouteGood(Tables) /\ LoanGood(Tables) /\ DepositGood(Tables)
    BY CaughtUpGood DEF Good, RequestGood
  <2>2. history \in HistorySet
    BY DEF IInv, Follows, Typed
  <2>3. /\ SomeHappened(DOMAIN StatusRank) <=> request # NoRow
        /\ SomeHappened(DOMAIN StatusRank) =>
             /\ Below(StatusRank[request.status])
             /\ Happened(request.status)
             /\ FirstOf(DOMAIN StatusRank).day = request.acceptedAt
             /\ request.cancelled <=> Happened("cancelled")
             /\ context <=> Happened("gateway_prepared")
    BY <2>1, <2>2, FirstAndLast DEF RouteGood, Tables
  <2>4. /\ SomeHappened(LoanKinds) <=> loan # NoRow
        /\ SomeHappened(LoanKinds) =>
             /\ loan.known /\ FirstOf(LoanKinds).day = loan.openedAt
             /\ loan.status = "repaid" <=> SomeHappened(LoanClosing)
    BY <2>1, <2>2, FirstAndLast DEF LoanGood, Tables
  <2>5. /\ SomeHappened(DepositStatus) <=> deposit # NoRow
        /\ SomeHappened(DepositStatus) => LastOf(DepositStatus).kind = deposit.status
    BY <2>1, <2>2, FirstAndLast DEF DepositGood, Tables
  <2>6. QED
    BY <2>3, <2>4, <2>5 DEF RequestsFollowRouter, Below, LoanKinds
<1>2. QED
  BY <1>1, IndexerForesees, PTL

-----------------------------------------------------------------------------
(* The types of what is left: rounds, positions, event rows, snapshots.    *)

AddedKinds == TradeKinds \cup VaultKinds \cup {"PositionIncreased"}

\* What each column of a snapshot becomes.
AddsTo(old, kind, a, new) ==
    LET on(k, x) == IF kind = k THEN x ELSE 0 IN
    /\ new \in DailySnapshot
    /\ new.perpVolume = old.perpVolume + on("MatchSettled", a)
    /\ new.perpTradeCount = old.perpTradeCount + on("MatchSettled", 1)
    /\ new.perpFees = old.perpFees + on("PositionIncreased", a)
    /\ new.spotVolume = old.spotVolume + on("SpotFxExecuted", a)
    /\ new.supplyEvents = old.supplyEvents + on("Supply", 1) + on("Withdraw", 1)
    /\ new.borrowEvents = old.borrowEvents + on("Borrow", 1) + on("Repay", 1)
    /\ new.totalSupply <= old.totalSupply + on("Supply", a)
    /\ new.totalBorrow + on("Repay", a) >= old.totalBorrow + on("Borrow", a)
    /\ new.turboLpShare = old.turboLpShare + on("FeeDeposited", a)
    /\ new.insurancePayouts = old.insurancePayouts + on("InsurancePayout", a)
    /\ new.yieldClaimed = old.yieldClaimed + on("YieldClaimed", a)
    /\ new.lpDepositEvents = old.lpDepositEvents + on("Deposited", 1)

LEMMA AddedIs ==
  ASSUME NEW old \in DailySnapshot, NEW a \in Nat, NEW kind \in AddedKinds
  PROVE  AddsTo(old, kind, a, Added(old, kind, a))
<1>0. PICK new : new = Added(old, kind, a)
  OBVIOUS
<1> SUFFICES AddsTo(old, kind, a, new)
  BY <1>0
<1>1. CASE kind = "MatchSettled"
  <2>1. PICK v \in Nat, c \in Nat : v = old.perpVolume + a /\ c = old.perpTradeCount + 1
    BY DEF DailySnapshot
  <2>2. new = [old EXCEPT !.perpVolume = old.perpVolume + a,
                          !.perpTradeCount = old.perpTradeCount + 1]
    BY <1>0, <1>1, Zenon DEF Added
  <2>3. new = [old EXCEPT !.perpVolume = v, !.perpTradeCount = c]
    BY <2>1, <2>2
  <2>4. new \in DailySnapshot
    BY <2>3 DEF DailySnapshot
  <2>5. QED
    BY <1>1, <2>1, <2>3, <2>4 DEF AddsTo, DailySnapshot
<1>2. CASE kind = "PositionIncreased"
  <2>1. PICK v \in Nat : v = old.perpFees + a
    BY DEF DailySnapshot
  <2>2. new = [old EXCEPT !.perpFees = old.perpFees + a]
    BY <1>0, <1>2, Zenon DEF Added
  <2>3. QED
    BY <1>2, <2>1, <2>2 DEF AddsTo, DailySnapshot
<1>3. CASE kind = "SpotFxExecuted"
  <2>1. PICK v \in Nat, c \in Nat : v = old.spotVolume + a /\ c = old.spotTradeCount + 1
    BY DEF DailySnapshot
  <2>2. new = [old EXCEPT !.spotVolume = old.spotVolume + a,
                          !.spotTradeCount = old.spotTradeCount + 1]
    BY <1>0, <1>3, Zenon DEF Added
  <2>3. new = [old EXCEPT !.spotVolume = v, !.spotTradeCount = c]
    BY <2>1, <2>2
  <2>4. new \in DailySnapshot
    BY <2>3 DEF DailySnapshot
  <2>5. QED
    BY <1>3, <2>1, <2>3, <2>4 DEF AddsTo, DailySnapshot
<1>4. CASE kind = "Supply"
  <2>1. PICK v \in Nat, c \in Nat : v = old.totalSupply + a /\ c = old.supplyEvents + 1
    BY DEF DailySnapshot
  <2>2. new = [old EXCEPT !.totalSupply = old.totalSupply + a,
                          !.supplyEvents = old.supplyEvents + 1]
    BY <1>0, <1>4, Zenon DEF Added
  <2>3. new = [old EXCEPT !.totalSupply = v, !.supplyEvents = c]
    BY <2>1, <2>2
  <2>4. new \in DailySnapshot
    BY <2>3 DEF DailySnapshot
  <2>5. QED
    BY <1>4, <2>1, <2>3, <2>4 DEF AddsTo, DailySnapshot
<1>5. CASE kind = "Withdraw"
  <2>1. PICK v \in Nat, c \in Nat : /\ v = SubtractFloorZero(old.totalSupply, a)
                                    /\ v <= old.totalSupply
                                    /\ c = old.supplyEvents + 1
    BY DEF DailySnapshot, SubtractFloorZero
  <2>2. new = [old EXCEPT !.totalSupply = SubtractFloorZero(old.totalSupply, a),
                          !.supplyEvents = old.supplyEvents + 1]
    BY <1>0, <1>5, Zenon DEF Added
  <2>3. new = [old EXCEPT !.totalSupply = v, !.supplyEvents = c]
    BY <2>1, <2>2
  <2>4. new \in DailySnapshot
    BY <2>3 DEF DailySnapshot
  <2>5. QED
    BY <1>5, <2>1, <2>3, <2>4 DEF AddsTo, DailySnapshot
<1>6. CASE kind = "Borrow"
  <2>1. PICK v \in Nat, c \in Nat : v = old.totalBorrow + a /\ c = old.borrowEvents + 1
    BY DEF DailySnapshot
  <2>2. new = [old EXCEPT !.totalBorrow = old.totalBorrow + a,
                          !.borrowEvents = old.borrowEvents + 1]
    BY <1>0, <1>6, Zenon DEF Added
  <2>3. new = [old EXCEPT !.totalBorrow = v, !.borrowEvents = c]
    BY <2>1, <2>2
  <2>4. new \in DailySnapshot
    BY <2>3 DEF DailySnapshot
  <2>5. QED
    BY <1>6, <2>1, <2>3, <2>4 DEF AddsTo, DailySnapshot
<1>7. CASE kind = "Repay"
  <2>1. PICK v \in Nat, c \in Nat : /\ v = SubtractFloorZero(old.totalBorrow, a)
                                    /\ v + a >= old.totalBorrow
                                    /\ c = old.borrowEvents + 1
    BY DEF DailySnapshot, SubtractFloorZero
  <2>2. new = [old EXCEPT !.totalBorrow = SubtractFloorZero(old.totalBorrow, a),
                          !.borrowEvents = old.borrowEvents + 1]
    BY <1>0, <1>7, Zenon DEF Added
  <2>3. new = [old EXCEPT !.totalBorrow = v, !.borrowEvents = c]
    BY <2>1, <2>2
  <2>4. new \in DailySnapshot
    BY <2>3 DEF DailySnapshot
  <2>5. QED
    BY <1>7, <2>1, <2>3, <2>4 DEF AddsTo, DailySnapshot
<1>8. CASE kind = "FeeDeposited"
  <2>1. PICK v \in Nat : v = old.turboLpShare + a
    BY DEF DailySnapshot
  <2>2. PICK y \in Nat : y = AnnualizedFee(old, a)
    <3>1. PICK w \in Nat : w = v * 365
      OBVIOUS
    <3>2. PICK d \in Nat : d = old.totalSupply
      BY DEF DailySnapshot
    <3>3. d > 0 => w \div d \in Nat
      OBVIOUS
    <3>4. QED
      BY <2>1, <3>1, <3>2, <3>3 DEF AnnualizedFee
  <2>3. new = [old EXCEPT !.turboLpShare = old.turboLpShare + a,
                          !.annualized = AnnualizedFee(old, a)]
    BY <1>0, <1>8, Zenon DEF Added
  <2>4. new = [old EXCEPT !.turboLpShare = v, !.annualized = y]
    BY <2>1, <2>2, <2>3
  <2>5. new \in DailySnapshot
    BY <2>4 DEF DailySnapshot
  <2>6. QED
    BY <1>8, <2>1, <2>4, <2>5 DEF AddsTo, DailySnapshot
<1>9. CASE kind = "FundingPoked"
  <2>1. new = [old EXCEPT !.lastFundingRate = a]
    BY <1>0, <1>9, Zenon DEF Added
  <2>2. QED
    BY <1>9, <2>1 DEF AddsTo, DailySnapshot
<1>10. CASE kind = "InsurancePayout"
  <2>1. PICK v \in Nat : v = old.insurancePayouts + a
    BY DEF DailySnapshot
  <2>2. new = [old EXCEPT !.insurancePayouts = old.insurancePayouts + a]
    BY <1>0, <1>10, Zenon DEF Added
  <2>3. QED
    BY <1>10, <2>1, <2>2 DEF AddsTo, DailySnapshot
<1>11. CASE kind = "Deposited"
  <2>1. PICK v \in Nat : v = old.lpDepositEvents + 1
    BY DEF DailySnapshot
  <2>2. new = [old EXCEPT !.lpDepositEvents = old.lpDepositEvents + 1]
    BY <1>0, <1>11, Zenon DEF Added
  <2>3. QED
    BY <1>11, <2>1, <2>2 DEF AddsTo, DailySnapshot
<1>12. CASE kind = "Withdrawn"
  <2>1. PICK v \in Nat : v = old.lpWithdrawEvents + 1
    BY DEF DailySnapshot
  <2>2. new = [old EXCEPT !.lpWithdrawEvents = old.lpWithdrawEvents + 1]
    BY <1>0, <1>12, Zenon DEF Added
  <2>3. QED
    BY <1>12, <2>1, <2>2 DEF AddsTo, DailySnapshot
<1>13. CASE kind = "YieldClaimed"
  <2>1. PICK v \in Nat : v = old.yieldClaimed + a
    BY DEF DailySnapshot
  <2>2. new = [old EXCEPT !.yieldClaimed = old.yieldClaimed + a]
    BY <1>0, <1>13, Zenon DEF Added
  <2>3. QED
    BY <1>13, <2>1, <2>2 DEF AddsTo, DailySnapshot
<1>14. QED
  BY <1>1, <1>2, <1>3, <1>4, <1>5, <1>6, <1>7, <1>8, <1>9, <1>10, <1>11, <1>12, <1>13
     DEF AddedKinds, TradeKinds, VaultKinds

-----------------------------------------------------------------------------
(* The tally of a longer sequence of rows.                                 *)

LEMMA LeastNat ==
  ASSUME NEW T, T \subseteq Nat, T # {}
  PROVE  \E x \in T : \A y \in T : x <= y
<1>1. PICK x \in T : \A y \in T : ~ (<<y, x>> \in OpToRel(<, Nat))
  BY WFMin, NatLessThanWellFounded
<1>2. \A y \in T : ~ (y < x)
  BY <1>1 DEF OpToRel
<1>3. QED
  BY <1>2

\* A set of naturals with 0 and the successors of its elements is all of Nat.
LEMMA Inductive ==
  ASSUME NEW S, S \subseteq Nat, 0 \in S, \A n \in S : n + 1 \in S
  PROVE  \A n \in Nat : n \in S
<1>1. SUFFICES ASSUME Nat \ S # {} PROVE FALSE
  OBVIOUS
<1>2. PICK x \in Nat \ S : \A y \in Nat \ S : x <= y
  <2>1. Nat \ S \subseteq Nat
    OBVIOUS
  <2>2. QED
    BY <1>1, <2>1, LeastNat
<1>3. x - 1 \in Nat /\ x - 1 < x /\ (x - 1) + 1 = x
  BY <1>2
<1>4. x - 1 \in S
  BY <1>2, <1>3
<1>5. QED
  BY <1>2, <1>3, <1>4

TallySet == [count : Nat, sum : Nat]

Counted(tally, row, kind, day) ==
    IF row.kind = kind /\ row.day = day
    THEN [count |-> tally.count + 1, sum |-> tally.sum + row.amount] ELSE tally

\* The tallies of the beginnings of rows.
TalliesOf(rows, kind, day, t) ==
    t = [n \in 0 .. Len(rows) |->
           IF n = 0 THEN [count |-> 0, sum |-> 0]
           ELSE Counted(t[n - 1], rows[n], kind, day)]

TallyOf(rows, kind, day) == CHOOSE t : TalliesOf(rows, kind, day, t)

LEMMA TallyIs ==
  ASSUME NEW rows, NEW kind, NEW day
  PROVE  Tally(rows, kind, day) = TallyOf(rows, kind, day)[Len(rows)]
BY DEF Tally, TallyOf, TalliesOf, Counted

LEMMA CountedTyped ==
  ASSUME NEW tally \in TallySet, NEW row \in EventRow, NEW kind, NEW day
  PROVE  Counted(tally, row, kind, day) \in TallySet
BY DEF Counted, TallySet, EventRow

LEMMA TalliesExist ==
  ASSUME NEW rows \in Seq(EventRow), NEW kind, NEW day
  PROVE  \E t \in [0 .. Len(rows) -> TallySet] : TalliesOf(rows, kind, day, t)
<1>1. PICK n \in Nat : n = Len(rows)
  OBVIOUS
<1>2. \A k \in 1 .. n : rows[k] \in EventRow
  BY <1>1
<1> DEFINE Fits(t, k) ==
             t[k] = IF k = 0 THEN [count |-> 0, sum |-> 0]
                    ELSE Counted(t[k - 1], rows[k], kind, day)
           S == {m \in Nat : m <= n =>
                   \E t \in [0 .. n -> TallySet] : \A k \in 0 .. m : Fits(t, k)}
<1>3. 0 \in S
  <2>1. [count |-> 0, sum |-> 0] \in TallySet
    BY DEF TallySet
  <2>2. PICK t : t = [k \in 0 .. n |-> [count |-> 0, sum |-> 0]]
    OBVIOUS
  <2>3. t \in [0 .. n -> TallySet] /\ \A k \in 0 .. 0 : Fits(t, k)
    BY <2>1, <2>2
  <2>4. QED
    BY <2>3
<1>4. \A m \in S : m + 1 \in S
  <2>1. SUFFICES ASSUME NEW m \in Nat, m + 1 <= n,
                        \E t \in [0 .. n -> TallySet] : \A k \in 0 .. m : Fits(t, k)
                 PROVE  \E t \in [0 .. n -> TallySet] : \A k \in 0 .. m + 1 : Fits(t, k)
    <3> HIDE DEF Fits
    <3>1. ASSUME NEW m \in S PROVE m + 1 \in S
      <4>1. CASE ~ (m + 1 <= n)
        BY <4>1
      <4>2. CASE m + 1 <= n
        <5>1. \E t \in [0 .. n -> TallySet] : \A k \in 0 .. m : Fits(t, k)
          BY <4>2
        <5>2. \E t \in [0 .. n -> TallySet] : \A k \in 0 .. m + 1 : Fits(t, k)
          BY <2>1, <4>2, <5>1
        <5>3. QED
          BY <5>2
      <4>3. QED
        BY <4>1, <4>2
    <3>2. QED
      BY <3>1
  <2>2. PICK t \in [0 .. n -> TallySet] : \A k \in 0 .. m : Fits(t, k)
    BY <2>1
  <2>3. m \in 0 .. n /\ m + 1 \in 1 .. n /\ (m + 1) - 1 = m /\ m + 1 # 0
    BY <2>1
  <2>4. PICK c \in TallySet : c = Counted(t[m], rows[m + 1], kind, day)
    BY <1>2, <2>2, <2>3, CountedTyped
  <2>5. PICK u : u = [t EXCEPT ![m + 1] = c]
    OBVIOUS
  <2>6. /\ u \in [0 .. n -> TallySet] /\ u[m + 1] = c
        /\ \A k \in 0 .. m : u[k] = t[k]
    BY <2>2, <2>3, <2>5
  <2>7. ASSUME NEW k \in 0 .. m + 1 PROVE Fits(u, k)
    <3>1. CASE k = m + 1
      BY <2>3, <2>4, <2>6, <3>1
    <3>2. CASE k # m + 1
      <4>1. k \in 0 .. m /\ (k # 0 => k - 1 \in 0 .. m)
        BY <3>2
      <4>2. u[k] = t[k] /\ (k # 0 => u[k - 1] = t[k - 1])
        BY <2>6, <4>1
      <4>3. Fits(t, k)
        BY <2>2, <4>1
      <4>4. QED
        BY <4>2, <4>3
    <3>3. QED
      BY <3>1, <3>2
  <2> HIDE DEF Fits
  <2>8. QED
    BY <2>6, <2>7
<1>5. n \in S
  <2>1. S \subseteq Nat
    OBVIOUS
  <2> HIDE DEF S
  <2>2. QED
    BY <1>3, <1>4, <2>1, Inductive
<1>6. PICK t \in [0 .. n -> TallySet] : \A k \in 0 .. n : Fits(t, k)
  <2>1. n <= n
    OBVIOUS
  <2> HIDE DEF Fits
  <2>2. QED
    BY <1>5, <2>1
<1>7. t = [k \in 0 .. n |-> IF k = 0 THEN [count |-> 0, sum |-> 0]
                            ELSE Counted(t[k - 1], rows[k], kind, day)]
  BY <1>6
<1>8. QED
  BY <1>1, <1>7 DEF TalliesOf

\* Two tallies agree where their rows do.
LEMMA TalliesAgree ==
  ASSUME NEW rows, NEW more, NEW n \in Nat, n <= Len(rows), n <= Len(more),
         Len(rows) \in Nat, Len(more) \in Nat,
         \A k \in 1 .. n : more[k] = rows[k],
         NEW kind, NEW day, NEW t, NEW u,
         TalliesOf(rows, kind, day, t), TalliesOf(more, kind, day, u)
  PROVE  u[n] = t[n]
<1>1. \A k \in 0 .. Len(rows) :
        t[k] = IF k = 0 THEN [count |-> 0, sum |-> 0]
               ELSE Counted(t[k - 1], rows[k], kind, day)
  BY Zenon DEF TalliesOf
<1>2. \A k \in 0 .. Len(more) :
        u[k] = IF k = 0 THEN [count |-> 0, sum |-> 0]
               ELSE Counted(u[k - 1], more[k], kind, day)
  BY Zenon DEF TalliesOf
<1> DEFINE S == {m \in Nat : m <= n => u[m] = t[m]}
<1>3. 0 \in S
  BY <1>1, <1>2
<1>4. \A m \in S : m + 1 \in S
  <2>1. SUFFICES ASSUME NEW m \in Nat, m + 1 <= n, u[m] = t[m]
                 PROVE  u[m + 1] = t[m + 1]
    OBVIOUS
  <2>2. /\ m + 1 \in 1 .. n /\ m + 1 \in 0 .. Len(rows) /\ m + 1 \in 0 .. Len(more)
        /\ m + 1 # 0 /\ (m + 1) - 1 = m
    BY <2>1
  <2>3. t[m + 1] = Counted(t[m], rows[m + 1], kind, day)
    BY <1>1, <2>2
  <2>4. u[m + 1] = Counted(u[m], more[m + 1], kind, day)
    BY <1>2, <2>2
  <2>5. QED
    BY <2>1, <2>2, <2>3, <2>4
<1>5. n \in S
  <2>1. S \subseteq Nat
    OBVIOUS
  <2> HIDE DEF S
  <2>2. QED
    BY <1>3, <1>4, <2>1, Inductive
<1>6. QED
  BY <1>5

LEMMA TallyTyped ==
  ASSUME NEW rows \in Seq(EventRow), NEW kind, NEW day
  PROVE  /\ Tally(rows, kind, day) \in TallySet
         /\ rows = <<>> => Tally(rows, kind, day) = [count |-> 0, sum |-> 0]
<1>1. PICK x \in [0 .. Len(rows) -> TallySet] : TalliesOf(rows, kind, day, x)
  BY TalliesExist
<1>2. PICK t : t = TallyOf(rows, kind, day) /\ TalliesOf(rows, kind, day, t)
  BY <1>1, Zenon DEF TallyOf
<1>3. PICK n \in Nat : n = Len(rows)
  OBVIOUS
<1>4. t[n] = x[n]
  BY <1>1, <1>2, <1>3, TalliesAgree
<1>5. x[n] \in TallySet
  BY <1>1, <1>3
<1>6. n = 0 => t[n] = [count |-> 0, sum |-> 0]
  BY <1>2, <1>3 DEF TalliesOf
<1>7. QED
  BY <1>2, <1>3, <1>4, <1>5, <1>6, TallyIs

LEMMA TallyGrows ==
  ASSUME NEW rows \in Seq(EventRow), NEW row \in EventRow, NEW kind, NEW day
  PROVE  Tally(Append(rows, row), kind, day)
           = Counted(Tally(rows, kind, day), row, kind, day)
<1>1. PICK more \in Seq(EventRow) : more = Append(rows, row)
  <2>1. Append(rows, row) \in Seq(EventRow)
    OBVIOUS
  <2>2. QED
    BY <2>1
<1>2. PICK n \in Nat : n = Len(rows) /\ Len(more) = n + 1
  BY <1>1
<1>3. more[n + 1] = row /\ \A k \in 1 .. n : more[k] = rows[k]
  BY <1>1, <1>2
<1>4. PICK t : t = TallyOf(rows, kind, day) /\ TalliesOf(rows, kind, day, t)
  BY TalliesExist, Zenon DEF TallyOf
<1>5. PICK u : u = TallyOf(more, kind, day) /\ TalliesOf(more, kind, day, u)
  BY TalliesExist, Zenon DEF TallyOf
<1>6. u[n] = t[n]
  BY <1>2, <1>3, <1>4, <1>5, TalliesAgree
<1>7. u[n + 1] = Counted(u[n], more[n + 1], kind, day)
  <2>1. n + 1 \in 0 .. n + 1 /\ n + 1 # 0 /\ (n + 1) - 1 = n
    OBVIOUS
  <2>2. u = [k \in 0 .. n + 1 |-> IF k = 0 THEN [count |-> 0, sum |-> 0]
                                  ELSE Counted(u[k - 1], more[k], kind, day)]
    BY <1>2, <1>5 DEF TalliesOf
  <2>3. QED
    BY <2>1, <2>2
<1>8. QED
  BY <1>1, <1>2, <1>3, <1>4, <1>5, <1>6, <1>7, TallyIs

-----------------------------------------------------------------------------
(* The snapshots add up.                                                   *)

TalliesOn(rows, day) == [k \in MarketKinds |-> Tally(rows, k, day)]

DayOK(snap, vault, tally) ==
    /\ snap.perpVolume = tally["MatchSettled"].sum
    /\ snap.perpTradeCount = tally["MatchSettled"].count
    /\ snap.perpFees = tally["PositionIncreased"].sum
    /\ snap.spotVolume = tally["SpotFxExecuted"].sum
    /\ snap.supplyEvents = tally["Supply"].count + tally["Withdraw"].count
    /\ snap.borrowEvents = tally["Borrow"].count + tally["Repay"].count
    /\ snap.totalBorrow + tally["Repay"].sum >= tally["Borrow"].sum
    /\ snap.totalSupply <= tally["Supply"].sum
    /\ snap.turboLpShare = tally["FeeDeposited"].sum
    /\ snap.insurancePayouts = tally["InsurancePayout"].sum
    /\ vault.yieldClaimed = tally["YieldClaimed"].sum
    /\ vault.lpDepositEvents = tally["Deposited"].count

LEMMA KindsAre ==
  /\ \A k \in {"MatchSettled", "SpotFxExecuted", "Supply", "Withdraw", "Borrow", "Repay",
               "FeeDeposited", "FundingPoked", "InsurancePayout"} :
       k \in MarketKinds /\ k \notin VaultKinds
  /\ \A k \in VaultKinds : k \in MarketKinds
  /\ \A k \in PositionKinds : k \in MarketKinds /\ k \notin VaultKinds
  /\ \A k \in AddedKinds : k \in MarketKinds
  /\ \A k \in MarketKinds : k \in AddedKinds \/ k = "PositionDecreased"
BY DEF MarketKinds, TradeKinds, VaultKinds, PositionKinds, AddedKinds

AddsUpOn(day) ==
    DayOK(GetOrCreate(<<"market", day>>), GetOrCreate(<<"turbo-vault", day>>),
          TalliesOn(eventRows, day))

LEMMA TalliesAre ==
  ASSUME NEW day, NEW rows, NEW k \in MarketKinds
  PROVE  TalliesOn(rows, day)[k] = Tally(rows, k, day)
BY DEF TalliesOn

LEMMA NamedKinds ==
  {"MatchSettled", "SpotFxExecuted", "Supply", "Withdraw", "Borrow", "Repay",
   "FeeDeposited", "FundingPoked", "InsurancePayout", "YieldClaimed",
   "Deposited", "PositionIncreased"} \subseteq MarketKinds
BY DEF MarketKinds, TradeKinds, VaultKinds, PositionKinds

LEMMA AddUpIs ==
  /\ SnapshotsAddUp <=> \A day \in 0 .. Days : AddsUpOn(day)
  /\ SnapshotsAddUp' <=> \A day \in 0 .. Days : AddsUpOn(day)'
<1>1. SnapshotsAddUp <=> \A day \in 0 .. Days : AddsUpOn(day)
  BY TalliesAre, NamedKinds DEF SnapshotsAddUp, AddsUpOn, DayOK, SumOf, CountOf
<1>2. SnapshotsAddUp' <=> \A day \in 0 .. Days : AddsUpOn(day)'
  BY TalliesAre, NamedKinds DEF SnapshotsAddUp, AddsUpOn, DayOK, SumOf, CountOf
<1>3. QED
  BY <1>1, <1>2

\* One more row, and what its handler does to the snapshots of the row's day.
LEMMA DayStep ==
  ASSUME NEW tally \in [MarketKinds -> TallySet], NEW day,
         NEW snap \in DailySnapshot, NEW vault \in DailySnapshot,
         NEW snap2 \in DailySnapshot, NEW vault2 \in DailySnapshot,
         DayOK(snap, vault, tally),
         NEW row \in EventRow,
         row.day = day /\ row.kind \in VaultKinds =>
           snap2 = snap /\ AddsTo(vault, row.kind, row.amount, vault2),
         row.day = day /\ row.kind \in AddedKinds \ VaultKinds =>
           vault2 = vault /\ AddsTo(snap, row.kind, row.amount, snap2),
         row.day # day \/ row.kind = "PositionDecreased" =>
           snap2 = snap /\ vault2 = vault
  PROVE  DayOK(snap2, vault2, [k \in MarketKinds |-> Counted(tally[k], row, k, day)])
<1>1. PICK more : more = [k \in MarketKinds |-> Counted(tally[k], row, k, day)]
  OBVIOUS
<1>2. PICK kind \in MarketKinds, a \in Nat : kind = row.kind /\ a = row.amount
  BY DEF EventRow, MarketKinds
<1>3. ASSUME NEW k \in MarketKinds
      PROVE  /\ more[k].count = tally[k].count + IF kind = k /\ row.day = day THEN 1 ELSE 0
             /\ more[k].sum = tally[k].sum + IF kind = k /\ row.day = day THEN a ELSE 0
             /\ tally[k].count \in Nat /\ tally[k].sum \in Nat
  <2>1. tally[k] \in TallySet
    OBVIOUS
  <2>2. more[k] = Counted(tally[k], row, k, day)
    BY <1>1
  <2>3. QED
    BY <1>2, <2>1, <2>2 DEF Counted, TallySet
<1> DEFINE Named == {"MatchSettled", "SpotFxExecuted", "Supply", "Withdraw", "Borrow",
                     "Repay", "FeeDeposited", "InsurancePayout", "YieldClaimed",
                     "Deposited", "PositionIncreased"}
<1>4. \A k \in Named : k \in MarketKinds
  BY DEF MarketKinds, TradeKinds, VaultKinds, PositionKinds
<1>5. CASE row.day # day \/ kind = "PositionDecreased"
  <2>1. snap2 = snap /\ vault2 = vault
    BY <1>2, <1>5
  <2>2. \A k \in Named : more[k].count = tally[k].count /\ more[k].sum = tally[k].sum
    BY <1>3, <1>4, <1>5
  <2>3. DayOK(snap, vault, more)
    BY <2>2 DEF DayOK
  <2>4. QED
    BY <1>1, <2>1, <2>3
<1>6. CASE row.day = day /\ kind \in VaultKinds
  <2>1. snap2 = snap /\ AddsTo(vault, kind, a, vault2)
    BY <1>2, <1>6
  <2>2. \A k \in Named \ VaultKinds :
          more[k].count = tally[k].count /\ more[k].sum = tally[k].sum
    BY <1>3, <1>4, <1>6
  <2>3. \A k \in Named \ {"YieldClaimed", "Deposited"} : k \in Named \ VaultKinds
    BY DEF VaultKinds
  <2>4. /\ vault2.yieldClaimed = more["YieldClaimed"].sum
        /\ vault2.lpDepositEvents = more["Deposited"].count
    BY <1>3, <1>4, <1>6, <2>1 DEF AddsTo, DayOK, DailySnapshot
  <2>5. DayOK(snap2, vault2, more)
    BY <2>1, <2>2, <2>3, <2>4 DEF DayOK
  <2>6. QED
    BY <1>1, <2>5
<1>7. CASE row.day = day /\ kind \in AddedKinds \ VaultKinds
  <2>1. vault2 = vault /\ AddsTo(snap, kind, a, snap2)
    BY <1>2, <1>7
  <2>2. /\ more["YieldClaimed"].sum = tally["YieldClaimed"].sum
        /\ more["Deposited"].count = tally["Deposited"].count
    BY <1>3, <1>4, <1>7 DEF VaultKinds
  <2> DEFINE on(k, x) == IF kind = k THEN x ELSE 0
  <2>3. \A k \in Named : /\ more[k].count = tally[k].count + on(k, 1)
                         /\ more[k].sum = tally[k].sum + on(k, a)
                         /\ tally[k].count \in Nat /\ tally[k].sum \in Nat
    BY <1>3, <1>4, <1>7
  <2>4. /\ snap2.perpVolume = more["MatchSettled"].sum
        /\ snap2.perpTradeCount = more["MatchSettled"].count
        /\ snap2.perpFees = more["PositionIncreased"].sum
        /\ snap2.spotVolume = more["SpotFxExecuted"].sum
    BY <2>1, <2>3 DEF AddsTo, DayOK, DailySnapshot
  <2>5. /\ snap2.supplyEvents = more["Supply"].count + more["Withdraw"].count
        /\ snap2.borrowEvents = more["Borrow"].count + more["Repay"].count
    BY <2>1, <2>3 DEF AddsTo, DayOK, DailySnapshot
  <2>6. /\ snap2.totalBorrow + more["Repay"].sum >= more["Borrow"].sum
        /\ snap2.totalSupply <= more["Supply"].sum
    BY <2>1, <2>3 DEF AddsTo, DayOK, DailySnapshot
  <2>7. /\ snap2.turboLpShare = more["FeeDeposited"].sum
        /\ snap2.insurancePayouts = more["InsurancePayout"].sum
    BY <2>1, <2>3 DEF AddsTo, DayOK, DailySnapshot
  <2>8. DayOK(snap2, vault2, more)
    BY <2>1, <2>2, <2>4, <2>5, <2>6, <2>7 DEF DayOK
  <2>9. QED
    BY <1>1, <2>8
<1>8. QED
  BY <1>2, <1>5, <1>6, <1>7, KindsAre

\* What an event carries.
LEMMA EventHolds ==
  ASSUME NEW e \in Event
  PROVE  /\ e.kind \in RoundKinds => e.round \in 1 .. Rounds
         /\ e.kind \in MarketKinds => e.amount \in Nat
         /\ e.kind \in PositionKinds => e.size \in Int /\ e.price \in Nat /\ e.margin \in Nat
<1>1. e.kind \in MarketKinds => e \in MarketEvent
  BY KindsApart DEF Event, ArcadeEvent, RequestEvent, ArcadeKinds, RoomKinds, StageKinds,
     RoundKinds, PlayerKinds
<1>2. e.kind \in RoundKinds => e \in ArcadeEvent
  BY KindsApart DEF Event, MarketEvent, PositionEvent, RequestEvent, ArcadeKinds,
     MarketKinds
<1>3. e.kind \in RoundKinds => e.round \in 1 .. Rounds
  BY <1>2 DEF ArcadeEvent, RoundKinds
<1>4. e.kind \in MarketKinds => e.amount \in Nat
  BY <1>1 DEF MarketEvent, PositionEvent
<1>5. e.kind \in PositionKinds => e.size \in Int /\ e.price \in Nat /\ e.margin \in Nat
  <2>1. e.kind \in PositionKinds =>
          e.kind \in MarketKinds /\ e.kind \notin TradeKinds \cup VaultKinds
    BY DEF MarketKinds, PositionKinds, TradeKinds, VaultKinds
  <2>2. QED
    BY <1>1, <2>1 DEF MarketEvent, PositionEvent
<1>6. QED
  BY <1>3, <1>4, <1>5

SnapshotsTyped ==
    /\ eventRows \in Seq(EventRow)
    /\ DOMAIN snapshot \subseteq Markets \X (0..Days)
    /\ snapshot \in [DOMAIN snapshot -> DailySnapshot]

LEMMA SnapshotIs ==
  ASSUME SnapshotsTyped, NEW s
  PROVE  GetOrCreate(s) \in DailySnapshot
<1>1. EmptySnapshot \in DailySnapshot
  BY DEF EmptySnapshot, DailySnapshot
<1>2. QED
  BY <1>1 DEF GetOrCreate, SnapshotsTyped

LEMMA SnapshotPut ==
  ASSUME SnapshotsTyped, NEW s \in Markets \X (0 .. Days), NEW row \in DailySnapshot,
         PutSnapshot(s, row)
  PROVE  /\ DOMAIN snapshot' \subseteq Markets \X (0..Days)
         /\ snapshot' \in [DOMAIN snapshot' -> DailySnapshot]
         /\ GetOrCreate(s)' = row
         /\ \A x : x # s => GetOrCreate(x)' = GetOrCreate(x)
<1>1. snapshot' = [x \in DOMAIN snapshot \cup {s} |-> IF x = s THEN row ELSE snapshot[x]]
  BY DEF PutSnapshot
<1>2. DOMAIN snapshot' = DOMAIN snapshot \cup {s}
  BY <1>1
<1>3. snapshot'[s] = row /\ \A x \in DOMAIN snapshot : x # s => snapshot'[x] = snapshot[x]
  BY <1>1
<1>4. snapshot' \in [DOMAIN snapshot' -> DailySnapshot]
  <2>1. \A x \in DOMAIN snapshot \cup {s} :
          (IF x = s THEN row ELSE snapshot[x]) \in DailySnapshot
    BY DEF SnapshotsTyped
  <2>2. QED
    BY <1>1, <1>2, <2>1
<1>5. GetOrCreate(s)' = row
  BY <1>2, <1>3 DEF GetOrCreate
<1>6. ASSUME NEW x, x # s PROVE GetOrCreate(x)' = GetOrCreate(x)
  BY <1>2, <1>3, <1>6 DEF GetOrCreate
<1>7. QED
  BY <1>2, <1>4, <1>5, <1>6 DEF SnapshotsTyped

Others ==
    /\ product \in {"arcade", "market", "request"}
    /\ round \in [1..Rounds -> {"started", "anchor_recorded", "settled", NoRow}]
    /\ position \in [size : Int, margin : Nat, entry : Nat, open : BOOLEAN] \cup {NoRow}
    /\ SnapshotsTyped

\* The row of the event that is handled.
LEMMA RowAdded ==
  ASSUME SnapshotsTyped, NEW row \in EventRow, eventRows' = Append(eventRows, row),
         NEW day
  PROVE  /\ eventRows' \in Seq(EventRow)
         /\ TalliesOn(eventRows, day) \in [MarketKinds -> TallySet]
         /\ TalliesOn(eventRows, day)'
              = [k \in MarketKinds |-> Counted(TalliesOn(eventRows, day)[k], row, k, day)]
<1>1. eventRows \in Seq(EventRow)
  BY DEF SnapshotsTyped
<1>2. \A k \in MarketKinds : Tally(eventRows, k, day) \in TallySet
  BY <1>1, TallyTyped
<1>3. \A k \in MarketKinds :
        Tally(Append(eventRows, row), k, day)
          = Counted(Tally(eventRows, k, day), row, k, day)
  BY <1>1, TallyGrows
<1>4. TalliesOn(eventRows, day)
        = [k \in MarketKinds |-> Tally(eventRows, k, day)]
  BY DEF TalliesOn
<1>5. TalliesOn(Append(eventRows, row), day)
        = [k \in MarketKinds |-> Tally(Append(eventRows, row), k, day)]
  BY DEF TalliesOn
<1>6. TalliesOn(Append(eventRows, row), day)
        = [k \in MarketKinds |-> Counted(TalliesOn(eventRows, day)[k], row, k, day)]
  BY <1>3, <1>4, <1>5
<1>7. TalliesOn(eventRows, day)' = TalliesOn(Append(eventRows, row), day)
  BY DEF TalliesOn
<1>8. QED
  BY <1>1, <1>2, <1>4, <1>6, <1>7

\* What the handlers of the market do to the snapshots of every day.
LEMMA MarketHandled ==
  ASSUME SnapshotsTyped, SnapshotsAddUp, NEW kind \in MarketKinds, NEW a \in Nat,
         NEW day \in 0 .. Days,
         This.kind = kind, This.amount = a, ThisDay = day, AddRow,
         \/ kind \in VaultKinds /\ AddToSnapshot("turbo-vault")
         \/ kind \in AddedKinds \ VaultKinds /\ AddToSnapshot("market")
         \/ kind = "PositionDecreased" /\ UNCHANGED snapshot
  PROVE  SnapshotsTyped' /\ SnapshotsAddUp'
<1>1. PICK row \in EventRow : /\ row = [kind |-> kind, day |-> day, amount |-> a]
                              /\ row.kind = kind /\ row.day = day /\ row.amount = a
  <2>1. [kind |-> kind, day |-> day, amount |-> a] \in EventRow
    BY DEF EventRow, MarketKinds
  <2>2. QED
    BY <2>1
<1>2. eventRows' = Append(eventRows, row)
  BY <1>1 DEF AddRow
<1>3. eventRows' \in Seq(EventRow)
  BY <1>2, RowAdded
<1>4. /\ \A x : GetOrCreate(x) \in DailySnapshot
      /\ <<"market", day>> \in Markets \X (0 .. Days)
      /\ <<"turbo-vault", day>> \in Markets \X (0 .. Days)
  BY SnapshotIs DEF Markets
<1>5. ASSUME NEW s \in Markets \X (0 .. Days), kind \in AddedKinds,
             PutSnapshot(s, Added(GetOrCreate(s), kind, a))
      PROVE  /\ DOMAIN snapshot' \subseteq Markets \X (0..Days)
             /\ snapshot' \in [DOMAIN snapshot' -> DailySnapshot]
             /\ AddsTo(GetOrCreate(s), kind, a, GetOrCreate(s)')
             /\ \A x : x # s => GetOrCreate(x)' = GetOrCreate(x)
  <2>1. PICK new : new = Added(GetOrCreate(s), kind, a)
    OBVIOUS
  <2>2. AddsTo(GetOrCreate(s), kind, a, new)
    BY <1>4, <1>5, <2>1, AddedIs
  <2>3. new \in DailySnapshot
    BY <2>2 DEF AddsTo
  <2>4. PutSnapshot(s, new)
    BY <1>5, <2>1
  <2>5. /\ DOMAIN snapshot' \subseteq Markets \X (0..Days)
        /\ snapshot' \in [DOMAIN snapshot' -> DailySnapshot]
        /\ GetOrCreate(s)' = new
        /\ \A x : x # s => GetOrCreate(x)' = GetOrCreate(x)
    BY <2>3, <2>4, SnapshotPut
  <2>6. QED
    BY <2>2, <2>5
<1>6. /\ DOMAIN snapshot' \subseteq Markets \X (0..Days)
      /\ snapshot' \in [DOMAIN snapshot' -> DailySnapshot]
      /\ kind \in VaultKinds =>
           /\ AddsTo(GetOrCreate(<<"turbo-vault", day>>), kind, a,
                     GetOrCreate(<<"turbo-vault", day>>)')
           /\ \A x : x # <<"turbo-vault", day>> => GetOrCreate(x)' = GetOrCreate(x)
      /\ kind \in AddedKinds \ VaultKinds =>
           /\ AddsTo(GetOrCreate(<<"market", day>>), kind, a,
                     GetOrCreate(<<"market", day>>)')
           /\ \A x : x # <<"market", day>> => GetOrCreate(x)' = GetOrCreate(x)
      /\ kind = "PositionDecreased" => \A x : GetOrCreate(x)' = GetOrCreate(x)
  <2>1. \A k \in VaultKinds : k \in AddedKinds /\ k # "PositionDecreased"
    BY DEF VaultKinds, AddedKinds
  <2>2. "PositionDecreased" \notin AddedKinds
    BY DEF AddedKinds, TradeKinds, VaultKinds
  <2>3. CASE kind \in VaultKinds
    <3>1. PutSnapshot(<<"turbo-vault", day>>,
                      Added(GetOrCreate(<<"turbo-vault", day>>), kind, a))
      BY <2>1, <2>3 DEF AddToSnapshot
    <3>2. QED
      BY <1>4, <1>5, <2>1, <2>3, <3>1
  <2>4. CASE kind \in AddedKinds \ VaultKinds
    <3>1. PutSnapshot(<<"market", day>>,
                      Added(GetOrCreate(<<"market", day>>), kind, a))
      BY <2>2, <2>4 DEF AddToSnapshot
    <3>2. QED
      BY <1>4, <1>5, <2>2, <2>4, <3>1
  <2>5. CASE kind = "PositionDecreased"
    <3>1. snapshot' = snapshot
      BY <2>1, <2>2, <2>5
    <3>2. QED
      BY <2>1, <2>2, <2>5, <3>1 DEF GetOrCreate, SnapshotsTyped
  <2>6. QED
    BY <2>3, <2>4, <2>5, KindsAre
<1>7. SnapshotsTyped'
  BY <1>3, <1>6 DEF SnapshotsTyped
<1>8. \A x : GetOrCreate(x)' \in DailySnapshot
  <2>1. EmptySnapshot \in DailySnapshot
    BY DEF EmptySnapshot, DailySnapshot
  <2>2. QED
    BY <1>7, <2>1 DEF SnapshotsTyped, GetOrCreate
<1>9. ASSUME NEW d \in 0 .. Days
      PROVE  AddsUpOn(d)'
  <2>1. PICK snap \in DailySnapshot, vault \in DailySnapshot :
          snap = GetOrCreate(<<"market", d>>) /\ vault = GetOrCreate(<<"turbo-vault", d>>)
    BY <1>4
  <2>2. PICK snap2 \in DailySnapshot, vault2 \in DailySnapshot :
          snap2 = GetOrCreate(<<"market", d>>)' /\ vault2 = GetOrCreate(<<"turbo-vault", d>>)'
    BY <1>8
  <2>3. PICK tally \in [MarketKinds -> TallySet] : tally = TalliesOn(eventRows, d)
    BY <1>2, RowAdded
  <2>4. PICK more : more = [k \in MarketKinds |-> Counted(tally[k], row, k, d)]
    OBVIOUS
  <2>5. TalliesOn(eventRows, d)' = more
    BY <1>2, <2>3, <2>4, RowAdded
  <2>6. DayOK(snap, vault, tally)
    <3>1. AddsUpOn(d)
      BY AddUpIs
    <3>2. QED
      BY <2>1, <2>3, <3>1 DEF AddsUpOn
  <2>7. /\ row.day = d /\ row.kind \in VaultKinds =>
             snap2 = snap /\ AddsTo(vault, row.kind, row.amount, vault2)
        /\ row.day = d /\ row.kind \in AddedKinds \ VaultKinds =>
             vault2 = vault /\ AddsTo(snap, row.kind, row.amount, snap2)
        /\ row.day # d \/ row.kind = "PositionDecreased" =>
             snap2 = snap /\ vault2 = vault
    <3>1. <<"market", d>> # <<"turbo-vault", day>> /\ <<"turbo-vault", d>> # <<"market", day>>
      OBVIOUS
    <3>2. d # day => <<"market", d>> # <<"market", day>>
                     /\ <<"turbo-vault", d>> # <<"turbo-vault", day>>
      OBVIOUS
    <3>3. kind \in VaultKinds \/ kind \in AddedKinds \ VaultKinds \/ kind = "PositionDecreased"
      BY KindsAre
    <3>4. QED
      BY <1>1, <1>6, <2>1, <2>2, <3>1, <3>2, <3>3
  <2>8. DayOK(snap2, vault2, more)
    BY <2>4, <2>6, <2>7, DayStep
  <2>9. QED
    BY <2>2, <2>5, <2>8 DEF AddsUpOn, DayOK
<1>10. SnapshotsAddUp'
  BY <1>9, AddUpIs
<1>11. QED
  BY <1>7, <1>10

LEMMA SnapshotsKept ==
  ASSUME SnapshotsTyped, SnapshotsAddUp, UNCHANGED <<eventRows, snapshot>>
  PROVE  SnapshotsTyped' /\ SnapshotsAddUp'
BY DEF SnapshotsTyped, SnapshotsAddUp, GetOrCreate, SumOf, CountOf

\* The event whose handler runs.
LEMMA ThisIs ==
  ASSUME IInv, log # <<>>
  PROVE  This \in Event /\ ThisDay \in 0 .. Days
<1>1. log \in Seq(Entry)
  BY DEF IInv, Follows, Typed
<1>2. PICK x \in Entry : x = Head(log)
  BY <1>1, HeadTailProperties
<1>3. QED
  BY <1>2 DEF This, ThisDay, Entry

LEMMA ArcadeOthers ==
  ASSUME IInv, Others, SnapshotsAddUp, ArcadeNext, UNCHANGED <<marketVars, requestVars>>
  PROVE  Others' /\ SnapshotsAddUp'
<1>1. SnapshotsTyped' /\ SnapshotsAddUp' /\ UNCHANGED position
  BY SnapshotsKept DEF Others, marketVars
<1>2. UNCHANGED product
  BY DEF ArcadeNext, Contracts, CreateRoom, CancelRoom, LockRoom, StartRound, RecordAnchor,
     RecordSettlement, ChallengeResults, FinalizeResults, RescueFailedSettlement,
     SubmitResults, ResolveChallenge, JoinRoom, LeaveRoom, CommitSelection,
     RevealSelection, Refund, ClaimPrize, Emit,
     ArcadeHandlers, OnRoomCreated, OnRoomStatusUpdated, OnRoomCancelled, OnRoomLocked,
     OnRoomSettled, OnRoomJoined, OnRoomLeft, OnRefunded, OnPrizeClaimed,
     OnSelectionCommitted, OnSelectionRevealed, OnRoundStarted, OnAnchorRecorded,
     OnSettlementRecorded, RoundStep, OnResultsSubmitted, OnResultsFinalized,
     OnResultsChallenged, OnChallengeResolved, OnSettlementRescued, StageOnly, Handled
<1>3. CASE UNCHANGED round
  BY <1>1, <1>2, <1>3 DEF Others
<1>4. CASE OnRoundStarted \/ OnAnchorRecorded \/ OnSettlementRecorded
  <2>1. PICK kind \in RoundKinds, status \in {"started", "anchor_recorded", "settled"} :
          RoundStep(kind, status)
    BY <1>4 DEF OnRoundStarted, OnAnchorRecorded, OnSettlementRecorded, RoundKinds
  <2>2. log # <<>> /\ This.kind \in RoundKinds /\ round' = [round EXCEPT ![This.round] = status]
    BY <2>1 DEF RoundStep, Handling
  <2>3. This.round \in 1 .. Rounds
    BY <2>2, ThisIs, EventHolds
  <2>4. round' \in [1..Rounds -> {"started", "anchor_recorded", "settled", NoRow}]
    BY <2>2 DEF Others
  <2>5. QED
    BY <1>1, <1>2, <2>4 DEF Others
<1>5. CASE Contracts
  <2>1. UNCHANGED tables
    BY <1>5 DEF Contracts, CreateRoom, CancelRoom, LockRoom, StartRound, RecordAnchor,
       RecordSettlement, ChallengeResults, FinalizeResults, RescueFailedSettlement,
       SubmitResults, ResolveChallenge, JoinRoom, LeaveRoom, CommitSelection,
       RevealSelection, Refund, ClaimPrize
  <2>2. QED
    BY <1>3, <2>1 DEF tables
<1>6. CASE /\ ArcadeHandlers /\ ~ OnRoundStarted /\ ~ OnAnchorRecorded
           /\ ~ OnSettlementRecorded
  <2>1. UNCHANGED round
    BY <1>6 DEF ArcadeHandlers, OnRoomCreated, OnRoomStatusUpdated, OnRoomCancelled,
       OnRoomLocked, OnRoomSettled, OnRoomJoined, OnRoomLeft, OnRefunded, OnPrizeClaimed,
       OnSelectionCommitted, OnSelectionRevealed, OnResultsSubmitted, OnResultsFinalized,
       OnResultsChallenged, OnChallengeResolved, OnSettlementRescued, StageOnly
  <2>2. QED
    BY <1>3, <2>1
<1>7. QED
  BY <1>4, <1>5, <1>6 DEF ArcadeNext

LEMMA MarketOthers ==
  ASSUME IInv, Others, SnapshotsAddUp, MarketNext, UNCHANGED <<arcadeVars, requestVars>>
  PROVE  Others' /\ SnapshotsAddUp'
<1>1. UNCHANGED <<product, round>>
  BY DEF MarketNext, Trade, IncreasePosition, DecreasePosition, NewDay, OnTrade, OnVault,
     OnPositionIncreased, OnPositionDecreased, Emit, Handled, arcadeVars
<1>2. SnapshotsTyped
  BY DEF Others
<1>3. CASE UNCHANGED <<position, eventRows, snapshot>>
  <2>1. SnapshotsTyped' /\ SnapshotsAddUp'
    BY <1>2, <1>3, SnapshotsKept
  <2>2. QED
    BY <1>1, <1>3, <2>1 DEF Others
<1>4. ASSUME NEW kind \in MarketKinds, Handling(kind)
      PROVE  /\ This \in Event /\ This.kind = kind /\ ThisDay \in 0 .. Days
             /\ This.amount \in Nat
  <2>1. log # <<>> /\ This.kind = kind
    BY <1>4 DEF Handling
  <2>2. QED
    BY <1>4, <2>1, ThisIs, EventHolds
<1>5. ASSUME NEW kind \in TradeKinds, OnTrade(kind)
      PROVE  Others' /\ SnapshotsAddUp'
  <2>1. /\ kind \in MarketKinds /\ kind \in AddedKinds \ VaultKinds
    BY DEF MarketKinds, AddedKinds, TradeKinds, VaultKinds
  <2>2. /\ Handling(kind) /\ AddRow /\ AddToSnapshot("market") /\ UNCHANGED position
    BY <1>5 DEF OnTrade
  <2>3. This.kind = kind /\ ThisDay \in 0 .. Days /\ This.amount \in Nat
    BY <1>4, <2>1, <2>2
  <2>4. SnapshotsTyped' /\ SnapshotsAddUp'
    BY <1>2, <2>1, <2>2, <2>3, MarketHandled
  <2>5. QED
    BY <1>1, <2>2, <2>4 DEF Others
<1>6. ASSUME NEW kind \in VaultKinds, OnVault(kind)
      PROVE  Others' /\ SnapshotsAddUp'
  <2>1. kind \in MarketKinds
    BY DEF MarketKinds
  <2>2. /\ Handling(kind) /\ AddRow /\ AddToSnapshot("turbo-vault") /\ UNCHANGED position
    BY <1>6 DEF OnVault
  <2>3. This.kind = kind /\ ThisDay \in 0 .. Days /\ This.amount \in Nat
    BY <1>4, <2>1, <2>2
  <2>4. SnapshotsTyped' /\ SnapshotsAddUp'
    BY <1>2, <2>1, <2>2, <2>3, MarketHandled
  <2>5. QED
    BY <1>1, <2>2, <2>4 DEF Others
<1>7. ASSUME NEW kind \in PositionKinds, Handling(kind), UpsertPosition(This)
      PROVE  position' \in [size : Int, margin : Nat, entry : Nat, open : BOOLEAN] \cup {NoRow}
  <2>1. This \in Event /\ This.kind \in PositionKinds
    BY <1>7, ThisIs DEF Handling
  <2>2. This.size \in Int /\ This.price \in Nat /\ This.margin \in Nat
    BY <2>1, EventHolds
  <2>3. QED
    BY <1>7, <2>2 DEF UpsertPosition
<1>8. CASE OnPositionIncreased
  <2>1. /\ "PositionIncreased" \in MarketKinds /\ "PositionIncreased" \in AddedKinds \ VaultKinds
        /\ "PositionIncreased" \in PositionKinds
    BY DEF MarketKinds, AddedKinds, VaultKinds, PositionKinds
  <2>2. /\ Handling("PositionIncreased") /\ AddRow /\ AddToSnapshot("market")
        /\ UpsertPosition(This)
    BY <1>8 DEF OnPositionIncreased
  <2>3. This.kind = "PositionIncreased" /\ ThisDay \in 0 .. Days /\ This.amount \in Nat
    BY <1>4, <2>1, <2>2
  <2>4. SnapshotsTyped' /\ SnapshotsAddUp'
    BY <1>2, <2>1, <2>2, <2>3, MarketHandled
  <2>5. QED
    BY <1>1, <1>7, <2>1, <2>2, <2>4 DEF Others
<1>9. CASE OnPositionDecreased
  <2>1. "PositionDecreased" \in MarketKinds /\ "PositionDecreased" \in PositionKinds
    BY DEF MarketKinds, PositionKinds
  <2>2. /\ Handling("PositionDecreased") /\ AddRow /\ UNCHANGED snapshot
        /\ UpsertPosition(This)
    BY <1>9 DEF OnPositionDecreased
  <2>3. This.kind = "PositionDecreased" /\ ThisDay \in 0 .. Days /\ This.amount \in Nat
    BY <1>4, <2>1, <2>2
  <2>4. SnapshotsTyped' /\ SnapshotsAddUp'
    BY <1>2, <2>1, <2>2, <2>3, MarketHandled
  <2>5. QED
    BY <1>1, <1>7, <2>1, <2>2, <2>4 DEF Others
<1>10. CASE \/ NewDay
            \/ \E kind \in TradeKinds \cup VaultKinds, a \in Amounts : Trade(kind, a)
            \/ \E a, price \in Amounts :
                 IncreasePosition(a, price) \/ DecreasePosition(a, price)
  <2>1. UNCHANGED <<position, eventRows, snapshot>>
    BY <1>10 DEF NewDay, Trade, IncreasePosition, DecreasePosition, marketVars
  <2>2. QED
    BY <1>3, <2>1
<1>11. QED
  BY <1>5, <1>6, <1>8, <1>9, <1>10 DEF MarketNext

LEMMA InitOthers == Init => Others /\ SnapshotsAddUp
<1> SUFFICES ASSUME Init PROVE Others /\ SnapshotsAddUp
  OBVIOUS
<1>1. ArcadeInit /\ MarketInit /\ product \in {"arcade", "market", "request"}
  BY DEF Init
<1>2. eventRows = <<>> /\ snapshot = [s \in {} |-> EmptySnapshot] /\ position = NoRow
  BY <1>1 DEF MarketInit
<1>3. SnapshotsTyped
  BY <1>2 DEF SnapshotsTyped
<1>4. \A s : GetOrCreate(s) = EmptySnapshot
  BY <1>2 DEF GetOrCreate
<1>5. \A kind, day : Tally(eventRows, kind, day) = [count |-> 0, sum |-> 0]
  BY <1>2, <1>3, TallyTyped DEF SnapshotsTyped
<1>6. SnapshotsAddUp
  BY <1>4, <1>5 DEF SnapshotsAddUp, SumOf, CountOf, EmptySnapshot
<1>7. round \in [1..Rounds -> {"started", "anchor_recorded", "settled", NoRow}]
  BY <1>1 DEF ArcadeInit
<1>8. QED
  BY <1>1, <1>2, <1>3, <1>6, <1>7 DEF Others

LEMMA StepOthers ==
  IInv /\ Others /\ SnapshotsAddUp /\ [Next]_vars => Others' /\ SnapshotsAddUp'
<1> SUFFICES ASSUME IInv, Others, SnapshotsAddUp, [Next]_vars
             PROVE  Others' /\ SnapshotsAddUp'
  OBVIOUS
<1>1. ASSUME UNCHANGED <<product, round, position, eventRows, snapshot>>
      PROVE  Others' /\ SnapshotsAddUp'
  <2>1. SnapshotsTyped' /\ SnapshotsAddUp'
    BY <1>1, SnapshotsKept DEF Others
  <2>2. QED
    BY <1>1, <2>1 DEF Others
<1>2. CASE UNCHANGED vars
  BY <1>1, <1>2 DEF vars, logVars, arcadeVars, marketVars
<1>3. CASE RequestNext /\ UNCHANGED <<arcadeVars, marketVars>>
  <2>1. UNCHANGED product
    BY <1>3 DEF RequestNext, Occur, OnRequest, OpenLoan, CloseLoan, UpsertDeposit,
       RequestDay, OnTelaranaRequestCancelled, Emit, Handled
  <2>2. QED
    BY <1>1, <1>3, <2>1 DEF arcadeVars, marketVars
<1>4. QED
  BY <1>2, <1>3, ArcadeOthers, MarketOthers DEF Next

\* SnapshotsAddUp: each column of a day's snapshot is the sum, or the number,
\* of the rows of that day's events, whatever the order the thirteen handlers
\* that share it run in and whenever they run.
THEOREM IndexerSnapshotsAddUp == Spec => []SnapshotsAddUp
<1>1. Init => IInv /\ Others /\ SnapshotsAddUp
  BY InitFollows, InitOthers
<1>2. /\ IInv /\ Others /\ SnapshotsAddUp /\ [Next]_vars
        => (IInv /\ Others /\ SnapshotsAddUp)'
  BY StepFollows, StepOthers
<1>3. QED
  BY <1>1, <1>2, PTL DEF Spec

\* Every table and every event in the log has its type.
THEOREM IndexerTypes == Spec => []TypeOK
<1>1. Init => IInv /\ Others /\ SnapshotsAddUp
  BY InitFollows, InitOthers
<1>2. /\ IInv /\ Others /\ SnapshotsAddUp /\ [Next]_vars
        => (IInv /\ Others /\ SnapshotsAddUp)'
  BY StepFollows, StepOthers
<1>3. IInv /\ Others => TypeOK
  <2> SUFFICES ASSUME IInv, Others PROVE TypeOK
    OBVIOUS
  <2>1. /\ log \in Seq(Entry) /\ today \in 0 .. Days /\ escrow \in Escrow
        /\ history \in HistorySet /\ Tables \in TableSet
    BY DEF IInv, Follows, Typed
  <2>2. log \in Seq([day : 0..Days, event : Event])
    BY <2>1 DEF Entry
  <2>3. ArcadeTypeOK
    BY <2>1 DEF Tables, TableSet, Others, ArcadeTypeOK
  <2>4. clearing \in [size : Int, margin : Nat, entry : Nat]
    BY DEF IInv, ClearingOK
  <2>5. MarketTypeOK
    BY <2>4 DEF Others, SnapshotsTyped, MarketTypeOK
  <2>6. RequestTypeOK
    BY <2>1 DEF Tables, TableSet, HistorySet, RequestTypeOK
  <2>7. QED
    BY <2>1, <2>2, <2>3, <2>5, <2>6 DEF Others, TypeOK
<1>4. QED
  BY <1>1, <1>2, <1>3, PTL DEF Spec
=============================================================================
