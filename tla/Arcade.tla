-------------------------------- MODULE Arcade --------------------------------
(***************************************************************************)
(* The arcade: a room while it is played, and the prizes of a room that is *)
(* over.  The code keeps the two apart: nothing reads the simulator's room *)
(* to build a result, and nothing that saves a result touches the room.    *)
(* One behaviour is about one of the two.                                  *)
(***************************************************************************)
EXTENDS ArcadeRoom, ArcadeResults

VARIABLE part     \* "room" or "results"

vars == <<room, window, result, saving, finalizing, part>>

Init ==
    /\ RoomInit /\ ResultInit
    /\ part \in {"room", "results"}

Next ==
    /\ UNCHANGED part
    /\ \/ part = "room" /\ RoomNext /\ UNCHANGED resultVars
       \/ part = "results" /\ ResultNext /\ UNCHANGED roomVars

Spec == Init /\ [][Next]_vars

TypeOK == RoomTypeOK /\ ResultTypeOK
=============================================================================
