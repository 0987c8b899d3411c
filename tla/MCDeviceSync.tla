----------------------------- MODULE MCDeviceSync -----------------------------
(* Instances of DeviceSync: two device user ids, each with a slot of its own. *)
(* Enrolled at the terminal beforehand is somebody Smart HRM does not know,   *)
(* or somebody whose employee code is the number he has there.                *)
EXTENDS DeviceSync, TLC

CONSTANTS u1, u2, n1, n2

\* Ids of up to nine characters.
MCCut == u1 :> u1 @@ u2 :> u2
MCSlotOf == u1 :> 1 @@ u2 :> 2
MCEnrolled == {[uid |-> u2, name |-> n1]}
MCSameNumber == {[uid |-> u1, name |-> n1]}
=============================================================================
