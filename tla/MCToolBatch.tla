---------------------------- MODULE MCToolBatch ----------------------------
(***************************************************************************)
(* Three calls over two files: a call that writes one of the files, the    *)
(* other, or (a tool that declares nothing) anything.  Every pattern of   *)
(* equal calls, the keys named in the order they first appear.             *)
(***************************************************************************)
EXTENDS ToolBatch

CONSTANTS writeA, writeB, anything, k1, k2, k3

ThreeCalls   == 1 .. 3
ThreeKeys    == {k1, k2, k3}
FirstSeen    == {m \in [ThreeCalls -> ThreeKeys] :
                   m[1] = k1 /\ m[2] # k3 /\ (m[2] = k1 => m[3] # k3)}
PlanFile     == {writeA}
FileAccesses == {writeA, writeB, anything}
Overlaps ==
  {p \in FileAccesses \X FileAccesses : p[1] = p[2] \/ anything \in {p[1], p[2]}}
=============================================================================
