---------------------------- MODULE MCPackFiles ----------------------------
(***************************************************************************)
(* PackFiles for TLC: one batch with a pool, and two batches that write to  *)
(* the same two paths with one worker each.                                 *)
(***************************************************************************)
EXTENDS PackFiles, TLC

CONSTANTS b1, b2, w1, w2, p1, p2, p3, p4

TwoWorkers     == {w1, w2}

(* One batch of four channels.                                              *)
OneBatch       == {b1}
FourJobs       == [b \in OneBatch |-> 4]
OnePool        == [w \in TwoWorkers |-> b1]
FourPaths      == {p1, p2, p3, p4}
FourOutputs    == [b \in OneBatch |-> <<p1, p2, p3, p4>>]
Keeps          == [b \in OneBatch |-> FALSE]
NoneBad        == [b \in OneBatch |-> {}]
FileFaults     == {"inspect", "load", "create", "write", "sync", "stat", "rename"}

(* Two batches on the same paths, the second in the opposite order; the     *)
(* second channel of the first one cannot be packed.                        *)
Pair           == {b1, b2}
PairJobs       == [b \in Pair |-> 2]
OneWorkerEach  == (w1 :> b1) @@ (w2 :> b2)
TwoPaths       == {p1, p2}
SharedOutputs  == (b1 :> <<p1, p2>>) @@ (b2 :> <<p2, p1>>)
OneOverwrites  == (b1 :> TRUE) @@ (b2 :> FALSE)
PairKeeps      == [b \in Pair |-> FALSE]
OneBad         == (b1 :> {2}) @@ (b2 :> {})
PairNoneBad    == [b \in Pair |-> {}]
SharedFaults   == {"rename", "cleanup"}
NoFault        == {}
=============================================================================
