------------------------------- MODULE Batch -------------------------------
(***************************************************************************)
(* What a call of PackFiles promises, without its goroutines, temporary     *)
(* files and system calls: each artifact of the call appears at its path in *)
(* one step, the call answers once, truthfully, and every call is answered. *)
(* A crash may bring back what a path held before, and forgets the calls in *)
(* progress, which are made again.                                          *)
(***************************************************************************)
EXTENDS Naturals

CONSTANTS
    Calls,      \* the calls
    Artifacts,  \* Artifacts[c]: the artifacts of call c
    PathOf,     \* PathOf[c][i]: where artifact i of call c belongs
    FileOf      \* FileOf[c][i]: the whole file of artifact i of call c

VARIABLES
    answer,     \* per call: "pending", "ok" or "error"
    published,  \* per call: the artifacts its present attempt put in place
    disk,       \* per path: the file
    stable      \* per path: what a crash may bring back

batchVars == <<answer, published, disk, stable>>

BatchInit ==
    /\ answer = [c \in Calls |-> "pending"]
    /\ published = [c \in Calls |-> {}]
    /\ stable = disk

Publish(c) ==
    /\ answer[c] = "pending"
    /\ \E i \in Artifacts[c] \ published[c] :
          /\ published' = [published EXCEPT ![c] = @ \cup {i}]
          /\ disk' = [disk EXCEPT ![PathOf[c][i]] = FileOf[c][i]]
    /\ UNCHANGED <<answer, stable>>

(* "ok" means that every artifact was put in place, "error" that one was    *)
(* not.                                                                     *)
Answer(c) ==
    /\ answer[c] = "pending"
    /\ answer' = [answer EXCEPT
          ![c] = IF published[c] = Artifacts[c] THEN "ok" ELSE "error"]
    /\ UNCHANGED <<published, disk, stable>>

Recover ==
    /\ \A p \in DOMAIN disk : disk'[p] \in {disk[p], stable[p]}
    /\ DOMAIN disk' = DOMAIN disk
    /\ stable' = disk'
    /\ published' = [c \in Calls |-> IF answer[c] = "pending" THEN {} ELSE published[c]]
    /\ UNCHANGED answer

BatchNext == (\E c \in Calls : Publish(c) \/ Answer(c)) \/ Recover

BatchSafety == BatchInit /\ [][BatchNext]_batchVars

(* A call goes on until it is answered.                                     *)
BatchSpec ==
    /\ BatchSafety
    /\ \A c \in Calls : WF_batchVars(Publish(c) \/ Answer(c))
=============================================================================
