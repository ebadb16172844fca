---------------------------- MODULE MCRunnerQueue ----------------------------
(***************************************************************************)
(* Small queues.  Workers started without --id register under an id of      *)
(* their own.                                                               *)
(***************************************************************************)
EXTENDS RunnerQueue, TLC

OwnRunner == [w \in Workers |-> w]

Equal == [r \in Runs |-> 0]

(* Only one run is more urgent. *)
Urgent == [r \in Runs |-> IF r = "r1" THEN 1 ELSE 0]

All == [r \in Runs |-> Runners]

(* r2 suits only worker w, r3 none. *)
Picky == [r \in Runs |-> IF r = "r3" THEN {} ELSE IF r = "r2" THEN {"w"} ELSE Runners]

(* Runs may differ in priority, workers do not.  *)
Alike == Permutations(Workers)

Symmetry == Permutations(Workers) \cup Permutations(Runs)
=============================================================================
