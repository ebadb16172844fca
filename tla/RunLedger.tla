------------------------------ MODULE RunLedger ------------------------------
(***************************************************************************)
(* What the queue promises of a run, whatever its users do: it is queued    *)
(* once, leaves the queue once, either dispatched to one runner or          *)
(* withdrawn, and keeps the runner it was dispatched to.                    *)
(***************************************************************************)
CONSTANTS Runs, Runners, NoRunner

VARIABLES stage, owner

ledger == <<stage, owner>>

Init ==
  /\ stage = [r \in Runs |-> "absent"]
  /\ owner = [r \in Runs |-> NoRunner]

Enqueue(r) ==
  /\ stage[r] = "absent"
  /\ stage' = [stage EXCEPT ![r] = "queued"]
  /\ UNCHANGED owner

Dispatch(r, x) ==
  /\ stage[r] = "queued"
  /\ stage' = [stage EXCEPT ![r] = "left"]
  /\ owner' = [owner EXCEPT ![r] = x]

Withdraw(r) ==
  /\ stage[r] = "queued"
  /\ stage' = [stage EXCEPT ![r] = "left"]
  /\ UNCHANGED owner

Next == \E r \in Runs : Enqueue(r) \/ Withdraw(r) \/ \E x \in Runners : Dispatch(r, x)

Spec == Init /\ [][Next]_ledger
=============================================================================
