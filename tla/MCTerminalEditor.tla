-------------------------- MODULE MCTerminalEditor --------------------------
(***************************************************************************)
(* Small instances of the handoff.  Which messages git writes, what the     *)
(* user types and opens and how much fails is chosen at the start among a   *)
(* few scopes and kept: one run then covers several small worlds, without   *)
(* their product.  A scope leaves every step possible that fairness asks    *)
(* for.                                                                     *)
(***************************************************************************)
EXTENDS TerminalEditor

VARIABLES scope         \* [clients, typed, paths, failures]: what may happen

(* A message in one terminal and, at the same time, of another file in the  *)
(* other.                                                                   *)
OwnTerminal == [c \in Clients |-> IF c = "commit" THEN "t1" ELSE "t2"]
OwnPath     == [c \in Clients |-> IF c = "rebase" THEN "q" ELSE "p"]

OneClose   == [clients |-> {"commit"}, typed |-> {"x", "y"}, paths |-> {"p"}, failures |-> 0]
OneFailure == [clients |-> {"commit"}, typed |-> {"x"}, paths |-> {"p"}, failures |-> 1]
TwoFiles   == [clients |-> {"commit", "rebase"}, typed |-> {}, paths |-> {"p", "q"}, failures |-> 0]
EveryScope == {OneClose, OneFailure, TwoFiles}

InScope ==
    /\ \A c \in Clients : answer[c] # "idle" => c \in scope.clients
    /\ \A p \in Paths : editor[p].content \subseteq scope.clients \cup scope.typed
    /\ tabs \subseteq scope.paths
    /\ failures <= scope.failures

MCInit == Init /\ scope \in EveryScope
MCNext == Next /\ UNCHANGED scope /\ InScope'
MCSpec == MCInit /\ [][MCNext]_<<vars, scope>> /\ Fairness
=============================================================================
