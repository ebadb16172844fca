-------------------------- MODULE MCStudioDocument --------------------------
(***************************************************************************)
(* A small instance of the studio.  What the user and another program do is *)
(* chosen at the start among a few scopes and kept: one run then covers     *)
(* several small worlds, without their product.  A scope only withholds     *)
(* edits, which no fairness asks for.                                       *)
(***************************************************************************)
EXTENDS StudioDocument

VARIABLES scope         \* the edits and moves that may happen

TextAndGraph   == {"t1", "t2", "d"}
OtherProgram   == {"t1", "d", "f"}
TextAndLayout  == {"t1", "d", "m"}
EveryScope == {TextAndGraph, OtherProgram, TextAndLayout}

InScope ==
    /\ editor.content \cup disk.source \cup view.layout \subseteq scope
    /\ \A d \in Drawn : calls[d].at # "idle" => d \in scope

MCInit == Init /\ scope \in EveryScope
MCNext == Next /\ UNCHANGED scope /\ InScope'
MCSpec == MCInit /\ [][MCNext]_<<allVars, scope>> /\ Fairness
=============================================================================
