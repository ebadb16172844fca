---------------------------- MODULE MCFileWatcher ----------------------------
(***************************************************************************)
(* A small instance of the file watcher: one workflow, whose watch a request *)
(* replaces or removes while its runs go on.                                *)
(***************************************************************************)
EXTENDS FileWatcher

Each  == [files |-> {1, 2}, each |-> TRUE, concurrency |-> 1, depth |-> 1, debounce |-> FALSE]
Batch == [files |-> {1}, each |-> FALSE, concurrency |-> 2, depth |-> 2, debounce |-> TRUE]

EachOrBatch == {Each, Batch}
EachFirst == <<Each>>
ReplaceOrDrop == {<<1, Batch>>, <<1, NoWatch>>}
=============================================================================
