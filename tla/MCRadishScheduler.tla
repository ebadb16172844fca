-------------------------- MODULE MCRadishScheduler --------------------------
(***************************************************************************)
(* Small workflows for the scheduler.  Each is a function from node ids to  *)
(* the IR of the node; node ids are strings and rank is their order.        *)
(***************************************************************************)
EXTENDS RadishScheduler, TLC

Always(n) == [target |-> n, mode |-> "unconditional", eligible |-> {"success", "allowed_failure"}]
When(n) == [Always(n) EXCEPT !.mode = "conditional", !.eligible = {"success"}]
Failed(n) == [Always(n) EXCEPT !.mode = "conditional", !.eligible = {"allowed_failure"}]
Otherwise(n) == [Always(n) EXCEPT !.mode = "otherwise"]

NoSource == [counts |-> {0}, infinite |-> FALSE, max_concurrency |-> 1, fail_fast |-> FALSE]

Plain(rank, needs, routes) ==
  [type |-> "task", rank |-> rank, needs |-> needs, routes |-> routes,
   max_concurrency |-> 1, max_runs |-> 0, retry_count |-> 0, allow_fail |-> FALSE,
   finish |-> "none", loop |-> "none", source |-> NoSource]

Loop(rank, needs, routes, counts, limit) ==
  [Plain(rank, needs, routes) EXCEPT
     !.type = "loop", !.source.counts = counts, !.source.max_concurrency = limit]

Infinite(rank, needs, routes, limit) ==
  [Loop(rank, needs, routes, {0}, limit) EXCEPT !.source.infinite = TRUE]

Break(rank, needs, loop) ==
  [Plain(rank, needs, <<>>) EXCEPT !.type = "break", !.loop = loop]

(* A review cycle under run limits, entered by two groups.  The draft is    *)
(* retried, and may fail, which ends the workflow.                          *)
Cycle ==
  ("draft"  :> [Plain(1, {}, <<Always("review"), Failed("giveup")>>)
                  EXCEPT !.allow_fail = TRUE, !.retry_count = 1]) @@
  ("giveup" :> [Plain(5, {"draft"}, <<>>) EXCEPT !.finish = "fail"]) @@
  ("hint"   :> Plain(2, {}, <<Always("review")>>)) @@
  ("review" :> [Plain(3, {"draft"}, <<When("draft"), Otherwise("ship")>>)
                  EXCEPT !.max_runs = 3, !.max_concurrency = 2]) @@
  ("ship"   :> [Plain(4, {"review", "hint"}, <<>>) EXCEPT !.finish = "pass"])

(* A loop of three iterations, two at once, whose work may break it,   *)
(* fail, or go on to a note that also needs the side work.                  *)
Broken ==
  ("loop" :> Loop(1, {}, <<Always("work"), Always("side")>>, {3}, 2)) @@
  ("side" :> Plain(5, {"loop"}, <<Always("note")>>)) @@
  ("work" :> Plain(2, {"loop"}, <<When("stop"), Otherwise("note")>>)) @@
  ("stop" :> Break(3, {"work"}, "loop")) @@
  ("note" :> Plain(4, {"work", "side"}, <<>>))

(* A loop whose iterations each open a loop; the work may break the outer.   *)
Nested ==
  ("outer" :> Loop(1, {}, <<Always("inner")>>, {2}, 1)) @@
  ("inner" :> Loop(2, {"outer"}, <<Always("work")>>, {0, 2}, 1)) @@
  ("work"  :> Plain(3, {"inner"}, <<When("stop")>>)) @@
  ("stop"  :> Break(4, {"work"}, "outer"))

(* The same, and the work may open an infinite loop, whose route may not     *)
(* match, or reach the break of that loop without having opened it.          *)
Polling ==
  ("work" :> Plain(3, {"inner"}, <<When("stop"), When("poll"), When("quit")>>)) @@
  ("poll" :> Infinite(5, {"work"}, <<When("quit")>>, 1)) @@
  ("quit" :> Break(6, {"work"}, "poll")) @@
  Nested

ASSUME DOMAIN Node = Nodes
=============================================================================
