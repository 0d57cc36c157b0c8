---------------------------- MODULE MCThreadPool ----------------------------
(* Small instance of ThreadPool: two workers, three tasks, two callers that  *)
(* race with each other, with the workers and with the destructor.           *)
EXTENDS ThreadPool

MCWorkers == {"w1", "w2"}
MCTasks == {"t1", "t2", "t3"}
MCCallers == {"c1", "c2"}
MCNoTask == "no task"
=============================================================================
