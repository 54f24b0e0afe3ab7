------------------------------- MODULE Executor -------------------------------
(***************************************************************************)
(* What the task executor promises (spec 4.4), with no queues and no      *)
(* threads: a submitted task is queued, started once, and finished.       *)
(* Shutdown (done = true) may only happen when nothing is queued; a task  *)
(* submitted after shutdown carries no guarantee, every other one         *)
(* eventually runs.  WorkStealPool is shown to implement this.            *)
(***************************************************************************)
CONSTANT Tasks

VARIABLES
    queued,     \* submitted, not yet taken by a worker
    active,     \* being run by a worker
    finished,   \* run to completion
    closed,     \* the executor has been shut down
    late        \* submitted after shutdown

vars == <<queued, active, finished, closed, late>>

Init ==
    /\ queued = {}
    /\ active = {}
    /\ finished = {}
    /\ closed = FALSE
    /\ late = {}

\* Each task object is submitted once.
Submit(k) ==
    /\ k \notin queued \cup active \cup finished
    /\ queued' = queued \cup {k}
    /\ late' = IF closed THEN late \cup {k} ELSE late
    /\ UNCHANGED <<active, finished, closed>>

Start(k) ==
    /\ k \in queued
    /\ queued' = queued \ {k}
    /\ active' = active \cup {k}
    /\ UNCHANGED <<finished, closed, late>>

Finish(k) ==
    /\ k \in active
    /\ active' = active \ {k}
    /\ finished' = finished \cup {k}
    /\ UNCHANGED <<queued, closed, late>>

\* The destructor sets done only once every queue is empty.
Shutdown ==
    /\ ~closed
    /\ queued = {}
    /\ closed' = TRUE
    /\ UNCHANGED <<queued, active, finished, late>>

Next ==
    \/ \E k \in Tasks : Submit(k) \/ Start(k) \/ Finish(k)
    \/ Shutdown

\* A task submitted before shutdown is eventually started and finished.
Spec ==
    /\ Init /\ [][Next]_vars
    /\ \A k \in Tasks : /\ WF_vars(k \notin late /\ Start(k))
                        /\ WF_vars(Finish(k))

=============================================================================
