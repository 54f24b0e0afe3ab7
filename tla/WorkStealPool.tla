---------------------------- MODULE WorkStealPool ----------------------------
(***************************************************************************)
(* ThreadPool (src/src/threadpool.cpp) with its ThreadedQueue global      *)
(* queue (src/unnamed/part_004) and one WorkStealQueue per worker         *)
(* (src/src/threadpool/workstealqueue.h).  A program, chosen at the       *)
(* start, fixes what the tasks do: the owner thread submits External and  *)
(* may then destroy the pool; a running task k submits Spawns[k] (from a  *)
(* worker, so onto the worker's own deque).  Each                         *)
(* queue operation holds that queue's mutex, so it is one step; a worker  *)
(* tries its deque, the global queue and each steal in separate steps,    *)
(* and ~ThreadPool's isEmpty() looks at one queue per step, because the   *)
(* workers never take the pool mutex it holds.                            *)
(***************************************************************************)
EXTENDS Naturals, Sequences, SequencesExt

CONSTANTS
    NumThreads, \* threadCount = std::thread::hardware_concurrency()
    Tasks,      \* the std::function<void()> objects, as names
    Programs,   \* set of [external, spawns, destroy]: what the owner
                \* submits, in order; spawns[k], the tasks task k submits
                \* while it runs; TRUE if the owner destroys the pool
    NoTask      \* model value: a worker between tasks

ASSUME NumThreads \in Nat \ {0}

Threads == 0..(NumThreads - 1)

VARIABLES
    workQueue,  \* ThreadedQueue: FIFO, front = Head
    queues,     \* queues[i]: WorkStealQueue i, front = Head, back = Last
    wpc,        \* wpc[t]: "unborn", "loop", "local", "global", "steal",
                \*        "run", "notify", "exited"
    si,         \* si[t]: i of popOtherThreads()'s loop
    task,       \* task[t]: the task worker t is running
    todo,       \* todo[t]: submits task[t] has still to make
    nextExt,    \* index in External of the owner's next submit
    spawned,    \* threads.size(): workers the constructor has started
    mpc,        \* owner: "construct", "submit", "isEmpty", "blocking" (isEmpty() was
                \* false, not yet asleep), "waiting", "join", "joined"
    scan,       \* isEmpty(): next queue to look at; NumThreads = workQueue
    done,       \* std::atomic<bool> done
    runs,       \* runs[k]: times task k has run to completion (history)
    late,       \* tasks submitted after done was set (history)
    prog        \* the program this run executes (fixed)

vars == <<workQueue, queues, wpc, si, task, todo, nextExt, spawned, mpc,
          scan, done, runs, late, prog>>
ownerVars == <<nextExt, spawned, mpc, scan, done, prog>>

External == prog.external
Spawns   == prog.spawns
Destroy  == prog.destroy

\* JoinThreads holds a reference to the vector of started threads.
Started == 0..(spawned - 1)

Init ==
    /\ workQueue = <<>>
    /\ queues = [i \in Threads |-> <<>>]
    /\ wpc = [t \in Threads |-> "unborn"]
    /\ si = [t \in Threads |-> 0]
    /\ task = [t \in Threads |-> NoTask]
    /\ todo = [t \in Threads |-> <<>>]
    /\ nextExt = 1
    /\ spawned = 0
    /\ mpc = "construct"
    /\ scan = 0
    /\ done = FALSE
    /\ runs = [k \in Tasks |-> 0]
    /\ late = {}
    /\ prog \in Programs

-----------------------------------------------------------------------------
(* The queues: one step per locked operation.                             *)

\* Mutant: tryPop() reads front() but forgets pop().
QueueRestKeep(q) == q

\* ThreadedQueue::tryPop(): result = front(); pop().
QueueRest(q) == Tail(q)

\* WorkStealQueue::tryPop(): result = deque.front(); deque.pop_front().
DequeRestFront(q) == Tail(q)

\* Mutant: trySteal() copies back() instead of moving it out.
DequeRestBackKeep(q) == q

\* WorkStealQueue::trySteal(): result = deque.back(); deque.pop_back().
DequeRestBack(q) == Front(q)

\* WorkStealQueue::push(): deque.push_front().
DequePush(q, k) == <<k>> \o q

\* popOtherThreads(): index = (myIndex + i + 1) % queues.size().
StealIndex(t, i) == (t + i + 1) % NumThreads

\* popOtherThreads(): for (i = 0; i < queues.size(); ++i).
StealExhausted(i) == i >= NumThreads

\* WorkStealQueue<T>: a std::deque guarded by its own mutex.  push(),
\* tryPop() and trySteal() hold the mutex throughout, so each is one step.
WorkStealQueues == Seq(Tasks)

\* ThreadedQueue<T>::push(): under its mutex, push at the back.
QueuePush(q, x) == Append(q, x)

\* WorkStealQueue::empty(): deque.empty(), read without the queue's lock.
DequeEmpty(q) == q = <<>>

\* workerThread(): while (!done).
Continues(d) == ~d

-----------------------------------------------------------------------------
(* A worker: workerThread() and runPendingTask().                         *)

Begin(t, k) ==
    /\ task' = [task EXCEPT ![t] = k]
    /\ todo' = [todo EXCEPT ![t] = Spawns[k]]
    /\ wpc' = [wpc EXCEPT ![t] = "run"]

WorkerLoop(t) ==
    /\ wpc[t] = "loop"
    /\ wpc' = [wpc EXCEPT ![t] = IF Continues(done) THEN "local" ELSE "exited"]
    /\ UNCHANGED <<workQueue, queues, si, task, todo, ownerVars, runs, late>>

\* popLocal(): localWorkQueue->tryPop(task).
PopLocal(t) ==
    /\ wpc[t] = "local"
    /\ \/ /\ queues[t] # <<>>
          /\ queues' = [queues EXCEPT ![t] = DequeRestFront(@)]
          /\ Begin(t, Head(queues[t]))
       \/ /\ queues[t] = <<>>
          /\ wpc' = [wpc EXCEPT ![t] = "global"]
          /\ UNCHANGED <<queues, task, todo>>
    /\ UNCHANGED <<workQueue, si, ownerVars, runs, late>>

\* popPoolQueue(): workQueue.tryPop(task).
PopPoolQueue(t) ==
    /\ wpc[t] = "global"
    /\ \/ /\ workQueue # <<>>
          /\ workQueue' = QueueRest(workQueue)
          /\ Begin(t, Head(workQueue))
          /\ UNCHANGED si
       \/ /\ workQueue = <<>>
          /\ wpc' = [wpc EXCEPT ![t] = "steal"]
          /\ si' = [si EXCEPT ![t] = 0]
          /\ UNCHANGED <<workQueue, task, todo>>
    /\ UNCHANGED <<queues, ownerVars, runs, late>>

\* Mutant: cv.notify_all() only after a task ran, not after a yield.
AfterYieldSkipNotify == "loop"

\* runPendingTask() found nothing: yield(), then workerThread() goes on to
\* cv.notify_all() like after a task.
AfterYield == "notify"

\* popOtherThreads(): queues.at(index)->trySteal(task) for each i; when
\* nothing is found runPendingTask() yields and the loop starts over.
PopOtherThreads(t) ==
    /\ wpc[t] = "steal"
    /\ LET v == StealIndex(t, si[t]) IN
       \/ /\ ~StealExhausted(si[t])
          /\ queues[v] # <<>>
          /\ queues' = [queues EXCEPT ![v] = DequeRestBack(@)]
          /\ Begin(t, Last(queues[v]))
          /\ UNCHANGED si
       \/ /\ ~StealExhausted(si[t])
          /\ queues[v] = <<>>
          /\ si' = [si EXCEPT ![t] = @ + 1]
          /\ UNCHANGED <<queues, wpc, task, todo>>
       \/ /\ StealExhausted(si[t])
          /\ wpc' = [wpc EXCEPT ![t] = AfterYield]
          /\ UNCHANGED <<queues, si, task, todo>>
    /\ UNCHANGED <<workQueue, ownerVars, runs, late>>

\* task(): each submit() from a worker pushes onto its own deque; at the
\* end runPendingTask() returns and workerThread() notifies cv.
RunTask(t) ==
    /\ wpc[t] = "run"
    /\ \/ /\ todo[t] # <<>>
          /\ queues' = [queues EXCEPT ![t] = DequePush(@, Head(todo[t]))]
          /\ todo' = [todo EXCEPT ![t] = Tail(@)]
          /\ late' = IF done THEN late \cup {Head(todo[t])} ELSE late
          /\ UNCHANGED <<wpc, task, runs>>
       \/ /\ todo[t] = <<>>
          /\ runs' = [runs EXCEPT ![task[t]] = @ + 1]
          /\ task' = [task EXCEPT ![t] = NoTask]
          /\ wpc' = [wpc EXCEPT ![t] = "notify"]
          /\ UNCHANGED <<queues, todo, late>>
    /\ UNCHANGED <<workQueue, si, ownerVars>>

\* A notify_all() reaches the owner only once it sleeps in cv.wait(); the
\* workers do not hold the pool mutex, so one sent while the owner is
\* between isEmpty() and sleeping is lost.
Wake(m) == IF m = "waiting" THEN "isEmpty" ELSE m

\* workerThread(): cv.notify_all() after each runPendingTask().
WorkerNotify(t) ==
    /\ wpc[t] = "notify"
    /\ wpc' = [wpc EXCEPT ![t] = "loop"]
    /\ mpc' = Wake(mpc)
    /\ scan' = IF mpc = "waiting" THEN 0 ELSE scan
    /\ UNCHANGED <<workQueue, queues, si, task, todo, nextExt, spawned, done, prog,
                   runs, late>>

Worker(t) ==
    \/ WorkerLoop(t) \/ PopLocal(t) \/ PopPoolQueue(t)
    \/ PopOtherThreads(t) \/ RunTask(t) \/ WorkerNotify(t)

-----------------------------------------------------------------------------
(* The owner thread: submit() from outside the pool, then ~ThreadPool().  *)

\* Mutant: the thread loop written with i <= threadCount.
OwnerSpawnUnbounded ==
    /\ mpc = "construct"
    /\ spawned <= NumThreads
    /\ wpc' = [wpc EXCEPT ![spawned] = "loop"]
    /\ spawned' = spawned + 1
    /\ UNCHANGED <<workQueue, queues, si, task, todo, nextExt, mpc, scan,
                   done, runs, late, prog>>

\* ThreadPool(): threads.emplace_back(&workerThread, this, i) for each i;
\* the new thread starts its loop at once.  The queues are all made first.
OwnerSpawn ==
    /\ mpc = "construct"
    /\ spawned < NumThreads
    /\ wpc' = [wpc EXCEPT ![spawned] = "loop"]
    /\ spawned' = spawned + 1
    /\ UNCHANGED <<workQueue, queues, si, task, todo, nextExt, mpc, scan,
                   done, runs, late, prog>>

\* Every thread started: the constructor returns to the owner.
OwnerConstructed ==
    /\ mpc = "construct"
    /\ spawned = NumThreads
    /\ mpc' = "submit"
    /\ UNCHANGED <<workQueue, queues, wpc, si, task, todo, nextExt, spawned,
                   scan, done, runs, late, prog>>

\* submit(): localWorkQueue is null off the pool, so workQueue.push().
OwnerSubmit ==
    /\ mpc = "submit"
    /\ nextExt <= Len(External)
    /\ workQueue' = QueuePush(workQueue, External[nextExt])
    /\ nextExt' = nextExt + 1
    /\ UNCHANGED <<queues, wpc, si, task, todo, spawned, mpc, scan, done,
                   runs, late, prog>>

\* ~ThreadPool(): lock the pool mutex and cv.wait(lock, isEmpty).
OwnerDestroy ==
    /\ mpc = "submit"
    /\ nextExt > Len(External)
    /\ Destroy
    /\ mpc' = "isEmpty"
    /\ scan' = 0
    /\ UNCHANGED <<workQueue, queues, wpc, si, task, todo, nextExt, spawned, done,
                   runs, late, prog>>

\* isEmpty(): queue->empty() for each deque, unlocked, then
\* workQueue.empty().  False: cv.wait goes to sleep ("blocking").  True:
\* done = true, then join.
IsEmptyCheck ==
    /\ mpc = "isEmpty"
    /\ \/ /\ scan < NumThreads
          /\ DequeEmpty(queues[scan])
          /\ scan' = scan + 1
          /\ UNCHANGED <<mpc, done>>
       \/ /\ scan < NumThreads
          /\ ~DequeEmpty(queues[scan])
          /\ mpc' = "blocking"
          /\ UNCHANGED <<scan, done>>
       \/ /\ scan = NumThreads
          /\ workQueue # <<>>
          /\ mpc' = "blocking"
          /\ UNCHANGED <<scan, done>>
       \/ /\ scan = NumThreads
          /\ workQueue = <<>>
          /\ done' = TRUE
          /\ mpc' = "join"
          /\ UNCHANGED scan
    /\ UNCHANGED <<workQueue, queues, wpc, si, task, todo, nextExt, spawned, runs, late,
                   prog>>

\* cv.wait(): unlock the mutex and sleep until a notify_all().
OwnerBlock ==
    /\ mpc = "blocking"
    /\ mpc' = "waiting"
    /\ UNCHANGED <<workQueue, queues, wpc, si, task, todo, nextExt, spawned, scan,
                   done, runs, late, prog>>

\* joiner.wait() in ~ThreadPool(): join every thread in the vector.
OwnerJoin ==
    /\ mpc = "join"
    /\ \A t \in Started : wpc[t] = "exited"
    /\ mpc' = "joined"
    /\ UNCHANGED <<workQueue, queues, wpc, si, task, todo, nextExt, spawned, scan,
                   done, runs, late, prog>>

Owner ==
    \/ OwnerSpawn \/ OwnerConstructed
    \/ OwnerSubmit \/ OwnerDestroy \/ IsEmptyCheck \/ OwnerBlock \/ OwnerJoin

Next == Owner \/ \E t \in Threads : Worker(t)

\* Worker threads and the owner are OS threads: each is weakly fair.
Spec ==
    /\ Init /\ [][Next]_vars
    /\ WF_vars(Owner)
    /\ \A t \in Threads : WF_vars(Worker(t))

-----------------------------------------------------------------------------
(* Refinement: the pool implements Executor.                              *)

InQueues == {k \in Tasks : \E i \in Threads : k \in Range(queues[i])}
            \cup Range(workQueue)

Exec == INSTANCE Executor WITH
            queued <- InQueues,
            active <- {task[t] : t \in {u \in Threads : wpc[u] = "run"}},
            finished <- {k \in Tasks : runs[k] > 0},
            closed <- done,
            late <- late

-----------------------------------------------------------------------------
TypeOK ==
    /\ workQueue \in Seq(Tasks)
    /\ queues \in [Threads -> WorkStealQueues]
    /\ wpc \in [Threads -> {"unborn", "loop", "local", "global", "steal",
                            "run", "notify", "exited"}]
    /\ si \in [Threads -> 0..NumThreads]
    /\ task \in [Threads -> Tasks \cup {NoTask}]
    /\ spawned \in 0..NumThreads
    /\ mpc \in {"construct", "submit", "isEmpty", "blocking",
                "waiting", "join", "joined"}
    /\ done \in BOOLEAN
    /\ runs \in [Tasks -> Nat]

\* Pops and steals of different workers on the same deque never hand one
\* task to two workers, so no task runs twice.
NoTaskRunTwice ==
    \A k \in Tasks : runs[k] <= 1

\* The pool implements the executor: every task is started once from a
\* queue, shutdown happens with every queue empty, and each task submitted
\* before shutdown eventually runs (spec 4.4, law 6).
ExecutorRefined == Exec!Spec

\* Once ~ThreadPool() has begun it returns: isEmpty() eventually holds and
\* every worker sees done and is joined (spec law 5).
DestructorReturns ==
    (mpc = "isEmpty") ~> (mpc = "joined")

=============================================================================
