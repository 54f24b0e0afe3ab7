--------------------------- MODULE MC_WorkStealPool ---------------------------
(***************************************************************************)
(* Scenarios for WorkStealPool.                                            *)
(***************************************************************************)
EXTENDS WorkStealPool, TLC

CONSTANTS a, b, c

MCTasks == {a, b, c}

\* Nested submits: a submits b then c onto its worker's deque, where the
\* worker pops c from the front while the other worker steals b from the
\* back.  The pool is never destroyed, as in the receiver.
MCNested == [external |-> <<a>>,
             spawns |-> (a :> <<b, c>>) @@ (b :> <<>>) @@ (c :> <<>>),
             destroy |-> FALSE]

\* The receiver's use: only the main thread submits, tasks submit nothing;
\* here the owner also destroys the pool.
MCDrain == [external |-> <<a, b, c>>, spawns |-> [k \in MCTasks |-> <<>>],
            destroy |-> TRUE]

\* Both programs in one run.
MCPrograms == {MCNested, MCDrain}

\* Destruction while a running task submits: a submits b.
MCLostTasks == {a, b}
MCLost == {[external |-> <<a>>, spawns |-> (a :> <<b>>) @@ (b :> <<>>),
            destroy |-> TRUE]}

=============================================================================
