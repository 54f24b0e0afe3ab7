CONSTANTS
    a = a
    b = b
    c = c
    NoTask = NoTask
    NumThreads = 3

    Tasks <- MCTasks
    Programs <- MCPrograms
INVARIANT TypeOK
INVARIANT NoTaskRunTwice
PROPERTY ExecutorRefined
PROPERTY DestructorReturns
\* The drain program's process ends once the pool is joined.
CHECK_DEADLOCK FALSE
SPECIFICATION Spec
