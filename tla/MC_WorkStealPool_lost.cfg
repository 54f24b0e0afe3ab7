CONSTANTS
    a = a
    b = b
    c = c
    NoTask = NoTask
    NumThreads = 2

    Tasks <- MCLostTasks
    Programs <- MCLost
PROPERTY ExecutorRefined
\* The process ends once the pool is joined.
CHECK_DEADLOCK FALSE
SPECIFICATION Spec
