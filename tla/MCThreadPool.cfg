SPECIFICATION FairSpec
CONSTANTS
    Workers <- MCWorkers
    Tasks <- MCTasks
    Callers <- MCCallers
    NoTask <- MCNoTask
INVARIANTS
    ExactlyOnce
    WorkConserving
PROPERTIES
    ImplementsTaskPool
    EveryTaskCompletes
    DestructorReturns
