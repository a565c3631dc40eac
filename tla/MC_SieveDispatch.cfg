CONSTANTS
    i1 = i1
    null = null
    Items <- MCItems
    NoItem <- null
    RegChoices <- MCRegChoices
    MaxActions = 2
    MaxNotify = 2
    MaxDup = 1
SPECIFICATION Spec
INVARIANT CancelKeepHonoured
INVARIANT KeepAtMostOnce
INVARIANT OkMeansDisposed
INVARIANT TrackedOnlyIfDisposed
INVARIANT NotifyAtMostOnce
PROPERTY ImplementsExecution
\* one call of sieve_execute_bytecode returns: "done" is final
CHECK_DEADLOCK FALSE
