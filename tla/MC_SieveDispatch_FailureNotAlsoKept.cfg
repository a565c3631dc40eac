CONSTANTS
    i1 = i1
    null = null
    Items <- MCItems
    NoItem <- null
    RegChoices <- MCRegChoices
    MaxActions = 2
    MaxNotify = 2
    MaxDup = 1
SPECIFICATION Spec
INVARIANT FailureNotAlsoKept
\* one call of sieve_execute_bytecode returns: "done" is final
CHECK_DEADLOCK FALSE
