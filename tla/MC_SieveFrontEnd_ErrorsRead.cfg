\* three calls of sieve_script_parse_only / sieve_script_parse_string
CONSTANTS
    MaxCalls <- MCMaxCalls
    Null = NullV
    Uninit = UninitV
    NullV = NullV
    UninitV = UninitV
SPECIFICATION Spec
INVARIANT ErrorsWrittenBeforeRead
\* the caller stops after its last call
CHECK_DEADLOCK FALSE
