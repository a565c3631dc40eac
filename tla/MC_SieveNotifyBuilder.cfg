CONSTANTS
    Templates <- MCTemplates
    BodyLen = 3
SPECIFICATION Spec
INVARIANT ExpandsAsSpecified
\* one call of build_notify_message returns: a state at the terminator is final
CHECK_DEADLOCK FALSE
