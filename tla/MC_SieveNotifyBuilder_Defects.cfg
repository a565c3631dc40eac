\* one template with the three malformed uses of $text[N]
CONSTANTS
    Templates <- DefectTemplates
    BodyLen = 3
SPECIFICATION Spec
INVARIANT ExpandsExactly
CONSTRAINT WithBody
\* one call of build_notify_message returns: a state past the text is final
CHECK_DEADLOCK FALSE
