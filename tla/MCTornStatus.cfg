SPECIFICATION Spec
CONSTANTS
    a1 = a1
    a2 = a2
    o1 = o1
    o2 = o2
    q = q
    Handlers <- MCHandlers
    Kind <- MCKind
INVARIANT StatusReplyConsistent
\* Every handler ends; nothing restarts one.
CHECK_DEADLOCK FALSE
