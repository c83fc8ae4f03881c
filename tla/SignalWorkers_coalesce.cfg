CONSTANT EmptyFiles = {}

SPECIFICATION Spec

INVARIANT CompletionNotLost

CHECK_DEADLOCK FALSE
