\* The deadline passes while the handler is about to answer.
CONSTANT MaxChunks = 1
SPECIFICATION TimeoutSpec
CHECK_DEADLOCK FALSE
INVARIANT OneAuthor
