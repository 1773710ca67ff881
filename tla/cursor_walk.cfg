SPECIFICATION WalkSpec
CONSTANT Buffers <- MCBuffers
INVARIANTS WordMotions BracketsInnermost WrapKeepsAll
