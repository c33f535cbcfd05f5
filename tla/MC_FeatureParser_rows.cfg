\* Violation run: rows of different lengths in one file are accepted (spec.md 3: constant length).
CONSTANTS
    b1 = b1
    b2 = b2
    None = None
    Files <- MCFiles

SPECIFICATION Spec


INVARIANT UniformDatapoints

\* parseFeatures returns or raises; nothing follows.
CHECK_DEADLOCK FALSE
