\* Every short feature file over two benchmarks, with malformed lines.
CONSTANTS
    b1 = b1
    b2 = b2
    None = None
    Files <- MCFiles

SPECIFICATION Spec

INVARIANT ParsedAsCorpus

\* parseFeatures returns or raises; nothing follows.
CHECK_DEADLOCK FALSE
