\* A worker's fOk outlives the batch in which a check failed.
CONSTANTS
    Worker = {w1}
    Master = m
    Free = free
    nBatchSize = 1
    Word = 4
    MaxChecks = 2
SPECIFICATION Spec
INVARIANT FailureHasACause
