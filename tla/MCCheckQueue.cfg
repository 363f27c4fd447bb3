\* The script check queue: two workers, batches of up to three checks, Quit at any time.
CONSTANTS
    Worker = {w1, w2}
    Master = m
    Free = free
    nBatchSize = 2
    Word = 8
    MaxChecks = 3
SPECIFICATION FairSpec
INVARIANTS TypeOK TodoAccounting WaitSound NoCheckOutlivesWait
PROPERTIES WaitReturns QuitStopsWorkers
