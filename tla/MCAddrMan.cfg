\* Two full new buckets and a full tried bucket, all operations and restarts.
CONSTANTS
    Service = {"a1", "a2", "b", "c"}
    Source = {"s1", "s2"}
    NewBucket = {"n1", "n2"}
    TriedBucket = {"t1"}
    netaddr <- MCnetaddr
    GetNewBucket <- MCGetNewBucket
    GetTriedBucket <- MCGetTriedBucket
    BucketOrder <- MCBucketOrder
    ADDRMAN_NEW_BUCKET_SIZE = 1
    ADDRMAN_TRIED_BUCKET_SIZE = 1
    ADDRMAN_NEW_BUCKETS_PER_ADDRESS = 2
    ADDRMAN_TRIED_ENTRIES_INSPECT_ON_EVICT = 4
    ADDRMAN_GETADDR_MAX_PCT = 70
    ADDRMAN_GETADDR_MAX = 2500
    Time = {1}
    MaxId = 3
SPECIFICATION Spec
INVARIANTS TypeOK CheckOK BucketsBounded RestartRestores
PROPERTY TriedStaysKnown
