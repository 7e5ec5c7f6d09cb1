\* Spec 4.5: transient failures are retried retry_count times (violated).
CONSTANTS
    Threads = {t1, t2}
    NoFilter = NoFilter
    NoSnapshot = NoSnapshot
    RetryCount = 3
    Names <- MCNames
    Services <- MCServices
    Catalog <- MCCatalog
    Filters <- MCFilters
SYMMETRY MCSymmetry
SPECIFICATION Spec
INVARIANT
    TransientFailuresRetried
