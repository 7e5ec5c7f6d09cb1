\* Two caller threads: every operation started returns or raises.
CONSTANTS
    Threads = {t1, t2}
    NoFilter = NoFilter
    NoSnapshot = NoSnapshot
    RetryCount = 3
    Names <- MCNames
    Services <- MCServices
    Catalog <- MCLiveCatalog
    Filters <- MCLiveFilters
SPECIFICATION Spec
PROPERTIES
    OpCompletes
