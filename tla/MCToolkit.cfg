\* Two caller threads sharing one toolkit against a changing gateway: safety.
CONSTANTS
    Threads = {t1, t2}
    NoFilter = NoFilter
    NoSnapshot = NoSnapshot
    RetryCount = 3
    Names <- MCNames
    Services <- MCServices
    Catalog <- MCCatalog
    Filters <- MCFilters
SYMMETRY MCSymmetry
SPECIFICATION Spec
INVARIANTS
    TypeOK
    SnapshotWhole
    ResultClassified
    SelectionMatchesFilters
    LazyFetchBounded
PROPERTIES
    ToolCacheSpec
