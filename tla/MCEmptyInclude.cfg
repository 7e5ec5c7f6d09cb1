\* Spec 4.3: include=[] selects nothing (violated).
CONSTANTS
    Threads = {t1, t2}
    NoFilter = NoFilter
    NoSnapshot = NoSnapshot
    RetryCount = 3
    Names <- MCNames
    Services <- MCServices
    Catalog <- MCCatalog
    Filters <- MCEmptyIncludeFilters
SYMMETRY MCSymmetry
SPECIFICATION Spec
INVARIANT
    EmptyIncludeSelectsNothing
