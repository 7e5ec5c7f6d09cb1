\* Spec 4.2/7: a failed discovery raises Auth or Connection (violated).
CONSTANTS
    Threads = {t1, t2}
    NoFilter = NoFilter
    NoSnapshot = NoSnapshot
    RetryCount = 3
    Names <- MCNames
    Services <- MCServices
    Catalog <- MCCatalog
    Filters <- MCFilters
SYMMETRY MCSymmetry
SPECIFICATION Spec
INVARIANT
    DiscoveryFailuresClassified
