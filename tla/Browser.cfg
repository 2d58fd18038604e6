CONSTANTS
    Names <- MCNames
    Types <- MCTypes
    Card <- MCCard
    FILELIST_NFILES = 3
    ROWS = 5
SPECIFICATION Spec
INVARIANTS TypeOK ListIsPage PlaysTapes
CHECK_DEADLOCK FALSE
