SPECIFICATION Spec
CONSTANTS
    Docs <- MCDocs
    MaxEdits = 2
    Patient = TRUE
    Probes = {"tcp_inactive_conn_life"}
INVARIANTS CacheMatchesDoc GettersSeeLoaded
PROPERTIES ConfFollowsFile
CHECK_DEADLOCK FALSE
