SPECIFICATION Spec
CONSTANTS
    Logics <- MCLogics
    Confs <- MCConfs
    StartMayFail = FALSE
INVARIANTS UsersGoFirst NothingLeft ExitAgreed
PROPERTIES OrderlyEnd ProcessEnds
