\* Wrappers that name their core as well.
SPECIFICATION MCSpec
CONSTANTS
    Separators <- MCSeparators
    Runs <- MCRuns
    r1 = r1
    r2 = r2
    Requests = {r1, r2}
    Askers <- CompoundAskers
    Targets = {"", "clash", "sing-box"}
    Nodes <- Protocols
    Rows <- MCRows
    InitialTables <- MCTables
    MaxChanges = 1
    Leaves = {"email", "uuid", "token"}
    Secrets = {"token"}
    MaxLeaves = 4
    Statuses = {201, 403}
    Codes = {"forbidden", "internal_error"}
INVARIANT VersionIsTheCores
\* A response that was written is over.
CHECK_DEADLOCK FALSE
