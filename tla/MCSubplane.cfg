\* Every application, a shared cache under edits, and the JSON answers.
SPECIFICATION MCSpec
CONSTANTS
    Separators <- MCSeparators
    Runs <- MCRuns
    r1 = r1
    r2 = r2
    Requests = {r1, r2}
    Askers <- MCAskers
    Targets = {"", "clash", "sing-box"}
    Nodes <- Protocols
    Rows <- MCRows
    InitialTables <- MCTables
    MaxChanges = 1
    Leaves = {"email", "uuid", "token"}
    Secrets = {"token"}
    MaxLeaves = 4
    Statuses = {201, 403}
    Codes = {"forbidden", "internal_error"}
INVARIANTS
    AnswerWasTrue
    EntitledAndParseable
    CoreMissesNothing
    NoClientIsDemoted
    ForcedDialectSuitsEveryBuild
    NothingBesideTheRefusal
\* A response that was written is over.
CHECK_DEADLOCK FALSE
