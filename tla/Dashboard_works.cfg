\* Every page, with two rows, one to a page, and one more written meanwhile.
CONSTANTS
    Pages = {"overview", "products", "passports", "analytics", "users", "activity", "admin"}
    PageSize = 1
    FirstRows = 2
    MaxLoads = 2
    MaxAsks <- Asks
    MaxWrites = 1
    Nothing = Nothing
    Failed = Failed
SPECIFICATION DashboardSpec
INVARIANTS
    ScreenAnswersControls
    EntriesOnce
PROPERTIES
    LoadingEnds
