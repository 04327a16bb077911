SPECIFICATION Spec
CONSTANTS
    MaxHosts = 2
    Clients = {c1}
    History = {y1, y2}
    Recorded = {y1}
    MaxMigrations = 2
    None = None
    MaxWrites = 1
    MaxFaults = 2
INVARIANTS
    StaysReadable
    OneMigrationAtATime
    LockedOutOnlyIfAbandoned
PROPERTIES
    MigrationsStartAligned
    MigrationsEnd
\* The hosts may be gone.
CHECK_DEADLOCK FALSE
