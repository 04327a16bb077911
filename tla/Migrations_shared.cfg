CONSTANTS
    a = a
    b = b
    c = c
    Instances <- Three
    N = 2
    MaxFailures = 2
    MaxCrashes = 1
SPECIFICATION MigrationSpec
INVARIANT OneRunnerPerMigration
PROPERTY ImplementsTable
INVARIANT OrderedButForSkips
SYMMETRY Symmetry
