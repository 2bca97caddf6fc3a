\* Four requests of every kind, each with a connection of its own: handlers overlap.
SPECIFICATION PeriodsSpec
CONSTANTS
    Dates = {"today"}
    Today = "today"
    Admins = {a1, a2, a3, a4}
    Jobs <- MCJobs
    Connections = 4
    None = None
INVARIANTS
    PeriodsTypeOK
    OneWriterPerRow
    AuditNamesCloser
PROPERTIES
    CreationNeverOverwrites
    JobsAnswered
