\* lock and reopen overlap on a closed period.
SPECIFICATION PeriodsSpec
CONSTANTS
    Dates = {"today"}
    Today = "today"
    Admins = {a1, a2, a3, a4}
    Jobs <- MCJobs
    Connections = 2
    None = None
PROPERTY LockedIsImmutable
