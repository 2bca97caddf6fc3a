\* One connection: period requests run one after another, and one of them reopens.
SPECIFICATION PeriodsSpec
CONSTANTS
    Dates = {"today"}
    Today = "today"
    Admins = {a1, a2, a3, a4}
    Jobs <- MCJobs
    Connections = 1
    None = None
PROPERTY StatusOneWay
