\* A period closes between the check and the commit.
SPECIFICATION Spec
CONSTANTS
    Entities = {"m1", "m2"}
    Codes <- MCCodes
    Keys <- MCKeys
    Dates = {"past", "today"}
    Today = "today"
    Chart <- MCChart
    Admins = {a1, a2}
    Jobs <- PastJobs
    Connections = 2
    None = None
    EntryGrain = 1
    BalanceGrain = 1
    Cent = 4
    Sessions = {s1}
    Requests <- PeriodRequests
PROPERTY NoBookingInBlockedPeriod
