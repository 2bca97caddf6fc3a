\* Two postings touch one account.
SPECIFICATION Spec
CONSTANTS
    Entities = {"m1", "m2"}
    Codes <- MCCodes
    Keys <- MCKeys
    Dates = {"past", "today"}
    Today = "today"
    Chart <- MCChart
    Admins = {}
    Jobs <- NoJobs
    Connections = 2
    None = None
    EntryGrain = 1
    BalanceGrain = 1
    Cent = 4
    Sessions = {s1, s2}
    Requests <- CashRequests
INVARIANT BalanceMatchesEntries
