\* One connection shared by postings and period requests.
SPECIFICATION Spec
CONSTANTS
    Entities = {"m1", "m2"}
    Codes <- MCCodes
    Keys <- MCKeys
    Dates = {"past", "today"}
    Today = "today"
    Chart <- MCChart
    Admins = {a1, a2}
    Jobs <- PastJobs
    Connections = 1
    None = None
    EntryGrain = 1
    BalanceGrain = 1
    Cent = 4
    Sessions = {s1, s2, s3}
    Requests <- SerialRequests
INVARIANTS
    BalanceMatchesEntries
    BooksBalance
    ResolvedOnce
PROPERTIES
    ReceivableOneWay
    NoBookingInBlockedPeriod
SYMMETRY MCSymmetry
