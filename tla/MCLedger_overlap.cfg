\* A sale, its settlement, anticipation and reversal, and transfers, overlap.
SPECIFICATION Spec
CONSTANTS
    Entities = {"m1", "m2"}
    Codes <- MCCodes
    Keys <- MCKeys
    Dates = {"past", "today"}
    Today = "today"
    Chart <- MCChart
    Admins = {}
    Jobs <- NoJobs
    Connections = 3
    None = None
    EntryGrain = 1
    BalanceGrain = 1
    Cent = 4
    Sessions = {s1, s2, s3}
    Requests <- OverlapRequests
INVARIANTS
    TypeOK
    OneLockPerRow
    OneTxnPerKey
    TransferAllOrNothing
    AcknowledgedIsBooked
    TransfersNetZero
    ReversalsCancel
    ReceivableIffSale
    ResolvedByItsTxn
    DriftShowsInVersion
SYMMETRY MCSymmetry
