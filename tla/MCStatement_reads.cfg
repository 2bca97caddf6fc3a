\* One reader, four commits, a late account and a nightly job.
SPECIFICATION Spec
CONSTANTS
    Entities = {"c", "d"}
    AccountType <- MCAccountType
    FirstAccounts <- MCFirstAccounts
    Commits <- MCCommits
    Today = 3
    Readers = {r1}
    Queries <- MCQueries
    NightlyDates = {1, 2}
    MaxSnapshots = 2
    None = None
    EntryGrain = 2
    BalanceGrain = 8
    Cent = 32
INVARIANTS
    StatementTypeOK
    CountsEachEntryOnce
    StatementAddsUp
    DriftBounded
    StoredEntriesBalance
    ReportedNearBooks
