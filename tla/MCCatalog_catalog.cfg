\* Two sessions: seeds, creations, provisionings, changes and postings.
SPECIFICATION Spec
CONSTANTS
    Sessions = {s1, s2}
    Entities <- MCEntities
    Codes <- MCCodes
    Keys <- MCKeys
    Dates <- MCDates
    Today = 0
    PreviousMonth <- MCPreviousMonth
    CurrentMonth <- MCCurrentMonth
    Chart <- MCChart
    EntryGrain = 1
    BalanceGrain = 1
    Cent = 100
    Requests <- MCRequests
    Beginnings <- MCBeginnings
    SeedPrefixed <- MCSeedPrefixed
    None = None
INVARIANTS
    CatalogTypeOK
    AnsweredIsThere
    AllOrNothing
    BalancesFollowPostings
    ChangeNotLost
    SeedSettlesAnticipation
    SeedFailsOnlyIfDisturbed
PROPERTIES
    RequestsEnd
