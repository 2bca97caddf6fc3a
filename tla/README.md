# Verification of Open Ledger

TLA+ models of the ledger's write path, its accounting periods, its statements,
its provisioning and its seed script, TLC runs that check them on small
instances, and TLAPS proofs of what holds for every size. Paths of Python files
below are relative to the repository's `src/` package (`services/transaction.py`
and so on), other paths to the repository; `PROJECT.json` maps every definition
to its lines.

## 1. The system

Open Ledger is a FastAPI service over PostgreSQL. Every request gets a
SQLAlchemy `Session` from `get_db`, which commits when the handler has returned
and rolls back when an exception left it. Handlers are synchronous functions
that run in a thread pool, so many run at once, in one process or several; they
share nothing but the database.

| Component | State it keeps | Operations that change it | What makes it correct |
|---|---|---|---|
| Posting, `services/transaction.py` | `transactions`, `transaction_entries`; `current_balance` and `balance_version` of `chart_of_accounts` | post, deposit, withdraw, anticipate, settle, reverse, void | a key books once; entries balance; balances are the sums of entries; nothing is booked into a blocked period |
| Transfers, `services/transfer.py` | the two transactions of a transfer | transfer | both legs or none; the transfer accounts cancel out |
| Receivables, `services/receivable.py` | `receivables.status` | create (from post), settle, cancel (from settle, reverse) | one per sale that asks for it; PENDING is left once, together with the transaction that accounts for it |
| Periods, `services/period.py` | `accounting_periods` | create, close, reopen, lock | the status follows its arrows; LOCKED is final; audit columns agree |
| Session handling, `config/database.py`, `repositories/base.py` | the session's identity map, its unflushed and uncommitted changes | flush, commit, rollback | all changes of a request or none |
| Provisioning, `services/account.py`, `templates.py` | rows of `chart_of_accounts` | provision, update | one account per code and entity; a change does not undo a booking |
| Entities, `services/entity.py` | `entities` | create, update | unique `external_id`; changes of different columns both stay |
| Statements, `services/statement.py` | reads only (`account_balance_snapshots` too) | none | opening + movements = closing; every entry counts once |
| Rounding, `Decimal` and the scales of the columns | - | half up to cents, half even in responses, storing | no figure drifts further than its digits allow |
| Seed script, `migration/.seed/` | rows of all tables | one transaction of provisioning, postings and a snapshot | all or nothing; running it again changes nothing |
| Migrations, settings, logging | - | - | - |

**Interaction.** A route calls one service; `TransferService` calls
`TransactionService.post` twice; `post` calls
`PeriodService.validate_not_blocked` and `ReceivableService.create`; `settle`
and `reverse` call `ReceivableService.settle` and `.cancel` after `post`. All of
them use the session of the request. The seed script calls the services itself,
in one session that it commits at the end. Between requests there are no calls:
they meet in row locks, in unique indexes, and in what a SELECT of one sees of
the commits of another.

**What is hard.**

- READ COMMITTED: every statement sees the newest commits, so what a handler
  read a statement ago may be gone when it writes (period status, receivable
  status, balances).
- The identity map: a row that is loaded and still referenced keeps its
  attributes when a later SELECT returns it, `FOR UPDATE` or not. `post` holds
  the accounts it read in its list `accounts`; the locking SELECT of
  `_apply_balance_updates` therefore does not refresh them. The accounts
  `_resolve_account` reads in a transfer are not kept, and are read anew.
- Flushes: the session has `autoflush=False`. The INSERT of a transaction is
  flushed by `post` (and takes its key in the unique index from then on), a
  receivable by `save`; entries, balances and the new status of a receivable
  wait for the next flush or for the commit. An UPDATE names the columns whose
  value changed and the row's id, nothing else.
- Waiting: for a row lock until its holder ends, for a unique key likewise.
  Rows are locked in the order of the entries, so cycles happen, and
  PostgreSQL aborts a session of the cycle.
- The response goes out before `get_db` commits (the FastAPI versions
  `pyproject.toml` allows run the code behind a dependency's `yield` after the
  response), so a worker can die between them.
- Retries: clients repeat requests under the same `Idempotency-Key`.
- Check, then insert: `provision` and the seed script look a name up and insert it
  later; the `create` of entities and periods does not look. The unique constraint
  decides in any case; who waits for it holds what was inserted before, so two
  provisionings in opposite orders deadlock.
- A statement is put together by several SELECTs at READ COMMITTED, and takes a
  snapshot for an opening balance without asking what was booked after it.
- Amounts have three scales: eight decimals in an entry, six in a balance, two in
  a receivable and in a reported balance.

The hazards are listed with their lines in `PROJECT.json`.

## 2. The modules

| Module | Models |
|---|---|
| `Calendar` | the dates that postings and periods share |
| `Bookkeeping` | pure rules: entries of each operation, keys, validation, `Delta`, the gross amount of a receivable |
| `Amounts` | pure rules: what each column and each computed field does to a number |
| `Periods` | `PeriodService` under concurrent requests |
| `LedgerSessions` | the write path, composed with `Periods`: every step of a handler between two statements |
| `Journal` | abstract specification: a journal that grows by whole valid requests under fresh keys |
| `LedgerProperties`, `LedgerAmounts` | invariants, action properties, liveness and the refinement of `Journal`; the amounts of receivables |
| `Statement` | `StatementService`, next to a `Journal` that grows, new accounts and the nightly job; its properties |
| `Templates`, `Seed` | the templates, and the data set of the seed script |
| `Catalog`, `CatalogProperties` | `EntityService`, `AccountService`, the seed script and postings, as overlapping requests; their properties |
| `PeriodsProofs`; `LedgerProofs`, `OriginProofs`, `SerialProofs`; `StatementProofs`; `CatalogTypes`, `CatalogProofs` | theorems about `Periods`, the write path, `Statement` and `Catalog` |
| `AmountTheorems` | lemmas about sums over finite sets and about the roundings of `Amounts` |
| `MCPeriods`, `MCLedger`, `MCStatement`, `MCCatalog` | constants of the runs |

### Periods

`period[d]` is the status of the row of date `d` ("none" without a row) and
`closedBy[d]` its `closed_by`; both are the committed values. An administrator
`a` serves the request `job[a]` and goes through *read* (`get_by_id` and the
check of the status), *save* (`BaseRepository.save`: the flushed UPDATE or
INSERT, which waits while another handler has an uncommitted write of that row),
*commit*. Two sessions that have read the same status both get through. A
reopening clears `closed_by`; a locking does not write it. `None` is NULL. Notes, timestamps and `locked_by` are left out.

### LedgerSessions

A session serves one request, taken from `Requests`; a client that repeats a
request, or sends it to two workers, is two sessions with the same request. Its
steps:

| `pc` | Action | Code |
|---|---|---|
| idle | `Begin` | routing; the pool hands out a connection |
| sendkey, recvkey | `LookupSendKey`, `LookupRecvKey` | `transfer` looks up its two keys (the second only matters when the first is found) |
| resolve | `ResolveAccounts` | `_resolve_entity`, `_resolve_account` |
| original | `LoadOriginal`, `VoidTransaction` | `get_with_entries` in `reverse` and `void` |
| key | `LookupKey` | `get_by_idempotency_key` in `post` |
| period | `CheckPeriod` | `validate_not_blocked` |
| read | `ReadAccount`, once per entry | `get_by_entity_and_code` |
| read | `InsertTransaction` | validation, INSERT and flush: waits for the key, or breaks its constraint |
| lock | `LockAndApply`, once per entry | SELECT FOR UPDATE and the delta |
| lock | `FinishPost` | the receivable of a sale; on to the next payload |
| settle | `SettleReceivable` | `ReceivableService.settle` |
| cancel | `CancelReceivable` | `ReceivableService.cancel` |
| respond | `Respond` | 201 |
| commit | `Commit` | `get_db`: flush and COMMIT |
| any | `Crash` | the worker or its connection is lost: rollback |
| waiting | `AbortDeadlocked` | the deadlock detector: 500 |

Committed tables are `journal` (transactions with their entries), `account` and
`receivable`. A receivable is named by the key of its sale, as a sale has one
receivable at most. What a session has not committed is in `loaded` (attributes
as first read), `dirty` (locked account rows with the attributes now),
`inserted` and `rcvWrites`. `dirty[s][a].named` remembers that an UPDATE with
`current_balance` in it has been flushed: when the deltas of one payload cancel
(an anticipation whose fee equals the amount), SQLAlchemy writes the version and
leaves the balance out.

A read, a check and the Python after them are one step as long as they use one
statement; nothing in between can change under them. `Commit` is one step: the
flush before it can wait only for the row of a receivable, whose holder is
itself committing.

**Abstractions.** Money is an integer count of the smallest unit: what a column
makes of finer amounts is in `Amounts` and `Statement`. `Chart` is constant: no
endpoint changes the type, code or currency of an account (`AccountUpdate` has
name, enabled and custom_data), and accounts that are added later only turn a
422 into a booking. The status of transactions is left out: `post` writes
COMMITTED and `void` refuses that, so PENDING and VOIDED never occur.
Descriptions, custom data, `reference_id`s a client puts into a plain posting,
and timestamps are left out. `Txn.by` together with the key stands for the row's
random id: two rows of two handlers differ even when everything else is equal.

### Journal

The abstract ledger has one variable, the set of booked transactions, and one
action: a request adds valid transactions under keys that are fresh, and the two
keys of a transfer become used together. `LedgerProperties!Abstract` maps the
sessions' `journal` to it; what is uncommitted is invisible.

The same module is the write side of `Statement`, with the instance's
transactions as the valid ones: what is shown for the sessions (they implement
`Journal`) is what the readers rely on.

### Amounts

Amounts are integers in a unit finer than every column; `EntryGrain`,
`BalanceGrain` and `Cent` are the last digits of an entry, of a balance and of a
receivable. `RoundHalfUp` is PostgreSQL's rounding of a numeric and the
`quantize(..., ROUND_HALF_UP)` of a receivable; `RoundHalfEven` is the
`quantize` without an argument that makes the reported `rounded` balance.
(`.docs/open-ledger-full-spec.md:1233` asks for HALF_UP throughout; the two
differ on exact halves only.) `LedgerAmounts` applies `Created` to the sales the
sessions book, so that the receivable's three amounts are checked on what the
handlers really store.

### Statement

A reader `r` serves one query, SELECT by SELECT:

| `pc` | Action | Code |
|---|---|---|
| idle | `Ask` | routing; an `as_of` in the future is refused |
| entity | `RequireEntity` | `_require_entity`: 404 without the entity |
| accounts | `ReadAccounts` | `get_by_entity`; without `as_of` its `current_balance`s are the answer |
| opening | `ReadSnapshot`, `MissSnapshot` | `get_latest_before`, account by account |
| opening | `ReadEntriesBefore` | all earlier entries of an account without a snapshot |
| opening | `AnswerBalance`, `ReadRows` | the sum; or the SELECT of the period and the lines |

Meanwhile `Book` commits what one request books, `OpenAccount` is a committed
provisioning, and `TakeSnapshot` the nightly job. That job is not in the
repository (only its table, its repository class and the documents that describe
it); it is modelled as what the code takes a snapshot for, and marked external.
Rounding is part of `Book` (entries and balances as their columns store them)
and of the answers. `used`, `since` and the `upto` of an answer are history: the
snapshots taken, the journal when the query came and when it was answered. The
order of accounts is left open: nothing sorts them. Commits are requests the
write path accepts: balanced (the instances and the model have one currency) and
with keys of their own; the key stands for the row's id in the order by date
and id too. A statement whose end lies before its start is not refused, and
shows the opening balance and no lines.

### Catalog

Every table here is a map from names to rows, `rows`, where a name is what a
unique constraint says of the row: `external_id`, entity and code,
`idempotency_key`, period date. A request is the list of calls its service makes
(`CallsOf`), and `made` counts those behind it, so `provision` and the seed
script differ from `create` only in their lists: *require* (404), *ensure* (look
up, then insert what is missing), *insert* (without looking: 409 when it is
taken), *update* (read, then write the columns that changed), *post*, *resolve*
(a receivable). The calls of the seed are built from `Seed` by the same
operators of `Bookkeeping` that the sessions use for clients.

`inserted` and `updated` are the flushed rows and columns of a session; a name
it has touched makes others wait; cycles of waiting are resolved by
`AbortDeadlocked`, as in `LedgerSessions`. Of the services here only
`EntityService.create` turns a broken constraint into 409; elsewhere it is an
uncaught `IntegrityError` (`Uncaught`: 500, or the end of the script).

A posting is two steps here. `ReadAccounts` is everything `post` reads without a
lock: the key, the period, the accounts with their balances, which it keeps
(`loaded`). `PostTxn` is everything from the INSERT on: it needs the key and the
rows to be free, and writes each balance as it was *read* plus the deltas of the
entries, whatever has been committed since (`NewBalance`). So the lost update of
section 3 occurs in this module as well. A key that another session commits
between the two steps breaks the constraint (`LoseKey`). The order in which the
rows are locked, with the deadlocks of two postings, is left to
`LedgerSessions`; versions are left out, and an UPDATE names the balance only if
its value has changed (`Moved`).

`SeedPrefixed` is the set of external ids that begin with `seed-`, of which the
names of the sample entities are some: the script takes any of them for a sign
that it has run. Snapshots have no unique constraint; the name of their row is
what the script looks for before it inserts it.

## 3. The runs

Passing runs:

| Run | Instance | Properties |
|---|---|---|
| `periods_concurrent` | 1 date, 4 requests of every kind, 4 connections | `PeriodsTypeOK`, `OneWriterPerRow`, `AuditNamesCloser`, `CreationNeverOverwrites`, `JobsAnswered` |
| `overlap` | 3 sessions; transfers both ways and to oneself; a sale, its settlement, anticipation and reversal; the reversal of a leg | `TypeOK`, `OneLockPerRow`, `OneTxnPerKey`, `TransferAllOrNothing`, `AcknowledgedIsBooked`, `TransfersNetZero`, `ReversalsCancel`, `ReceivableIffSale`, `ResolvedByItsTxn`, `DriftShowsInVersion` |
| `live` | 2 fair sessions, every operation and every refusal | `SessionsFinish`, `RefinesJournal`, `ReceivableAddsUp` |
| `serial` | 3 sessions, 2 administrators, 1 connection | `BalanceMatchesEntries`, `BooksBalance`, `ResolvedOnce`, `ReceivableOneWay`, `NoBookingInBlockedPeriod` |
| `reads` | 1 reader, 4 commits, a late account, 2 snapshots | `StatementTypeOK`, `CountsEachEntryOnce`, `StatementAddsUp`, `DriftBounded`, `StoredEntriesBalance`, `ReportedNearBooks` |
| `catalog` | 2 fair sessions; seed, create, provision, update, two postings on one account; 4 beginnings | `CatalogTypeOK`, `AnsweredIsThere`, `AllOrNothing`, `BalancesFollowPostings`, `ChangeNotLost`, `SeedSettlesAnticipation`, `SeedFailsOnlyIfDisturbed`, `RequestsEnd` |

`Connections` is the pool's limit. With 1, requests run one after the other:
that is the reading under which the balances, the periods and the receivables
are right, and the runs with two connections below show that overlapping
requests break exactly these. `DriftShowsInVersion` says what is left of the
balances then: an account whose version equals the number of its entries has the
right balance, so a lost update can be found by counting.

`AuditNamesCloser` says what the audit column is worth when period requests
overlap: an open row names nobody, a closed one somebody, and whoever is named has
closed the row. It does not say that a locked row names somebody: a locking that
overlaps a reopening writes LOCKED over a row whose closer has been cleared. With
one request at a time every locked row names its closer (`SerialAudit`, section 4).

`reads` says what a statement is worth although its SELECTs see different
moments: what was booked before the question is counted exactly once, what
commits meanwhile at most once, and the lines always add up to the closing
balance. The rest of that run bounds rounding: a balance strays from its entries
by half a digit of each column per entry and no more, and by nothing while
clients send no more than six decimals. (That the *stored* entries have six does
not suffice: enough entries of one request that are each rounded to eight
decimals can move the sum by a digit of the sixth.)

`catalog` shows that requests which lose a race for a name, a lock or a worker
leave nothing behind, that those who were answered find what they were answered
about, and that the seed is complete, absent, or somebody else's.
`BalancesFollowPostings` is about accounts on which one session alone has posted
(`Posters`): a change of the account that reads the row before the posting and
writes it afterwards does not undo the balance, because its UPDATE names only
what it changed. Of accounts with two posters it claims nothing. The run has two
deposits on one account that do lose one of their deltas, which is what `v_lost`
shows statement by statement.

Runs that find the code disagreeing with what its documents say:

| Run | Property | What happens |
|---|---|---|
| `v_lost` | `BalanceMatchesEntries` | both postings read the balance, one commits, the other locks and writes its own sum |
| `v_closed` | `NoBookingInBlockedPeriod` | check, close, commit |
| `periods_locked` | `LockedIsImmutable` | reopen reads CLOSED, lock commits, reopen overwrites LOCKED with OPEN |
| `v_oneway` | `ReceivableOneWay` | settle and reverse both read PENDING |
| `periods_oneway` | `StatusOneWay` | create, close and reopen, one after another |
| `v_opening` | `OpeningIsBalanceBefore` | a snapshot two days old is taken for the opening balance, and the entries between are in no line and no balance |

Of `periods_oneway` the documents themselves disagree. `README.md:55` says of a
period's status that it "progresses one-way: `open` → `closed` → `locked`";
`.docs/open-ledger-full-spec.md:328-332` lists "closed → open (authorized
re-opening for corrections)" among the transitions, and the code has a `reopen`
and a route for it. The code follows the specification, and one line of the README
is wrong; nothing overlaps in that run. What both documents agree on, that LOCKED
is final, is what `periods_locked` is about.

Three more observations, which no run is about. `README.md:131` says a reversal
restores all balances: `ReversalsCancel` shows the entries cancel, the balances
do as far as no update is lost. Reversing one leg of a transfer is possible and
unbalances the transfer accounts, so `TransfersNetZero` is about the legs alone.
A settlement or reversal that is delivered twice is answered 422 the second
time, because the receivable is no longer PENDING.

**Bounds.** Three sessions over one or two accounts are enough for every race
between two handlers and a third that finds their result, for deadlocks of two
and three, and for a retry after a crash; the code compares at most two parties
at a time (a holder and a waiter, a reader and a committer). One connection at a
time, three sessions are a sale, its settlement and the reversal that has to be
refused, a reversal and a second one under another key, or a reversal and a
settlement under one key, which is a replay in `post`. Requests repeat
without limit except by the number of sessions. Two dates ("past", "today")
suffice, because a date is only ever compared with that of a period; `Today` is
where reversals go. Sessions and administrators are symmetric where no temporal
property with fairness is checked. The entities are a merchant and a bank
customer with the accounts their templates give them that the requests touch;
amounts are small and pairwise different, so that a wrong delta changes a sum,
except for the anticipation's fee, which equals its amount on purpose. With a
cent of 4 units, the gross, fee and net amounts of the two sales fall on and off
the halves.

Readers do not affect each other or anybody else, so one is enough; each is
asked for every kind of query, and for a statement that ends before it starts. A digit of an entry is 2 units, of a balance 8, a
cent 32: each is a proper multiple of the finer one, and the amounts have digits
beyond all three. `MaxSnapshots` = 2 allows two snapshots of different dates of
one account, two rows of one account and date (no constraint forbids that), and
one for each account. The commits lie before, on and behind the boundary of the
statement and of three dates `as_of`.

The catalog starts empty, with a closed month, with a shop, or with a shop and
its accounts; the two sessions run any two of eleven requests, the seed script
twice and two deposits on one account included. Two suffice for every race of this module, as names and rows are
only ever contended by a holder and a waiter. The seed's data are the script's
own; a month is a fixed distance from today.

**Fairness.** `WF` of each session's and each administrator's step, in `Catalog`
too: a handler that runs goes on running, and PostgreSQL resolves the deadlocks
it detects. None for beginning a request (clients may stop) and none for
crashes. A waiting session's step is disabled, so weak fairness claims nothing
about who gets a lock first. Deadlock checking stays on: the only states without
a proper step are those in which every handler is over (`Quiet`, `AllJobsOver`).

**Assumptions in properties.** `TransferAllOrNothing` and the refinement assume
that no header starts with the prefixes `transfer:send:` and `transfer:recv:`
(`KeysNotReserved`), which the code does not check; `ResolvedByItsTxn` assumes
that different requests have different keys (`KeysDistinct`); `ReversalsCancel`
assumes that reversals of one transaction share a key and others do not, as the
key `README.md` recommends makes them (`ReversalKeysRecommended`);
`ReceivableAddsUp` is exact for sales whose gross amount is not negative, which
the code does not check either. `ResolvedOnce` assumes nothing of keys. All are conditions on `Requests`, true of the
instances. `AnsweredIsThere` believes a seed script that finds nothing to do only
if no client uses a name of the sample data (`SampleNamesReserved`): the script
takes any one of its entities for all of them. In the instance of `Catalog` no
client uses the seed's keys either, which no theorem needs.

## 4. The proofs

The constants are arbitrary: any finite set of sessions and administrators, any
chart of finitely many accounts, any requests, any grains of the columns that
divide each other, any readers, queries and commits, any provisioning lists and
any ledger to begin with. The assumptions are
`CalendarAssumption`, `ChartAssumption`, `PeriodsAssumption`,
`SessionsAssumption`, `AmountsAssumption`, `StatementAssumption`,
`SeedAssumption` (the chart, the keys and the calendar have room for the sample
data) and `CatalogAssumption` (a request has the fields its schema asks for, and a
ledger to begin with is one that could have come about: rows of the tables'
columns, a transaction for each receivable and an account for each entry,
balances that are the sums of their entries). TLC
evaluates them in every run of the modules they are about. A theorem whose property
is conditional (section 3) is conditional in the same way.

Of the periods and the write path:

| Theorem | Property | The invariant behind it |
|---|---|---|
| `PeriodsTypeCorrect`, `PeriodRowsExclusive` | `PeriodsTypeOK`, `OneWriterPerRow` | `RowInv`: types, exclusion, and a creation waiting to commit has no row under its date |
| `PeriodCreationSafe` | `CreationNeverOverwrites` | the same |
| `AuditCorrect` | `AuditNamesCloser` | the property itself, on `RowInv`: whose name a commit writes is done with it, and stays so |
| `SerialAudit` | (`BlockedIffClosedBy`) | one request is open, so the status it read is still there |
| `TypeCorrect` | `TypeOK` | `ShapeInv`: also what a session has asked, that it has read every account behind its cursor, and that all booked entries are on the chart |
| `RowLocksExclusive` | `OneLockPerRow` | `dirty` grows only by `LockAndApply` |
| `KeysUnique` | `OneTxnPerKey` | `KeysApart`: the keys of two sessions' flushed rows, and of the journal, are apart; a payload past its insertion owns its key |
| `AcknowledgedBooked` | `AcknowledgedIsBooked` | every key of the request is on the list, inserted, or in the journal |
| `TransfersAtomic` | `TransferAllOrNothing` | only transfers make prefixed keys, and one that reaches its commit has both |
| `JournalRefined` | `RefinesJournal` | everything inserted is balanced and in the right currency; then each step is a `Book` or a stutter |
| `SalesHaveReceivables` | `ReceivableIffSale` | a session's uncommitted receivables are those of its uncommitted sales, up to the one being posted |
| `VersionVouchesForBalance` | `DriftShowsInVersion` | `BalanceInv`: a loaded row obeys the property itself; a changed row is the loaded one with the entries applied so far |
| `ResolvedByTransactions` | `ResolvedByItsTxn` | `OriginInv`: what a session has on its list, has inserted, or is booked, is made for a request; `ResolvedInv`: a status is written for the transaction of that request |
| `ReversalsCancelOut` | `ReversalsCancel` | `OriginInv`: a reversal mirrors its original and has the key of its request |
| `TransfersCancel` | `TransfersNetZero` | `LegsInv`: two legs under one client's key were made for one request |
| `ReceivablesAddUp` | `ReceivableAddsUp` | the bounds of the rounding, applied to what is booked |
| `SerialPeriodsRespected` | `NoBookingInBlockedPeriod` | one connection: what `CheckPeriod` saw holds until the commit; administrators cannot move |
| `SerialReceivablesOnce` | `ReceivableOneWay` | one connection: what is about to be written to a receivable was PENDING |
| `SerialBalancesMatch` | `BalanceMatchesEntries` | one connection: `CountInv`: a loaded version is the committed one, so versions count every entry, and then `DriftShowsInVersion` says the rest |
| `SerialBooksBalance` | `BooksBalance` | the same, and that what is booked balances per entity and currency |
| `SerialResolvedOnce` | `ResolvedOnce` | one connection: `OnceInv`: a PENDING receivable has no settlement and no reversal, any other at most one |

Of the statements:

| Theorem | Property | The invariant behind it |
|---|---|---|
| `StatementTypeCorrect` | `StatementTypeOK` | `ShapeInv`: types, a finite journal with one transaction per key, and where in its SELECTs a reader has read what |
| `StatementSums` | `StatementAddsUp` | the same; a finite journal can be sorted by date and id |
| `EachEntryCountsOnce` | `CountsEachEntryOnce` | `CountInv`: on the accounts a reader is through with, the opening has every entry before the start that was there when it was asked, some of the later ones, and the snapshots taken |
| `StoredSidesBalance` | `StoredEntriesBalance` | an amount is stored within half a digit, added up over the two sides |
| `DriftIsBounded` | `DriftBounded` | `DriftInv`: a balance is a number of its digits, and each commit adds half a digit of it and half a digit per entry |
| `ReportedIsNear` | `ReportedNearBooks` | the same, added up over the accounts listed, and the bound of the last rounding |

Of entities, provisioning, postings beside them, and the seed script:

| Theorem | Property | The invariant behind it |
|---|---|---|
| `CatalogTypeCorrect` | `CatalogTypeOK` | `ShapeInv`: what a session has flushed and where in its list of calls it is; behind it `CallsType`, which says of every request, the seed's list included, what it calls and in which place |
| `NothingHalfDone` | `AllOrNothing` | the same; a session's rows carry its name, and only `Commit` adds rows |
| `AnsweredRowsThere` | `AnsweredIsThere` | `AnsweredInv`: each call a session has made has left its row in sight, and the entities of the sample data come with all its rows |
| `BalancesAreBooked` | `BalancesFollowPostings` | `BalanceInv`, of accounts on which nobody has committed a posting: what a session sees of a balance (`SeesBooked`), and what its posting has read of it (`ReadsBooked`), is what is booked, its own flushed entries included; and who writes a balance has posted (`OwnsBalances`) |
| `ChangesKept` | `ChangeNotLost` | `ChangeInv`: between its read and its write nobody else changes the column of a session without rivals, then its change stands |

**Why the invariants are needed.** The properties are not inductive. `OneTxnPerKey`
speaks of inserted transactions and says nothing about a session that has looked
the key up and not inserted it, or about the same session's second payload.
`DriftShowsInVersion` speaks of committed rows; a row that is loaded before
another session commits is out of date when it is written, and the proof that
the version it then leaves is too small needs what the row was when it was loaded
(`Snapshot`) and which entries have been added to it since (`Tally`).
`ResolvedByItsTxn` speaks of receivables and the journal; whether the transaction
that a replay returns is the one the request is about is known only from the
request every transaction was made for (`MadeFor`). `CountsEachEntryOnce` speaks
of an answer; before there is one, the opening balance counts some accounts up
to now and others not at all, and what it counts of the entries that came in
between depends on when each account was read. `BalancesFollowPostings` speaks of
committed rows, and says nothing of a session that is about to commit: what it
commits is right if nobody else has posted to the account until then, since what
it read is then what is booked still (`ReadsBooked`), and if changes of the
account by others leave the balance out (`OwnsBalances`). A second poster ends
the claim, and its theorem with it. `ChangeNotLost` speaks of the end of a request; that the value an
update is compared with is still the committed one is `ChangeStands`.

**Sums.** A sum over a set is a fold, about which nothing can be proved by
induction here. `AmountTheorems` does without: its lemmas (a sum of two parts, of
a sum, of sums, of equal summands, of bounded ones) take a smallest subset for
which the claim fails, which exists for every finite set, and compare it with
itself less one element, which the recursion of the fold's definition relates.
`OrderExists` in `StatementProofs` uses the same argument for the order of a
statement's lines. Everything about balances and entries rests on these.

`SerialProofs` reuses the theorems of `PeriodsProofs`: `StepOfPeriods` shows
that every step of the composition is a step of `Periods` or leaves it alone.
(The composed pool counts sessions too, so it hands out no connection that
`Periods` alone would not.)

**What the proofs changed.** Seven statements that held on the instances were not
right as they stood. `ReceivableAddsUp` claimed exact amounts for every fee
without a fraction of a cent; for a negative gross amount, which no code refuses,
rounding half up goes the other way. `DriftBounded` claimed no drift while stored
entries have no more digits than a balance, where it must be the entries as sent.
The entries a statement is about, in `CountsEachEntryOnce`, were described for
statements that end after they start; the code does not ask for that, and the run
now has one that does not. `ResolvedOnce` assumed distinct keys, and does not
need them: with one connection, the status alone keeps a receivable from being
resolved twice. `AnsweredIsThere` believed a seed that finds nothing to do,
whatever clients name their entities. A posting of `Catalog` took a sale with
`expected_settlement_date` and no revenue, which `post` refuses; no instance had
one. And `BalancesFollowPostings` spoke of every account while a posting read
and wrote its balances in one step; with the read where the code has it, the claim
is about a single poster.

**Only model-checked.** `SessionsFinish`, `JobsAnswered` and `RequestsEnd`, as
liveness under fairness is out of the prover's reach.
`SeedSettlesAnticipation` and `SeedFailsOnlyIfDisturbed` are about the figures of
one fixed data set, for which a proof would be a computation over its
transactions; TLC does it.
The disagreements of section 3 are counterexamples. Every other property of a
passing run is a theorem.

Some hazards in `PROJECT.json` have no property, and the note of each says why:
what goes wrong there is excluded by an assumption of the property nearest to it
(a second key for a reversal, a reserved prefix, a key used for two requests), or
is within what a property allows and no document decides (an acknowledgement whose
commit is lost, a statement with one leg, two snapshots of one date, a tie that is
rounded to even).

## 5. What is not modelled

- The seed script's `--reset` (`reset.wipe`), its guard of the environment and the
  summary it prints. The guard looks at settings; the wipe is a maintenance command.
- Settings, logging, the application's wiring, and the migrations, which run by
  hand before the service starts.
- The nightly job, of which the repository has the table it writes and no code
  (external in `Statement`).
- Parsing and serialisation by pydantic; the listing endpoints, with their
  filters and pages, which change nothing.
- An account that is there with another type or name than the list of a
  provisioning says: `provision` takes it as it is, and the instances have one type
  per code.
- Overflow of a numeric column and of the `Decimal` context's precision, which lie far
  beyond the amounts of a ledger.
- `validate_open`, `delete` and `list_by_field` have no caller.

## 6. Plan

In order of importance; the first ten are done.

1. `Bookkeeping`, `Periods` with their runs.
2. `LedgerSessions` with `LedgerProperties`, its runs and the findings.
3. `Journal` and its refinement.
4. `PeriodsProofs` and the types in `LedgerProofs`.
5. The rest of `LedgerProofs`, `SerialProofs`.
6. `Amounts`, `LedgerAmounts`, and `Statement` on top of `Journal`.
7. `Templates`, `Seed` and `Catalog`: provisioning, entities, the seed script.
8. `TransfersNetZero` and `ReversalsCancel` on the write path.
9. `OriginProofs`, the rest of `SerialProofs`, `AmountTheorems`
   and `StatementProofs`: every safety property of the write path and of the
   statements as a theorem.
10. `CatalogTypes`, `CatalogProofs`: every safety property of `Catalog` that is not
   about the figures of the sample data.
11. A client that retries until it has an answer, composed with the sessions.
