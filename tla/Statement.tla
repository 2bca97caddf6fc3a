---- MODULE Statement ----
(***************************************************************************)
(* StatementService: balances and statements are put together by several   *)
(* SELECTs at READ COMMITTED, while handlers commit transactions, open     *)
(* accounts, and a nightly job writes balance snapshots.  What commits is  *)
(* taken from Journal, the ledger that LedgerSessions implements, with the *)
(* rounding of Amounts; no update of a balance is lost here.               *)
(***************************************************************************)
EXTENDS Amounts, FiniteSets, Functions, Sequences

CONSTANTS
    Entities,       \* ids of rows in the entities table
    AccountType,    \* account <<entity, code>> -> its account_type
    FirstAccounts,  \* the accounts that are there at the start
    Commits,        \* sets of transactions, each what clients send in one request
    Today,
    Readers,        \* the handlers of the two reading endpoints
    Queries,        \* what clients may ask
    NightlyDates,   \* dates the nightly job may write snapshots of
    MaxSnapshots,   \* bounds the rows it writes
    None

Accounts == DOMAIN AccountType

(* A transaction; the key also orders, as the id does.                      *)
Entry == [account : Accounts, type : {"DEBIT", "CREDIT"}, amount : Int]
Txn == [key : Int, date : Int, entries : Seq(Entry)]

SideOf(t, type) ==
    LET I == {i \in DOMAIN t.entries : t.entries[i].type = type}
    IN  SumFunctionOnSet([i \in I |-> t.entries[i].amount], I)

(* Commits has the amounts clients send, the journal those stored.          *)
StoredTxn(t) ==
    [t EXCEPT !.entries = [i \in DOMAIN t.entries |->
                             [t.entries[i] EXCEPT !.amount = Stored(@)]]]
Txns == {StoredTxn(t) : t \in UNION Commits}

(* What the endpoints answer.                                               *)
Line == [txn : Txns, after : Int]
Answers ==
    [code : {"404", "422"}]
    \cup [code : {"200"}, closing : Int, rounded : Int, upto : SUBSET Txns]
    \cup [code : {"200"}, upto : SUBSET Txns, opening : Int, lines : Seq(Line),
          in : Int, out : Int, closing : Int]

(* post accepts balanced entries only; a request's keys differ.             *)
ASSUME StatementAssumption ==
    /\ IsFiniteSet(Accounts) /\ FirstAccounts \subseteq Accounts
    /\ \A C \in Commits : /\ IsFiniteSet(C) /\ C \subseteq Txn
                          /\ \A t, u \in C : t.key = u.key => t = u
                          /\ \A t \in C : SideOf(t, "DEBIT") = SideOf(t, "CREDIT")
    /\ Today \in Int /\ NightlyDates \subseteq Int /\ MaxSnapshots \in Nat
    /\ \A q \in Queries : /\ q.kind \in {"statement", "balance"}
                          /\ q.kind = "statement" => q.start \in Int /\ q.end \in Int
                          /\ q.start # None => q.start \in Int
    /\ None \notin Answers \cup Int

VARIABLES
    journal,    \* committed transactions
    accounts,   \* accounts that exist
    current,    \* current_balance of the asset accounts
    snapshots,  \* rows of account_balance_snapshots
    pc,         \* where a reader is
    query,      \* what it was asked
    listed,     \* the entity's accounts as it found them
    pending,    \* those whose opening balance it has yet to find
    missed,     \* the one of them it found no snapshot of
    opening,    \* the sum of the ones it has found
    used,       \* the snapshot it took for an account, if it took one
    answer,     \* with upto, a history field: the journal when it was given
    since       \* history: the journal when the request came

store   == <<journal, accounts, current, snapshots>>
reading == <<pc, query, listed, pending, missed, opening, used, answer, since>>
vars == <<store, reading>>

Ledger == INSTANCE Journal WITH Valid <- Txns, Pairs <- {}

-----------------------------------------------------------------------------
(* Only asset accounts count: a debit adds, a credit takes away.            *)
AssetDelta(e) ==
    IF AccountType[e.account] # "ASSET" THEN 0
    ELSE IF e.type = "DEBIT" THEN e.amount ELSE -e.amount

Movement(t, A) ==
    LET I == {i \in DOMAIN t.entries : t.entries[i].account \in A}
    IN  SumFunctionOnSet([i \in I |-> AssetDelta(t.entries[i])], I)

Position(txns, A) == SumFunctionOnSet([t \in txns |-> Movement(t, A)], txns)

Until(txns, date) == {t \in txns : t.date <= date}
BeforeInclusive(txns, date) == {t \in txns : t.date <= date}
Before(txns, date) == {t \in txns : t.date < date}
InPeriod(txns, start, end) == {t \in txns : t.date >= start /\ t.date <= end}

Assets(A) == {a \in A : AccountType[a] = "ASSET"}

(* The rows get_latest_before may return: no constraint forbids two of one  *)
(* account and date.                                                        *)
LatestBefore(a, date) ==
    LET earlier == {s \in snapshots : s.account = a /\ s.date < date}
    IN  {s \in earlier : \A other \in earlier : other.date <= s.date}

(* The lines of a statement: transactions by date and id, each with the     *)
(* balance after it; incoming and outgoing transactions are added up apart. *)
Precedes(t, u) == IF t.date = u.date THEN t.key < u.key ELSE t.date < u.date
InOrder(txns) ==
    CHOOSE q \in [1 .. Cardinality(txns) -> txns] :
        \A i, j \in DOMAIN q : i < j => Precedes(q[i], q[j])
Lines(txns, A, start) ==
    LET order == InOrder(txns)
    IN  [i \in DOMAIN order |->
           [txn |-> order[i], after |-> start + Position({order[j] : j \in 1..i}, A)]]
TotalIn(txns, A) ==
    LET I == {t \in txns : Movement(t, A) > 0} IN Position(I, A)
TotalOutSigned(txns, A) ==
    LET O == {t \in txns : Movement(t, A) < 0} IN Position(O, A)
TotalOut(txns, A) ==
    LET O == {t \in txns : Movement(t, A) < 0} IN -Position(O, A)

-----------------------------------------------------------------------------
Init ==
    /\ Ledger!Init
    /\ accounts = FirstAccounts
    /\ current = [a \in Assets(Accounts) |-> 0]
    /\ snapshots = {}
    /\ pc = [r \in Readers |-> "idle"]
    /\ query = [r \in Readers |-> None]
    /\ listed = [r \in Readers |-> {}]
    /\ pending = [r \in Readers |-> {}]
    /\ missed = [r \in Readers |-> {}]
    /\ opening = [r \in Readers |-> 0]
    /\ used = [r \in Readers |-> {}]
    /\ answer = [r \in Readers |-> None]
    /\ since = [r \in Readers |-> {}]

(* A handler commits; its accounts existed when it posted.  No two of its   *)
(* transactions touch one account.                                          *)
Book ==
    /\ \E C \in Commits :
         /\ \A t \in C : /\ ~Ledger!Used(journal, t.key)
                         /\ \A i \in DOMAIN t.entries : t.entries[i].account \in accounts
         /\ journal' = journal \cup {StoredTxn(t) : t \in C}
         /\ current' = [a \in DOMAIN current |-> BalanceAfter(current[a], Position(C, {a}))]
    /\ Ledger!Book
    /\ UNCHANGED <<accounts, snapshots, reading>>

(* AccountService.provision commits an account.                             *)
OpenAccount ==
    /\ \E a \in Accounts \ accounts : accounts' = accounts \cup {a}
    /\ UNCHANGED <<journal, current, snapshots, reading>>

(* The nightly job, which is not in this repository: a row with the         *)
(* position of an account at the end of a date, as far as it is booked.     *)
TakeSnapshot ==
    /\ Cardinality(snapshots) < MaxSnapshots
    /\ \E d \in NightlyDates, a \in Assets(accounts) :
         snapshots' = snapshots \cup
             {[account |-> a, date |-> d,
               balance |-> RoundHalfUp(Position(Until(journal, d), {a}), BalanceGrain)]}
    /\ UNCHANGED <<journal, accounts, current, reading>>

AnswerAndGoOn(r, a) == answer' = [answer EXCEPT ![r] = a] /\ UNCHANGED pc
Answer(r, a) == /\ answer' = [answer EXCEPT ![r] = a]
                /\ pc' = [pc EXCEPT ![r] = "answered"]
Refuse(r, code) == Answer(r, [code |-> code])
Balance(b) == [code |-> "200", closing |-> b, rounded |-> Reported(b), upto |-> journal]

(* A query asks for the position before start: a statement's opening, or a  *)
(* balance as_of start; None is as_of left out.                             *)
Ask(r) ==
    /\ pc[r] = "idle"
    /\ \E q \in Queries :
         /\ query' = [query EXCEPT ![r] = q]
         /\ IF q.kind = "balance" /\ q.start # None /\ q.start > Today
            THEN Refuse(r, "422")
            ELSE pc' = [pc EXCEPT ![r] = "entity"] /\ UNCHANGED answer
    /\ since' = [since EXCEPT ![r] = journal]
    /\ UNCHANGED <<store, listed, pending, missed, opening, used>>

RequireEntity(r) ==
    /\ pc[r] = "entity"
    /\ IF query[r].entity \in Entities
       THEN pc' = [pc EXCEPT ![r] = "accounts"] /\ UNCHANGED answer
       ELSE Refuse(r, "404")
    /\ UNCHANGED <<store, query, listed, pending, missed, opening, used, since>>

(* get_by_entity returns the rows with current_balance in them, which is    *)
(* all a balance without as_of needs.  Accounts are asked for their opening *)
(* one by one; only for assets is anything read.                            *)
ReadAccounts(r) ==
    /\ pc[r] = "accounts"
    /\ LET A == {a \in accounts : a[1] = query[r].entity}
       IN  /\ listed' = [listed EXCEPT ![r] = A]
           /\ pending' = [pending EXCEPT ![r] = Assets(A)]
           /\ IF query[r].start = None
              THEN Answer(r, Balance(SumFunctionOnSet(current, Assets(A))))
              ELSE pc' = [pc EXCEPT ![r] = "opening"] /\ UNCHANGED answer
    /\ UNCHANGED <<store, query, missed, opening, used, since>>

(* A snapshot found settles the account, whatever was booked after it.      *)
ReadSnapshot(r, a) ==
    /\ pc[r] = "opening" /\ missed[r] = {} /\ a \in pending[r]
    /\ \E s \in LatestBefore(a, query[r].start) :
         /\ opening' = [opening EXCEPT ![r] = @ + s.balance]
         /\ used' = [used EXCEPT ![r] = @ \cup {s}]
    /\ pending' = [pending EXCEPT ![r] = @ \ {a}]
    /\ UNCHANGED <<store, pc, query, listed, missed, answer, since>>

MissSnapshot(r, a) ==
    /\ pc[r] = "opening" /\ missed[r] = {} /\ a \in pending[r]
    /\ LatestBefore(a, query[r].start) = {}
    /\ missed' = [missed EXCEPT ![r] = {a}]
    /\ UNCHANGED <<store, pc, query, listed, pending, opening, used, answer, since>>

(* Without one, all its earlier entries are added up.                       *)
ReadEntriesBefore(r) ==
    /\ missed[r] # {}
    /\ opening' = [opening EXCEPT ![r] =
                     @ + Position(Before(journal, query[r].start), missed[r])]
    /\ pending' = [pending EXCEPT ![r] = @ \ missed[r]]
    /\ missed' = [missed EXCEPT ![r] = {}]
    /\ UNCHANGED <<store, pc, query, listed, used, answer, since>>

AnswerBalance(r) ==
    /\ pc[r] = "opening" /\ pending[r] = {} /\ query[r].kind = "balance"
    /\ Answer(r, Balance(opening[r]))
    /\ UNCHANGED <<store, query, listed, pending, missed, opening, used, since>>

(* One SELECT fetches every entry of the period on the accounts listed.     *)
ReadRows(r) ==
    /\ pc[r] = "opening" /\ pending[r] = {} /\ query[r].kind = "statement"
    /\ LET found == InPeriod(journal, query[r].start, query[r].end)
           txns  == {t \in found : \E i \in DOMAIN t.entries : t.entries[i].account \in listed[r]}
           lines == Lines(txns, listed[r], opening[r])
       IN  Answer(r, [code |-> "200", upto |-> journal, opening |-> opening[r], lines |-> lines,
                      in |-> TotalIn(txns, listed[r]), out |-> TotalOut(txns, listed[r]),
                      closing |-> IF lines = <<>> THEN opening[r] ELSE lines[Len(lines)].after])
    /\ UNCHANGED <<store, query, listed, pending, missed, opening, used, since>>

Read(r) ==
    \/ RequireEntity(r) \/ ReadAccounts(r) \/ ReadEntriesBefore(r)
    \/ AnswerBalance(r) \/ ReadRows(r)
    \/ \E a \in Accounts : ReadSnapshot(r, a) \/ MissSnapshot(r, a)

(* Nobody has anything left to ask.                                         *)
Quiet == (\A r \in Readers : pc[r] = "answered") /\ UNCHANGED vars

Next == Book \/ OpenAccount \/ TakeSnapshot \/ (\E r \in Readers : Ask(r) \/ Read(r)) \/ Quiet

Spec == Init /\ [][Next]_vars

-----------------------------------------------------------------------------
StatementTypeOK ==
    /\ journal \subseteq Txns /\ accounts \subseteq Accounts
    /\ current \in [Assets(Accounts) -> Int]
    /\ \A s \in snapshots : s.account \in Assets(accounts) /\ s.date \in NightlyDates /\ s.balance \in Int
    /\ pc \in [Readers -> {"idle", "entity", "accounts", "opening", "answered"}]
    /\ query \in [Readers -> Queries \cup {None}] /\ opening \in [Readers -> Int]
    /\ listed \in [Readers -> SUBSET accounts] /\ pending \in [Readers -> SUBSET accounts]
    /\ missed \in [Readers -> SUBSET accounts] /\ used \in [Readers -> SUBSET snapshots]
    /\ since \in [Readers -> SUBSET journal] /\ answer \in [Readers -> Answers \cup {None}]
    /\ \A r \in Readers : /\ missed[r] \subseteq pending[r] /\ pending[r] \subseteq Assets(listed[r])
                          /\ pc[r] = "answered" <=> answer[r] \in Answers

Answered(r) == pc[r] = "answered" /\ answer[r].code = "200"
AnsweredStatement(r) == Answered(r) /\ query[r].kind = "statement"
AnsweredAsOf(r) == Answered(r) /\ query[r].start # None

(* The entries a query is about, among some transactions: those on the      *)
(* assets it lists before its start and in its period, which is empty if it *)
(* ends before it starts, without what its snapshots stand for.             *)
Subject(r, txns) ==
    LET wanted(t) == \/ t.date < query[r].start
                     \/ query[r].kind = "statement" /\ t.date <= query[r].end
        replaced(t, a) == t.date < query[r].start /\ \E s \in used[r] : s.account = a
    IN  UNION {{<<t, i>> : i \in {j \in DOMAIN t.entries :
                    LET a == t.entries[j].account
                    IN  a \in Assets(listed[r]) /\ ~replaced(t, a)}} : t \in {u \in txns : wanted(u)}}

SumOf(pairs) == SumFunctionOnSet([x \in pairs |-> AssetDelta(x[1].entries[x[2]])], pairs)
BaseOf(r) == SumFunctionOnSet([s \in used[r] |-> s.balance], used[r])

(* A statement, or a balance as of a date, counts every entry that was      *)
(* booked before it was asked for exactly once, any entry that was booked   *)
(* while it was put together at most once, and no other: the boundaries of  *)
(* its SELECTs neither overlap nor leave a gap.                             *)
CountsEachEntryOnce ==
    \A r \in Readers : AnsweredAsOf(r) =>
        LET sure == Subject(r, since[r])
            late == Subject(r, answer[r].upto) \ sure
        IN  \E X \in SUBSET late : answer[r].closing = BaseOf(r) + SumOf(sure) + SumOf(X)

(* opening + in - out = closing, and the last line carries the closing      *)
(* balance, whatever committed between the SELECTs; a transaction that      *)
(* moves nothing is neither in nor out.                                     *)
StatementAddsUp ==
    \A r \in Readers : AnsweredStatement(r) =>
        LET a == answer[r]
        IN  /\ a.opening + a.in - a.out = a.closing
            /\ a.in >= 0 /\ a.out >= 0
            /\ \A i \in DOMAIN a.lines :
                  a.lines[i].after = a.opening + Position({a.lines[j].txn : j \in 1..i}, listed[r])

EntriesOn(a, txns) ==
    UNION {{<<t, i>> : i \in {j \in DOMAIN t.entries : t.entries[j].account = a}} : t \in txns}

(* What clients sent of the transactions in the journal.                    *)
Sent == {t \in UNION Commits : StoredTxn(t) \in journal}

(* A balance drifts from the sum of its stored entries by half a digit of   *)
(* either column for each entry at most, and not at all while clients send  *)
(* no amounts with more digits than a balance has.                          *)
DriftBounded ==
    \A a \in Assets(Accounts) :
        LET E == EntriesOn(a, journal)
            drift == Abs(current[a] - Position(journal, {a}))
        IN  /\ 2 * drift <= Cardinality(E) * (BalanceGrain + EntryGrain)
            /\ drift # 0 =>
                 \E x \in EntriesOn(a, Sent) : ~OnScale(x[1].entries[x[2]].amount, BalanceGrain)

(* Debits that equal their credits when they are validated are stored       *)
(* within half a digit per entry of it.                                     *)
StoredEntriesBalance ==
    \A t \in journal :
        2 * Abs(SideOf(t, "DEBIT") - SideOf(t, "CREDIT")) <= Len(t.entries) * EntryGrain

(* The rounded balance a client gets without as_of is within half a cent,   *)
(* and the drift, of what the entries booked at that moment add up to.      *)
ReportedNearBooks ==
    \A r \in Readers : Answered(r) /\ query[r].start = None =>
        LET E == UNION {EntriesOn(a, answer[r].upto) : a \in Assets(listed[r])}
        IN  2 * Abs(answer[r].rounded - Position(answer[r].upto, listed[r]))
              <= Cent + Cardinality(E) * (BalanceGrain + EntryGrain)

(* Documents: the opening balance, and the balance as of a date, are the    *)
(* position before that date.  Here they only have to be if nothing is      *)
(* committed meanwhile and every snapshot is right about its own date.      *)
OpeningIsBalanceBefore ==
    \A r \in Readers :
        AnsweredAsOf(r) /\ answer[r].upto = since[r]
        /\ (\A s \in used[r] : s.balance = Position(Until(since[r], s.date), {s.account}))
        => opening[r] = Position(Before(since[r], query[r].start), listed[r])

====
