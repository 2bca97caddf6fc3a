---- MODULE Catalog ----
(***************************************************************************)
(* Rows that are created under a unique name and changed column by column: *)
(* EntityService, AccountService and the seed script, which creates them   *)
(* all in one transaction.  A request is the list of calls its service     *)
(* makes.  A posting is two steps here: it reads the accounts, and later   *)
(* writes the balances it computed from what it read.  The order in which  *)
(* it locks the rows between them is left to LedgerSessions.               *)
(***************************************************************************)
EXTENDS Seed, FiniteSets, SequencesExt, TLC

CONSTANTS
    Requests,     \* what clients may ask, and what may be run
    Beginnings,   \* what the tables may hold at first
    SeedPrefixed, \* the external ids that begin with "seed-"
    None

VARIABLES
    rows,       \* committed rows: name of a row -> [by, columns ...]
    pc, request, reply,
    made,       \* how many calls of its request a session has made
    inserted,   \* rows a session has flushed and not committed
    updated,    \* columns it has flushed: name of a row -> column -> value
    loaded      \* what it has read of the rows it is about to change

work == <<made, inserted, updated, loaded>>
vars == <<rows, pc, request, reply, work>>

EmptyFcn == [x \in {} |-> None]
Only(x, v) == [y \in {x} |-> v]
(* f with new values for some names; what f says, and what only g does.     *)
Filled(f, names, value(_)) ==
    [x \in DOMAIN f \cup names |-> IF x \in names THEN value(x) ELSE f[x]]
Merge(f, g) == [x \in DOMAIN f \cup DOMAIN g |-> IF x \in DOMAIN f THEN f[x] ELSE g[x]]

(* Names of rows: the columns of a unique constraint.  Snapshots have none: *)
(* the name is what the script looks for, and the names of its entities     *)
(* keep a second run of the script from getting as far.                     *)
EntityRow(e)     == <<"entity", e>>
AccountRow(a)    == <<"account", a[1], a[2]>>
PeriodRow(d)     == <<"period", d>>
TxnRow(k)        == <<"transaction", k>>
ReceivableRow(k) == <<"receivable", k>>
SnapshotRow      == <<"snapshot", SnapshotOf, SnapshotDate>>

-----------------------------------------------------------------------------
(* The calls of each request.                                               *)
Require(row) == [do |-> "require", row |-> row]
Ensure(row, columns) == [do |-> "ensure", row |-> row, columns |-> columns]
Insert(row, columns) == [do |-> "insert", row |-> row, columns |-> columns]
Update(row, column, value) == [do |-> "update", row |-> row, column |-> column, value |-> value]
PostCall(t) == [do |-> "post", txn |-> t]
Resolve(k, status) == [do |-> "resolve", row |-> ReceivableRow(k), status |-> status]

NewEntity  == [name |-> "created", data |-> "created"]
NewAccount == [name |-> "created", enabled |-> TRUE, balance |-> 0]

(* AccountService.provision, behind its check of the entity.                *)
EnsureAccounts(e, list) ==
    [i \in DOMAIN list |-> Ensure(AccountRow(<<e, list[i][1]>>), NewAccount)]

SeedEntity(entry) ==
    <<Ensure(EntityRow(entry[1]), NewEntity), Require(EntityRow(entry[1]))>>
    \o EnsureAccounts(entry[1], GetTemplate(entry[2]))

SeedCalls ==
    <<[do |-> "guard"]>>
    \o [i \in DOMAIN PeriodDates |-> Ensure(PeriodRow(PeriodDates[i]), [status |-> "OPEN"])]
    \o FlattenSeq([i \in DOMAIN SeedEntities |-> SeedEntity(SeedEntities[i])])
    \o FlattenSeq([i \in DOMAIN ClearingEntities |->
                 <<Require(EntityRow(ClearingEntities[i]))>>
                 \o EnsureAccounts(ClearingEntities[i], ClearingAccounts)])
    \o FlattenSeq([i \in DOMAIN Sales |-> <<PostCall(SaleTxn(Sales[i])),
                                        PostCall(PlatformTxn(Sales[i]))>>])
    \o <<PostCall(Anticipation),
         PostCall(Settlement), Resolve(SeedKey(AnticipatedSale.key), "SETTLED"),
         PostCall(Reversal), Resolve(SeedKey(ReversedSale.key), "CANCELLED")>>
    \o [i \in DOMAIN CashTxns |-> PostCall(CashTxns[i])]
    \o <<PostCall(SenderTxn(SCRIPT, SeedTransfer)), PostCall(ReceiverTxn(SCRIPT, SeedTransfer)),
         Ensure(SnapshotRow, [balance |-> 0])>>

CallsOf(r) ==
    CASE r.op = "create"    -> (IF r.parent = None THEN <<>> ELSE <<Require(EntityRow(r.parent))>>)
                               \o <<Insert(EntityRow(r.entity), NewEntity)>>
      [] r.op = "provision" -> <<Require(EntityRow(r.entity))>>
                               \o IF r.list = None THEN <<[do |-> "refuse"]>>
                                  ELSE EnsureAccounts(r.entity, r.list)
      [] r.op = "update"    -> IF r.row[1] = "account"
                               THEN <<Require(EntityRow(r.row[2])), Update(r.row, r.column, r.value)>>
                               ELSE <<Update(r.row, r.column, r.value)>>
      [] r.op = "post"      -> <<PostCall(TxnOf("client", r.posting))>>
      [] r.op = "seed"      -> SeedCalls

-----------------------------------------------------------------------------
(* What the tables may hold.                                                *)
EntityNames     == {EntityRow(e) : e \in Entities}
AccountNames    == {AccountRow(a) : a \in Accounts}
PeriodNames     == {PeriodRow(d) : d \in Dates}
TxnNames        == {TxnRow(k) : k \in TxnKeys}
ReceivableNames == {ReceivableRow(k) : k \in TxnKeys}
RowNames == EntityNames \cup AccountNames \cup PeriodNames \cup {SnapshotRow}
            \cup TxnNames \cup ReceivableNames

Columns(row) ==
    CASE row[1] = "entity"      -> {"by", "name", "data"}
      [] row[1] = "account"     -> {"by", "name", "enabled", "balance"}
      [] row[1] = "period"      -> {"by", "status"}
      [] row[1] = "transaction" -> {"by", "txn"}
      [] row[1] = "receivable"  -> {"by", "status"}
      [] row[1] = "snapshot"    -> {"by", "balance"}

CatalogTxn == [by : {"client", SCRIPT}, key : TxnKeys, entity : Entities,
               type : TransactionTypes, date : Dates, entries : Seq(Entry),
               ref : TxnKeys \cup {NoRef}, expects : BOOLEAN]

RowTyped(row, value) ==
    /\ Columns(row) \subseteq DOMAIN value
    /\ row \in AccountNames => value.balance \in Int
    /\ row \in TxnNames => value.txn \in CatalogTxn

(* The entries that the transactions of a table book on an account.         *)
TxnsIn(table) == {row \in DOMAIN table : row[1] = "transaction"}
EntriesOn(t, a) == {i \in DOMAIN t.entries : AccountAt(t, i) = a}
Amount(a, e) == Delta(Chart[a].type, e.type, e.amount)
BookedIn(table, a) ==
    LET E == UNION {{<<row, i>> : i \in EntriesOn(table[row].txn, a)} : row \in TxnsIn(table)}
    IN  SumFunctionOnSet([x \in E |-> Amount(a, table[x[1]].txn.entries[x[2]])], E)

AccountRows(t) == {AccountRow(AccountAt(t, i)) : i \in DOMAIN t.entries}

(* Every committed state is like this.                                      *)
WellFormed(table) ==
    /\ DOMAIN table \subseteq RowNames /\ IsFiniteSet(DOMAIN table)
    /\ \A row \in DOMAIN table : RowTyped(row, table[row])
    /\ \A k \in TxnKeys : ReceivableRow(k) \in DOMAIN table => TxnRow(k) \in DOMAIN table
    /\ \A row \in TxnsIn(table) : AccountRows(table[row].txn) \subseteq DOMAIN table
BalancesBooked(table) ==
    \A a \in Accounts : AccountRow(a) \in DOMAIN table
                         => table[AccountRow(a)].balance = BookedIn(table, a)

(* The rows that _already_seeded looks for.                                 *)
SeedEntityRows == {EntityRow(e) : e \in SeedPrefixed}

(* A client names accounts of the chart, changes what the update payloads   *)
(* have, and posts what needs one call.                                     *)
RequestTyped(r) ==
    \/ /\ r.op = "create" /\ r.entity \in Entities /\ r.parent \in Entities \cup {None}
    \/ /\ r.op = "provision" /\ r.entity \in Entities
       /\ \/ r.list = None
          \/ r.list \in Seq(Codes \X AccountTypes) /\ OnChart(r.entity, r.list)
    \/ /\ r.op = "update"
       /\ \/ r.row \in EntityNames /\ r.column \in {"name", "data"}
          \/ r.row \in AccountNames /\ r.column \in {"name", "enabled"}
    \/ /\ r.op = "post"
       /\ r.posting \in PostRequest \cup CashRequest \cup AnticipateRequest
    \/ r.op = "seed"

ASSUME CatalogAssumption ==
    /\ None \notin Requests /\ \A r \in Requests : RequestTyped(r)
    /\ {SeedEntities[i][1] : i \in DOMAIN SeedEntities} \subseteq SeedPrefixed
    /\ SeedPrefixed \subseteq Entities
    /\ \A b \in Beginnings :
         /\ WellFormed(b) /\ BalancesBooked(b) /\ \A row \in DOMAIN b : b[row].by \notin Sessions

-----------------------------------------------------------------------------
Busy == {s \in Sessions : pc[s] \in {"call", "write", "commit"}}
Over == {"done", "failed", "crashed"}

Touched(s) == DOMAIN inserted[s] \cup DOMAIN updated[s]
Visible(s) == DOMAIN rows \cup DOMAIN inserted[s]
Written(s, row) == IF row \in DOMAIN updated[s] THEN updated[s][row] ELSE EmptyFcn
Attributes(s, row) ==
    Merge(Written(s, row), IF row \in DOMAIN inserted[s] THEN inserted[s][row] ELSE rows[row])
(* A row lock, or the index entry of a row that is not committed.           *)
Holders(s, names) == {u \in Sessions \ {s} : names \cap Touched(u) # {}}

Init ==
    /\ rows \in Beginnings
    /\ pc = [s \in Sessions |-> "idle"]
    /\ request = [s \in Sessions |-> None]
    /\ reply = [s \in Sessions |-> "none"]
    /\ made = [s \in Sessions |-> 0]
    /\ inserted = [s \in Sessions |-> EmptyFcn]
    /\ updated = [s \in Sessions |-> EmptyFcn]
    /\ loaded = [s \in Sessions |-> EmptyFcn]

Calls(s) == CallsOf(request[s])
AllMade(s) == made[s] = Len(Calls(s))
Call(s) == Calls(s)[made[s] + 1]
At(s, where, call) == pc[s] = where /\ ~AllMade(s) /\ Call(s).do = call
Goto(s, where) == pc' = [pc EXCEPT ![s] = where]
NextCall(s) == made' = [made EXCEPT ![s] = @ + 1] /\ Goto(s, "call")

Release(s) ==
    /\ made' = [made EXCEPT ![s] = 0]
    /\ inserted' = [inserted EXCEPT ![s] = EmptyFcn]
    /\ updated' = [updated EXCEPT ![s] = EmptyFcn]
    /\ loaded' = [loaded EXCEPT ![s] = EmptyFcn]

End(s, where, code) ==
    Goto(s, where) /\ reply' = [reply EXCEPT ![s] = code] /\ Release(s) /\ UNCHANGED request

CommittedRows(s) == Filled(rows, Touched(s), LAMBDA row : Attributes(s, row))

FailCommitting(s, code) == End(s, "failed", code) /\ rows' = CommittedRows(s)
FailWithoutRollback(s, code) ==
    /\ Goto(s, "failed")
    /\ reply' = [reply EXCEPT ![s] = code]
    /\ UNCHANGED <<rows, request, work>>
(* An error leaves the handler or the script, and everything is rolled back.*)
Fail(s, code) == End(s, "failed", code) /\ UNCHANGED rows

(* What the client or the caller of the script sees of an error that is not *)
(* meant for it.                                                            *)
Uncaught(s) == IF request[s].op = "seed" THEN "abort" ELSE "500"
Refusal(s)  == IF request[s].op = "seed" THEN "abort" ELSE "422"

(* What a session's updates are once it has written columns of some rows.   *)
Writing(s, names, columns(_)) ==
    Filled(updated[s], names, LAMBDA row : Merge(columns(row), Written(s, row)))

Begin(s) ==
    /\ pc[s] = "idle"
    /\ \E r \in Requests : request' = [request EXCEPT ![s] = r]
    /\ Goto(s, "call")
    /\ UNCHANGED <<rows, reply, work>>

(* exists, or get_by_id: 404 without the row.                               *)
RequireRow(s) ==
    /\ At(s, "call", "require")
    /\ IF Call(s).row \notin Visible(s) THEN Fail(s, "404")
       ELSE NextCall(s) /\ UNCHANGED <<rows, request, reply, inserted, updated, loaded>>

(* Neither a template nor a list of accounts was given.                     *)
RefuseProvision(s) == At(s, "call", "refuse") /\ Fail(s, "422")

(* _already_seeded: with any seed entity there, the script ends at once.    *)
CheckSeeded(s) ==
    /\ At(s, "call", "guard")
    /\ IF SeedEntityRows \cap Visible(s) # {}
       THEN End(s, "done", "nothing") /\ UNCHANGED rows
       ELSE NextCall(s) /\ UNCHANGED <<rows, request, reply, inserted, updated, loaded>>

LookRowStopping(s) ==
    /\ At(s, "call", "ensure")
    /\ IF Call(s).row \in Visible(s) THEN made' = [made EXCEPT ![s] = Len(Calls(s))] /\ UNCHANGED pc
       ELSE Goto(s, "write") /\ UNCHANGED made
    /\ UNCHANGED <<rows, request, reply, inserted, updated, loaded>>

(* A row that is found is taken as it is; otherwise it is to be inserted.   *)
LookRow(s) ==
    /\ At(s, "call", "ensure")
    /\ IF Call(s).row \in Visible(s) THEN NextCall(s) ELSE Goto(s, "write") /\ UNCHANGED made
    /\ UNCHANGED <<rows, request, reply, inserted, updated, loaded>>

TakenNever(row) == FALSE
Taken(row) == row \in DOMAIN rows

(* save flushes the INSERT.  It waits for a session that has flushed the    *)
(* same name; a name that is committed breaks the unique constraint, which  *)
(* only EntityService.create expects.                                       *)
InsertRow(s) ==
    /\ At(s, "write", "ensure") \/ At(s, "call", "insert")
    /\ Holders(s, {Call(s).row}) = {}
    /\ IF Taken(Call(s).row)
       THEN Fail(s, IF Call(s).do = "insert" THEN "409" ELSE Uncaught(s))
       ELSE /\ inserted' = [inserted EXCEPT ![s] =
                 Filled(@, {Call(s).row}, LAMBDA row : Merge([by |-> s], Call(s).columns))]
            /\ NextCall(s)
            /\ UNCHANGED <<rows, request, reply, updated, loaded>>

(* update: the row is read, ...                                             *)
LoadRow(s) ==
    /\ At(s, "call", "update")
    /\ IF Call(s).row \notin Visible(s) THEN Fail(s, "404")
       ELSE /\ loaded' = [loaded EXCEPT ![s] = Attributes(s, Call(s).row)]
            /\ Goto(s, "write")
            /\ UNCHANGED <<rows, request, reply, made, inserted, updated>>

WholeRow(s) == [loaded[s] EXCEPT ![Call(s).column] = Call(s).value]
(* ... the attributes the payload names are set, and the UPDATE names those  *)
(* whose value differs from what was read, if there are any; it waits for   *)
(* the lock of the row.                                                     *)
Changed(s) ==
    IF loaded[s][Call(s).column] = Call(s).value THEN EmptyFcn
    ELSE Only(Call(s).column, Call(s).value)

SaveRow(s) ==
    /\ At(s, "write", "update")
    /\ IF Changed(s) = EmptyFcn THEN UNCHANGED updated
       ELSE /\ Holders(s, {Call(s).row}) = {}
            /\ updated' = [updated EXCEPT ![s] =
                 Writing(s, {Call(s).row}, LAMBDA row : Changed(s))]
    /\ NextCall(s)
    /\ UNCHANGED <<rows, request, reply, inserted, loaded>>

(* TransactionService.post: a key that is there stands for a transaction    *)
(* that is; otherwise the accounts are read and the payload is checked, ... *)
Posted(s, t) == TxnRow(t.key) \in Visible(s)

Postable(s, t) ==
    /\ PeriodRow(t.date) \in Visible(s) => Attributes(s, PeriodRow(t.date)).status = "OPEN"
    /\ AccountRows(t) \subseteq Visible(s)
    /\ Balanced(t.entries) /\ CurrenciesMatch(t)

ReplayPost(s) ==
    /\ At(s, "call", "post") /\ Posted(s, Call(s).txn)
    /\ NextCall(s)
    /\ UNCHANGED <<rows, request, reply, inserted, updated, loaded>>

ReadAccounts(s) ==
    LET t == Call(s).txn IN
    /\ At(s, "call", "post") /\ ~Posted(s, t)
    /\ IF ~Postable(s, t) THEN Fail(s, Refusal(s))
       ELSE /\ loaded' = [loaded EXCEPT ![s] =
                 [row \in AccountRows(t) |-> Attributes(s, row).balance]]
            /\ Goto(s, "write")
            /\ UNCHANGED <<rows, request, reply, made, inserted, updated>>

(* ... and the transaction is flushed, which fails if its key was committed *)
(* after it was looked up and which nothing catches.  Then each account is  *)
(* locked, and the entries' deltas are added to the balance as it was read: *)
(* FOR UPDATE returns the object in the identity map.  Last comes the       *)
(* receivable of a sale.  (What is moved is bound so as to compute it once.) *)
PostNames(t) == {TxnRow(t.key)} \cup AccountRows(t)

Net(t, row) ==
    LET I == {i \in DOMAIN t.entries : AccountRow(AccountAt(t, i)) = row}
    IN  SumFunctionOnSet([i \in I |-> Amount(AccountAt(t, i), t.entries[i])], I)
NewBalance(s, t, row) == loaded[s][row] + Net(t, row)

(* The UPDATE names the balance if its value has changed.                   *)
Moved(s, t, row) ==
    IF Net(t, row) = 0 THEN EmptyFcn ELSE Only("balance", NewBalance(s, t, row))

NewNames(t) == {TxnRow(t.key)} \cup (IF t.expects THEN {ReceivableRow(t.key)} ELSE {})
NewRow(s, t, row) ==
    IF row = TxnRow(t.key) THEN [by |-> s, txn |-> t] ELSE [by |-> s, status |-> "PENDING"]

LoseKey(s) ==
    /\ At(s, "write", "post") /\ Taken(TxnRow(Call(s).txn.key))
    /\ Fail(s, Uncaught(s))

PostTxn(s) ==
    LET t == Call(s).txn IN
    /\ At(s, "write", "post") /\ ~Taken(TxnRow(t.key))
    /\ Holders(s, PostNames(t)) = {}
    /\ IF t.expects /\ InferredGross(t) = 0 THEN Fail(s, Refusal(s))
       ELSE /\ inserted' = [inserted EXCEPT ![s] =
                 Filled(@, NewNames(t), LAMBDA row : NewRow(s, t, row))]
            /\ \E moved \in {[row \in AccountRows(t) |-> Moved(s, t, row)]} :
                 updated' = [updated EXCEPT ![s] = Writing(s, DOMAIN moved, LAMBDA row : moved[row])]
            /\ loaded' = [loaded EXCEPT ![s] = EmptyFcn]
            /\ NextCall(s)
            /\ UNCHANGED <<rows, request, reply>>

(* ReceivableService.settle and cancel, as settle and reverse call them.    *)
ResolveReceivable(s) ==
    LET row == Call(s).row IN
    /\ At(s, "call", "resolve")
    /\ IF row \notin Visible(s) \/ Attributes(s, row).status # "PENDING" THEN Fail(s, Refusal(s))
       ELSE /\ Holders(s, {row}) = {}
            /\ updated' = [updated EXCEPT ![s] = Writing(s, {row}, LAMBDA r : [status |-> Call(s).status])]
            /\ NextCall(s)
            /\ UNCHANGED <<rows, request, reply, inserted, loaded>>

(* The handler returns and the response goes out before get_db commits; the *)
(* script commits once, and then says that it is complete.                  *)
Finish(s) ==
    /\ pc[s] = "call" /\ AllMade(s)
    /\ reply' = [reply EXCEPT ![s] = IF request[s].op = "seed" THEN "none" ELSE "2xx"]
    /\ Goto(s, "commit")
    /\ UNCHANGED <<rows, request, work>>

Commit(s) ==
    /\ pc[s] = "commit"
    /\ End(s, "done", IF request[s].op = "seed" THEN "complete" ELSE reply[s])
    /\ rows' = CommittedRows(s)

Crash(s) == s \in Busy /\ End(s, "crashed", reply[s]) /\ UNCHANGED rows

-----------------------------------------------------------------------------
(* The names the next step of a session needs for itself.                   *)
Wanted(s) ==
    CASE At(s, "write", "ensure") \/ At(s, "call", "insert") -> {Call(s).row}
      [] At(s, "write", "update") /\ Changed(s) # EmptyFcn -> {Call(s).row}
      [] At(s, "write", "post") /\ ~Taken(TxnRow(Call(s).txn.key)) -> PostNames(Call(s).txn)
      [] At(s, "call", "resolve") -> {Call(s).row}
      [] OTHER -> {}
WaitsFor(s) == Holders(s, Wanted(s))

(* Sets whose members all wait for a member; the smallest are cycles.       *)
Stuck == {C \in SUBSET Busy \ {{}} : \A s \in C : WaitsFor(s) \cap C # {}}
InDeadlock(s) == \E C \in Stuck : s \in C /\ ~\E D \in Stuck : D \subseteq C /\ D # C

AbortDeadlocked(s) == InDeadlock(s) /\ Fail(s, Uncaught(s))

Step(s) ==
    \/ RequireRow(s) \/ RefuseProvision(s) \/ CheckSeeded(s) \/ LookRow(s) \/ InsertRow(s)
    \/ LoadRow(s) \/ SaveRow(s) \/ ReplayPost(s) \/ ReadAccounts(s) \/ LoseKey(s) \/ PostTxn(s)
    \/ ResolveReceivable(s) \/ Finish(s) \/ Commit(s) \/ AbortDeadlocked(s)

Quiet == (\A s \in Sessions : pc[s] \in Over) /\ UNCHANGED vars

Next == (\E s \in Sessions : Begin(s) \/ Step(s) \/ Crash(s)) \/ Quiet

Spec == Init /\ [][Next]_vars /\ \A s \in Sessions : WF_vars(Step(s))
====
