---- MODULE LedgerSessions ----
(***************************************************************************)
(* The write path of the ledger as PostgreSQL sees it.  Each HTTP request  *)
(* is served by a session: one SQLAlchemy Session, one database            *)
(* transaction at READ COMMITTED.  A step of a session is one statement    *)
(* with the Python that follows it, so steps of sessions interleave where  *)
(* statements of concurrent handlers do; changes stay in the session until *)
(* get_db commits, which happens after the response has gone out.          *)
(***************************************************************************)
EXTENDS Bookkeeping, Periods

CONSTANTS
    Requests    \* the requests clients may send, each any number of times

ASSUME SessionsAssumption ==
    /\ IsFiniteSet(Sessions)
    /\ Requests \subseteq Request
    /\ None \notin Request

VARIABLES
    (* committed tables *)
    journal,      \* transactions with their entries
    account,      \* chart_of_accounts: current_balance and balance_version
    receivable,   \* key of a sale -> status of its receivable, or "none"
    (* per session *)
    pc,           \* where the handler is
    request,      \* what it was asked
    todo,         \* the payloads post has still to be called with
    cursor,       \* how many entries of the current payload are behind it
    loaded,       \* account rows in the identity map, as first read
    dirty,        \* account rows locked FOR UPDATE, with the attributes now
    inserted,     \* transactions flushed and not committed
    rcvWrites,    \* receivables created or changed and not committed
    reply         \* the status code sent to the client

tables == <<journal, account, receivable>>
work == <<todo, cursor, loaded, dirty, inserted, rcvWrites>>
sessionVars == <<pc, request, work, reply>>
ledgerVars == <<tables, sessionVars>>
vars == <<ledgerVars, periodVars>>
others == <<tables, periodVars>>

Row == [balance : Int, version : Nat]

(* named: an UPDATE with current_balance in it has been flushed already.    *)
DirtyRow == [balance : Int, version : Nat, named : BOOLEAN]
ReceivableStatuses == {"PENDING", "SETTLED", "CANCELLED"}
EmptyFcn == [x \in {} |-> x]
Put(f, x, v) == [y \in DOMAIN f \cup {x} |-> IF y = x THEN v ELSE f[y]]

KeyUsed(txns, key) == \E t \in txns : t.key = key
TxnWithKey(txns, key) == CHOOSE t \in txns : t.key = key

(* What a SELECT by key sees at READ COMMITTED: committed rows and its own. *)
KeyVisibleDirty(s, key) == KeyUsed(journal \cup UNION {inserted[u] : u \in Sessions}, key)
KeyVisible(s, key) == KeyUsed(journal \cup inserted[s], key)

Over == {"done", "failed", "crashed"}
BusySessions == {s \in Sessions : pc[s] \notin {"idle"} \cup Over}
PoolHasRoom == Cardinality(BusySessions) + Cardinality(BusyAdmins) < Connections

LedgerInit ==
    /\ journal = {}
    /\ account = [a \in Accounts |-> [balance |-> 0, version |-> 0]]
    /\ receivable = [k \in TxnKeys |-> "none"]
    /\ pc = [s \in Sessions |-> "idle"]
    /\ request = [s \in Sessions |-> None]
    /\ todo = [s \in Sessions |-> <<>>]
    /\ cursor = [s \in Sessions |-> 0]
    /\ loaded = [s \in Sessions |-> EmptyFcn]
    /\ dirty = [s \in Sessions |-> EmptyFcn]
    /\ inserted = [s \in Sessions |-> {}]
    /\ rcvWrites = [s \in Sessions |-> EmptyFcn]
    /\ reply = [s \in Sessions |-> "none"]

Goto(s, where) == pc' = [pc EXCEPT ![s] = where]

(* What a session held in memory and in the database goes away.             *)
Release(s) ==
    /\ todo' = [todo EXCEPT ![s] = <<>>]
    /\ cursor' = [cursor EXCEPT ![s] = 0]
    /\ loaded' = [loaded EXCEPT ![s] = EmptyFcn]
    /\ dirty' = [dirty EXCEPT ![s] = EmptyFcn]
    /\ inserted' = [inserted EXCEPT ![s] = {}]
    /\ rcvWrites' = [rcvWrites EXCEPT ![s] = EmptyFcn]

FailWithoutRollback(s, code) ==
    /\ Goto(s, "failed")
    /\ reply' = [reply EXCEPT ![s] = code]
    /\ UNCHANGED <<others, request, work>>

(* An exception leaves the handler: get_db rolls back, the client gets an   *)
(* error.                                                                   *)
Fail(s, code) ==
    /\ Goto(s, "failed")
    /\ reply' = [reply EXCEPT ![s] = code]
    /\ Release(s)
    /\ UNCHANGED <<others, request>>

(* A SELECT of account rows.  A row already in the identity map keeps the   *)
(* attributes it was first read with.                                       *)
Load(s, as) ==
    loaded' = [loaded EXCEPT ![s] = [a \in DOMAIN @ \cup as |->
                                       IF a \in DOMAIN @ THEN @[a] ELSE account[a]]]

-----------------------------------------------------------------------------
(* The beginning of each request.                                           *)
FirstStep(r) == CASE r.op = "transfer"            -> "sendkey"
                  [] r.op \in {"reverse", "void"} -> "original"
                  [] OTHER                        -> "key"

Begin(s) ==
    /\ pc[s] = "idle"
    /\ PoolHasRoom
    /\ \E r \in Requests :
         /\ request' = [request EXCEPT ![s] = r]
         /\ todo' = [todo EXCEPT ![s] = IF FirstStep(r) = "key" THEN <<TxnOf(s, r)>> ELSE <<>>]
         /\ Goto(s, FirstStep(r))
    /\ UNCHANGED <<others, cursor, loaded, dirty, inserted, rcvWrites, reply>>

(* transfer looks up the sender's key, then the receiver's; it returns the  *)
(* pair when it has found both.                                             *)
LookupSendKey(s) ==
    /\ pc[s] = "sendkey"
    /\ Goto(s, IF KeyVisible(s, <<SEND, request[s].key>>) THEN "recvkey" ELSE "resolve")
    /\ UNCHANGED <<others, request, work, reply>>

LookupRecvKey(s) ==
    /\ pc[s] = "recvkey"
    /\ Goto(s, IF KeyVisible(s, <<RECV, request[s].key>>) THEN "respond" ELSE "resolve")
    /\ UNCHANGED <<others, request, work, reply>>

(* _resolve_entity and _resolve_account.  An unknown entity has no account, *)
(* and create_transfer answers 422 to both; nothing keeps the rows they     *)
(* read in memory.                                                          *)
TransferAccounts(r) == {r.sender, r.receiver} \X {ACC_TRANSFER, ACC_RECEIVABLES}

ResolveAccounts(s) ==
    /\ pc[s] = "resolve"
    /\ IF ~(TransferAccounts(request[s]) \subseteq Accounts) THEN Fail(s, "422")
       ELSE /\ todo' = [todo EXCEPT ![s] = <<SenderTxn(s, request[s]), ReceiverTxn(s, request[s])>>]
            /\ Goto(s, "key")
            /\ UNCHANGED <<others, request, cursor, loaded, dirty, inserted, rcvWrites, reply>>

(* reverse loads the original with its entries and their accounts in one    *)
(* SELECT.                                                                  *)
Original(r) == TxnWithKey(journal, r.txn)
OriginalFound(r) == KeyUsed(journal, r.txn) /\ Original(r).entity = r.entity

LoadOriginal(s) ==
    LET r == request[s] IN
    /\ pc[s] = "original"
    /\ r.op = "reverse"
    /\ IF ~OriginalFound(r) THEN Fail(s, "404")
       ELSE /\ Load(s, {AccountAt(Original(r), i) : i \in DOMAIN Original(r).entries})
            /\ todo' = [todo EXCEPT ![s] = <<ReversalTxn(s, r, Original(r))>>]
            /\ Goto(s, "key")
            /\ UNCHANGED <<others, request, cursor, dirty, inserted, rcvWrites, reply>>

(* void accepts pending transactions only, and post makes none.             *)
VoidTransaction(s) ==
    /\ pc[s] = "original"
    /\ request[s].op = "void"
    /\ Fail(s, IF OriginalFound(request[s]) THEN "422" ELSE "404")

-----------------------------------------------------------------------------
(* TransactionService.post, for the payload at the head of todo.            *)
Current(s) == Head(todo[s])
CurrentAccount(s) == AccountAt(Current(s), cursor[s] + 1)
EntriesLeft(s) == cursor[s] < Len(Current(s).entries)

AfterPostsSettlingEarly(s) == CASE request[s].op \in {"settle", "anticipate"} -> "settle"
                                [] request[s].op = "reverse" -> "cancel"
                                [] OTHER                     -> "respond"

(* What follows the last payload.                                           *)
AfterPosts(s) == CASE request[s].op = "settle"  -> "settle"
                   [] request[s].op = "reverse" -> "cancel"
                   [] OTHER                     -> "respond"

NextPayload(s) ==
    /\ todo' = [todo EXCEPT ![s] = Tail(@)]
    /\ cursor' = [cursor EXCEPT ![s] = 0]
    /\ Goto(s, IF Len(todo[s]) > 1 THEN "key" ELSE AfterPosts(s))

(* get_by_idempotency_key: a transaction of that key is returned as it is.  *)
LookupKey(s) ==
    /\ pc[s] = "key"
    /\ IF KeyVisible(s, Current(s).key)
       THEN NextPayload(s)
       ELSE Goto(s, "period") /\ UNCHANGED <<todo, cursor>>
    /\ UNCHANGED <<others, request, loaded, dirty, inserted, rcvWrites, reply>>

PostableUnlessLocked(t) == period[t.date] # "LOCKED"

(* validate_not_blocked: no period row of the date is closed or locked.     *)
Postable(t) == ~Blocked(t.date)

CheckPeriod(s) ==
    /\ pc[s] = "period"
    /\ IF ~Postable(Current(s)) THEN Fail(s, "422")
       ELSE /\ Goto(s, "read")
            /\ UNCHANGED <<others, request, work, reply>>

(* get_by_entity_and_code, once per entry.                                  *)
ReadAccount(s) ==
    /\ pc[s] = "read"
    /\ EntriesLeft(s)
    /\ IF CurrentAccount(s) \notin Accounts THEN Fail(s, "422")
       ELSE /\ Load(s, {CurrentAccount(s)})
            /\ cursor' = [cursor EXCEPT ![s] = @ + 1]
            /\ UNCHANGED <<others, pc, request, todo, dirty, inserted, rcvWrites, reply>>

(* Another session has flushed the key and not committed: INSERT waits.     *)
KeyHolders(s) == {u \in Sessions \ {s} : KeyUsed(inserted[u], Current(s).key)}

KeyNeverTaken(s) == FALSE

(* idempotency_key is unique: no row has the key of the INSERT.             *)
KeyTaken(s) == KeyUsed(journal, Current(s).key)

Accepted(t) == Balanced(t.entries) /\ CurrenciesMatch(t)

(* The UPDATE of an account names the columns that changed since the object *)
(* was loaded or last flushed: the version, and the balance unless the      *)
(* deltas cancelled.                                                        *)
NamesBalance(s, a) == dirty[s][a].named \/ dirty[s][a].balance # loaded[s][a].balance

Flushed(s) ==
    [a \in DOMAIN dirty[s] |-> [dirty[s][a] EXCEPT !.named = NamesBalance(s, a)]]

(* The validations and the flushed INSERT, with the updates of the payload  *)
(* before it.  A key that was committed after it was looked up breaks the   *)
(* unique constraint: 500.                                                  *)
InsertTransaction(s) ==
    /\ pc[s] = "read"
    /\ ~EntriesLeft(s)
    /\ IF ~Accepted(Current(s)) THEN Fail(s, "422")
       ELSE /\ KeyHolders(s) = {}
            /\ IF KeyTaken(s) THEN Fail(s, "500")
               ELSE /\ inserted' = [inserted EXCEPT ![s] = @ \cup {Current(s)}]
                    /\ cursor' = [cursor EXCEPT ![s] = 0]
                    /\ dirty' = [dirty EXCEPT ![s] = Flushed(s)]
                    /\ Goto(s, "lock")
                    /\ UNCHANGED <<others, request, todo, loaded, rcvWrites, reply>>

RowHoldersIgnored(s) == {}

(* _apply_balance_updates, one entry: SELECT ... FOR UPDATE, which leaves   *)
(* the attributes of the loaded object alone, then the delta on those.      *)
RowHolders(s) == {u \in Sessions \ {s} : CurrentAccount(s) \in DOMAIN dirty[u]}

Attributes(s, a) ==
    IF a \in DOMAIN dirty[s] THEN dirty[s][a]
    ELSE [balance |-> loaded[s][a].balance, version |-> loaded[s][a].version, named |-> FALSE]

AppliedVersionDown(row, a, e) ==
    [row EXCEPT !.balance = @ + Delta(Chart[a].type, e.type, e.amount), !.version = @ - 1]
AppliedUnsigned(row, a, e) ==
    [row EXCEPT !.balance = @ + e.amount, !.version = @ + 1]

Applied(row, a, e) ==
    [row EXCEPT !.balance = @ + Delta(Chart[a].type, e.type, e.amount), !.version = @ + 1]

LockAndApply(s) ==
    LET a == CurrentAccount(s)
        e == Current(s).entries[cursor[s] + 1]
    IN
    /\ pc[s] = "lock"
    /\ EntriesLeft(s)
    /\ RowHolders(s) = {}
    /\ dirty' = [dirty EXCEPT ![s] = Put(@, a, Applied(Attributes(s, a), a, e))]
    /\ cursor' = [cursor EXCEPT ![s] = @ + 1]
    /\ UNCHANGED <<others, pc, request, todo, loaded, inserted, rcvWrites, reply>>

OpensReceivableAnyway(t) == t.type # "REVERSAL"
OpensReceivable(t) == t.expects

(* The end of post: a sale with a settlement date leaves a receivable.      *)
FinishPost(s) ==
    /\ pc[s] = "lock"
    /\ ~EntriesLeft(s)
    /\ IF Current(s).expects /\ InferredGross(Current(s)) = 0 THEN Fail(s, "422")
       ELSE /\ rcvWrites' = IF OpensReceivable(Current(s))
                            THEN [rcvWrites EXCEPT ![s] = Put(@, Current(s).key, "PENDING")]
                            ELSE rcvWrites
            /\ NextPayload(s)
            /\ UNCHANGED <<others, request, loaded, dirty, inserted, reply>>

-----------------------------------------------------------------------------
(* The end of each request.                                                 *)
ReceivableOf(r, k) == receivable[k] # "none" /\ TxnWithKey(journal, k).entity = r.entity

SettleReceivable(s) ==
    LET k == request[s].receivable IN
    /\ pc[s] = "settle"
    /\ CASE ~ReceivableOf(request[s], k) -> Fail(s, "404")
         [] ReceivableOf(request[s], k) /\ receivable[k] # "PENDING" -> Fail(s, "422")
         [] OTHER -> /\ rcvWrites' = [rcvWrites EXCEPT ![s] = Put(@, k, "SETTLED")]
                     /\ Goto(s, "respond")
                     /\ UNCHANGED <<others, request, todo, cursor, loaded, dirty,
                                    inserted, reply>>

CancellableOnceSettled(status) == status # "CANCELLED"

(* reverse cancels a receivable that is there, and it has to be pending.    *)
Cancellable(status) == status \in {"none", "PENDING"}

CancelReceivable(s) ==
    LET k == request[s].txn IN
    /\ pc[s] = "cancel"
    /\ IF ~Cancellable(receivable[k]) THEN Fail(s, "422")
       ELSE /\ rcvWrites' = IF receivable[k] = "none" THEN rcvWrites
                            ELSE [rcvWrites EXCEPT ![s] = Put(@, k, "CANCELLED")]
            /\ Goto(s, "respond")
            /\ UNCHANGED <<others, request, todo, cursor, loaded, dirty, inserted, reply>>

(* The response goes out before the code of get_db behind its yield runs.   *)
Respond(s) ==
    /\ pc[s] = "respond"
    /\ reply' = [reply EXCEPT ![s] = "201"]
    /\ Goto(s, "commit")
    /\ UNCHANGED <<others, request, work>>

WrittenInPlace(s, a) ==
    [balance |-> IF NamesBalance(s, a) THEN dirty[s][a].balance ELSE account[a].balance,
     version |-> account[a].version + dirty[s][a].version - loaded[s][a].version]

(* The UPDATE writes the values computed in Python, so it overwrites what   *)
(* was committed since the row was read.                                    *)
Written(s, a) ==
    [balance |-> IF NamesBalance(s, a) THEN dirty[s][a].balance ELSE account[a].balance,
     version |-> dirty[s][a].version]

(* get_db commits: flush and COMMIT.  Nothing can be waited for between     *)
(* them but the row of a receivable, whose holder is itself at its commit.  *)
Commit(s) ==
    /\ pc[s] = "commit"
    /\ journal' = journal \cup inserted[s]
    /\ account' = [a \in Accounts |-> IF a \in DOMAIN dirty[s] THEN Written(s, a) ELSE account[a]]
    /\ receivable' = [k \in TxnKeys |-> IF k \in DOMAIN rcvWrites[s]
                                        THEN rcvWrites[s][k] ELSE receivable[k]]
    /\ Goto(s, "done")
    /\ Release(s)
    /\ UNCHANGED <<request, reply, periodVars>>

-----------------------------------------------------------------------------
(* The worker dies or loses its connection: the server rolls back, and the  *)
(* client may or may not have seen the response.                            *)
Crash(s) ==
    /\ s \in BusySessions
    /\ Goto(s, "crashed")
    /\ Release(s)
    /\ UNCHANGED <<others, request, reply>>

(* Whom a session waits for.                                                *)
WaitsFor(s) ==
    CASE pc[s] = "read" /\ ~EntriesLeft(s) /\ Accepted(Current(s)) -> KeyHolders(s)
      [] pc[s] = "lock" /\ EntriesLeft(s) -> RowHolders(s)
      [] OTHER -> {}

(* s waits in a cycle.  A session waits for one other at most, so a set     *)
(* that waits for exactly itself is made of cycles.                         *)
InDeadlock(s) ==
    \E C \in SUBSET BusySessions : s \in C /\ UNION {WaitsFor(t) : t \in C} = C

(* PostgreSQL picks a victim; nothing catches the error: 500.               *)
AbortDeadlocked(s) == InDeadlock(s) /\ Fail(s, "500")

SessionStep(s) ==
    \/ LookupSendKey(s)
    \/ LookupRecvKey(s)
    \/ ResolveAccounts(s)
    \/ LoadOriginal(s)
    \/ VoidTransaction(s)
    \/ LookupKey(s)
    \/ CheckPeriod(s)
    \/ ReadAccount(s)
    \/ InsertTransaction(s)
    \/ LockAndApply(s)
    \/ FinishPost(s)
    \/ SettleReceivable(s)
    \/ CancelReceivable(s)
    \/ Respond(s)
    \/ Commit(s)
    \/ AbortDeadlocked(s)

AdminMove(a) ==
    \/ PoolHasRoom /\ BeginJob(a)
    \/ AdminStep(a)
    \/ CrashAdmin(a)

Quiet ==
    /\ \A s \in Sessions : pc[s] \in Over
    /\ \A a \in Admins : adminPc[a] \in {"done", "failed", "crashed"}
    /\ UNCHANGED vars

Init == LedgerInit /\ PeriodsInit

Next ==
    \/ \E s \in Sessions : Begin(s) \/ SessionStep(s) \/ Crash(s)
    \/ \E a \in Admins : AdminMove(a) /\ UNCHANGED ledgerVars
    \/ Quiet

Fairness ==
    /\ \A s \in Sessions : WF_vars(SessionStep(s))
    /\ \A a \in Admins : WF_vars(AdminStep(a) /\ UNCHANGED ledgerVars)

Spec == Init /\ [][Next]_vars
FairSpec == Spec /\ Fairness

====
