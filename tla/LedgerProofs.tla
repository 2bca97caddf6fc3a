---- MODULE LedgerProofs ----
(***************************************************************************)
(* Theorems about LedgerSessions for any number of sessions, requests,     *)
(* accounts and keys: type correctness, what a step of one session leaves  *)
(* alone in the others, row locks, idempotency keys, the two legs of a     *)
(* transfer, receivables of sales, and the refinement of Journal.          *)
(***************************************************************************)
EXTENDS LedgerProperties, FiniteSetTheorems, SequenceTheorems, TLAPS

(* What the types rest on: where a handler is tells what it was asked and   *)
(* how far it has read, and booked entries are on accounts of the chart.    *)
OnChart(t) == \A i \in DOMAIN t.entries : AccountAt(t, i) \in Accounts

AskedFor(s) ==
    /\ pc[s] # "idle" => request[s] \in Requests
    /\ pc[s] \in {"sendkey", "recvkey", "resolve"} => request[s].op = "transfer"
    /\ pc[s] = "settle" => request[s].op = "settle"
    /\ pc[s] = "cancel" => request[s].op = "reverse"

ReadSoFar(s) ==
    /\ pc[s] \in {"key", "period", "read", "lock"} => todo[s] # <<>>
    /\ pc[s] \notin {"read", "lock"} => cursor[s] = 0
    /\ pc[s] \in {"read", "lock"} => cursor[s] <= Len(Current(s).entries)
    /\ pc[s] = "read" => \A i \in 1 .. cursor[s] : AccountAt(Current(s), i) \in DOMAIN loaded[s]
    /\ pc[s] = "lock" => \A i \in DOMAIN Current(s).entries :
                            AccountAt(Current(s), i) \in DOMAIN loaded[s]

Booked == journal \cup UNION {inserted[s] : s \in Sessions}

ShapeInv ==
    /\ TypeOK
    /\ \A s \in Sessions : AskedFor(s) /\ ReadSoFar(s)
    /\ \A t \in Booked : OnChart(t)

-----------------------------------------------------------------------------
(* The operators of Bookkeeping make transactions.                          *)
LEMMA SideEntries ==
    ASSUME NEW c \in Codes, NEW n \in Int, NEW cur \in Currencies
    PROVE  Debit(c, n, cur) \in Entry /\ Credit(c, n, cur) \in Entry
  BY DEF Debit, Credit, Entry, EntryTypes

LEMMA FixedCodes ==
    /\ {ACC_RECEIVABLES, ACC_RECEIVABLES_ANTICIPATED, ACC_ANTICIPATION_FEE, ACC_TRANSFER} \subseteq Codes
    /\ \A n \in Networks : WorldAccount(n) \in Codes
  BY ChartAssumption

LEMMA PayloadType ==
    ASSUME NEW by \in Sessions, NEW key \in TxnKeys, NEW entity \in Entities,
           NEW type \in TransactionTypes, NEW date \in Dates, NEW entries \in Seq(Entry),
           NEW ref \in TxnKeys \cup {NoRef}, NEW expects \in BOOLEAN
    PROVE  Payload(by, key, entity, type, date, entries, ref, expects) \in Txn
  BY DEF Payload, Txn

LEMMA PairOfEntries ==
    ASSUME NEW e \in Entry, NEW f \in Entry PROVE <<e, f>> \in Seq(Entry)
  OBVIOUS

LEMMA FourEntries ==
    ASSUME NEW e \in Entry, NEW f \in Entry, NEW g \in Entry, NEW h \in Entry
    PROVE <<e, f, g, h>> \in Seq(Entry)
  OBVIOUS

LEMMA TransferTxns ==
    ASSUME NEW s \in Sessions, NEW r \in TransferRequest
    PROVE  SenderTxn(s, r) \in Txn /\ ReceiverTxn(s, r) \in Txn
<1>1. SenderEntries(r) \in Seq(Entry) /\ ReceiverEntries(r) \in Seq(Entry)
  BY SideEntries, FixedCodes, PairOfEntries DEF SenderEntries, ReceiverEntries, TransferRequest
<1>2. <<SEND, r.key>> \in TxnKeys /\ <<RECV, r.key>> \in TxnKeys
  BY DEF TxnKeys, TransferRequest
<1>3. SenderTxn(s, r) \in Txn
  BY <1>1, <1>2, PayloadType DEF SenderTxn, TransferRequest, TransactionTypes
<1>4. ReceiverTxn(s, r) \in Txn
  BY <1>1, <1>2, PayloadType DEF ReceiverTxn, TransferRequest, TransactionTypes
<1> QED
  BY <1>3, <1>4

(* The requests served by one call of post and nothing before it.           *)
PostsAtOnce == {"post", "deposit", "withdraw", "anticipate", "settle"}

LEMMA TxnOfType ==
    ASSUME NEW s \in Sessions, NEW r \in Request, r.op \in PostsAtOnce
    PROVE  TxnOf(s, r) \in Txn
<1> USE DEF PostsAtOnce, TransactionTypes
<1>1. CASE r.op = "post"
  <2>1. r \in PostRequest
    BY <1>1 DEF Request, CashRequest, AnticipateRequest, SettleRequest, TransferRequest,
       ReverseRequest, VoidRequest
  <2> QED
    BY <1>1, <2>1, PayloadType DEF TxnOf, PostRequest
<1>2. CASE r.op \in {"deposit", "withdraw"}
  <2>1. r \in CashRequest
    BY <1>2 DEF Request, PostRequest, AnticipateRequest, SettleRequest, TransferRequest,
       ReverseRequest, VoidRequest
  <2>2. DepositEntries(r) \in Seq(Entry) /\ WithdrawalEntries(r) \in Seq(Entry)
    BY <2>1, SideEntries, FixedCodes, PairOfEntries
       DEF DepositEntries, WithdrawalEntries, CashRequest
  <2>3. CASE r.op = "deposit"
    BY <2>1, <2>2, <2>3, PayloadType DEF TxnOf, CashRequest
  <2>4. CASE r.op = "withdraw"
    BY <2>1, <2>2, <2>4, PayloadType DEF TxnOf, CashRequest
  <2> QED
    BY <1>2, <2>3, <2>4
<1>3. CASE r.op = "anticipate"
  <2>1. r \in AnticipateRequest
    BY <1>3 DEF Request, PostRequest, CashRequest, SettleRequest, TransferRequest,
       ReverseRequest, VoidRequest
  <2>2. AnticipationEntries(r) \in Seq(Entry)
    BY <2>1, SideEntries, FixedCodes, FourEntries
       DEF AnticipationEntries, AnticipateRequest, Currencies
  <2> QED
    BY <1>3, <2>1, <2>2, PayloadType DEF TxnOf, AnticipateRequest
<1>4. CASE r.op = "settle"
  <2>1. r \in SettleRequest
    BY <1>4 DEF Request, PostRequest, CashRequest, AnticipateRequest, TransferRequest,
       ReverseRequest, VoidRequest
  <2>2. SettlementEntries(r) \in Seq(Entry)
    BY <2>1, SideEntries, FixedCodes, PairOfEntries
       DEF SettlementEntries, SettleRequest, Currencies
  <2> QED
    BY <1>4, <2>1, <2>2, PayloadType DEF TxnOf, SettleRequest
<1> QED
  BY <1>1, <1>2, <1>3, <1>4

LEMMA MirroredType ==
    ASSUME NEW entries \in Seq(Entry) PROVE Mirrored(entries) \in Seq(Entry)
<1>1. Len(entries) \in Nat /\ DOMAIN entries = 1 .. Len(entries)
  BY LenProperties
<1>2. ASSUME NEW i \in DOMAIN entries
      PROVE  [entries[i] EXCEPT !.type = Opposite(@)] \in Entry
  <2>1. entries[i] \in Entry
    BY <1>1, ElementOfSeq
  <2> QED
    BY <2>1 DEF Entry, EntryTypes, Opposite
<1>3. Mirrored(entries) \in [1 .. Len(entries) -> Entry]
  BY <1>1, <1>2 DEF Mirrored
<1> QED
  BY <1>1, <1>3, SeqDef

LEMMA ReversalType ==
    ASSUME NEW s \in Sessions, NEW r \in ReverseRequest, NEW t \in Txn
    PROVE  ReversalTxn(s, r, t) \in Txn
<1>1. Mirrored(t.entries) \in Seq(Entry)
  BY MirroredType DEF Txn
<1> QED
  BY <1>1, PayloadType, CalendarAssumption DEF ReversalTxn, ReverseRequest, TransactionTypes
-----------------------------------------------------------------------------
(* A step of session s leaves the state of the others alone.                *)
SessionMove(s) == Begin(s) \/ SessionStep(s) \/ Crash(s)

OthersKeep(s) ==
    \A u \in Sessions \ {s} :
        /\ pc'[u] = pc[u] /\ request'[u] = request[u] /\ reply'[u] = reply[u]
        /\ todo'[u] = todo[u] /\ cursor'[u] = cursor[u] /\ loaded'[u] = loaded[u]
        /\ dirty'[u] = dirty[u] /\ inserted'[u] = inserted[u] /\ rcvWrites'[u] = rcvWrites[u]

LEMMA ReleaseKeeps ==
    ASSUME TypeOK, NEW s \in Sessions, Release(s)
    PROVE  /\ \A u \in Sessions \ {s} :
                 /\ todo'[u] = todo[u] /\ cursor'[u] = cursor[u] /\ loaded'[u] = loaded[u]
                 /\ dirty'[u] = dirty[u] /\ inserted'[u] = inserted[u]
                 /\ rcvWrites'[u] = rcvWrites[u]
           /\ todo'[s] = <<>> /\ cursor'[s] = 0 /\ loaded'[s] = EmptyFcn /\ dirty'[s] = EmptyFcn
           /\ inserted'[s] = {} /\ rcvWrites'[s] = EmptyFcn
  BY DEF TypeOK, Release

LEMMA FailKeeps ==
    ASSUME TypeOK, NEW s \in Sessions, NEW code, Fail(s, code) PROVE OthersKeep(s)
<1>1. Release(s)
  BY DEF Fail
<1> QED
  BY <1>1, ReleaseKeeps DEF TypeOK, Fail, Goto, OthersKeep

LEMMA MoveKeeps ==
    ASSUME TypeOK, NEW s \in Sessions, SessionMove(s) PROVE OthersKeep(s)
<1>1. ASSUME NEW code, Fail(s, code) PROVE OthersKeep(s)
  BY <1>1, FailKeeps
<1>2. ASSUME Release(s), UNCHANGED request, UNCHANGED reply, NEW where, Goto(s, where)
      PROVE  OthersKeep(s)
  BY <1>2, ReleaseKeeps DEF TypeOK, Goto, OthersKeep
<1> USE DEF Goto, work
<1>b. CASE Begin(s)
  BY <1>b DEF Begin, TypeOK, OthersKeep
<1>c. CASE LookupSendKey(s) \/ LookupRecvKey(s)
  BY <1>c DEF LookupSendKey, LookupRecvKey, TypeOK, OthersKeep
<1>d. CASE ResolveAccounts(s)
  BY <1>d, <1>1 DEF ResolveAccounts, TypeOK, OthersKeep
<1>e. CASE LoadOriginal(s)
  BY <1>e, <1>1 DEF LoadOriginal, Load, TypeOK, OthersKeep
<1>f. CASE VoidTransaction(s)
  BY <1>f, <1>1 DEF VoidTransaction
<1>g. CASE LookupKey(s)
  BY <1>g DEF LookupKey, NextPayload, TypeOK, OthersKeep
<1>h. CASE CheckPeriod(s)
  BY <1>h, <1>1 DEF CheckPeriod, TypeOK, OthersKeep
<1>i. CASE ReadAccount(s)
  BY <1>i, <1>1 DEF ReadAccount, Load, TypeOK, OthersKeep
<1>j. CASE InsertTransaction(s)
  BY <1>j, <1>1 DEF InsertTransaction, TypeOK, OthersKeep
<1>k. CASE LockAndApply(s)
  BY <1>k DEF LockAndApply, TypeOK, OthersKeep
<1>l. CASE FinishPost(s)
  BY <1>l, <1>1 DEF FinishPost, NextPayload, TypeOK, OthersKeep
<1>m. CASE SettleReceivable(s)
  BY <1>m, <1>1 DEF SettleReceivable, TypeOK, OthersKeep
<1>n. CASE CancelReceivable(s)
  BY <1>n, <1>1 DEF CancelReceivable, TypeOK, OthersKeep
<1>o. CASE Respond(s)
  BY <1>o DEF Respond, TypeOK, OthersKeep
<1>p. CASE Commit(s)
  BY <1>p, <1>2 DEF Commit
<1>q. CASE AbortDeadlocked(s)
  BY <1>q, <1>1 DEF AbortDeadlocked
<1>r. CASE Crash(s)
  BY <1>r, <1>2 DEF Crash
<1> QED
  BY <1>b, <1>c, <1>d, <1>e, <1>f, <1>g, <1>h, <1>i, <1>j, <1>k, <1>l, <1>m, <1>n, <1>o,
     <1>p, <1>q, <1>r DEF SessionMove, SessionStep
-----------------------------------------------------------------------------
LEMMA ShapeInit == Init => ShapeInv
  BY DEF Init, LedgerInit, ShapeInv, TypeOK, AskedFor, ReadSoFar, Booked, PartialFcn, EmptyFcn, Row,
     KeysOf

(* The facts about session s that make ShapeInv hold again.                 *)
LEMMA ShapeOfOne ==
    ASSUME ShapeInv, NEW s \in Sessions, OthersKeep(s), TypeOK', AskedFor(s)', ReadSoFar(s)',
           \A t \in Booked' : OnChart(t)
    PROVE  ShapeInv'
<1>1. ASSUME NEW u \in Sessions \ {s} PROVE AskedFor(u)' /\ ReadSoFar(u)'
  BY <1>1 DEF ShapeInv, OthersKeep, AskedFor, ReadSoFar, Current
<1> QED
  BY <1>1 DEF ShapeInv

LEMMA EmptyPartial == ASSUME NEW D, NEW R PROVE PartialFcn(EmptyFcn, D, R)
  BY DEF PartialFcn, EmptyFcn

LEMMA PutPartial ==
    ASSUME NEW D, NEW R, NEW f, PartialFcn(f, D, R), NEW x \in D, NEW v \in R
    PROVE  PartialFcn(Put(f, x, v), D, R)
  BY DEF PartialFcn, Put

(* A session that lets go of everything.                                    *)
LEMMA ReleaseShape ==
    ASSUME ShapeInv, NEW s \in Sessions, Release(s), OthersKeep(s), request' = request,
           pc[s] # "idle", NEW where \in {"done", "failed", "crashed"}, Goto(s, where),
           reply' \in [Sessions -> {"none", "201", "404", "422", "500"}],
           journal' \subseteq Booked,
           account' \in [Accounts -> Row],
           receivable' \in [TxnKeys -> ReceivableStatuses \cup {"none"}]
    PROVE  ShapeInv'
<1>1. /\ todo'[s] = <<>> /\ cursor'[s] = 0 /\ loaded'[s] = EmptyFcn /\ dirty'[s] = EmptyFcn
      /\ inserted'[s] = {} /\ rcvWrites'[s] = EmptyFcn
  BY ReleaseKeeps DEF ShapeInv
<1>2. journal' \subseteq Txn /\ Booked' \subseteq Booked
  <2>1. Booked \subseteq Txn
    BY DEF ShapeInv, TypeOK, Booked
  <2>2. UNION {inserted'[u] : u \in Sessions} \subseteq Booked
    BY <1>1 DEF OthersKeep, Booked
  <2> QED
    BY <2>1, <2>2 DEF Booked
<1>3. TypeOK'
  <2>1. /\ pc' \in [Sessions -> {"idle", "sendkey", "recvkey", "resolve", "original", "key",
                            "period", "read", "lock", "settle", "cancel", "respond",
                            "commit", "done", "failed", "crashed"}]
        /\ request' \in [Sessions -> Requests \cup {None}]
    BY DEF ShapeInv, TypeOK, Goto
  <2>3. /\ todo' \in [Sessions -> Seq(Txn)]
        /\ cursor' \in [Sessions -> Nat]
        /\ inserted' \in [Sessions -> SUBSET Txn]
    BY DEF ShapeInv, TypeOK, Release
  <2>4. /\ loaded' = [u \in Sessions |-> loaded'[u]]
        /\ dirty' = [u \in Sessions |-> dirty'[u]]
        /\ rcvWrites' = [u \in Sessions |-> rcvWrites'[u]]
    BY DEF ShapeInv, TypeOK, Release
  <2>2. ASSUME NEW u \in Sessions
        PROVE  /\ PartialFcn(loaded'[u], Accounts, Row)
               /\ PartialFcn(dirty'[u], Accounts, DirtyRow)
               /\ PartialFcn(rcvWrites'[u], TxnKeys, ReceivableStatuses)
    <3>1. CASE u = s
      BY <3>1, <1>1, EmptyPartial
    <3>2. CASE u # s
      BY <3>2 DEF OthersKeep, ShapeInv, TypeOK
    <3> QED
      BY <3>1, <3>2
  <2> QED
    BY <1>2, <2>1, <2>2, <2>3, <2>4 DEF TypeOK
<1>4. AskedFor(s)' /\ ReadSoFar(s)'
  BY <1>1 DEF ShapeInv, TypeOK, AskedFor, ReadSoFar, Goto
<1> QED
  BY <1>2, <1>3, <1>4, ShapeOfOne DEF ShapeInv

LEMMA FailShape ==
    ASSUME ShapeInv, NEW s \in Sessions, pc[s] # "idle",
           NEW code \in {"404", "422", "500"}, Fail(s, code)
    PROVE  ShapeInv'
<1>1. OthersKeep(s)
  BY FailKeeps DEF ShapeInv
<1>2. /\ Release(s) /\ Goto(s, "failed") /\ request' = request
      /\ reply' \in [Sessions -> {"none", "201", "404", "422", "500"}]
      /\ UNCHANGED <<journal, account, receivable>>
  BY DEF Fail, others, tables, ShapeInv, TypeOK
<1> QED
  BY <1>1, <1>2, ReleaseShape DEF ShapeInv, TypeOK, Booked
-----------------------------------------------------------------------------
(* One lemma per part of a request's life.                                  *)
LEMMA BeginShape ==
    ASSUME ShapeInv, NEW s \in Sessions, Begin(s) PROVE ShapeInv'
<1>1. PICK r \in Requests :
         /\ request' = [request EXCEPT ![s] = r]
         /\ todo' = [todo EXCEPT ![s] = IF FirstStep(r) = "key" THEN <<TxnOf(s, r)>> ELSE <<>>]
         /\ Goto(s, FirstStep(r))
  BY DEF Begin
<1>2. r \in Request
  BY SessionsAssumption
<1>3. r.op \in PostsAtOnce \cup {"transfer", "reverse", "void"}
  BY <1>2 DEF Request, PostRequest, CashRequest, AnticipateRequest, SettleRequest,
     TransferRequest, ReverseRequest, VoidRequest, PostsAtOnce
<1>4. FirstStep(r) = "key" => TxnOf(s, r) \in Txn
  BY <1>2, <1>3, TxnOfType DEF FirstStep, PostsAtOnce
<1>5. /\ FirstStep(r) \in {"sendkey", "original", "key"}
      /\ FirstStep(r) = "sendkey" => r.op = "transfer"
  BY DEF FirstStep
<1>6. TypeOK'
  BY <1>1, <1>4, <1>5 DEF ShapeInv, TypeOK, Begin, Goto, others, tables
<1>7. AskedFor(s)' /\ ReadSoFar(s)'
  BY <1>1, <1>5 DEF ShapeInv, TypeOK, AskedFor, ReadSoFar, Begin, Goto
<1>8. OthersKeep(s)
  BY MoveKeeps DEF ShapeInv, SessionMove
<1>9. Booked' = Booked
  BY DEF Begin, Booked, others, tables
<1> QED
  BY <1>6, <1>7, <1>8, <1>9, ShapeOfOne DEF ShapeInv, OnChart

LEMMA RequestOf ==
    ASSUME ShapeInv, NEW s \in Sessions, pc[s] # "idle"
    PROVE  /\ request[s] \in Request
           /\ request[s].op = "transfer" => request[s] \in TransferRequest
           /\ request[s].op = "reverse" => request[s] \in ReverseRequest
           /\ request[s].op = "settle" => request[s] \in SettleRequest
<1>1. request[s] \in Request
  BY SessionsAssumption DEF ShapeInv, AskedFor
<1> QED
  BY <1>1 DEF Request, PostRequest, CashRequest, AnticipateRequest, SettleRequest,
     TransferRequest, ReverseRequest, VoidRequest

LEMMA FirstStepsShape ==
    ASSUME ShapeInv, NEW s \in Sessions,
           LookupSendKey(s) \/ LookupRecvKey(s) \/ ResolveAccounts(s)
    PROVE  ShapeInv'
<1> USE DEF Goto, work, others, tables
<1>0. OthersKeep(s)
  BY MoveKeeps DEF ShapeInv, SessionMove, SessionStep
<1>1. CASE LookupSendKey(s) \/ LookupRecvKey(s)
  <2>1. TypeOK'
    BY <1>1 DEF ShapeInv, TypeOK, LookupSendKey, LookupRecvKey
  <2>2. AskedFor(s)' /\ ReadSoFar(s)'
    BY <1>1 DEF ShapeInv, TypeOK, AskedFor, ReadSoFar, LookupSendKey, LookupRecvKey
  <2>3. Booked' = Booked
    BY <1>1 DEF Booked, LookupSendKey, LookupRecvKey
  <2> QED
    BY <1>0, <2>1, <2>2, <2>3, ShapeOfOne DEF ShapeInv, OnChart
<1>2. CASE ResolveAccounts(s) /\ ~(TransferAccounts(request[s]) \subseteq Accounts)
  BY <1>2, FailShape DEF ResolveAccounts
<1>3. CASE ResolveAccounts(s) /\ TransferAccounts(request[s]) \subseteq Accounts
  <2>1. SenderTxn(s, request[s]) \in Txn /\ ReceiverTxn(s, request[s]) \in Txn
    BY <1>3, RequestOf, TransferTxns DEF ResolveAccounts, ShapeInv, AskedFor
  <2> DEFINE legs == <<SenderTxn(s, request[s]), ReceiverTxn(s, request[s])>>
  <2>5. legs \in Seq(Txn) /\ legs # <<>>
    BY <2>1
  <2>6. /\ pc[s] = "resolve" /\ todo' = [todo EXCEPT ![s] = legs]
        /\ pc' = [pc EXCEPT ![s] = "key"]
        /\ UNCHANGED <<others, request, cursor, loaded, dirty, inserted, rcvWrites, reply>>
    BY <1>3 DEF ResolveAccounts
  <2> HIDE DEF legs
  <2>2. TypeOK'
    BY <2>5, <2>6 DEF ShapeInv, TypeOK
  <2>3. AskedFor(s)' /\ ReadSoFar(s)'
    BY <2>5, <2>6 DEF ShapeInv, TypeOK, AskedFor, ReadSoFar
  <2>4. Booked' = Booked
    BY <1>3 DEF Booked, ResolveAccounts
  <2> QED
    BY <1>0, <2>2, <2>3, <2>4, ShapeOfOne DEF ShapeInv, OnChart
<1> QED
  BY <1>1, <1>2, <1>3

(* Rows of the chart that exist are what Load adds.                         *)
LEMMA LoadType ==
    ASSUME TypeOK, NEW s \in Sessions, NEW as, as \subseteq Accounts, Load(s, as)
    PROVE  /\ loaded' = [u \in Sessions |-> loaded'[u]]
           /\ \A u \in Sessions : PartialFcn(loaded'[u], Accounts, Row)
           /\ as \subseteq DOMAIN loaded'[s] /\ DOMAIN loaded[s] \subseteq DOMAIN loaded'[s]
<1> DEFINE new == [a \in DOMAIN loaded[s] \cup as |->
                     IF a \in DOMAIN loaded[s] THEN loaded[s][a] ELSE account[a]]
<1>1. loaded' = [loaded EXCEPT ![s] = new]
  BY DEF Load
<1>2. PartialFcn(new, Accounts, Row)
  BY DEF TypeOK, PartialFcn
<1>3. loaded'[s] = new /\ \A u \in Sessions \ {s} : loaded'[u] = loaded[u]
  BY <1>1 DEF TypeOK
<1>4. loaded' = [u \in Sessions |-> loaded'[u]]
  BY <1>1 DEF TypeOK
<1>5. \A u \in Sessions : PartialFcn(loaded'[u], Accounts, Row)
  BY <1>2, <1>3 DEF TypeOK
<1> QED
  BY <1>3, <1>4, <1>5

LEMMA KeyUsedTxn ==
    ASSUME NEW txns, NEW key, KeyUsed(txns, key)
    PROVE  TxnWithKey(txns, key) \in txns /\ TxnWithKey(txns, key).key = key
  BY DEF KeyUsed, TxnWithKey

LEMMA OriginalShape ==
    ASSUME ShapeInv, NEW s \in Sessions, LoadOriginal(s) \/ VoidTransaction(s) PROVE ShapeInv'
<1> DEFINE r == request[s]
           read == {AccountAt(Original(r), i) : i \in DOMAIN Original(r).entries}
<1>0. OthersKeep(s)
  BY MoveKeeps DEF ShapeInv, SessionMove, SessionStep
<1>1. CASE VoidTransaction(s)
  BY <1>1, FailShape DEF VoidTransaction
<1>2. CASE LoadOriginal(s) /\ ~OriginalFound(r)
  BY <1>2, FailShape DEF LoadOriginal
<1>3. CASE LoadOriginal(s) /\ OriginalFound(r)
  <2>1. Original(r) \in journal
    BY <1>3, KeyUsedTxn DEF OriginalFound, Original
  <2>2. read \subseteq Accounts
    BY <2>1 DEF ShapeInv, OnChart, Booked
  <2>3. ReversalTxn(s, r, Original(r)) \in Txn
    BY <1>3, <2>1, RequestOf, ReversalType DEF LoadOriginal, ShapeInv, TypeOK
  <2> DEFINE payload == <<ReversalTxn(s, r, Original(r))>>
  <2>4. payload \in Seq(Txn) /\ payload # <<>>
    BY <2>3
  <2>5. /\ pc[s] = "original" /\ todo' = [todo EXCEPT ![s] = payload]
        /\ pc' = [pc EXCEPT ![s] = "key"] /\ Load(s, read)
        /\ UNCHANGED <<others, request, cursor, dirty, inserted, rcvWrites, reply>>
    BY <1>3 DEF LoadOriginal, Goto
  <2> HIDE DEF payload, read, r
  <2>6. TypeOK'
    BY <2>2, <2>4, <2>5, LoadType DEF ShapeInv, TypeOK, others, tables
  <2>7. AskedFor(s)' /\ ReadSoFar(s)'
    BY <2>4, <2>5 DEF ShapeInv, TypeOK, AskedFor, ReadSoFar
  <2>8. Booked' = Booked
    BY <2>5 DEF Booked, others, tables
  <2> QED
    BY <1>0, <2>6, <2>7, <2>8, ShapeOfOne DEF ShapeInv, OnChart
<1> QED
  BY <1>1, <1>2, <1>3

(* NextPayload leaves the handler at the key of the next payload or, after  *)
(* the last one, at what its request ends with.                             *)
LEMMA NextPayloadShape ==
    ASSUME ShapeInv, NEW s \in Sessions, NextPayload(s), pc[s] \in {"key", "lock"}
    PROVE  /\ todo' \in [Sessions -> Seq(Txn)] /\ cursor' \in [Sessions -> Nat]
           /\ pc' \in [Sessions -> {"idle", "sendkey", "recvkey", "resolve", "original", "key",
                            "period", "read", "lock", "settle", "cancel", "respond",
                            "commit", "done", "failed", "crashed"}]
           /\ cursor'[s] = 0
           /\ \/ pc'[s] = "key" /\ todo'[s] # <<>>
              \/ pc'[s] = "settle" /\ request[s].op = "settle"
              \/ pc'[s] = "cancel" /\ request[s].op = "reverse"
              \/ pc'[s] = "respond"
<1>1. todo[s] \in Seq(Txn) /\ todo[s] # <<>>
  BY DEF ShapeInv, TypeOK, ReadSoFar
<1>2. Tail(todo[s]) \in Seq(Txn) /\ (Len(todo[s]) > 1 => Tail(todo[s]) # <<>>)
  <2>1. Tail(todo[s]) \in Seq(Txn) /\ Len(Tail(todo[s])) = Len(todo[s]) - 1
    BY <1>1, HeadTailProperties
  <2>2. Len(<<>>) = 0
    BY EmptySeq
  <2>3. Len(todo[s]) \in Nat
    BY <1>1, LenProperties
  <2>4. \A n \in Nat : n > 1 => n - 1 # 0
    OBVIOUS
  <2> QED
    BY <2>1, <2>2, <2>3, <2>4, Zenon
<1>3. /\ todo' \in [Sessions -> Seq(Txn)] /\ cursor' \in [Sessions -> Nat]
      /\ cursor'[s] = 0 /\ todo'[s] = Tail(todo[s])
  BY <1>2 DEF NextPayload, ShapeInv, TypeOK
<1>4. AfterPosts(s) \in {"settle", "cancel", "respond"}
      /\ (AfterPosts(s) = "settle" => request[s].op = "settle")
      /\ (AfterPosts(s) = "cancel" => request[s].op = "reverse")
  BY DEF AfterPosts
<1>5. pc' = [pc EXCEPT ![s] = IF Len(todo[s]) > 1 THEN "key" ELSE AfterPosts(s)]
  BY DEF NextPayload, Goto
<1>7. pc'[s] = IF Len(todo[s]) > 1 THEN "key" ELSE AfterPosts(s)
  BY <1>5 DEF ShapeInv, TypeOK
<1>8. pc' \in [Sessions -> {"idle", "sendkey", "recvkey", "resolve", "original", "key",
                            "period", "read", "lock", "settle", "cancel", "respond",
                            "commit", "done", "failed", "crashed"}]
  BY <1>4, <1>5 DEF ShapeInv, TypeOK
<1> QED
  BY <1>2, <1>3, <1>4, <1>7, <1>8

LEMMA KeyShape ==
    ASSUME ShapeInv, NEW s \in Sessions, LookupKey(s) PROVE ShapeInv'
<1> USE DEF others, tables
<1>0. OthersKeep(s)
  BY MoveKeeps DEF ShapeInv, SessionMove, SessionStep
<1>1. Booked' = Booked
  BY DEF LookupKey, Booked
<1>2. CASE NextPayload(s)
  <2>1. TypeOK'
    BY <1>2, NextPayloadShape DEF LookupKey, ShapeInv, TypeOK
  <2>2. AskedFor(s)' /\ ReadSoFar(s)'
    BY <1>2, NextPayloadShape DEF LookupKey, ShapeInv, TypeOK, AskedFor, ReadSoFar
  <2> QED
    BY <1>0, <1>1, <2>1, <2>2, ShapeOfOne DEF ShapeInv, OnChart
<1>3. CASE Goto(s, "period") /\ UNCHANGED <<todo, cursor>>
  <2>1. TypeOK'
    BY <1>3 DEF LookupKey, Goto, ShapeInv, TypeOK
  <2>2. AskedFor(s)' /\ ReadSoFar(s)'
    BY <1>3 DEF LookupKey, Goto, ShapeInv, TypeOK, AskedFor, ReadSoFar
  <2> QED
    BY <1>0, <1>1, <2>1, <2>2, ShapeOfOne DEF ShapeInv, OnChart
<1> QED
  BY <1>2, <1>3 DEF LookupKey

LEMMA CurrentType ==
    ASSUME ShapeInv, NEW s \in Sessions, pc[s] \in {"key", "period", "read", "lock"}
    PROVE  /\ Current(s) \in Txn
           /\ Current(s).entries \in Seq(Entry) /\ Len(Current(s).entries) \in Nat
           /\ DOMAIN Current(s).entries = 1 .. Len(Current(s).entries)
<1>1. Current(s) \in Txn
  BY DEF ShapeInv, TypeOK, ReadSoFar, Current
<1>2. Current(s).entries \in Seq(Entry)
  BY <1>1 DEF Txn
<1> QED
  BY <1>1, <1>2, LenProperties

LEMMA PeriodShape ==
    ASSUME ShapeInv, NEW s \in Sessions, CheckPeriod(s) PROVE ShapeInv'
<1>1. CASE ~Postable(Current(s))
  BY <1>1, FailShape DEF CheckPeriod
<1>2. CASE Postable(Current(s))
  <2>0. OthersKeep(s)
    BY MoveKeeps DEF ShapeInv, SessionMove, SessionStep
  <2>1. /\ pc[s] = "period" /\ pc' = [pc EXCEPT ![s] = "read"]
        /\ UNCHANGED <<others, request, work, reply>>
    BY <1>2 DEF CheckPeriod, Goto
  <2>2. TypeOK'
    BY <2>1 DEF ShapeInv, TypeOK, others, tables, work
  <2>3. AskedFor(s)' /\ ReadSoFar(s)'
    BY <2>1, CurrentType DEF ShapeInv, TypeOK, AskedFor, ReadSoFar, work, Current
  <2>4. Booked' = Booked
    BY <2>1 DEF Booked, others, tables, work
  <2> QED
    BY <2>0, <2>2, <2>3, <2>4, ShapeOfOne DEF ShapeInv, OnChart
<1> QED
  BY <1>1, <1>2

LEMMA ReadShape ==
    ASSUME ShapeInv, NEW s \in Sessions, ReadAccount(s) PROVE ShapeInv'
<1>1. CASE CurrentAccount(s) \notin Accounts
  BY <1>1, FailShape DEF ReadAccount
<1>2. CASE CurrentAccount(s) \in Accounts
  <2>0. OthersKeep(s)
    BY MoveKeeps DEF ShapeInv, SessionMove, SessionStep
  <2>1. /\ pc[s] = "read" /\ cursor[s] < Len(Current(s).entries)
        /\ Load(s, {CurrentAccount(s)})
        /\ cursor' = [cursor EXCEPT ![s] = @ + 1]
        /\ UNCHANGED <<others, pc, request, todo, dirty, inserted, rcvWrites, reply>>
    BY <1>2 DEF ReadAccount, EntriesLeft
  <2>2. /\ loaded' = [u \in Sessions |-> loaded'[u]]
        /\ \A u \in Sessions : PartialFcn(loaded'[u], Accounts, Row)
        /\ CurrentAccount(s) \in DOMAIN loaded'[s]
        /\ DOMAIN loaded[s] \subseteq DOMAIN loaded'[s]
    BY <1>2, <2>1, LoadType DEF ShapeInv
  <2>3. TypeOK'
    <3>1. cursor' \in [Sessions -> Nat]
      BY <2>1 DEF ShapeInv, TypeOK
    <3> QED
      BY <2>1, <2>2, <3>1 DEF ShapeInv, TypeOK, others, tables
  <2>4. Len(Current(s).entries) \in Nat /\ cursor[s] \in Nat /\ cursor'[s] = cursor[s] + 1
    BY <2>1, CurrentType DEF ShapeInv, TypeOK
  <2>5. /\ cursor'[s] <= Len(Current(s).entries)
        /\ \A i \in 1 .. cursor'[s] : i \in 1 .. cursor[s] \/ i = cursor[s] + 1
    BY <2>1, <2>4
  <2>6. \A i \in 1 .. cursor'[s] : AccountAt(Current(s), i) \in DOMAIN loaded'[s]
    BY <2>1, <2>2, <2>5 DEF ShapeInv, ReadSoFar, CurrentAccount
  <2>7. AskedFor(s)' /\ ReadSoFar(s)'
    BY <2>1, <2>5, <2>6 DEF ShapeInv, AskedFor, ReadSoFar, Current
  <2>8. Booked' = Booked
    BY <2>1 DEF Booked, others, tables
  <2> QED
    BY <2>0, <2>3, <2>7, <2>8, ShapeOfOne DEF ShapeInv, OnChart
<1> QED
  BY <1>1, <1>2

LEMMA FlushedType ==
    ASSUME TypeOK, NEW s \in Sessions PROVE PartialFcn(Flushed(s), Accounts, DirtyRow)
<1>1. PartialFcn(dirty[s], Accounts, DirtyRow)
  BY DEF TypeOK
<1>2. ASSUME NEW a \in DOMAIN dirty[s]
      PROVE  [dirty[s][a] EXCEPT !.named = NamesBalance(s, a)] \in DirtyRow
  <2>1. dirty[s][a] \in DirtyRow
    BY <1>1 DEF PartialFcn
  <2>2. NamesBalance(s, a) \in BOOLEAN
    BY <2>1 DEF NamesBalance, DirtyRow
  <2> QED
    BY <2>1, <2>2 DEF DirtyRow
<1> QED
  BY <1>1, <1>2 DEF Flushed, PartialFcn

(* What an insertion that goes through does.                                *)
Inserts(s) ==
    /\ pc[s] = "read" /\ ~EntriesLeft(s) /\ Accepted(Current(s))
    /\ KeyHolders(s) = {} /\ ~KeyUsed(journal, Current(s).key)
    /\ inserted' = [inserted EXCEPT ![s] = @ \cup {Current(s)}]
    /\ cursor' = [cursor EXCEPT ![s] = 0]
    /\ dirty' = [dirty EXCEPT ![s] = Flushed(s)]
    /\ pc' = [pc EXCEPT ![s] = "lock"]
    /\ UNCHANGED <<others, request, todo, loaded, rcvWrites, reply>>

LEMMA InsertCases ==
    ASSUME NEW s \in Sessions, InsertTransaction(s)
    PROVE  pc[s] = "read" /\ (Inserts(s) \/ Fail(s, "422") \/ Fail(s, "500"))
  BY DEF InsertTransaction, KeyTaken, Inserts, Goto

LEMMA InsertShape ==
    ASSUME ShapeInv, NEW s \in Sessions, InsertTransaction(s) PROVE ShapeInv'
<1>1. CASE ~Inserts(s)
  BY <1>1, InsertCases, FailShape
<1>2. CASE Inserts(s)
  <2>0. OthersKeep(s)
    BY MoveKeeps DEF ShapeInv, SessionMove, SessionStep
  <2>1. /\ Current(s) \in Txn /\ Len(Current(s).entries) \in Nat
        /\ DOMAIN Current(s).entries = 1 .. Len(Current(s).entries)
    BY <1>2, CurrentType DEF Inserts
  <2>2. cursor[s] = Len(Current(s).entries)
    <3>1. cursor[s] \in Nat /\ cursor[s] <= Len(Current(s).entries)
          /\ ~(cursor[s] < Len(Current(s).entries))
      BY <1>2 DEF Inserts, EntriesLeft, ShapeInv, TypeOK, ReadSoFar
    <3> QED
      BY <2>1, <3>1
  <2>3. \A i \in DOMAIN Current(s).entries : AccountAt(Current(s), i) \in DOMAIN loaded[s]
    BY <1>2, <2>1, <2>2 DEF Inserts, ShapeInv, ReadSoFar
  <2>4. OnChart(Current(s))
    BY <2>3 DEF OnChart, ShapeInv, TypeOK, PartialFcn
  <2>5. PartialFcn(Flushed(s), Accounts, DirtyRow)
    BY FlushedType DEF ShapeInv
  <2>6. TypeOK'
    <3>1. \A u \in Sessions : PartialFcn(dirty'[u], Accounts, DirtyRow)
      BY <1>2, <2>5 DEF Inserts, ShapeInv, TypeOK
    <3>2. inserted' \in [Sessions -> SUBSET Txn]
      BY <1>2, <2>1 DEF Inserts, ShapeInv, TypeOK
    <3> QED
      BY <1>2, <3>1, <3>2 DEF Inserts, ShapeInv, TypeOK, others, tables
  <2>7. AskedFor(s)' /\ ReadSoFar(s)'
    <3>1. cursor'[s] = 0 /\ pc'[s] = "lock" /\ Current(s)' = Current(s) /\ todo'[s] = todo[s]
          /\ loaded' = loaded /\ request' = request /\ pc[s] = "read"
      BY <1>2 DEF Inserts, ShapeInv, TypeOK, Current
    <3> QED
      BY <2>1, <2>3, <3>1 DEF AskedFor, ReadSoFar, ShapeInv
  <2>8. Booked' \subseteq Booked \cup {Current(s)}
    BY <1>2 DEF Inserts, Booked, ShapeInv, TypeOK, others, tables
  <2> QED
    BY <2>0, <2>4, <2>6, <2>7, <2>8, ShapeOfOne DEF ShapeInv, OnChart
<1> QED
  BY <1>1, <1>2

LEMMA AppliedType ==
    ASSUME NEW row \in DirtyRow, NEW a, NEW e \in Entry PROVE Applied(row, a, e) \in DirtyRow
<1>1. Delta(Chart[a].type, e.type, e.amount) \in Int
  BY DEF Delta, Entry
<1>2. ASSUME NEW d \in Int
      PROVE  [row EXCEPT !.balance = @ + d, !.version = @ + 1] \in DirtyRow
  <2>1. row.balance \in Int /\ row.version \in Nat
    BY DEF DirtyRow
  <2>2. row.balance + d \in Int /\ row.version + 1 \in Nat
    BY <2>1
  <2>3. ASSUME NEW b \in Int, NEW v \in Nat
        PROVE  [row EXCEPT !.balance = b, !.version = v] \in DirtyRow
    BY DEF DirtyRow
  <2> QED
    BY <2>2, <2>3
<1> QED
  BY <1>1, <1>2 DEF Applied

LEMMA LockShape ==
    ASSUME ShapeInv, NEW s \in Sessions, LockAndApply(s) PROVE ShapeInv'
<1> DEFINE a == CurrentAccount(s)
           e == Current(s).entries[cursor[s] + 1]
           row == Applied(Attributes(s, a), a, e)
<1>0. OthersKeep(s)
  BY MoveKeeps DEF ShapeInv, SessionMove, SessionStep
<1>1. /\ pc[s] = "lock" /\ cursor[s] < Len(Current(s).entries)
      /\ dirty' = [dirty EXCEPT ![s] = Put(@, a, row)]
      /\ cursor' = [cursor EXCEPT ![s] = @ + 1]
      /\ UNCHANGED <<others, pc, request, todo, loaded, inserted, rcvWrites, reply>>
  BY DEF LockAndApply, EntriesLeft
<1>2. /\ Current(s).entries \in Seq(Entry) /\ Len(Current(s).entries) \in Nat
      /\ DOMAIN Current(s).entries = 1 .. Len(Current(s).entries) /\ cursor[s] \in Nat
  BY <1>1, CurrentType DEF ShapeInv, TypeOK
<1>3. cursor[s] + 1 \in 1 .. Len(Current(s).entries) /\ cursor[s] + 1 \in Nat
      /\ cursor[s] + 1 <= Len(Current(s).entries)
  BY <1>1, <1>2
<1>4. e \in Entry
  BY <1>2, <1>3, ElementOfSeq
<1>5. a \in DOMAIN loaded[s] /\ a \in Accounts /\ loaded[s][a] \in Row
  BY <1>1, <1>2, <1>3 DEF ShapeInv, ReadSoFar, CurrentAccount, TypeOK, PartialFcn
<1>6. Attributes(s, a) \in DirtyRow
  BY <1>5 DEF Attributes, Row, DirtyRow, ShapeInv, TypeOK, PartialFcn
<1>8. row \in DirtyRow
  BY <1>4, <1>6, AppliedType
<1> HIDE DEF a, e, row
<1>9. PartialFcn(Put(dirty[s], a, row), Accounts, DirtyRow)
  BY <1>5, <1>8, PutPartial DEF ShapeInv, TypeOK
<1>10. TypeOK'
  <2>1. cursor' \in [Sessions -> Nat]
    BY <1>1, <1>3 DEF ShapeInv, TypeOK
  <2>2. /\ dirty' = [u \in Sessions |-> dirty'[u]]
        /\ \A u \in Sessions : PartialFcn(dirty'[u], Accounts, DirtyRow)
    BY <1>1, <1>9 DEF ShapeInv, TypeOK
  <2> QED
    BY <1>1, <2>1, <2>2 DEF ShapeInv, TypeOK, others, tables
<1>11. AskedFor(s)' /\ ReadSoFar(s)'
  BY <1>1, <1>3 DEF ShapeInv, TypeOK, AskedFor, ReadSoFar, Current
<1>12. Booked' = Booked
  BY <1>1 DEF Booked, others, tables
<1> QED
  BY <1>0, <1>10, <1>11, <1>12, ShapeOfOne DEF ShapeInv, OnChart

(* What a post that goes through ends with.                                 *)
Finishes(s) ==
    /\ pc[s] = "lock" /\ ~EntriesLeft(s)
    /\ rcvWrites' = IF OpensReceivable(Current(s))
                    THEN [rcvWrites EXCEPT ![s] = Put(@, Current(s).key, "PENDING")]
                    ELSE rcvWrites
    /\ NextPayload(s)
    /\ UNCHANGED <<others, request, loaded, dirty, inserted, reply>>

LEMMA FinishCases ==
    ASSUME NEW s \in Sessions, FinishPost(s)
    PROVE  pc[s] = "lock" /\ (Finishes(s) \/ Fail(s, "422"))
  BY DEF FinishPost, Finishes

LEMMA FinishShape ==
    ASSUME ShapeInv, NEW s \in Sessions, FinishPost(s) PROVE ShapeInv'
<1>1. CASE ~Finishes(s)
  BY <1>1, FinishCases, FailShape
<1>2. CASE Finishes(s)
  <2>0. OthersKeep(s)
    BY MoveKeeps DEF ShapeInv, SessionMove, SessionStep
  <2>1. pc[s] = "lock" /\ NextPayload(s)
        /\ UNCHANGED <<others, request, loaded, dirty, inserted, reply>>
    BY <1>2 DEF Finishes
  <2>2. Current(s).key \in TxnKeys
    BY <2>1, CurrentType DEF Txn
  <2>3. PartialFcn(Put(rcvWrites[s], Current(s).key, "PENDING"), TxnKeys, ReceivableStatuses)
    BY <2>2, PutPartial DEF ShapeInv, TypeOK, ReceivableStatuses
  <2>4. /\ rcvWrites' = [u \in Sessions |-> rcvWrites'[u]]
        /\ \A u \in Sessions : PartialFcn(rcvWrites'[u], TxnKeys, ReceivableStatuses)
    BY <1>2, <2>3 DEF Finishes, ShapeInv, TypeOK
  <2>5. TypeOK'
    BY <2>1, <2>4, NextPayloadShape DEF ShapeInv, TypeOK, others, tables
  <2>6. AskedFor(s)' /\ ReadSoFar(s)'
    BY <2>1, NextPayloadShape DEF ShapeInv, TypeOK, AskedFor, ReadSoFar
  <2>7. Booked' = Booked
    BY <2>1 DEF Booked, others, tables
  <2> QED
    BY <2>0, <2>5, <2>6, <2>7, ShapeOfOne DEF ShapeInv, OnChart
<1> QED
  BY <1>1, <1>2

(* settle and reverse write the status of a receivable, or leave it.        *)
Resolves(s) ==
    /\ \/ pc[s] = "settle" /\ receivable[request[s].receivable] = "PENDING"
          /\ rcvWrites' = [rcvWrites EXCEPT ![s] = Put(@, request[s].receivable, "SETTLED")]
       \/ pc[s] = "cancel" /\ receivable[request[s].txn] = "none" /\ rcvWrites' = rcvWrites
       \/ pc[s] = "cancel" /\ receivable[request[s].txn] = "PENDING"
          /\ rcvWrites' = [rcvWrites EXCEPT ![s] = Put(@, request[s].txn, "CANCELLED")]
    /\ pc' = [pc EXCEPT ![s] = "respond"]
    /\ UNCHANGED <<others, request, todo, cursor, loaded, dirty, inserted, reply>>

LEMMA ResolveCases ==
    ASSUME NEW s \in Sessions, SettleReceivable(s) \/ CancelReceivable(s)
    PROVE  /\ pc[s] \in {"settle", "cancel"}
           /\ Resolves(s) \/ Fail(s, "404") \/ Fail(s, "422")
  BY DEF SettleReceivable, CancelReceivable, Cancellable, Resolves, Goto

LEMMA ResolveShape ==
    ASSUME ShapeInv, NEW s \in Sessions, SettleReceivable(s) \/ CancelReceivable(s)
    PROVE  ShapeInv'
<1>1. CASE ~Resolves(s)
  BY <1>1, ResolveCases, FailShape
<1>2. CASE Resolves(s)
  <2>0. OthersKeep(s)
    BY MoveKeeps DEF ShapeInv, SessionMove, SessionStep
  <2>1. /\ pc[s] = "settle" => request[s].receivable \in TxnKeys
        /\ pc[s] = "cancel" => request[s].txn \in TxnKeys
    BY RequestOf DEF ShapeInv, AskedFor, SettleRequest, ReverseRequest
  <2>2. /\ pc[s] = "settle" =>
             PartialFcn(Put(rcvWrites[s], request[s].receivable, "SETTLED"),
                        TxnKeys, ReceivableStatuses)
        /\ pc[s] = "cancel" =>
             PartialFcn(Put(rcvWrites[s], request[s].txn, "CANCELLED"),
                        TxnKeys, ReceivableStatuses)
    BY <2>1, PutPartial DEF ShapeInv, TypeOK, ReceivableStatuses
  <2>3. /\ rcvWrites' = [u \in Sessions |-> rcvWrites'[u]]
        /\ \A u \in Sessions : PartialFcn(rcvWrites'[u], TxnKeys, ReceivableStatuses)
    BY <1>2, <2>2 DEF Resolves, ShapeInv, TypeOK
  <2>4. pc[s] \in {"settle", "cancel"} /\ pc' = [pc EXCEPT ![s] = "respond"]
        /\ UNCHANGED <<others, request, todo, cursor, loaded, dirty, inserted, reply>>
    BY <1>2 DEF Resolves
  <2>5. TypeOK'
    BY <2>3, <2>4 DEF ShapeInv, TypeOK, others, tables
  <2>6. AskedFor(s)' /\ ReadSoFar(s)'
    BY <2>4 DEF ShapeInv, TypeOK, AskedFor, ReadSoFar
  <2>7. Booked' = Booked
    BY <2>4 DEF Booked, others, tables
  <2> QED
    BY <2>0, <2>5, <2>6, <2>7, ShapeOfOne DEF ShapeInv, OnChart
<1> QED
  BY <1>1, <1>2

LEMMA RespondShape ==
    ASSUME ShapeInv, NEW s \in Sessions, Respond(s) PROVE ShapeInv'
<1> USE DEF Respond, Goto, others, tables, work
<1>1. OthersKeep(s)
  BY MoveKeeps DEF ShapeInv, SessionMove, SessionStep
<1>2. TypeOK'
  BY DEF ShapeInv, TypeOK
<1>3. AskedFor(s)' /\ ReadSoFar(s)'
  BY DEF ShapeInv, TypeOK, AskedFor, ReadSoFar
<1>4. Booked' = Booked
  BY DEF Booked
<1> QED
  BY <1>1, <1>2, <1>3, <1>4, ShapeOfOne DEF ShapeInv, OnChart

LEMMA CommitShape ==
    ASSUME ShapeInv, NEW s \in Sessions, Commit(s) PROVE ShapeInv'
<1>0. OthersKeep(s)
  BY MoveKeeps DEF ShapeInv, SessionMove, SessionStep
<1>1. journal' \subseteq Booked
  BY DEF Commit, Booked
<1>2. account' \in [Accounts -> Row]
  <2>1. ASSUME NEW a \in Accounts, a \in DOMAIN dirty[s] PROVE Written(s, a) \in Row
    <3>1. dirty[s][a] \in DirtyRow /\ account[a] \in Row
      BY <2>1 DEF ShapeInv, TypeOK, PartialFcn
    <3> QED
      BY <3>1 DEF Written, DirtyRow, Row
  <2> QED
    BY <2>1 DEF Commit, ShapeInv, TypeOK
<1>3. receivable' \in [TxnKeys -> ReceivableStatuses \cup {"none"}]
  <2>1. ASSUME NEW k \in TxnKeys, k \in DOMAIN rcvWrites[s]
        PROVE  rcvWrites[s][k] \in ReceivableStatuses
    BY <2>1 DEF ShapeInv, TypeOK, PartialFcn
  <2> QED
    BY <2>1 DEF Commit, ShapeInv, TypeOK
<1>4. Release(s) /\ pc[s] = "commit" /\ Goto(s, "done") /\ request' = request /\ reply' = reply
  BY DEF Commit
<1> QED
  BY <1>0, <1>1, <1>2, <1>3, <1>4, ReleaseShape DEF ShapeInv, TypeOK

LEMMA CrashShape ==
    ASSUME ShapeInv, NEW s \in Sessions, Crash(s) PROVE ShapeInv'
<1>1. OthersKeep(s)
  BY MoveKeeps DEF ShapeInv, SessionMove
<1>2. /\ Release(s) /\ pc[s] # "idle" /\ Goto(s, "crashed")
      /\ UNCHANGED <<journal, account, receivable, request, reply>>
  BY DEF Crash, BusySessions, others, tables
<1> QED
  BY <1>1, <1>2, ReleaseShape DEF ShapeInv, TypeOK, Booked

LEMMA AbortShape ==
    ASSUME ShapeInv, NEW s \in Sessions, AbortDeadlocked(s) PROVE ShapeInv'
  BY FailShape DEF AbortDeadlocked, InDeadlock, BusySessions

LEMMA MoveShape ==
    ASSUME ShapeInv, NEW s \in Sessions, SessionMove(s) PROVE ShapeInv'
  BY BeginShape, FirstStepsShape, OriginalShape, KeyShape, PeriodShape, ReadShape, InsertShape,
     LockShape, FinishShape, ResolveShape, RespondShape, CommitShape, CrashShape, AbortShape
     DEF SessionMove, SessionStep

LEMMA StillShape == ShapeInv /\ UNCHANGED ledgerVars => ShapeInv'
<1> SUFFICES ASSUME ShapeInv, UNCHANGED ledgerVars PROVE ShapeInv'
  OBVIOUS
<1> USE DEF ledgerVars, tables, sessionVars, work
<1>1. TypeOK'
  BY DEF ShapeInv, TypeOK
<1>2. \A s \in Sessions : AskedFor(s)' /\ ReadSoFar(s)'
  BY DEF ShapeInv, AskedFor, ReadSoFar, Current
<1>3. Booked' = Booked
  BY DEF Booked
<1> QED
  BY <1>1, <1>2, <1>3 DEF ShapeInv, OnChart

(* What a step of the whole system is.                                      *)
LEMMA StepCases ==
    ASSUME [Next]_vars
    PROVE  (\E s \in Sessions : SessionMove(s)) \/ UNCHANGED ledgerVars
  BY DEF Next, SessionMove, Quiet, vars

LEMMA ShapeStep == ShapeInv /\ [Next]_vars => ShapeInv'
  BY StepCases, MoveShape, StillShape

(* The inductive invariant holds in every reachable state.                  *)
THEOREM ShapeInvariant == Spec => []ShapeInv
  BY ShapeInit, ShapeStep, PTL DEF Spec

(* The variables of the ledger keep their types.                            *)
THEOREM TypeCorrect == Spec => []TypeOK
<1>1. ShapeInv => TypeOK
  BY DEF ShapeInv
<1> QED
  BY <1>1, ShapeInvariant, PTL

-----------------------------------------------------------------------------
(* Three ways in which a step of a session treats what it has written.      *)
Drops(s) ==
    /\ Release(s) /\ pc[s] # "idle"
    /\ pc'[s] \in {"failed", "crashed"}
    /\ UNCHANGED <<journal, account, receivable, request>>

KeepsWrites(s) == UNCHANGED <<journal, account, receivable, inserted>>

LEMMA Kinds ==
    ASSUME ShapeInv, NEW s \in Sessions, SessionMove(s)
    PROVE  KeepsWrites(s) \/ Inserts(s) \/ Commit(s) \/ Drops(s)
<1> USE DEF KeepsWrites, others, tables, work
<1>1. ASSUME NEW code, Fail(s, code), pc[s] # "idle" PROVE Drops(s)
  BY <1>1 DEF Fail, Drops, Goto, ShapeInv, TypeOK
<1>2. CASE Begin(s) \/ LookupSendKey(s) \/ LookupRecvKey(s) \/ LookupKey(s) \/ LockAndApply(s)
           \/ Respond(s)
  BY <1>2 DEF Begin, LookupSendKey, LookupRecvKey, LookupKey, LockAndApply, Respond
<1>3. CASE ResolveAccounts(s) \/ LoadOriginal(s) \/ VoidTransaction(s)
  BY <1>3, <1>1 DEF ResolveAccounts, LoadOriginal, VoidTransaction
<1>4. CASE CheckPeriod(s) \/ ReadAccount(s) \/ FinishPost(s)
  BY <1>4, <1>1 DEF CheckPeriod, ReadAccount, FinishPost
<1>5. CASE InsertTransaction(s)
  BY <1>5, <1>1, InsertCases
<1>6. CASE SettleReceivable(s) \/ CancelReceivable(s)
  BY <1>6, <1>1, ResolveCases DEF Resolves
<1>7. CASE AbortDeadlocked(s)
  BY <1>7, <1>1 DEF AbortDeadlocked, InDeadlock, BusySessions
<1>8. CASE Crash(s)
  BY <1>8 DEF Crash, Drops, BusySessions, Goto, ShapeInv, TypeOK
<1> QED
  BY <1>2, <1>3, <1>4, <1>5, <1>6, <1>7, <1>8 DEF SessionMove, SessionStep

-----------------------------------------------------------------------------
(* Row locks.                                                               *)
LockInv == ShapeInv /\ OneLockPerRow

LEMMA DirtyGrowsByLock ==
    ASSUME ShapeInv, NEW s \in Sessions, SessionMove(s)
    PROVE  \/ DOMAIN dirty'[s] \subseteq DOMAIN dirty[s]
           \/ /\ RowHolders(s) = {}
              /\ DOMAIN dirty'[s] \subseteq DOMAIN dirty[s] \cup {CurrentAccount(s)}
<1> USE DEF others, tables, work
<1>1. ASSUME Release(s) PROVE DOMAIN dirty'[s] \subseteq DOMAIN dirty[s]
  BY <1>1, ReleaseKeeps DEF ShapeInv, EmptyFcn
<1>2. ASSUME dirty' = dirty PROVE DOMAIN dirty'[s] \subseteq DOMAIN dirty[s]
  BY <1>2
<1>3. CASE LockAndApply(s)
  BY <1>3 DEF LockAndApply, Put, ShapeInv, TypeOK
<1>4. CASE InsertTransaction(s)
  <2>1. CASE Inserts(s)
    BY <2>1 DEF Inserts, Flushed, ShapeInv, TypeOK
  <2> QED
    BY <1>1, <1>4, <2>1, InsertCases DEF Fail
<1>5. CASE Begin(s) \/ LookupSendKey(s) \/ LookupRecvKey(s) \/ LookupKey(s) \/ Respond(s)
  BY <1>2, <1>5 DEF Begin, LookupSendKey, LookupRecvKey, LookupKey, Respond
<1>6. CASE ResolveAccounts(s) \/ LoadOriginal(s) \/ VoidTransaction(s)
  BY <1>1, <1>2, <1>6 DEF ResolveAccounts, LoadOriginal, VoidTransaction, Fail
<1>7. CASE CheckPeriod(s) \/ ReadAccount(s) \/ FinishPost(s)
  BY <1>1, <1>2, <1>7 DEF CheckPeriod, ReadAccount, FinishPost, Fail
<1>8. CASE SettleReceivable(s) \/ CancelReceivable(s)
  BY <1>1, <1>2, <1>8, ResolveCases DEF Resolves, Fail
<1>9. CASE Commit(s) \/ AbortDeadlocked(s) \/ Crash(s)
  BY <1>1, <1>9 DEF Commit, AbortDeadlocked, Fail, Crash
<1> QED
  BY <1>3, <1>4, <1>5, <1>6, <1>7, <1>8, <1>9 DEF SessionMove, SessionStep

LEMMA LockStep == LockInv /\ [Next]_vars => LockInv'
<1> SUFFICES ASSUME LockInv, [Next]_vars PROVE OneLockPerRow'
  BY ShapeStep DEF LockInv
<1>1. CASE UNCHANGED ledgerVars
  BY <1>1 DEF LockInv, OneLockPerRow, ledgerVars, sessionVars, work
<1>2. ASSUME NEW s \in Sessions, SessionMove(s) PROVE OneLockPerRow'
  <2>1. \A u \in Sessions \ {s} : dirty'[u] = dirty[u]
    BY <1>2, MoveKeeps DEF LockInv, ShapeInv, OthersKeep
  <2>2. \A u \in Sessions \ {s} : DOMAIN dirty'[s] \cap DOMAIN dirty[u] = {}
    BY <1>2, DirtyGrowsByLock DEF LockInv, OneLockPerRow, RowHolders
  <2> QED
    BY <2>1, <2>2 DEF LockInv, OneLockPerRow
<1> QED
  BY <1>1, <1>2, StepCases

(* SELECT ... FOR UPDATE keeps the uncommitted changes of sessions apart.   *)
THEOREM RowLocksExclusive == Spec => []OneLockPerRow
<1>1. Init => LockInv
  BY ShapeInit DEF Init, LedgerInit, LockInv, OneLockPerRow, EmptyFcn
<1>2. LockInv => OneLockPerRow
  BY DEF LockInv
<1> QED
  BY <1>1, <1>2, LockStep, PTL DEF Spec

-----------------------------------------------------------------------------
(* Idempotency keys.  OneTxnPerKey is not inductive: what an insertion      *)
(* relies on is that its own earlier insertions have other keys.            *)
KeysApart ==
    /\ \A t, v \in journal : t.key = v.key => t = v
    /\ \A s \in Sessions : \A t, v \in inserted[s] : t.key = v.key => t = v
    /\ \A s \in Sessions : \A t \in inserted[s] : ~KeyUsed(journal, t.key)
    /\ \A s, u \in Sessions : \A t \in inserted[s], v \in inserted[u] : t.key = v.key => s = u

FreshKey(s) == pc[s] \in {"period", "read"} => ~KeyUsed(inserted[s], Current(s).key)

KeyInv == ShapeInv /\ KeysApart /\ \A s \in Sessions : FreshKey(s)

LEMMA OneTxnFromApart == KeysApart => OneTxnPerKey
  BY DEF KeysApart, OneTxnPerKey, KeyUsed

LEMMA FreshStep ==
    ASSUME KeyInv, NEW s \in Sessions, SessionMove(s) PROVE FreshKey(s)'
<1> USE DEF others, tables, work
<1>2. ASSUME pc'[s] \notin {"period", "read"} PROVE FreshKey(s)'
  BY <1>2 DEF FreshKey
<1>3. ASSUME NEW code, Fail(s, code) PROVE FreshKey(s)'
  BY <1>2, <1>3 DEF Fail, Goto, KeyInv, ShapeInv, TypeOK
<1>4. ASSUME pc[s] \in {"period", "read"}, UNCHANGED <<todo, inserted>> PROVE FreshKey(s)'
  BY <1>4 DEF KeyInv, FreshKey, Current, KeyUsed
<1>5. CASE LookupKey(s)
  <2>1. CASE KeyVisible(s, Current(s).key)
    BY <1>2, <1>5, <2>1, NextPayloadShape DEF LookupKey, KeyInv
  <2>2. CASE ~KeyVisible(s, Current(s).key)
    BY <1>5, <2>2 DEF LookupKey, KeyVisible, KeyUsed, FreshKey, Current
  <2> QED
    BY <2>1, <2>2
<1>6. CASE CheckPeriod(s) \/ ReadAccount(s)
  BY <1>3, <1>4, <1>6 DEF CheckPeriod, ReadAccount
<1>7. CASE InsertTransaction(s)
  <2>1. CASE Inserts(s)
    BY <1>2, <2>1 DEF Inserts, KeyInv, ShapeInv, TypeOK
  <2> QED
    BY <1>3, <1>7, <2>1, InsertCases
<1>8. CASE FinishPost(s)
  <2>1. CASE Finishes(s)
    BY <1>2, <2>1, NextPayloadShape DEF Finishes, KeyInv
  <2> QED
    BY <1>3, <1>8, <2>1, FinishCases
<1>9. CASE Begin(s)
  BY <1>2, <1>9 DEF Begin, Goto, FirstStep, KeyInv, ShapeInv, TypeOK
<1>10. CASE LookupSendKey(s) \/ LookupRecvKey(s) \/ Respond(s) \/ LockAndApply(s)
  BY <1>2, <1>10 DEF LookupSendKey, LookupRecvKey, Respond, LockAndApply, Goto, KeyInv, ShapeInv,
     TypeOK
<1>11. CASE ResolveAccounts(s) \/ LoadOriginal(s) \/ VoidTransaction(s) \/ AbortDeadlocked(s)
  BY <1>2, <1>3, <1>11 DEF ResolveAccounts, LoadOriginal, VoidTransaction, AbortDeadlocked, Goto,
     KeyInv, ShapeInv, TypeOK
<1>12. CASE SettleReceivable(s) \/ CancelReceivable(s)
  BY <1>2, <1>3, <1>12, ResolveCases DEF Resolves, KeyInv, ShapeInv, TypeOK
<1>13. CASE Commit(s) \/ Crash(s)
  BY <1>2, <1>13 DEF Commit, Crash, Goto, KeyInv, ShapeInv, TypeOK
<1> QED
  BY <1>5, <1>6, <1>7, <1>8, <1>9, <1>10, <1>11, <1>12, <1>13 DEF SessionMove, SessionStep

LEMMA ApartStep ==
    ASSUME KeyInv, NEW s \in Sessions, SessionMove(s) PROVE KeysApart'
<1> USE DEF KeyInv, KeysApart, KeyUsed
<1>1. \A u \in Sessions \ {s} : inserted'[u] = inserted[u]
  BY MoveKeeps DEF ShapeInv, OthersKeep
<1>2. CASE KeepsWrites(s)
  BY <1>2 DEF KeepsWrites
<1>3. CASE Inserts(s)
  <2>1. journal' = journal /\ inserted'[s] = inserted[s] \cup {Current(s)}
    BY <1>3 DEF Inserts, others, tables, ShapeInv, TypeOK
  <2>2. /\ \A t \in journal : t.key # Current(s).key
        /\ \A t \in inserted[s] : t.key # Current(s).key
        /\ \A u \in Sessions \ {s} : \A t \in inserted[u] : t.key # Current(s).key
    BY <1>3 DEF Inserts, KeyHolders, FreshKey
  <2> QED
    BY <1>1, <2>1, <2>2
<1>4. CASE Commit(s)
  <2>1. journal' = journal \cup inserted[s] /\ inserted'[s] = {}
    BY <1>4, ReleaseKeeps DEF Commit, ShapeInv
  <2> QED
    BY <1>1, <2>1
<1>5. CASE Drops(s)
  <2>1. journal' = journal /\ inserted'[s] = {}
    BY <1>5, ReleaseKeeps DEF Drops, ShapeInv
  <2> QED
    BY <1>1, <2>1
<1> QED
  BY <1>2, <1>3, <1>4, <1>5, Kinds

LEMMA KeyStep == KeyInv /\ [Next]_vars => KeyInv'
<1> SUFFICES ASSUME KeyInv, [Next]_vars PROVE KeyInv'
  OBVIOUS
<1>1. ShapeInv'
  BY ShapeStep DEF KeyInv
<1>2. CASE UNCHANGED ledgerVars
  BY <1>1, <1>2 DEF ledgerVars, tables, sessionVars, work, KeyInv, KeysApart, FreshKey, KeyUsed,
     Current
<1>3. ASSUME NEW s \in Sessions, SessionMove(s) PROVE KeyInv'
  <2>1. ASSUME NEW u \in Sessions \ {s} PROVE FreshKey(u)'
    BY <1>3, <2>1, MoveKeeps DEF KeyInv, ShapeInv, OthersKeep, FreshKey, Current, KeyUsed
  <2> QED
    BY <1>1, <1>3, <2>1, FreshStep, ApartStep DEF KeyInv
<1> QED
  BY <1>2, <1>3, StepCases

LEMMA KeyInit == Init => KeyInv
  BY ShapeInit DEF Init, LedgerInit, KeyInv, KeysApart, FreshKey

(* However often and however concurrently a request is sent, its key stands *)
(* for one transaction.                                                     *)
THEOREM KeysUnique == Spec => []OneTxnPerKey
<1>1. KeyInv => OneTxnPerKey
  BY OneTxnFromApart DEF KeyInv
<1> QED
  BY <1>1, KeyInit, KeyStep, PTL DEF Spec

-----------------------------------------------------------------------------
(* Whole requests.  Each key of a request is in the journal, in what the    *)
(* session has inserted, or still to be posted; and it posts no other key.  *)
Mine(s) ==
    /\ pc[s] \in {"idle", "done"} => inserted[s] = {}
    /\ pc[s] # "idle" => /\ \A t \in inserted[s] : t.key \in KeysOf(request[s])
                         /\ \A i \in DOMAIN todo[s] : todo[s][i].key \in KeysOf(request[s])

ToPost(s, key) == \E i \in DOMAIN todo[s] : todo[s][i].key = key

Covered(s) ==
    /\ pc[s] = "recvkey" => KeyVisible(s, <<SEND, request[s].key>>)
    /\ pc[s] \in {"key", "period", "read", "lock"} =>
         \A k \in KeysOf(request[s]) : KeyVisible(s, k) \/ ToPost(s, k)
    /\ pc[s] = "lock" => KeyVisible(s, Current(s).key)
    /\ pc[s] \in {"settle", "cancel", "respond", "commit", "done"} =>
         \A k \in KeysOf(request[s]) : KeyVisible(s, k)

CoverInv == ShapeInv /\ \A s \in Sessions : Mine(s) /\ Covered(s)

LEMMA OneToDo ==
    ASSUME NEW t PROVE DOMAIN <<t>> = {1} /\ <<t>>[1] = t
  OBVIOUS

LEMMA BeginCover ==
    ASSUME CoverInv, NEW s \in Sessions, Begin(s) PROVE Mine(s)' /\ Covered(s)'
<1>1. PICK r \in Requests :
         /\ request' = [request EXCEPT ![s] = r]
         /\ todo' = [todo EXCEPT ![s] = IF FirstStep(r) = "key" THEN <<TxnOf(s, r)>> ELSE <<>>]
         /\ Goto(s, FirstStep(r))
  BY DEF Begin
<1>2. r.op \in PostsAtOnce \cup {"transfer", "reverse", "void"}
  BY SessionsAssumption DEF Request, PostRequest, CashRequest, AnticipateRequest, SettleRequest,
     TransferRequest, ReverseRequest, VoidRequest, PostsAtOnce
<1>3. /\ inserted'[s] = {} /\ request'[s] = r /\ pc'[s] = FirstStep(r)
      /\ FirstStep(r) # "key" => todo'[s] = <<>>
      /\ FirstStep(r) = "key" => todo'[s] = <<TxnOf(s, r)>>
  BY <1>1 DEF Begin, CoverInv, Mine, ShapeInv, TypeOK, Goto
<1>4. FirstStep(r) \in {"sendkey", "original", "key"}
  BY DEF FirstStep
<1>5. CASE FirstStep(r) # "key"
  BY <1>3, <1>4, <1>5 DEF Mine, Covered
<1>6. CASE FirstStep(r) = "key"
  <2>1. r.op \in PostsAtOnce
    BY <1>2, <1>6 DEF FirstStep
  <2>2. KeysOf(r) = {r.key} /\ TxnOf(s, r).key = r.key
    BY <2>1 DEF KeysOf, TxnOf, Payload, PostsAtOnce
  <2>3. DOMAIN todo'[s] = {1} /\ todo'[s][1].key = r.key
    BY <1>3, <1>6, <2>2, OneToDo
  <2> QED
    BY <1>3, <1>6, <2>2, <2>3 DEF Mine, Covered, ToPost
<1> QED
  BY <1>5, <1>6

LEMMA TransferCover ==
    ASSUME CoverInv, NEW s \in Sessions,
           LookupSendKey(s) \/ LookupRecvKey(s) \/ (ResolveAccounts(s) /\ ~Drops(s))
    PROVE  Mine(s)' /\ Covered(s)'
<1> USE DEF Goto, others, tables, work
<1>1. KeysOf(request[s]) = {<<SEND, request[s].key>>, <<RECV, request[s].key>>}
  BY DEF CoverInv, ShapeInv, AskedFor, KeysOf, LookupSendKey, LookupRecvKey, ResolveAccounts
<1>2. CASE LookupSendKey(s)
  <2>1. UNCHANGED <<journal, inserted, request, todo>> /\ pc'[s] \in {"recvkey", "resolve"}
        /\ pc[s] # "idle" /\ (pc'[s] = "recvkey" => KeyVisible(s, <<SEND, request[s].key>>))
    BY <1>2 DEF LookupSendKey, CoverInv, ShapeInv, TypeOK
  <2> QED
    BY <2>1 DEF CoverInv, Mine, Covered, KeyVisible
<1>3. CASE LookupRecvKey(s)
  <2>1. UNCHANGED <<journal, inserted, request, todo>> /\ pc'[s] \in {"respond", "resolve"}
        /\ pc[s] = "recvkey" /\ (pc'[s] = "respond" => KeyVisible(s, <<RECV, request[s].key>>))
    BY <1>3 DEF LookupRecvKey, CoverInv, ShapeInv, TypeOK
  <2>2. pc'[s] = "respond" => \A k \in KeysOf(request[s]) : KeyVisible(s, k)
    BY <1>1, <2>1 DEF CoverInv, Covered
  <2> QED
    BY <2>1, <2>2 DEF CoverInv, Mine, Covered, KeyVisible
<1>4. CASE ResolveAccounts(s) /\ ~Drops(s)
  <2> DEFINE legs == <<SenderTxn(s, request[s]), ReceiverTxn(s, request[s])>>
  <2>1. pc[s] = "resolve" /\ todo' = [todo EXCEPT ![s] = legs]
        /\ pc' = [pc EXCEPT ![s] = "key"] /\ UNCHANGED <<journal, inserted, request>>
    BY <1>4 DEF ResolveAccounts, Fail, Drops, CoverInv, ShapeInv, TypeOK
  <2>2. todo'[s] = legs /\ pc'[s] = "key"
    BY <2>1 DEF CoverInv, ShapeInv, TypeOK
  <2>3. /\ DOMAIN legs = {1, 2}
        /\ legs[1].key = <<SEND, request[s].key>> /\ legs[2].key = <<RECV, request[s].key>>
    BY DEF SenderTxn, ReceiverTxn, Payload
  <2> HIDE DEF legs
  <2> QED
    BY <1>1, <2>1, <2>2, <2>3 DEF CoverInv, Mine, Covered, ToPost
<1> QED
  BY <1>2, <1>3, <1>4

LEMMA OriginalCover ==
    ASSUME CoverInv, NEW s \in Sessions, LoadOriginal(s), ~Drops(s) PROVE Mine(s)' /\ Covered(s)'
<1> DEFINE r == request[s]
           payload == ReversalTxn(s, r, Original(r))
<1>1. /\ pc[s] = "original" /\ r.op = "reverse" /\ todo' = [todo EXCEPT ![s] = <<payload>>]
      /\ pc' = [pc EXCEPT ![s] = "key"] /\ UNCHANGED <<journal, inserted, request>>
  BY DEF LoadOriginal, Fail, Drops, Goto, others, tables, CoverInv, ShapeInv, TypeOK
<1>2. todo'[s] = <<payload>> /\ pc'[s] = "key" /\ KeysOf(r) = {r.key} /\ payload.key = r.key
  BY <1>1 DEF CoverInv, ShapeInv, TypeOK, KeysOf, ReversalTxn, Payload
<1> HIDE DEF payload
<1>3. DOMAIN todo'[s] = {1} /\ todo'[s][1] = payload
  BY <1>2, OneToDo
<1> QED
  BY <1>1, <1>2, <1>3 DEF CoverInv, Mine, Covered, ToPost

(* When the key at the head is visible, the rest of todo covers the rest.   *)
LEMMA NextCover ==
    ASSUME CoverInv, NEW s \in Sessions, NextPayload(s), pc[s] \in {"key", "lock"},
           KeyVisible(s, Current(s).key), UNCHANGED <<journal, inserted, request>>
    PROVE  Mine(s)' /\ Covered(s)'
<1>1. todo[s] \in Seq(Txn) /\ todo[s] # <<>>
  BY DEF CoverInv, ShapeInv, TypeOK, ReadSoFar
<1>2. /\ Len(todo[s]) \in Nat \ {0} /\ DOMAIN todo[s] = 1 .. Len(todo[s])
      /\ Tail(todo[s]) \in Seq(Txn) /\ Len(Tail(todo[s])) = Len(todo[s]) - 1
      /\ \A i \in 1 .. Len(Tail(todo[s])) : Tail(todo[s])[i] = todo[s][i + 1]
  BY <1>1, LenProperties, EmptySeq, HeadTailProperties
<1>3. DOMAIN Tail(todo[s]) = 1 .. (Len(todo[s]) - 1)
  BY <1>2, LenProperties
<1>4. /\ todo'[s] = Tail(todo[s]) /\ request'[s] = request[s] /\ inserted'[s] = inserted[s]
      /\ pc'[s] = IF Len(todo[s]) > 1 THEN "key" ELSE AfterPosts(s)
      /\ Current(s) = todo[s][1]
  BY <1>1 DEF NextPayload, Goto, CoverInv, ShapeInv, TypeOK, Current
<1>5. AfterPosts(s) \in {"settle", "cancel", "respond"}
  BY DEF AfterPosts
<1>6. \A i \in DOMAIN todo[s] : i = 1 \/ (i - 1 \in DOMAIN Tail(todo[s]) /\ todo[s][i] = Tail(todo[s])[i - 1])
  <2> SUFFICES ASSUME NEW i \in 1 .. Len(todo[s]), i # 1
               PROVE  i - 1 \in 1 .. (Len(todo[s]) - 1) /\ todo[s][i] = Tail(todo[s])[i - 1]
    BY <1>2, <1>3
  <2>1. i - 1 \in 1 .. (Len(todo[s]) - 1) /\ (i - 1) + 1 = i
    BY <1>2
  <2> QED
    BY <1>2, <2>1
<1>7. \A i \in DOMAIN Tail(todo[s]) : i + 1 \in DOMAIN todo[s] /\ Tail(todo[s])[i] = todo[s][i + 1]
  BY <1>2, <1>3
<1>8. ASSUME NEW k \in KeysOf(request[s]), ~KeyVisible(s, k) PROVE ToPost(s, k)'
  <2>1. PICK i \in DOMAIN todo[s] : todo[s][i].key = k
    BY <1>8 DEF CoverInv, Covered, ToPost
  <2>2. i # 1
    BY <1>4, <1>8, <2>1
  <2> QED
    BY <1>4, <1>6, <2>1, <2>2 DEF ToPost
<1>9. Len(todo[s]) = 1 => DOMAIN todo'[s] = {}
  BY <1>2, <1>3, <1>4
<1>10. ~(Len(todo[s]) > 1) => Len(todo[s]) = 1
  <2>1. \A n \in Nat \ {0} : ~(n > 1) => n = 1
    OBVIOUS
  <2> QED
    BY <1>2, <2>1, Zenon
<1>11. Mine(s)'
  BY <1>4, <1>5, <1>7 DEF CoverInv, Mine
<1>12. \A k : KeyVisible(s, k)' <=> KeyVisible(s, k)
  BY <1>4 DEF KeyVisible
<1>13. \A k \in KeysOf(request[s]) : KeyVisible(s, k) \/ ToPost(s, k)'
  BY <1>8
<1>14. Covered(s)'
  <2>1. CASE Len(todo[s]) > 1
    BY <1>4, <1>12, <1>13, <2>1 DEF Covered
  <2>2. CASE ~(Len(todo[s]) > 1)
    BY <1>4, <1>5, <1>9, <1>10, <1>12, <1>13, <2>2 DEF Covered, ToPost
  <2> QED
    BY <2>1, <2>2
<1> QED
  BY <1>11, <1>14

LEMMA PostCover ==
    ASSUME CoverInv, NEW s \in Sessions, ~Drops(s),
           \/ LookupKey(s) \/ CheckPeriod(s) \/ ReadAccount(s) \/ InsertTransaction(s)
           \/ LockAndApply(s) \/ FinishPost(s)
    PROVE  Mine(s)' /\ Covered(s)'
<1> USE DEF others, tables, work
<1>0. ASSUME NEW code, Fail(s, code), pc[s] # "idle" PROVE FALSE
  BY <1>0 DEF Fail, Drops, Goto, CoverInv, ShapeInv, TypeOK
<1>1. CASE LookupKey(s)
  <2>1. CASE KeyVisible(s, Current(s).key)
    BY <1>1, <2>1, NextCover DEF LookupKey
  <2>2. CASE ~KeyVisible(s, Current(s).key)
    <3>1. pc[s] = "key" /\ pc'[s] = "period" /\ UNCHANGED <<journal, inserted, request, todo>>
      BY <1>1, <2>2 DEF LookupKey, Goto, CoverInv, ShapeInv, TypeOK
    <3> QED
      BY <3>1 DEF CoverInv, Mine, Covered, KeyVisible, ToPost
  <2> QED
    BY <2>1, <2>2
<1>2. CASE CheckPeriod(s)
  <2>1. /\ pc[s] = "period" /\ pc'[s] = "read" /\ UNCHANGED <<journal, inserted, request, todo>>
    BY <1>0, <1>2 DEF CheckPeriod, Goto, CoverInv, ShapeInv, TypeOK
  <2> QED
    BY <2>1 DEF CoverInv, Mine, Covered, KeyVisible, ToPost
<1>3. CASE ReadAccount(s)
  <2>1. pc[s] = "read" /\ UNCHANGED <<pc, journal, inserted, request, todo>>
    BY <1>0, <1>3 DEF ReadAccount
  <2> QED
    BY <2>1 DEF CoverInv, Mine, Covered, KeyVisible, ToPost
<1>4. CASE InsertTransaction(s)
  <2>1. Inserts(s)
    BY <1>0, <1>4, InsertCases
  <2>2. /\ pc[s] = "read" /\ pc'[s] = "lock" /\ UNCHANGED <<journal, request, todo>>
        /\ inserted'[s] = inserted[s] \cup {Current(s)}
    BY <2>1 DEF Inserts, CoverInv, ShapeInv, TypeOK
  <2>3. /\ todo[s] \in Seq(Txn) /\ todo[s] # <<>> /\ Current(s) = todo[s][1]
        /\ 1 \in DOMAIN todo[s] /\ Current(s)' = Current(s)
    BY <2>2 DEF CoverInv, ShapeInv, TypeOK, ReadSoFar, Current
  <2>4. Mine(s)'
    BY <2>2, <2>3 DEF CoverInv, Mine
  <2>5. KeyVisible(s, Current(s).key)' /\ \A k : KeyVisible(s, k) => KeyVisible(s, k)'
    BY <2>2 DEF KeyVisible, KeyUsed, Current
  <2>6. ASSUME NEW k \in KeysOf(request[s]) PROVE KeyVisible(s, k)' \/ ToPost(s, k)'
    BY <2>2, <2>5 DEF CoverInv, Covered, ToPost
  <2>7. Covered(s)'
    BY <2>2, <2>3, <2>5, <2>6 DEF Covered
  <2> QED
    BY <2>4, <2>7
<1>5. CASE LockAndApply(s)
  <2>1. pc[s] = "lock" /\ UNCHANGED <<pc, journal, inserted, request, todo>>
    BY <1>5 DEF LockAndApply
  <2> QED
    BY <2>1 DEF CoverInv, Mine, Covered, KeyVisible, ToPost, Current
<1>6. CASE FinishPost(s)
  <2>1. Finishes(s)
    BY <1>0, <1>6, FinishCases
  <2>2. pc[s] = "lock" /\ NextPayload(s) /\ UNCHANGED <<journal, inserted, request>>
    BY <2>1 DEF Finishes
  <2>3. KeyVisible(s, Current(s).key)
    BY <2>2 DEF CoverInv, Covered
  <2> QED
    BY <2>2, <2>3, NextCover
<1> QED
  BY <1>1, <1>2, <1>3, <1>4, <1>5, <1>6

LEMMA EndCover ==
    ASSUME CoverInv, NEW s \in Sessions, ~Drops(s),
           SettleReceivable(s) \/ CancelReceivable(s) \/ Respond(s) \/ Commit(s)
    PROVE  Mine(s)' /\ Covered(s)'
<1> USE DEF others, tables, work
<1>0. ASSUME NEW code, Fail(s, code), pc[s] # "idle" PROVE FALSE
  BY <1>0 DEF Fail, Drops, Goto, CoverInv, ShapeInv, TypeOK
<1>1. CASE ~Commit(s)
  <2>1. /\ pc[s] \in {"settle", "cancel", "respond"} /\ pc'[s] \in {"respond", "commit"}
        /\ UNCHANGED <<journal, inserted, request, todo>>
    BY <1>0, <1>1, ResolveCases DEF Resolves, Respond, Goto, CoverInv, ShapeInv, TypeOK
  <2> QED
    BY <2>1 DEF CoverInv, Mine, Covered, KeyVisible
<1>2. CASE Commit(s)
  <2>1. /\ pc[s] = "commit" /\ pc'[s] = "done" /\ journal' = journal \cup inserted[s]
        /\ inserted'[s] = {} /\ todo'[s] = <<>> /\ request'[s] = request[s]
    BY <1>2, ReleaseKeeps DEF Commit, Goto, CoverInv, ShapeInv, TypeOK
  <2>2. Mine(s)'
    BY <2>1 DEF Mine
  <2>3. \A k : KeyVisible(s, k) => KeyVisible(s, k)'
    BY <2>1 DEF KeyVisible, KeyUsed
  <2> QED
    BY <2>1, <2>2, <2>3 DEF CoverInv, Covered
<1> QED
  BY <1>1, <1>2

LEMMA DropCover ==
    ASSUME CoverInv, NEW s \in Sessions, Drops(s) PROVE Mine(s)' /\ Covered(s)'
<1>1. pc'[s] \in {"failed", "crashed"} /\ inserted'[s] = {} /\ todo'[s] = <<>>
  BY ReleaseKeeps DEF Drops, CoverInv, ShapeInv
<1> QED
  BY <1>1 DEF Mine, Covered

LEMMA JournalGrows ==
    ASSUME ShapeInv, NEW s \in Sessions, SessionMove(s) PROVE journal \subseteq journal'
  BY Kinds DEF KeepsWrites, Inserts, Commit, Drops, others, tables

LEMMA CoverStep == CoverInv /\ [Next]_vars => CoverInv'
<1> SUFFICES ASSUME CoverInv, [Next]_vars PROVE CoverInv'
  OBVIOUS
<1>1. ShapeInv'
  BY ShapeStep DEF CoverInv
<1>2. CASE UNCHANGED ledgerVars
  BY <1>1, <1>2 DEF ledgerVars, tables, sessionVars, work, CoverInv, Mine, Covered, KeyVisible,
     ToPost, Current
<1>3. ASSUME NEW s \in Sessions, SessionMove(s) PROVE CoverInv'
  <2>1. Mine(s)' /\ Covered(s)'
    <3>1. CASE Drops(s)
      BY <3>1, DropCover
    <3>2. CASE VoidTransaction(s) \/ AbortDeadlocked(s) \/ Crash(s)
      <4>1. ASSUME NEW code, Fail(s, code), pc[s] # "idle" PROVE Drops(s)
        BY <4>1 DEF Fail, Drops, Goto, CoverInv, ShapeInv, TypeOK, others, tables
      <4>2. Drops(s)
        BY <3>2, <4>1 DEF VoidTransaction, AbortDeadlocked, InDeadlock, Crash, BusySessions,
           Drops, Goto, CoverInv, ShapeInv, TypeOK, others, tables
      <4> QED
        BY <4>2, DropCover
    <3> QED
      BY <1>3, <3>1, <3>2, BeginCover, TransferCover, OriginalCover, PostCover, EndCover
         DEF SessionMove, SessionStep
  <2>2. ASSUME NEW u \in Sessions \ {s} PROVE Mine(u)' /\ Covered(u)'
    <3>1. /\ pc'[u] = pc[u] /\ request'[u] = request[u] /\ todo'[u] = todo[u]
          /\ inserted'[u] = inserted[u] /\ journal \subseteq journal'
      BY <1>3, <2>2, MoveKeeps, JournalGrows DEF CoverInv, ShapeInv, OthersKeep
    <3>2. \A k : KeyVisible(u, k) => KeyVisible(u, k)'
      BY <3>1 DEF KeyVisible, KeyUsed
    <3> QED
      BY <3>1, <3>2 DEF CoverInv, Mine, Covered, ToPost, Current
  <2> QED
    BY <1>1, <2>1, <2>2 DEF CoverInv
<1> QED
  BY <1>2, <1>3, StepCases

LEMMA CoverInit == Init => CoverInv
  BY ShapeInit DEF Init, LedgerInit, CoverInv, Mine, Covered

(* A request that was acknowledged and committed has its transactions in    *)
(* the journal.                                                             *)
THEOREM AcknowledgedBooked == Spec => []AcknowledgedIsBooked
<1>1. CoverInv => AcknowledgedIsBooked
  <2> SUFFICES ASSUME CoverInv, NEW s \in Sessions, pc[s] = "done", NEW k \in KeysOf(request[s])
               PROVE  KeyUsed(journal, k)
    BY DEF AcknowledgedIsBooked
  <2>1. KeyVisible(s, k) /\ inserted[s] = {}
    BY DEF CoverInv, Mine, Covered
  <2> QED
    BY <2>1 DEF KeyVisible, KeyUsed
<1> QED
  BY <1>1, CoverInit, CoverStep, PTL DEF Spec

(* With keys nobody reserves, only a transfer books under its prefixes, and *)
(* at its commit both keys are visible to it.                               *)
PairInv == CoverInv /\ TransferAllOrNothing

LEMMA OnlyTransfersPrefix ==
    ASSUME CoverInv, KeysNotReserved, NEW s \in Sessions, pc[s] # "idle",
           NEW t \in inserted[s], NEW k \in Keys, t.key \in {<<SEND, k>>, <<RECV, k>>}
    PROVE  request[s].op = "transfer" /\ request[s].key = k
<1>1. request[s] \in Requests /\ t.key \in KeysOf(request[s])
  BY DEF CoverInv, ShapeInv, AskedFor, Mine
<1>2. t.key[1] # "" /\ t.key[2] = k
  <2>1. CASE t.key = <<SEND, k>>
    BY <2>1 DEF SEND
  <2>2. CASE t.key = <<RECV, k>>
    BY <2>2 DEF RECV
  <2> QED
    BY <2>1, <2>2
<1>3. request[s].op # "void"
  BY <1>1 DEF KeysOf
<1>4. request[s].op = "transfer"
  BY <1>1, <1>2, <1>3 DEF KeysNotReserved, KeysOf
<1>5. t.key[2] = request[s].key
  BY <1>1, <1>4 DEF KeysOf
<1> QED
  BY <1>2, <1>4, <1>5

LEMMA PairStep == PairInv /\ [Next]_vars => PairInv'
<1> SUFFICES ASSUME PairInv, [Next]_vars, KeysNotReserved, NEW k \in Keys
             PROVE  (KeyUsed(journal, <<SEND, k>>) <=> KeyUsed(journal, <<RECV, k>>))'
  BY CoverStep DEF PairInv, TransferAllOrNothing, KeysNotReserved
<1>1. KeyUsed(journal, <<SEND, k>>) <=> KeyUsed(journal, <<RECV, k>>)
  BY DEF PairInv, TransferAllOrNothing
<1>2. CASE journal' = journal
  BY <1>1, <1>2 DEF KeyUsed
<1>3. ASSUME NEW s \in Sessions, Commit(s)
      PROVE  (KeyUsed(journal, <<SEND, k>>) <=> KeyUsed(journal, <<RECV, k>>))'
  <2>1. pc[s] = "commit" /\ journal' = journal \cup inserted[s]
    BY <1>3 DEF Commit
  <2>2. ASSUME NEW t \in inserted[s], t.key \in {<<SEND, k>>, <<RECV, k>>}
        PROVE  KeyUsed(journal', <<SEND, k>>) /\ KeyUsed(journal', <<RECV, k>>)
    <3>1. request[s].op = "transfer" /\ request[s].key = k
      BY <2>1, <2>2, OnlyTransfersPrefix DEF PairInv
    <3>2. KeysOf(request[s]) = {<<SEND, k>>, <<RECV, k>>}
      BY <3>1 DEF KeysOf
    <3>3. KeyVisible(s, <<SEND, k>>) /\ KeyVisible(s, <<RECV, k>>)
      BY <2>1, <3>2 DEF PairInv, CoverInv, Covered
    <3> QED
      BY <2>1, <3>3 DEF KeyVisible
  <2>3. \A key : KeyUsed(journal', key) <=> KeyUsed(journal, key) \/ \E t \in inserted[s] : t.key = key
    BY <2>1 DEF KeyUsed
  <2> QED
    BY <1>1, <2>2, <2>3 DEF KeyUsed
<1>4. ASSUME NEW s \in Sessions, SessionMove(s), ~Commit(s) PROVE journal' = journal
  BY <1>4, Kinds DEF PairInv, CoverInv, KeepsWrites, Inserts, Drops, others, tables
<1> QED
  BY <1>2, <1>3, <1>4, StepCases DEF ledgerVars, tables

LEMMA PairInit == Init => PairInv
  BY CoverInit DEF Init, LedgerInit, PairInv, TransferAllOrNothing, KeyUsed

(* A transfer books both legs or none, whatever crashes and retries.        *)
THEOREM TransfersAtomic == Spec => []TransferAllOrNothing
<1>1. PairInv => TransferAllOrNothing
  BY DEF PairInv
<1> QED
  BY <1>1, PairInit, PairStep, PTL DEF Spec

-----------------------------------------------------------------------------
(* The refinement of Journal.                                               *)
ValidInv == ShapeInv /\ \A t \in Booked : Accepted(t)

LEMMA ValidStep == ValidInv /\ [Next]_vars => ValidInv'
<1> SUFFICES ASSUME ValidInv, [Next]_vars PROVE \A t \in Booked' : Accepted(t)
  BY ShapeStep DEF ValidInv, Accepted, CurrenciesMatch
<1>1. CASE UNCHANGED ledgerVars
  BY <1>1 DEF ValidInv, ledgerVars, tables, sessionVars, work, Booked
<1>2. ASSUME NEW s \in Sessions, SessionMove(s) PROVE \A t \in Booked' : Accepted(t)
  <2>1. \A u \in Sessions \ {s} : inserted'[u] = inserted[u]
    BY <1>2, MoveKeeps DEF ValidInv, ShapeInv, OthersKeep
  <2>2. CASE KeepsWrites(s)
    BY <2>2 DEF KeepsWrites, Booked, ValidInv
  <2>3. CASE Inserts(s)
    <3>1. journal' = journal /\ inserted'[s] = inserted[s] \cup {Current(s)} /\ Accepted(Current(s))
      BY <2>3 DEF Inserts, others, tables, ValidInv, ShapeInv, TypeOK
    <3>2. Booked' \subseteq Booked \cup {Current(s)}
      BY <2>1, <3>1 DEF Booked
    <3> QED
      BY <3>1, <3>2 DEF ValidInv
  <2>4. CASE Commit(s) \/ Drops(s)
    <3>1. inserted'[s] = {} /\ journal' \subseteq journal \cup inserted[s]
      BY <2>4, ReleaseKeeps DEF Commit, Drops, ValidInv, ShapeInv
    <3>2. Booked' \subseteq Booked
      BY <2>1, <3>1 DEF Booked
    <3> QED
      BY <3>2 DEF ValidInv
  <2> QED
    BY <1>2, <2>2, <2>3, <2>4, Kinds DEF ValidInv
<1> QED
  BY <1>1, <1>2, StepCases

LEMMA ValidInit == Init => ValidInv
  BY ShapeInit DEF Init, LedgerInit, ValidInv, Booked

LEMMA BookStep ==
    KeyInv /\ PairInv /\ ValidInv /\ [Next]_vars => [Abstract!Book]_journal
<1> SUFFICES ASSUME KeyInv, PairInv, ValidInv, [Next]_vars, journal' # journal
             PROVE  Abstract!Book
  OBVIOUS
<1>1. KeyInv' /\ PairInv' /\ ValidInv'
  BY KeyStep, PairStep, ValidStep
<1>2. journal \subseteq journal'
  BY StepCases, JournalGrows DEF KeyInv, ledgerVars, tables
<1>3. journal' \ journal \subseteq {t \in Txn : Accepted(t)}
  <2>1. journal' \subseteq Txn
    BY <1>1 DEF KeyInv, ShapeInv, TypeOK
  <2>2. ASSUME NEW t \in journal' PROVE Accepted(t)
    <3>1. Accepted(t)'
      BY <1>1, <2>2 DEF ValidInv, Booked
    <3> QED
      BY <3>1 DEF Accepted, CurrenciesMatch
  <2> QED
    BY <2>1, <2>2
<1>4. \A t \in journal' \ journal, u \in journal' : t.key = u.key => t = u
  BY <1>1 DEF KeyInv, KeysApart
<1>5. ASSUME KeysNotReserved, NEW k \in Keys
      PROVE  (\E t \in journal' : t.key = <<SEND, k>>) <=> (\E t \in journal' : t.key = <<RECV, k>>)
  BY <1>1, <1>5 DEF PairInv, TransferAllOrNothing, KeysNotReserved, KeyUsed
<1> QED
  BY <1>2, <1>3, <1>4, <1>5 DEF Abstract!Book, Abstract!Used

(* The sessions implement the abstract journal.                             *)
THEOREM JournalRefined == Spec => RefinesJournal
<1>1. Init => Abstract!Init
  BY DEF Init, LedgerInit, Abstract!Init
<1> QED
  BY <1>1, BookStep, KeyInit, KeyStep, PairInit, PairStep, ValidInit, ValidStep, PTL
     DEF Spec, RefinesJournal, Abstract!Spec

-----------------------------------------------------------------------------
(* Receivables of sales.  The sale that is being posted has its receivable  *)
(* written by the step that ends post, every other inserted one has it      *)
(* already; and nothing writes a receivable no sale stands behind.          *)
SaleWrites(s) ==
    /\ pc[s] = "lock" => Current(s) \in inserted[s]
    /\ \A k \in DOMAIN rcvWrites[s] :
         receivable[k] # "none" \/ \E t \in inserted[s] : t.key = k /\ t.expects
    /\ \A t \in inserted[s] : t.expects =>
         t.key \in DOMAIN rcvWrites[s] \/ (pc[s] = "lock" /\ t = Current(s))

SaleInv == ShapeInv /\ ReceivableIffSale /\ \A s \in Sessions : SaleWrites(s)

(* The steps that write nothing but account rows and do not enter or leave  *)
(* "lock": one of them lets the handler past the check of the period.       *)
Proceeds(s) ==
    /\ UNCHANGED <<journal, receivable, inserted, rcvWrites>>
    /\ pc'[s] \notin {"idle"} \cup Over
    /\ pc'[s] = "read" => (pc[s] = "read" \/ Postable(Current(s))) /\ todo' = todo
    /\ pc'[s] = "lock" => pc[s] = "lock"
    /\ pc[s] = "lock" => pc'[s] = "lock" /\ todo' = todo

LEMMA SaleKinds ==
    ASSUME ShapeInv, NEW s \in Sessions, SessionMove(s)
    PROVE  Proceeds(s) \/ Inserts(s) \/ Finishes(s) \/ Resolves(s) \/ Commit(s) \/ Drops(s)
<1> USE DEF others, tables, work, Goto, Over
<1>1. ASSUME NEW code, Fail(s, code), pc[s] # "idle" PROVE Drops(s)
  BY <1>1 DEF Fail, Drops, ShapeInv, TypeOK
<1>2. CASE Begin(s) \/ LookupSendKey(s) \/ LookupRecvKey(s) \/ LockAndApply(s) \/ Respond(s)
  BY <1>2 DEF Begin, FirstStep, LookupSendKey, LookupRecvKey, LockAndApply, Respond, Proceeds,
     ShapeInv, TypeOK
<1>3. CASE LookupKey(s)
  <2>1. CASE NextPayload(s)
    BY <1>3, <2>1, NextPayloadShape DEF LookupKey, Proceeds
  <2>2. CASE Goto(s, "period")
    BY <1>3, <2>2 DEF LookupKey, Proceeds, ShapeInv, TypeOK
  <2> QED
    BY <1>3, <2>1, <2>2 DEF LookupKey
<1>4. CASE ResolveAccounts(s) \/ LoadOriginal(s) \/ VoidTransaction(s)
  BY <1>4, <1>1 DEF ResolveAccounts, LoadOriginal, VoidTransaction, Proceeds, ShapeInv, TypeOK
<1>5. CASE CheckPeriod(s) \/ ReadAccount(s)
  BY <1>5, <1>1 DEF CheckPeriod, ReadAccount, Proceeds, ShapeInv, TypeOK
<1>6. CASE InsertTransaction(s)
  BY <1>6, <1>1, InsertCases
<1>7. CASE FinishPost(s)
  BY <1>7, <1>1, FinishCases
<1>8. CASE SettleReceivable(s) \/ CancelReceivable(s)
  BY <1>8, <1>1, ResolveCases
<1>9. CASE AbortDeadlocked(s) \/ Crash(s)
  BY <1>9, <1>1 DEF AbortDeadlocked, InDeadlock, BusySessions, Crash, Drops, ShapeInv, TypeOK
<1> QED
  BY <1>2, <1>3, <1>4, <1>5, <1>6, <1>7, <1>8, <1>9 DEF SessionMove, SessionStep

LEMMA SaleWritesStep ==
    ASSUME SaleInv, NEW s \in Sessions, SessionMove(s) PROVE SaleWrites(s)'
<1>1. CASE Proceeds(s)
  BY <1>1 DEF Proceeds, SaleInv, SaleWrites, Current
<1>2. CASE Inserts(s)
  <2>1. /\ pc[s] = "read" /\ pc'[s] = "lock" /\ Current(s)' = Current(s)
        /\ inserted'[s] = inserted[s] \cup {Current(s)} /\ UNCHANGED <<receivable, rcvWrites>>
    BY <1>2 DEF Inserts, others, tables, SaleInv, ShapeInv, TypeOK, Current
  <2> QED
    BY <2>1 DEF SaleInv, SaleWrites
<1>3. CASE Finishes(s)
  <2>1. /\ pc[s] = "lock" /\ pc'[s] # "lock" /\ UNCHANGED <<receivable, inserted>>
    BY <1>3, NextPayloadShape DEF Finishes, others, tables, SaleInv
  <2>2. /\ DOMAIN rcvWrites'[s] = IF Current(s).expects THEN DOMAIN rcvWrites[s] \cup {Current(s).key}
                                  ELSE DOMAIN rcvWrites[s]
    BY <1>3 DEF Finishes, OpensReceivable, Put, SaleInv, ShapeInv, TypeOK
  <2> QED
    BY <2>1, <2>2 DEF SaleInv, SaleWrites
<1>4. CASE Resolves(s)
  <2> DEFINE k == IF pc[s] = "settle" THEN request[s].receivable ELSE request[s].txn
  <2>1. /\ pc[s] # "lock" /\ pc'[s] # "lock" /\ UNCHANGED <<receivable, inserted>>
        /\ \/ rcvWrites' = rcvWrites
           \/ DOMAIN rcvWrites'[s] = DOMAIN rcvWrites[s] \cup {k} /\ receivable[k] = "PENDING"
    BY <1>4 DEF Resolves, Put, others, tables, SaleInv, ShapeInv, TypeOK
  <2> HIDE DEF k
  <2> QED
    BY <2>1 DEF SaleInv, SaleWrites
<1>5. CASE Commit(s) \/ Drops(s)
  <2>1. pc'[s] # "lock" /\ inserted'[s] = {} /\ rcvWrites'[s] = EmptyFcn
    BY <1>5, ReleaseKeeps DEF Commit, Goto, Drops, SaleInv, ShapeInv, TypeOK
  <2> QED
    BY <2>1 DEF SaleWrites, EmptyFcn
<1> QED
  BY <1>1, <1>2, <1>3, <1>4, <1>5, SaleKinds DEF SaleInv

LEMMA CommitReceivable ==
    ASSUME SaleInv, NEW s \in Sessions, Commit(s), NEW k \in TxnKeys
    PROVE  receivable'[k] # "none" <=> receivable[k] # "none" \/ k \in DOMAIN rcvWrites[s]
<1>1. k \in DOMAIN rcvWrites[s] => rcvWrites[s][k] \in ReceivableStatuses
  BY DEF SaleInv, ShapeInv, TypeOK, PartialFcn
<1> QED
  BY <1>1 DEF Commit, ReceivableStatuses

LEMMA SaleStep == SaleInv /\ [Next]_vars => SaleInv'
<1> SUFFICES ASSUME SaleInv, [Next]_vars PROVE SaleInv'
  OBVIOUS
<1>0. ShapeInv'
  BY ShapeStep DEF SaleInv
<1>1. CASE UNCHANGED ledgerVars
  BY <1>0, <1>1 DEF ledgerVars, tables, sessionVars, work, SaleInv, SaleWrites, ReceivableIffSale,
     Current
<1>2. ASSUME NEW s \in Sessions, SessionMove(s) PROVE SaleInv'
  <2>1. CASE ~Commit(s)
    <3>1. UNCHANGED <<journal, receivable>>
      BY <1>2, <2>1, SaleKinds DEF SaleInv, Proceeds, Inserts, Finishes, Resolves, Drops,
         others, tables
    <3>2. ReceivableIffSale'
      BY <3>1 DEF SaleInv, ReceivableIffSale
    <3>3. ASSUME NEW u \in Sessions \ {s} PROVE SaleWrites(u)'
      BY <1>2, <3>1, <3>3, MoveKeeps DEF SaleInv, ShapeInv, OthersKeep, SaleWrites, Current
    <3> QED
      BY <1>0, <1>2, <3>2, <3>3, SaleWritesStep DEF SaleInv
  <2>2. CASE Commit(s)
    <3>1. journal' = journal \cup inserted[s] /\ pc[s] = "commit"
      BY <2>2 DEF Commit
    <3>2. ReceivableIffSale'
      <4> SUFFICES ASSUME NEW k \in TxnKeys
                   PROVE  receivable'[k] # "none" <=> \E t \in journal' : t.key = k /\ t.expects
        BY DEF ReceivableIffSale
      <4>1. receivable[k] # "none" <=> \E t \in journal : t.key = k /\ t.expects
        BY DEF SaleInv, ReceivableIffSale
      <4>2. k \in DOMAIN rcvWrites[s] =>
              receivable[k] # "none" \/ \E t \in inserted[s] : t.key = k /\ t.expects
        BY DEF SaleInv, SaleWrites
      <4>3. (\E t \in inserted[s] : t.key = k /\ t.expects) => k \in DOMAIN rcvWrites[s]
        BY <3>1 DEF SaleInv, SaleWrites
      <4> QED
        BY <2>2, <3>1, <4>1, <4>2, <4>3, CommitReceivable
    <3>3. ASSUME NEW u \in Sessions \ {s} PROVE SaleWrites(u)'
      <4>1. /\ pc'[u] = pc[u] /\ Current(u)' = Current(u) /\ inserted'[u] = inserted[u]
            /\ rcvWrites'[u] = rcvWrites[u] /\ DOMAIN rcvWrites[u] \subseteq TxnKeys
        BY <1>2, <3>3, MoveKeeps DEF SaleInv, ShapeInv, OthersKeep, Current, TypeOK, PartialFcn
      <4>2. \A k \in DOMAIN rcvWrites[u] : receivable[k] # "none" => receivable'[k] # "none"
        BY <2>2, <4>1, CommitReceivable
      <4> QED
        BY <4>1, <4>2 DEF SaleInv, SaleWrites
    <3> QED
      BY <1>0, <1>2, <3>2, <3>3, SaleWritesStep DEF SaleInv
  <2> QED
    BY <2>1, <2>2
<1> QED
  BY <1>1, <1>2, StepCases

LEMMA SaleInit == Init => SaleInv
  BY ShapeInit DEF Init, LedgerInit, SaleInv, SaleWrites, ReceivableIffSale, EmptyFcn

(* A receivable exists exactly for the committed sales that asked for one.  *)
THEOREM SalesHaveReceivables == Spec => []ReceivableIffSale
<1>1. SaleInv => ReceivableIffSale
  BY DEF SaleInv
<1> QED
  BY <1>1, SaleInit, SaleStep, PTL DEF Spec
====
