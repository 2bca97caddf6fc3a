---- MODULE Bookkeeping ----
(***************************************************************************)
(* The double-entry rules of TransactionService and TransferService as     *)
(* pure operators: what an entry, a transaction and a request are, which   *)
(* entries each request books, and when the service accepts them.  Money   *)
(* is an integer number of the smallest unit an account row stores.        *)
(***************************************************************************)
EXTENDS Calendar, Integers, Sequences, FiniteSets, Functions

CONSTANTS
    Sessions,   \* the handlers of requests; each makes its rows' ids
    Entities,   \* ids of rows in the entities table
    Codes,      \* account codes
    Keys,       \* what clients send in the Idempotency-Key header
    Chart       \* chart_of_accounts: <<entity, code>> -> [type, currency]

ACC_RECEIVABLES             == "1.1.001"
ACC_RECEIVABLES_ANTICIPATED == "1.1.002"
ACC_ANTICIPATION_FEE        == "4.1.003"
ACC_TRANSFER                == "9.9.998"

EntryTypes   == {"DEBIT", "CREDIT"}
AccountTypes == {"ASSET", "LIABILITY", "REVENUE", "EXPENSE", "EQUITY"}
Currencies   == {"BRL", "USD"}
Networks     == {"STR", "CIP-PIX", "COMPE", "none"}
TransactionTypes == {"SALE", "ANTICIPATION", "SETTLEMENT", "DEPOSIT",
                     "WITHDRAWAL", "TRANSFER", "REVERSAL"}

Accounts == DOMAIN Chart

WorldAccount(network) ==
    CASE network = "STR"     -> "9.9.901"
      [] network = "CIP-PIX" -> "9.9.902"
      [] network = "COMPE"   -> "9.9.903"
      [] OTHER               -> "9.9.999"

ASSUME ChartAssumption ==
    /\ Chart \in [Accounts -> [type : AccountTypes, currency : Currencies]]
    /\ Accounts \subseteq Entities \X Codes /\ IsFiniteSet(Accounts)
    /\ {ACC_RECEIVABLES, ACC_RECEIVABLES_ANTICIPATED, ACC_ANTICIPATION_FEE,
        ACC_TRANSFER} \cup {WorldAccount(n) : n \in Networks} \subseteq Codes

-----------------------------------------------------------------------------
(* A transaction's idempotency_key: the header for most endpoints, the      *)
(* header behind one of two prefixes for the two legs of a transfer.        *)
SEND == "transfer:send:"
RECV == "transfer:recv:"
TxnKeys == {"", SEND, RECV} \X Keys

NoRef == <<"none", "none">>     \* reference_id NULL

Entry == [code : Codes, type : EntryTypes, amount : Int, currency : Currencies]

(* A row of transactions with its entries.  The status column is left out: *)
(* post only ever writes COMMITTED.  expects says whether the payload had  *)
(* an expected_settlement_date.  by is the handler that made the row and,   *)
(* with the key, stands for the row's random id: two rows of one request   *)
(* are two rows.                                                            *)
Txn == [by : Sessions, key : TxnKeys, entity : Entities, type : TransactionTypes, date : Dates,
        entries : Seq(Entry), ref : TxnKeys \cup {NoRef}, expects : BOOLEAN]

(* What a client may ask.  Transactions have one key and one receivable at *)
(* most, so both are named by the transaction's key.                       *)
PostRequest == [op : {"post"}, key : TxnKeys, entity : Entities,
                type : TransactionTypes, date : Dates, entries : Seq(Entry),
                expects : BOOLEAN]
CashRequest == [op : {"deposit", "withdraw"}, key : TxnKeys, entity : Entities,
                date : Dates, amount : Int, currency : Currencies, network : Networks]
AnticipateRequest == [op : {"anticipate"}, key : TxnKeys, entity : Entities,
                date : Dates, amount : Int, fee : Int, receivable : TxnKeys]
SettleRequest == [op : {"settle"}, key : TxnKeys, entity : Entities, date : Dates,
                amount : Int, network : Networks, receivable : TxnKeys]
TransferRequest == [op : {"transfer"}, key : Keys, sender : Entities,
                receiver : Entities, date : Dates, amount : Int, currency : Currencies]
ReverseRequest == [op : {"reverse"}, key : TxnKeys, entity : Entities, txn : TxnKeys]
VoidRequest == [op : {"void"}, entity : Entities, txn : TxnKeys]

Request == PostRequest \cup CashRequest \cup AnticipateRequest \cup SettleRequest
           \cup TransferRequest \cup ReverseRequest \cup VoidRequest

-----------------------------------------------------------------------------
(* The entries each operation books.                                        *)
Debit(code, amount, currency) ==
    [code |-> code, type |-> "DEBIT", amount |-> amount, currency |-> currency]
Credit(code, amount, currency) ==
    [code |-> code, type |-> "CREDIT", amount |-> amount, currency |-> currency]

DepositEntries(r) ==
    <<Debit(ACC_RECEIVABLES, r.amount, r.currency),
      Credit(WorldAccount(r.network), r.amount, r.currency)>>

WithdrawalEntries(r) ==
    <<Debit(WorldAccount(r.network), r.amount, r.currency),
      Credit(ACC_RECEIVABLES, r.amount, r.currency)>>

(* Anticipation and settlement never set a currency: the schema's default.  *)
AnticipationEntries(r) ==
    <<Debit(ACC_RECEIVABLES_ANTICIPATED, r.amount, "BRL"),
      Credit(ACC_RECEIVABLES, r.amount, "BRL"),
      Debit(ACC_ANTICIPATION_FEE, r.fee, "BRL"),
      Credit(ACC_RECEIVABLES_ANTICIPATED, r.fee, "BRL")>>

SettlementEntries(r) ==
    <<Debit(WorldAccount(r.network), r.amount, "BRL"),
      Credit(ACC_RECEIVABLES_ANTICIPATED, r.amount, "BRL")>>

SenderEntries(r) ==
    <<Debit(ACC_TRANSFER, r.amount, r.currency),
      Credit(ACC_RECEIVABLES, r.amount, r.currency)>>

ReceiverEntries(r) ==
    <<Debit(ACC_RECEIVABLES, r.amount, r.currency),
      Credit(ACC_TRANSFER, r.amount, r.currency)>>

Opposite(type) == IF type = "DEBIT" THEN "CREDIT" ELSE "DEBIT"
Mirrored(entries) ==
    [i \in DOMAIN entries |-> [entries[i] EXCEPT !.type = Opposite(@)]]

(* A TransactionCreate payload with the entity and key post is called with: *)
(* the row post will insert if it accepts it.                               *)
Payload(by, key, entity, type, date, entries, ref, expects) ==
    [by |-> by, key |-> key, entity |-> entity, type |-> type, date |-> date,
     entries |-> entries, ref |-> ref, expects |-> expects]

SenderTxn(by, r) == Payload(by, <<SEND, r.key>>, r.sender, "TRANSFER", r.date,
                        SenderEntries(r), NoRef, FALSE)
ReceiverTxnUnderSendKey(by, r) == Payload(by, <<SEND, r.key>>, r.receiver, "TRANSFER", r.date,
                        ReceiverEntries(r), NoRef, FALSE)
ReceiverTxn(by, r) == Payload(by, <<RECV, r.key>>, r.receiver, "TRANSFER", r.date,
                        ReceiverEntries(r), NoRef, FALSE)

(* The transaction of every request except transfer, reverse and void.      *)
TxnOf(by, r) ==
    CASE r.op = "post" ->
           Payload(by, r.key, r.entity, r.type, r.date, r.entries, NoRef, r.expects)
      [] r.op = "deposit" ->
           Payload(by, r.key, r.entity, "DEPOSIT", r.date, DepositEntries(r), NoRef, FALSE)
      [] r.op = "withdraw" ->
           Payload(by, r.key, r.entity, "WITHDRAWAL", r.date, WithdrawalEntries(r), NoRef, FALSE)
      [] r.op = "anticipate" ->
           Payload(by, r.key, r.entity, "ANTICIPATION", r.date, AnticipationEntries(r),
                   r.receivable, FALSE)
      [] r.op = "settle" ->
           Payload(by, r.key, r.entity, "SETTLEMENT", r.date, SettlementEntries(r),
                   r.receivable, FALSE)

ReversalTxn(by, r, original) ==
    Payload(by, r.key, r.entity, "REVERSAL", Today, Mirrored(original.entries), r.txn, FALSE)

-----------------------------------------------------------------------------
(* What post validates and computes.                                        *)
AccountAt(t, i) == <<t.entity, t.entries[i].code>>

SumOver(entries, I) == SumFunctionOnSet([i \in I |-> entries[i].amount], I)

TotalOf(entries, type, currency) ==
    SumOver(entries, {i \in DOMAIN entries :
                        entries[i].type = type /\ entries[i].currency = currency})

Balanced(entries) ==
    \A c \in {entries[i].currency : i \in DOMAIN entries} :
        TotalOf(entries, "DEBIT", c) = TotalOf(entries, "CREDIT", c)

CurrenciesMatch(t) ==
    \A i \in DOMAIN t.entries : Chart[AccountAt(t, i)].currency = t.entries[i].currency

DeltaIgnoringType(accountType, entryType, amount) ==
    IF entryType = "DEBIT" THEN amount ELSE -amount

(* _compute_delta: assets and expenses grow on debits, the rest on credits. *)
Delta(accountType, entryType, amount) ==
    IF (accountType \in {"ASSET", "EXPENSE"}) <=> (entryType = "DEBIT")
    THEN amount ELSE -amount

(* The gross amount of the receivable a sale leaves behind: its credits on  *)
(* revenue accounts.                                                        *)
InferredGross(t) ==
    SumOver(t.entries, {i \in DOMAIN t.entries :
                          /\ Chart[AccountAt(t, i)].type = "REVENUE"
                          /\ t.entries[i].type = "CREDIT"})

====
