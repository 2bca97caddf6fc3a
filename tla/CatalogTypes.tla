---- MODULE CatalogTypes ----
(***************************************************************************)
(* Type correctness of Catalog, for any sessions, requests and beginnings: *)
(* what each request calls, what each call writes, and that the rows of    *)
(* sessions stay apart.                                                    *)
(***************************************************************************)
EXTENDS CatalogProperties, AmountTheorems, SequenceTheorems, TLAPS

-----------------------------------------------------------------------------
(* What a request calls, and in which place.                                *)
Requires == [do : {"require"}, row : EntityNames]
Provides == [do : {"ensure"}, row : AccountNames, columns : {NewAccount}]
Ensures ==
    Provides \cup [do : {"ensure"}, row : EntityNames, columns : {NewEntity}]
    \cup [do : {"ensure"}, row : PeriodNames, columns : {[status |-> "OPEN"]}]
    \cup [do : {"ensure"}, row : {SnapshotRow}, columns : {[balance |-> 0]}]
Inserts == [do : {"insert"}, row : EntityNames, columns : {NewEntity}]
Posts == [do : {"post"}, txn : CatalogTxn]
Resolves == [do : {"resolve"}, row : ReceivableNames, status : {"SETTLED", "CANCELLED"}]
SeedSteps == Requires \cup Ensures \cup Posts \cup Resolves

(* The templates and the clearing accounts list accounts.                   *)
TemplateCodes ==
    {"1.1.001", "1.1.002", "1.2.001", "2.1.001", "2.2.001", "2.2.002", "2.2.003", "3.1.001",
     "3.1.002", "4.1.001", "4.1.002", "4.1.003", "4.2.001", "4.2.002", "4.2.003", "9.9.901",
     "9.9.902", "9.9.903", "9.9.998", "9.9.999"}
Lines == TemplateCodes \X AccountTypes

LEMMA ListTypes ==
    /\ Merchant \in Seq(Lines) /\ Common \in Seq(Lines) /\ Customer \in Seq(Lines)
    /\ Operator \in Seq(Lines) /\ Platform \in Seq(Lines) /\ BaasCustomer \in Seq(Lines)
    /\ ClearingAccounts \in Seq(Lines)
<1>1. ASSUME NEW code \in TemplateCodes
      PROVE  /\ Asset(code) \in Lines /\ Liability(code) \in Lines /\ Revenue(code) \in Lines
             /\ Expense(code) \in Lines /\ Equity(code) \in Lines
  BY DEF Lines, AccountTypes, Asset, Liability, Revenue, Expense, Equity
<1>2. Merchant \in Seq(Lines)
  BY <1>1 DEF Merchant, TemplateCodes
<1>3. Common \in Seq(Lines) /\ Customer \in Seq(Lines) /\ Operator \in Seq(Lines)
  BY <1>1 DEF Common, Customer, Operator, TemplateCodes
<1>4. Platform \in Seq(Lines) /\ BaasCustomer \in Seq(Lines)
  BY <1>1 DEF Platform, BaasCustomer, TemplateCodes
<1>5. ClearingAccounts \in Seq(Lines)
  BY DEF ClearingAccounts, TemplateCodes, Lines, AccountTypes
<1> QED
  BY <1>2, <1>3, <1>4, <1>5

LEMMA TemplateType ==
    ASSUME NEW name \in {"MERCHANT", "CUSTOMER", "OPERATOR", "PLATFORM", "BAAS_CUSTOMER"}
    PROVE  GetTemplate(name) \in Seq(Lines)
<1>1. \A x, y \in Seq(Lines) : x \o y \in Seq(Lines)
  BY ConcatProperties
<1> QED
  BY <1>1, ListTypes DEF GetTemplate

(* The entities and the codes of the sample data.                           *)
LEMMA SeedNamed ==
    /\ {MERCHANT, PLATFORM, OPERATOR, BAAS_A, BAAS_B, CUSTOMER} \subseteq Entities
    /\ {"3.1.001", "4.1.001", "4.1.002"} \subseteq Codes
    /\ \A i \in DOMAIN SeedEntities : SeedEntities[i][1] \in Entities
    /\ \A i \in DOMAIN ClearingEntities : ClearingEntities[i] \in Entities
<1>1. \A i \in 1 .. 6 : OnChart(SeedEntities[i][1], GetTemplate(SeedEntities[i][2]))
  BY SeedAssumption DEF SeedEntities
<1>2. ASSUME NEW x \in Seq(Lines), NEW y \in Seq(Lines), NEW e,
             OnChart(e, x \o y), NEW i \in 1 .. Len(x)
      PROVE  e \in Entities /\ x[i][1] \in Codes
  <2>1. /\ Len(x) \in Nat /\ Len(y) \in Nat /\ Len(x \o y) = Len(x) + Len(y)
        /\ (x \o y)[i] = x[i] /\ i \in DOMAIN (x \o y)
    BY ConcatProperties, LenProperties
  <2>2. <<e, (x \o y)[i][1]>> \in Accounts
    BY <1>2, <2>1 DEF OnChart
  <2>3. <<e, x[i][1]>> \in Entities \X Codes
    BY <2>1, <2>2, ChartAssumption
  <2> QED
    BY <2>3
<1>3. /\ OnChart(MERCHANT, Merchant \o Common) /\ OnChart(PLATFORM, Platform \o Common)
      /\ OnChart(OPERATOR, Operator \o Common) /\ OnChart(BAAS_A, BaasCustomer \o Common)
      /\ OnChart(BAAS_B, BaasCustomer \o Common) /\ OnChart(CUSTOMER, Customer \o Common)
  BY <1>1 DEF SeedEntities, GetTemplate
<1>4. /\ Len(Merchant) = 13 /\ Len(Platform) = 3 /\ Len(Operator) = 3 /\ Len(BaasCustomer) = 2
      /\ Len(Customer) = 2
  BY DEF Merchant, Platform, Operator, BaasCustomer, Customer
<1>5. {MERCHANT, PLATFORM, OPERATOR, BAAS_A, BAAS_B, CUSTOMER} \subseteq Entities
  <2>1. 1 \in 1 .. 13 /\ 1 \in 1 .. 3 /\ 1 \in 1 .. 2
    OBVIOUS
  <2> QED
    BY <1>2, <1>3, <1>4, <2>1, ListTypes
<1>6. /\ Merchant[7][1] = "3.1.001" /\ Merchant[8][1] = "4.1.001" /\ Merchant[9][1] = "4.1.002"
  BY DEF Merchant, Revenue, Expense
<1>7. {"3.1.001", "4.1.001", "4.1.002"} \subseteq Codes
  <2>1. 7 \in 1 .. 13 /\ 8 \in 1 .. 13 /\ 9 \in 1 .. 13
    OBVIOUS
  <2>2. \A i \in 1 .. 13 : Merchant[i][1] \in Codes
    BY <1>2, <1>3, <1>4, ListTypes
  <2> QED
    BY <1>6, <2>1, <2>2
<1> QED
  BY <1>5, <1>7 DEF SeedEntities, ClearingEntities

-----------------------------------------------------------------------------
(* What the seed and the clients post are transactions on the chart's codes. *)
LEMMA SideTypes ==
    ASSUME NEW c \in Codes, NEW n \in Int, NEW cur \in Currencies
    PROVE  Debit(c, n, cur) \in Entry /\ Credit(c, n, cur) \in Entry
  BY DEF Debit, Credit, Entry, EntryTypes

LEMMA CodeTypes ==
    /\ {ACC_RECEIVABLES, ACC_RECEIVABLES_ANTICIPATED, ACC_ANTICIPATION_FEE, ACC_TRANSFER,
        "1.1.001", "3.1.001", "4.1.001", "4.1.002"} \subseteq Codes
    /\ \A n \in Networks : WorldAccount(n) \in Codes
    /\ "BRL" \in Currencies
  BY ChartAssumption, SeedNamed DEF ACC_RECEIVABLES, Currencies

LEMMA CatalogTxnType ==
    ASSUME NEW by \in {"client", SCRIPT}, NEW key \in TxnKeys, NEW entity \in Entities,
           NEW type \in TransactionTypes, NEW date \in Dates, NEW entries \in Seq(Entry),
           NEW ref \in TxnKeys \cup {NoRef}, NEW expects \in BOOLEAN
    PROVE  /\ Payload(by, key, entity, type, date, entries, ref, expects) \in CatalogTxn
           /\ Payload(by, key, entity, type, date, entries, ref, expects).key = key
  BY DEF Payload, CatalogTxn

LEMMA MoneyTypes ==
    /\ \A x \in Int : Units(x) \in Int /\ Mdr(x) \in Int /\ PlatformFee(x) \in Int
                     /\ AnticipationFee(x) \in Int
    /\ \A x, y \in Int : Created(x, y).net \in Int
<1>1. Cent \in Int /\ Cent \in Nat \ {0}
  BY AmountsAssumption
<1>2. \A x \in Int : RoundHalfUp(x, Cent) \in Int
  BY <1>1, HalfUpNear
<1>3. \A x \in Int : (x * 2) \div 100 \in Int /\ (x * 10) \div 100 \in Int /\ (x * 15) \div 1000 \in Int
  OBVIOUS
<1>4. \A x \in Int : Mdr(x) \in Int /\ PlatformFee(x) \in Int /\ AnticipationFee(x) \in Int
  BY <1>2, <1>3 DEF Mdr, PlatformFee, AnticipationFee, Money
<1>5. \A x \in Int : x * 100 * Cent \in Int
  BY <1>1
<1>6. \A x \in Int : Units(x) \in Int
  BY <1>5 DEF Units
<1>7. \A x, y \in Int : Created(x, y).net \in Int
  BY <1>2 DEF Created
<1> QED
  BY <1>4, <1>6, <1>7

LEMMA FixedTypes ==
    {"SALE", "ANTICIPATION", "SETTLEMENT", "DEPOSIT", "WITHDRAWAL", "TRANSFER", "REVERSAL"}
      \subseteq TransactionTypes /\ NoRef \in TxnKeys \cup {NoRef}
  BY DEF TransactionTypes

(* A request of a client, or a step of the script, that posts at once.      *)
LEMMA TxnOfType ==
    ASSUME NEW by \in {"client", SCRIPT},
           NEW r \in PostRequest \cup CashRequest \cup AnticipateRequest \cup SettleRequest
    PROVE  TxnOf(by, r) \in CatalogTxn /\ TxnOf(by, r).key = r.key
<1>0. \A e, f \in Entry : <<e, f>> \in Seq(Entry)
  OBVIOUS
<1>a. ASSUME r.key \in TxnKeys, r.entity \in Entities, r.date \in Dates, NEW type \in TransactionTypes,
             NEW entries \in Seq(Entry), NEW ref \in TxnKeys \cup {NoRef}, NEW expects \in BOOLEAN,
             TxnOf(by, r) = Payload(by, r.key, r.entity, type, r.date, entries, ref, expects)
      PROVE  TxnOf(by, r) \in CatalogTxn /\ TxnOf(by, r).key = r.key
  <2>1. /\ Payload(by, r.key, r.entity, type, r.date, entries, ref, expects) \in CatalogTxn
        /\ Payload(by, r.key, r.entity, type, r.date, entries, ref, expects).key = r.key
    <3>1. \A k \in TxnKeys, e \in Entities, d \in Dates :
            /\ Payload(by, k, e, type, d, entries, ref, expects) \in CatalogTxn
            /\ Payload(by, k, e, type, d, entries, ref, expects).key = k
      BY CatalogTxnType
    <3> QED
      BY <1>a, <3>1
  <2> QED
    BY <1>a, <2>1
<1>1. CASE r \in PostRequest
  <2>1. TxnOf(by, r) = Payload(by, r.key, r.entity, r.type, r.date, r.entries, NoRef, r.expects)
    BY <1>1 DEF TxnOf, PostRequest
  <2>2. /\ r.key \in TxnKeys /\ r.entity \in Entities /\ r.type \in TransactionTypes /\ r.date \in Dates
        /\ r.entries \in Seq(Entry) /\ r.expects \in BOOLEAN
    BY <1>1 DEF PostRequest
  <2> QED
    BY <1>a, <2>1, <2>2
<1>2. CASE r \in CashRequest
  <2>1. DepositEntries(r) \in Seq(Entry) /\ WithdrawalEntries(r) \in Seq(Entry)
    BY <1>0, <1>2, SideTypes, CodeTypes DEF CashRequest, DepositEntries, WithdrawalEntries
  <2>2. \/ TxnOf(by, r) = Payload(by, r.key, r.entity, "DEPOSIT", r.date, DepositEntries(r), NoRef, FALSE)
        \/ TxnOf(by, r) = Payload(by, r.key, r.entity, "WITHDRAWAL", r.date, WithdrawalEntries(r), NoRef, FALSE)
    BY <1>2 DEF TxnOf, CashRequest
  <2>3. r.key \in TxnKeys /\ r.entity \in Entities /\ r.date \in Dates
    BY <1>2 DEF CashRequest
  <2> QED
    BY <1>a, <2>1, <2>2, <2>3, FixedTypes
<1>3. CASE r \in AnticipateRequest
  <2>1. AnticipationEntries(r) \in Seq(Entry)
    <3>1. \A e, f, g, h \in Entry : <<e, f, g, h>> \in Seq(Entry)
      OBVIOUS
    <3> QED
      BY <3>1, <1>3, SideTypes, CodeTypes DEF AnticipateRequest, AnticipationEntries
  <2>2. TxnOf(by, r) = Payload(by, r.key, r.entity, "ANTICIPATION", r.date, AnticipationEntries(r), r.receivable, FALSE)
    BY <1>3 DEF TxnOf, AnticipateRequest
  <2>3. r.key \in TxnKeys /\ r.entity \in Entities /\ r.date \in Dates /\ r.receivable \in TxnKeys
    BY <1>3 DEF AnticipateRequest
  <2> QED
    BY <1>a, <2>1, <2>2, <2>3, FixedTypes
<1>4. CASE r \in SettleRequest
  <2>1. SettlementEntries(r) \in Seq(Entry)
    BY <1>0, <1>4, SideTypes, CodeTypes DEF SettleRequest, SettlementEntries
  <2>2. TxnOf(by, r) = Payload(by, r.key, r.entity, "SETTLEMENT", r.date, SettlementEntries(r), r.receivable, FALSE)
    BY <1>4 DEF TxnOf, SettleRequest
  <2>3. r.key \in TxnKeys /\ r.entity \in Entities /\ r.date \in Dates /\ r.receivable \in TxnKeys
    BY <1>4 DEF SettleRequest
  <2> QED
    BY <1>a, <2>1, <2>2, <2>3, FixedTypes
<1> QED
  BY <1>1, <1>2, <1>3, <1>4

LEMMA SeedKeyTypes ==
    /\ \A k \in SeedKeys : k \in Keys /\ SeedKey(k) \in TxnKeys
    /\ \A i \in 1 .. 4 : /\ Sales[i].key \in SeedKeys /\ Sales[i].platform \in SeedKeys
                       /\ Sales[i].gross \in Int /\ Sales[i].date \in Dates
<1>1. \A k \in SeedKeys : k \in Keys /\ SeedKey(k) \in TxnKeys
  BY SeedAssumption DEF SeedKey, TxnKeys
<1>2. DOMAIN Sales = 1 .. 4
  BY DEF Sales
<1>3. \A i \in 1 .. 4 : Sales[i].key \in SeedKeys /\ Sales[i].platform \in SeedKeys
  BY <1>2 DEF SeedKeys
<1>4. \A i \in 1 .. 4 : Sales[i].gross \in Int
  <2>1. Units(300) \in Int /\ Units(100) \in Int /\ Units(500) \in Int /\ Units(150) \in Int
    BY MoneyTypes
  <2> QED
    BY <2>1 DEF Sales
<1>5. \A i \in 1 .. 4 : Sales[i].date \in Dates
  BY SeedAssumption DEF Sales, SeedDates
<1> QED
  BY <1>1, <1>3, <1>4, <1>5

LEMMA SaleTypes ==
    ASSUME NEW i \in 1 .. 4
    PROVE  SaleTxn(Sales[i]) \in CatalogTxn /\ PlatformTxn(Sales[i]) \in CatalogTxn
<1> DEFINE sale == Sales[i]
<1>1. \A e, f, g, h, k, l \in Entry : <<e, f, g, h, k, l>> \in Seq(Entry) /\ <<e, f>> \in Seq(Entry)
  OBVIOUS
<1>2. sale.gross \in Int /\ Mdr(sale.gross) \in Int /\ PlatformFee(sale.gross) \in Int
  BY SeedKeyTypes, MoneyTypes
<1>3. SaleEntries(sale.gross) \in Seq(Entry) /\ PlatformEntries(PlatformFee(sale.gross)) \in Seq(Entry)
  BY <1>1, <1>2, SideTypes, CodeTypes DEF SaleEntries, PlatformEntries
<1>4. MERCHANT \in Entities /\ PLATFORM \in Entities
  BY SeedNamed
<1> QED
  BY <1>3, <1>4, SeedKeyTypes, CatalogTxnType DEF SaleTxn, PlatformTxn, TransactionTypes

LEMMA MirroredEntries ==
    ASSUME NEW entries \in Seq(Entry) PROVE Mirrored(entries) \in Seq(Entry)
<1>1. Len(entries) \in Nat /\ DOMAIN entries = 1 .. Len(entries)
  BY LenProperties
<1>2. ASSUME NEW i \in DOMAIN entries
      PROVE  [entries[i] EXCEPT !.type = Opposite(@)] \in Entry
  <2>1. entries[i] \in Entry
    BY <1>1, ElementOfSeq
  <2> QED
    BY <2>1 DEF Entry, Opposite, EntryTypes
<1> QED
  BY <1>1, <1>2 DEF Mirrored

(* The other postings of the script.                                        *)
LEMMA SeedTxnTypes ==
    /\ Anticipation \in CatalogTxn /\ Settlement \in CatalogTxn /\ Reversal \in CatalogTxn
    /\ CashTxns \in Seq(CatalogTxn)
    /\ SenderTxn(SCRIPT, SeedTransfer) \in CatalogTxn /\ ReceiverTxn(SCRIPT, SeedTransfer) \in CatalogTxn
<1> USE DEF TransactionTypes
<1>0. \A e, f \in Entry : <<e, f>> \in Seq(Entry)
  OBVIOUS
<1>1. /\ MERCHANT \in Entities /\ BAAS_A \in Entities /\ BAAS_B \in Entities
      /\ {"BRL"} \subseteq Currencies /\ {"STR", "CIP-PIX"} \subseteq Networks
      /\ {-15, -14, -7, -5, -2, -1} \subseteq Dates
  BY SeedNamed, SeedAssumption DEF Currencies, Networks, SeedDates
<1>2. /\ SeedKey(Sales[1].key) \in TxnKeys /\ SeedKey(Sales[4].key) \in TxnKeys
      /\ SeedKey("seed:anticipation:01") \in TxnKeys /\ SeedKey("seed:settlement:01") \in TxnKeys
      /\ SeedKey("seed:reversal:04") \in TxnKeys
      /\ SeedKey("seed:deposit:seed-baas-a") \in TxnKeys /\ SeedKey("seed:deposit:seed-baas-b") \in TxnKeys
      /\ SeedKey("seed:withdrawal:seed-baas-a") \in TxnKeys
      /\ "seed:transfer:01" \in Keys
  <2>1. /\ Sales[1].key \in SeedKeys /\ Sales[4].key \in SeedKeys
    BY SeedKeyTypes
  <2>2. {"seed:anticipation:01", "seed:settlement:01", "seed:reversal:04",
         "seed:deposit:seed-baas-a", "seed:deposit:seed-baas-b",
         "seed:withdrawal:seed-baas-a", "seed:transfer:01"} \subseteq SeedKeys
    BY DEF SeedKeys
  <2> QED
    BY <2>1, <2>2, SeedKeyTypes
<1>3. NetOf(Sales[1]) \in Int
  <2>1. Sales[1].gross \in Int
    BY SeedKeyTypes
  <2>2. PICK g \in Int : g = Sales[1].gross
    BY <2>1
  <2>3. Mdr(g) + PlatformFee(g) \in Int
    BY MoneyTypes
  <2> QED
    BY <2>2, <2>3, MoneyTypes DEF NetOf
<1>4. AnticipationFee(NetOf(Sales[1])) \in Int /\ SettlementAmount(NetOf(Sales[1])) \in Int
  BY <1>3, MoneyTypes DEF SettlementAmount
<1>5. Anticipation \in CatalogTxn
  <2>1. [op |-> "anticipate", key |-> SeedKey("seed:anticipation:01"), entity |-> MERCHANT,
         date |-> -2, amount |-> NetOf(Sales[1]), fee |-> AnticipationFee(NetOf(Sales[1])),
         receivable |-> SeedKey(Sales[1].key)] \in AnticipateRequest
    BY <1>1, <1>2, <1>3, <1>4 DEF AnticipateRequest
  <2> QED
    BY <2>1, TxnOfType DEF Anticipation, AnticipatedSale
<1>6. Settlement \in CatalogTxn
  <2>1. [op |-> "settle", key |-> SeedKey("seed:settlement:01"), entity |-> MERCHANT,
         date |-> -1, amount |-> SettlementAmount(NetOf(Sales[1])), network |-> "CIP-PIX",
         receivable |-> SeedKey(Sales[1].key)] \in SettleRequest
    BY <1>1, <1>2, <1>4 DEF SettleRequest
  <2> QED
    BY <2>1, TxnOfType DEF Settlement, AnticipatedSale
<1>7. Reversal \in CatalogTxn
  <2>1. SaleTxn(Sales[4]).entries \in Seq(Entry)
    BY SaleTypes DEF CatalogTxn
  <2>2. Mirrored(SaleTxn(Sales[4]).entries) \in Seq(Entry)
    BY <2>1, MirroredEntries
  <2> QED
    BY <1>1, <1>2, <2>2, CalendarAssumption, CatalogTxnType DEF Reversal, ReversalTxn, ReversedSale
<1>8. ASSUME NEW op \in {"deposit", "withdraw"}, NEW k \in SeedKeys, NEW e \in Entities,
             NEW n \in Int, NEW net \in Networks, NEW d \in Dates
      PROVE  TxnOf(SCRIPT, Cash(op, k, e, n, net, d)) \in CatalogTxn
  <2>1. SeedKey(k) \in TxnKeys /\ Units(n) \in Int
    BY SeedKeyTypes, MoneyTypes
  <2>2. Cash(op, k, e, n, net, d) \in CashRequest
    BY <1>1, <2>1 DEF Cash, CashRequest
  <2> QED
    BY <2>2, TxnOfType
<1>9. CashTxns \in Seq(CatalogTxn)
  <2>1. /\ "seed:deposit:seed-baas-a" \in SeedKeys /\ "seed:deposit:seed-baas-b" \in SeedKeys
        /\ "seed:withdrawal:seed-baas-a" \in SeedKeys
    BY DEF SeedKeys
  <2>a. -15 \in Dates /\ -14 \in Dates /\ -7 \in Dates /\ "STR" \in Networks /\ "CIP-PIX" \in Networks
        /\ 1000 \in Int /\ 500 \in Int /\ 250 \in Int
    BY <1>1
  <2>2. \A x, y, z \in CatalogTxn : <<x, y, z>> \in Seq(CatalogTxn)
    OBVIOUS
  <2> QED
    <3>1. /\ TxnOf(SCRIPT, Cash("deposit", "seed:deposit:seed-baas-a", BAAS_A, 1000, "STR", -15)) \in CatalogTxn
          /\ TxnOf(SCRIPT, Cash("deposit", "seed:deposit:seed-baas-b", BAAS_B, 500, "STR", -14)) \in CatalogTxn
          /\ TxnOf(SCRIPT, Cash("withdraw", "seed:withdrawal:seed-baas-a", BAAS_A, 250, "CIP-PIX", -7)) \in CatalogTxn
      BY <1>1, <1>8, <2>1, <2>a
    <3> QED
      BY <3>1, <2>2 DEF CashTxns
<1>10. SenderTxn(SCRIPT, SeedTransfer) \in CatalogTxn /\ ReceiverTxn(SCRIPT, SeedTransfer) \in CatalogTxn
  <2>1. SenderEntries(SeedTransfer) \in Seq(Entry) /\ ReceiverEntries(SeedTransfer) \in Seq(Entry)
    <3>1. SeedTransfer.amount \in Int /\ SeedTransfer.currency \in Currencies
      BY <1>1, MoneyTypes DEF SeedTransfer
    <3>2. ACC_TRANSFER \in Codes /\ ACC_RECEIVABLES \in Codes
      BY CodeTypes
    <3> QED
      BY <1>0, <3>1, <3>2, SideTypes DEF SenderEntries, ReceiverEntries
  <2>2. <<SEND, SeedTransfer.key>> \in TxnKeys /\ <<RECV, SeedTransfer.key>> \in TxnKeys
    BY <1>2 DEF SeedTransfer, TxnKeys
  <2>3. \A key \in TxnKeys, entity \in Entities, entries \in Seq(Entry) :
          Payload(SCRIPT, key, entity, "TRANSFER", -5, entries, NoRef, FALSE) \in CatalogTxn
    BY <1>1, CatalogTxnType
  <2>4. /\ SeedTransfer.sender \in Entities /\ SeedTransfer.receiver \in Entities
        /\ SeedTransfer.date = -5
    BY <1>1 DEF SeedTransfer
  <2> QED
    BY <2>1, <2>2, <2>3, <2>4 DEF SenderTxn, ReceiverTxn
<1> QED
  BY <1>5, <1>6, <1>7, <1>9, <1>10

-----------------------------------------------------------------------------
(* A set of natural numbers has a least one.                                *)
LEMMA LeastOf ==
    ASSUME NEW B, B \subseteq Nat, B # {} PROVE \E n \in B : \A m \in B : n <= m
<1>1. IsWellFoundedOn({p \in Nat \X Nat : p[1] < p[2]}, Nat)
  BY NatLessThanWellFounded DEF OpToRel
<1>2. PICK n \in B : \A m \in B : <<m, n>> \notin {p \in Nat \X Nat : p[1] < p[2]}
  BY <1>1, WFMin
<1>3. ASSUME NEW m \in B PROVE n <= m
  <2>1. m \in Nat /\ n \in Nat /\ ~(<<m, n>>[1] < <<m, n>>[2])
    BY <1>2
  <2> QED
    BY <2>1
<1> QED
  BY <1>3

(* f is what FlattenSeq iterates over the first n of the sequences ss.      *)
Flattens(f, ss, n) == f = [i \in 1 .. n |-> IF i = 1 THEN ss[i] ELSE f[i - 1] \o ss[i]]

(* Such a function exists, so that the one FlattenSeq chooses is one.       *)
LEMMA FlattenExists ==
    ASSUME NEW ss, NEW n \in Nat PROVE \E f : Flattens(f, ss, n)
<1> DEFINE B == {k \in Nat : ~\E f : Flattens(f, ss, k)}
<1>1. ASSUME B # {} PROVE FALSE
  <2>1. PICK k \in B : \A m \in B : k <= m
    BY <1>1, LeastOf
  <2>2. k # 0
    <3>1. Flattens([i \in 1 .. 0 |-> 0], ss, 0)
      BY DEF Flattens
    <3> QED
      BY <3>1
  <2>3. k \in Nat /\ k - 1 \in Nat /\ k - 1 \notin B
    BY <2>1, <2>2
  <2>4. PICK f : Flattens(f, ss, k - 1)
    BY <2>3
  <2> DEFINE g == [i \in 1 .. k |-> IF i = k THEN (IF i = 1 THEN ss[i] ELSE f[i - 1] \o ss[i]) ELSE f[i]]
  <2>5. \A i \in 1 .. k - 1 : f[i] = IF i = 1 THEN ss[i] ELSE f[i - 1] \o ss[i]
    BY <2>3, <2>4 DEF Flattens
  <2>6. \A i \in 1 .. k - 1 : g[i] = f[i]
    BY <2>3
  <2>7. ASSUME NEW i \in 1 .. k PROVE g[i] = IF i = 1 THEN ss[i] ELSE g[i - 1] \o ss[i]
    <3>1. CASE i = k /\ i # 1
      <4>1. i - 1 \in 1 .. k - 1
        BY <2>3, <3>1
      <4> QED
        BY <2>6, <3>1, <4>1
    <3>2. CASE i = k /\ i = 1
      BY <3>2
    <3>3. CASE i # k
      <4>1. i \in 1 .. k - 1 /\ (i # 1 => i - 1 \in 1 .. k - 1)
        BY <2>3, <3>3
      <4> QED
        BY <2>5, <2>6, <4>1
    <3> QED
      BY <3>1, <3>2, <3>3
  <2>8. g = [i \in 1 .. k |-> IF i = 1 THEN ss[i] ELSE g[i - 1] \o ss[i]]
    <3> HIDE DEF g
    <3> QED
      BY <2>7 DEF g
  <2> QED
    BY <2>1, <2>8 DEF Flattens
<1> QED
  BY <1>1

(* Sequences of elements of S, put end to end, are one.                     *)
LEMMA FlattenType ==
    ASSUME NEW S, NEW ss \in Seq(Seq(S)) PROVE FlattenSeq(ss) \in Seq(S)
<1>1. Len(ss) \in Nat /\ \A i \in 1 .. Len(ss) : ss[i] \in Seq(S)
  BY LenProperties, ElementOfSeq
<1>2. CASE Len(ss) = 0
  BY <1>1, <1>2, EmptySeq DEF FlattenSeq
<1>3. CASE Len(ss) # 0
  <2> DEFINE f == CHOOSE f : Flattens(f, ss, Len(ss))
             B == {k \in Nat : k \in 1 .. Len(ss) /\ f[k] \notin Seq(S)}
  <2>1. Flattens(f, ss, Len(ss))
    BY <1>1, FlattenExists
  <2>2. \A i \in 1 .. Len(ss) : f[i] = IF i = 1 THEN ss[i] ELSE f[i - 1] \o ss[i]
    <3> HIDE DEF f
    <3> QED
      BY <2>1 DEF Flattens
  <2>3. FlattenSeq(ss) = f[Len(ss)]
    BY <1>3 DEF FlattenSeq, Flattens
  <2> HIDE DEF f
  <2>4. ASSUME B # {} PROVE FALSE
    <3>1. PICK k \in B : \A m \in B : k <= m
      BY <2>4, LeastOf
    <3>2. k # 1 /\ k \in 1 .. Len(ss)
      BY <1>1, <2>2, <3>1
    <3>3. k - 1 \in 1 .. Len(ss) /\ k - 1 \notin B
      BY <1>1, <3>1, <3>2
    <3>4. f[k - 1] \in Seq(S) /\ ss[k] \in Seq(S)
      BY <1>1, <3>2, <3>3
    <3>5. f[k - 1] \o ss[k] \in Seq(S)
      BY <3>4, ConcatProperties
    <3> QED
      BY <2>2, <3>1, <3>2, <3>5
  <2> QED
    BY <1>1, <1>3, <2>3, <2>4
<1> QED
  BY <1>2, <1>3

-----------------------------------------------------------------------------
(* The steps of the script, and the calls of every request.                 *)
LEMMA NameTypes ==
    /\ \A e \in Entities : EntityRow(e) \in EntityNames
    /\ \A a \in Accounts : AccountRow(a) \in AccountNames
    /\ \A d \in Dates : PeriodRow(d) \in PeriodNames
    /\ \A k \in TxnKeys : TxnRow(k) \in TxnNames /\ ReceivableRow(k) \in ReceivableNames
  BY DEF EntityNames, AccountNames, PeriodNames, TxnNames, ReceivableNames

LEMMA ProvideTypes ==
    ASSUME NEW e, NEW S, NEW list \in Seq(S), OnChart(e, list)
    PROVE  /\ EnsureAccounts(e, list) \in Seq(Provides)
           /\ DOMAIN EnsureAccounts(e, list) = DOMAIN list
           /\ Len(EnsureAccounts(e, list)) = Len(list)
           /\ \A i \in DOMAIN list : EnsureAccounts(e, list)[i].row = AccountRow(<<e, list[i][1]>>)
<1>1. Len(list) \in Nat /\ DOMAIN list = 1 .. Len(list)
  BY LenProperties
<1>2. \A i \in 1 .. Len(list) : Ensure(AccountRow(<<e, list[i][1]>>), NewAccount) \in Provides
  BY <1>1, NameTypes DEF OnChart, Ensure, Provides
<1>3. EnsureAccounts(e, list) = [i \in 1 .. Len(list) |-> Ensure(AccountRow(<<e, list[i][1]>>), NewAccount)]
  BY <1>1 DEF EnsureAccounts
<1>4. EnsureAccounts(e, list) \in Seq(Provides) /\ Len(EnsureAccounts(e, list)) = Len(list)
  <2>1. \A n \in Nat : \A g : g = [i \in 1 .. n |-> g[i]] /\ (\A i \in 1 .. n : g[i] \in Provides)
                         => g \in Seq(Provides) /\ Len(g) = n
    OBVIOUS
  <2> QED
    BY <1>1, <1>2, <1>3, <2>1
<1> QED
  BY <1>1, <1>3, <1>4 DEF Ensure

LEMMA ConcatType ==
    ASSUME NEW S, NEW x \in Seq(S), NEW y \in Seq(S) PROVE x \o y \in Seq(S)
  BY ConcatProperties

LEMMA SeedEntityType ==
    ASSUME NEW i \in 1 .. 6 PROVE SeedEntity(SeedEntities[i]) \in Seq(SeedSteps)
<1> DEFINE e == SeedEntities[i][1]
           list == GetTemplate(SeedEntities[i][2])
<1>1. e \in Entities /\ OnChart(e, list) /\ list \in Seq(Lines)
  <2>1. SeedEntities[i][2] \in {"MERCHANT", "CUSTOMER", "OPERATOR", "PLATFORM", "BAAS_CUSTOMER"}
    BY DEF SeedEntities
  <2>2. i \in DOMAIN SeedEntities
    BY DEF SeedEntities
  <2> QED
    BY <2>1, <2>2, TemplateType, SeedNamed, SeedAssumption
<1>2. EnsureAccounts(e, list) \in Seq(SeedSteps)
  BY <1>1, ProvideTypes, SeqMonotonic DEF SeedSteps, Ensures
<1>3. Ensure(EntityRow(e), NewEntity) \in SeedSteps /\ Require(EntityRow(e)) \in SeedSteps
  BY <1>1, NameTypes DEF Ensure, Require, SeedSteps, Ensures, Requires
<1>4. <<Ensure(EntityRow(e), NewEntity), Require(EntityRow(e))>> \in Seq(SeedSteps)
  BY <1>3
<1> QED
  BY <1>2, <1>4, ConcatType DEF SeedEntity

LEMMA FunctionType ==
    ASSUME NEW S, NEW n \in Nat, NEW g, g = [i \in 1 .. n |-> g[i]], \A i \in 1 .. n : g[i] \in S
    PROVE  g \in Seq(S)
  OBVIOUS

LEMMA ClearingType ==
    ASSUME NEW i \in 1 .. 3
    PROVE  <<Require(EntityRow(ClearingEntities[i]))>>
             \o EnsureAccounts(ClearingEntities[i], ClearingAccounts) \in Seq(SeedSteps)
<1> DEFINE e == ClearingEntities[i]
<1>1. e \in Entities /\ OnChart(e, ClearingAccounts)
  <2>1. i \in DOMAIN ClearingEntities
    BY DEF ClearingEntities
  <2> QED
    BY <2>1, SeedNamed, SeedAssumption
<1>2. EnsureAccounts(e, ClearingAccounts) \in Seq(SeedSteps)
  BY <1>1, ListTypes, ProvideTypes, SeqMonotonic DEF SeedSteps, Ensures
<1>3. Require(EntityRow(e)) \in SeedSteps
  BY <1>1, NameTypes DEF Require, SeedSteps, Requires
<1>4. <<Require(EntityRow(e))>> \in Seq(SeedSteps)
  BY <1>3
<1> QED
  BY <1>2, <1>4, ConcatType

LEMMA PostType == ASSUME NEW t \in CatalogTxn PROVE PostCall(t) \in SeedSteps
  BY DEF PostCall, SeedSteps, Posts

(* After its first look, the script only makes sure of rows, posts and      *)
(* resolves.                                                                *)
Guarded(calls) ==
    /\ calls \in Seq(SeedSteps \cup {[do |-> "guard"]}) /\ Len(calls) >= 1
    /\ calls[1] = [do |-> "guard"] /\ \A i \in 2 .. Len(calls) : calls[i] \in SeedSteps

LEMMA GuardedConcat ==
    ASSUME NEW x, Guarded(x), NEW y \in Seq(SeedSteps) PROVE Guarded(x \o y)
<1>1. y \in Seq(SeedSteps \cup {[do |-> "guard"]}) /\ x \in Seq(SeedSteps \cup {[do |-> "guard"]})
  BY SeqMonotonic DEF Guarded
<1>2. /\ x \o y \in Seq(SeedSteps \cup {[do |-> "guard"]})
      /\ Len(x \o y) = Len(x) + Len(y)
      /\ \A i \in 1 .. Len(x) + Len(y) : (x \o y)[i] = IF i <= Len(x) THEN x[i] ELSE y[i - Len(x)]
  BY <1>1, ConcatProperties
<1>3. Len(x) \in Nat /\ Len(y) \in Nat /\ Len(x) >= 1 /\ x[1] = [do |-> "guard"]
      /\ \A i \in 2 .. Len(x) : x[i] \in SeedSteps
  BY LenProperties DEF Guarded
<1>4. \A i \in 1 .. Len(y) : y[i] \in SeedSteps
  BY ElementOfSeq
<1>5. ASSUME NEW i \in 2 .. Len(x) + Len(y) PROVE (x \o y)[i] \in SeedSteps
  <2>1. CASE i <= Len(x)
    BY <1>2, <1>3, <2>1
  <2>2. CASE i > Len(x)
    <3>1. i - Len(x) \in 1 .. Len(y) /\ i \in 1 .. Len(x) + Len(y) /\ ~(i <= Len(x))
      BY <1>3, <2>2
    <3> QED
      BY <1>2, <1>4, <3>1
  <2> QED
    BY <1>3, <2>1, <2>2
<1> QED
  BY <1>2, <1>3, <1>5 DEF Guarded

LEMMA SeedCallsType == Guarded(SeedCalls)
<1> DEFINE periods == [i \in DOMAIN PeriodDates |-> Ensure(PeriodRow(PeriodDates[i]), [status |-> "OPEN"])]
           entities == [i \in DOMAIN SeedEntities |-> SeedEntity(SeedEntities[i])]
           clearings == [i \in DOMAIN ClearingEntities |->
                           <<Require(EntityRow(ClearingEntities[i]))>>
                           \o EnsureAccounts(ClearingEntities[i], ClearingAccounts)]
           sales == [i \in DOMAIN Sales |-> <<PostCall(SaleTxn(Sales[i])), PostCall(PlatformTxn(Sales[i]))>>]
           resolved == <<PostCall(Anticipation), PostCall(Settlement),
                         Resolve(SeedKey(AnticipatedSale.key), "SETTLED"),
                         PostCall(Reversal), Resolve(SeedKey(ReversedSale.key), "CANCELLED")>>
           cash == [i \in DOMAIN CashTxns |-> PostCall(CashTxns[i])]
           transfer == <<PostCall(SenderTxn(SCRIPT, SeedTransfer)), PostCall(ReceiverTxn(SCRIPT, SeedTransfer)),
                         Ensure(SnapshotRow, [balance |-> 0])>>
<1>1. /\ DOMAIN PeriodDates = 1 .. 2 /\ DOMAIN SeedEntities = 1 .. 6
      /\ DOMAIN ClearingEntities = 1 .. 3 /\ DOMAIN Sales = 1 .. 4
  BY DEF PeriodDates, SeedEntities, ClearingEntities, Sales
<1>2. periods \in Seq(SeedSteps)
  <2>1. ASSUME NEW i \in 1 .. 2
        PROVE  Ensure(PeriodRow(PeriodDates[i]), [status |-> "OPEN"]) \in SeedSteps
    <3>1. PeriodDates[i] \in Dates
      BY SeedAssumption DEF PeriodDates, SeedDates
    <3> QED
      BY <3>1, NameTypes DEF Ensure, SeedSteps, Ensures
  <2> QED
    BY <1>1, <2>1, FunctionType
<1>3. entities \in Seq(Seq(SeedSteps))
  BY <1>1, SeedEntityType, FunctionType
<1>4. clearings \in Seq(Seq(SeedSteps))
  BY <1>1, ClearingType, FunctionType
<1>5. sales \in Seq(Seq(SeedSteps))
  <2>1. ASSUME NEW i \in 1 .. 4
        PROVE  <<PostCall(SaleTxn(Sales[i])), PostCall(PlatformTxn(Sales[i]))>> \in Seq(SeedSteps)
    BY SaleTypes, PostType
  <2> QED
    BY <1>1, <2>1, FunctionType
<1>6. resolved \in Seq(SeedSteps)
  <2>1. /\ Resolve(SeedKey(AnticipatedSale.key), "SETTLED") \in SeedSteps
        /\ Resolve(SeedKey(ReversedSale.key), "CANCELLED") \in SeedSteps
    BY SeedKeyTypes, NameTypes DEF Resolve, AnticipatedSale, ReversedSale, SeedSteps, Resolves
  <2>2. \A a, b, c, d, e \in SeedSteps : <<a, b, c, d, e>> \in Seq(SeedSteps)
    OBVIOUS
  <2> QED
    BY <2>1, <2>2, SeedTxnTypes, PostType
<1>7. cash \in Seq(SeedSteps)
  <2>1. DOMAIN CashTxns = 1 .. Len(CashTxns) /\ Len(CashTxns) \in Nat
    BY SeedTxnTypes, LenProperties
  <2>2. \A i \in 1 .. Len(CashTxns) : PostCall(CashTxns[i]) \in SeedSteps
    BY SeedTxnTypes, ElementOfSeq, PostType
  <2> QED
    BY <2>1, <2>2, FunctionType
<1>8. transfer \in Seq(SeedSteps)
  <2>1. Ensure(SnapshotRow, [balance |-> 0]) \in SeedSteps
    BY DEF Ensure, SeedSteps, Ensures
  <2>2. \A a, b, c \in SeedSteps : <<a, b, c>> \in Seq(SeedSteps)
    OBVIOUS
  <2> QED
    BY <2>1, <2>2, SeedTxnTypes, PostType
<1>9. /\ FlattenSeq(entities) \in Seq(SeedSteps) /\ FlattenSeq(clearings) \in Seq(SeedSteps)
      /\ FlattenSeq(sales) \in Seq(SeedSteps)
  BY <1>3, <1>4, <1>5, FlattenType
<1>10. SeedCalls = <<[do |-> "guard"]>> \o periods \o FlattenSeq(entities) \o FlattenSeq(clearings)
                   \o FlattenSeq(sales) \o resolved \o cash \o transfer
  BY DEF SeedCalls
<1> HIDE DEF periods, entities, clearings, sales, resolved, cash, transfer
<1>11. Guarded(<<[do |-> "guard"]>>)
  BY DEF Guarded
<1> QED
  BY <1>2, <1>6, <1>7, <1>8, <1>9, <1>10, <1>11, GuardedConcat

(* What may be the call of request r in place i.                            *)
CallOf(r, i, c) ==
    \/ c \in Requires
    \/ c.do = "guard" /\ r.op = "seed" /\ i = 1
    \/ c.do = "refuse" /\ r.op = "provision" /\ r.list = None
    \/ c \in Provides /\ r.op \in {"provision", "seed"}
    \/ c \in Ensures /\ r.op = "seed"
    \/ c \in Inserts /\ r.op = "create" /\ c.row = EntityRow(r.entity)
    \/ /\ c.do = "update" /\ r.op = "update" /\ i = Len(CallsOf(r))
       /\ c.row = r.row /\ c.column = r.column /\ c.value = r.value
    \/ c \in Posts /\ r.op \in {"post", "seed"}
    \/ c \in Resolves /\ r.op = "seed"

Covered(r) ==
    (\A i \in 1 .. Len(CallsOf(r)) : CallsOf(r)[i].do # "refuse")
    => \A row \in RowsOf(r) : \E i \in 1 .. Len(CallsOf(r)) : row \in RowsOfCall(CallsOf(r)[i])

CallsKnown(r) ==
    /\ Len(CallsOf(r)) \in Nat
    /\ \A i \in 1 .. Len(CallsOf(r)) : CallOf(r, i, CallsOf(r)[i])
    /\ Covered(r)
    /\ r.op = "update" => /\ Len(CallsOf(r)) >= 1 /\ CallsOf(r)[Len(CallsOf(r))].do = "update"

LEMMA PairConcat == ASSUME NEW a, NEW b PROVE <<a>> \o <<b>> = <<a, b>>
<1>1. <<a>> \in Seq({a, b}) /\ <<b>> \in Seq({a, b})
  OBVIOUS
<1>2. /\ Len(<<a>>) = 1 /\ Len(<<b>>) = 1 /\ <<a>>[1] = a /\ <<b>>[1] = b
  OBVIOUS
<1>3. /\ <<a>> \o <<b>> \in Seq({a, b}) /\ Len(<<a>> \o <<b>>) = 2
      /\ (<<a>> \o <<b>>)[1] = a /\ (<<a>> \o <<b>>)[2] = b
  BY <1>1, <1>2, ConcatProperties
<1>4. /\ <<a, b>> \in Seq({a, b}) /\ Len(<<a, b>>) = 2
      /\ <<a, b>>[1] = a /\ <<a, b>>[2] = b
  OBVIOUS
<1>5. \A i \in 1 .. 2 : i = 1 \/ i = 2
  OBVIOUS
<1>6. \A i \in 1 .. Len(<<a>> \o <<b>>) : (<<a>> \o <<b>>)[i] = <<a, b>>[i]
  BY <1>3, <1>4, <1>5
<1> QED
  BY <1>3, <1>4, <1>6, SeqEqual

LEMMA CreateCalls ==
    ASSUME NEW r \in Requests, r.op = "create" PROVE CallsKnown(r)
<1>1. r.entity \in Entities /\ r.parent \in Entities \cup {None}
  BY CatalogAssumption DEF RequestTyped
<1> DEFINE insert == Insert(EntityRow(r.entity), NewEntity)
           require == Require(EntityRow(r.parent))
<1>2. insert \in Inserts /\ insert.row = EntityRow(r.entity) /\ RowsOfCall(insert) = {EntityRow(r.entity)}
  BY <1>1, NameTypes DEF Insert, Inserts, RowsOfCall
<1>3. RowsOf(r) = {EntityRow(r.entity)}
  BY DEF RowsOf
<1> HIDE DEF insert
<1>4. CASE r.parent = None
  <2>1. CallsOf(r) = <<>> \o <<insert>>
    BY <1>4 DEF CallsOf, insert
  <2>2. CallsOf(r) = <<insert>>
    BY <2>1
  <2>3. Len(CallsOf(r)) = 1 /\ CallsOf(r)[1] = insert
    BY <2>2
  <2> QED
    BY <1>2, <1>3, <2>3 DEF CallsKnown, CallOf, Covered
<1>5. CASE r.parent # None
  <2>0. require \in Requires
    BY <1>1, <1>5, NameTypes DEF Require, Requires
  <2> HIDE DEF require
  <2>1. CallsOf(r) = <<require>> \o <<insert>>
    BY <1>5 DEF CallsOf, insert, require
  <2>2. CallsOf(r) = <<require, insert>>
    BY <2>1, PairConcat
  <2>3. Len(CallsOf(r)) = 2 /\ CallsOf(r)[1] = require /\ CallsOf(r)[2] = insert
    BY <2>2
  <2>4. \A i \in 1 .. 2 : i = 1 \/ i = 2
    OBVIOUS
  <2>5. \A i \in 1 .. Len(CallsOf(r)) : CallOf(r, i, CallsOf(r)[i])
    BY <1>2, <2>0, <2>3, <2>4 DEF CallOf
  <2>6. Covered(r)
    BY <1>2, <1>3, <2>3 DEF Covered
  <2> QED
    BY <2>3, <2>5, <2>6 DEF CallsKnown
<1> QED
  BY <1>4, <1>5

LEMMA ProvisionCalls ==
    ASSUME NEW r \in Requests, r.op = "provision" PROVE CallsKnown(r)
<1>1. /\ r.entity \in Entities
      /\ r.list # None => r.list \in Seq(Codes \X AccountTypes) /\ OnChart(r.entity, r.list)
  BY CatalogAssumption DEF RequestTyped
<1> DEFINE require == Require(EntityRow(r.entity))
<1>2. require \in Requires
  BY <1>1, NameTypes DEF Require, Requires
<1> HIDE DEF require
<1>3. CASE r.list = None
  <2>1. CallsOf(r) = <<require>> \o <<[do |-> "refuse"]>>
    BY <1>3 DEF CallsOf, require
  <2>2. CallsOf(r) = <<require, [do |-> "refuse"]>>
    BY <2>1, PairConcat
  <2>3. Len(CallsOf(r)) = 2 /\ CallsOf(r)[1] = require /\ CallsOf(r)[2].do = "refuse"
    BY <2>2
  <2>4. \A i \in 1 .. 2 : i = 1 \/ i = 2
    OBVIOUS
  <2>5. \A i \in 1 .. Len(CallsOf(r)) : CallOf(r, i, CallsOf(r)[i])
    BY <1>2, <1>3, <2>3, <2>4 DEF CallOf
  <2> QED
    BY <2>3, <2>5 DEF CallsKnown, Covered
<1>4. CASE r.list # None
  <2> DEFINE calls == EnsureAccounts(r.entity, r.list)
  <2>1. CallsOf(r) = <<require>> \o calls
    BY <1>4 DEF CallsOf, require
  <2>2. /\ calls \in Seq(Provides) /\ Len(calls) = Len(r.list)
        /\ \A i \in DOMAIN r.list : calls[i].row = AccountRow(<<r.entity, r.list[i][1]>>)
        /\ DOMAIN r.list = 1 .. Len(r.list) /\ Len(r.list) \in Nat
    BY <1>1, <1>4, ProvideTypes, LenProperties
  <2> HIDE DEF calls
  <2>3. <<require>> \in Seq(Requires \cup Provides) /\ calls \in Seq(Requires \cup Provides)
        /\ Len(<<require>>) = 1 /\ <<require>>[1] = require
    BY <1>2, <2>2, SeqMonotonic
  <2>4. /\ Len(CallsOf(r)) = 1 + Len(r.list)
        /\ \A i \in 1 .. 1 + Len(r.list) :
              CallsOf(r)[i] = IF i <= 1 THEN <<require>>[i] ELSE calls[i - 1]
    BY <2>1, <2>2, <2>3, ConcatProperties
  <2>5. /\ CallsOf(r)[1] = require
        /\ \A i \in 1 .. Len(r.list) : CallsOf(r)[i + 1] = calls[i] /\ calls[i] \in Provides
    <3>1. CallsOf(r)[1] = require
      BY <2>2, <2>3, <2>4
    <3>2. ASSUME NEW i \in 1 .. Len(r.list) PROVE CallsOf(r)[i + 1] = calls[i]
      <4>1. i + 1 \in 1 .. 1 + Len(r.list) /\ ~(i + 1 <= 1) /\ (i + 1) - 1 = i
        BY <2>2
      <4> QED
        BY <2>4, <4>1
    <3>3. \A i \in 1 .. Len(r.list) : calls[i] \in Provides
      BY <2>2, ElementOfSeq
    <3> QED
      BY <3>1, <3>2, <3>3
  <2>6. \A i \in 1 .. Len(CallsOf(r)) : CallOf(r, i, CallsOf(r)[i])
    <3>1. ASSUME NEW i \in 1 .. Len(CallsOf(r)) PROVE CallsOf(r)[i] \in Requires \cup Provides
      <4>1. CASE i = 1
        BY <1>2, <2>5, <4>1
      <4>2. CASE i # 1
        <5>1. i - 1 \in 1 .. Len(r.list) /\ (i - 1) + 1 = i
          BY <2>2, <2>4, <4>2
        <5> QED
          BY <2>5, <5>1
      <4> QED
        BY <4>1, <4>2
    <3> QED
      BY <3>1 DEF CallOf
  <2>7. Covered(r)
    <3>1. ASSUME NEW row \in RowsOf(r)
          PROVE  \E i \in 1 .. Len(CallsOf(r)) : row \in RowsOfCall(CallsOf(r)[i])
      <4>1. PICK i \in DOMAIN r.list : row = AccountRow(<<r.entity, r.list[i][1]>>)
        BY <3>1 DEF RowsOf
      <4>2. i \in 1 .. Len(r.list) /\ i + 1 \in 1 .. Len(CallsOf(r))
        BY <2>2, <2>4
      <4>3. CallsOf(r)[i + 1].do = "ensure" /\ CallsOf(r)[i + 1].row = row
        BY <2>2, <2>5, <4>1, <4>2 DEF Provides
      <4> QED
        BY <4>2, <4>3 DEF RowsOfCall
    <3> QED
      BY <3>1 DEF Covered
  <2> QED
    BY <2>2, <2>4, <2>6, <2>7 DEF CallsKnown
<1> QED
  BY <1>3, <1>4

LEMMA UpdateCalls ==
    ASSUME NEW r \in Requests, r.op = "update" PROVE CallsKnown(r)
<1> DEFINE update == Update(r.row, r.column, r.value)
           require == Require(EntityRow(r.row[2]))
<1>1. /\ update.do = "update" /\ update.row = r.row /\ update.column = r.column /\ update.value = r.value
      /\ RowsOfCall(update) = {r.row} /\ RowsOf(r) = {r.row}
  BY DEF Update, RowsOfCall, RowsOf
<1> HIDE DEF update
<1>2. CASE r.row[1] = "account"
  <2>1. PICK a \in Accounts : r.row = AccountRow(a)
    <3>1. r.row \notin EntityNames
      BY <1>2 DEF EntityNames, EntityRow
    <3> QED
      BY <3>1, CatalogAssumption DEF RequestTyped, AccountNames
  <2>2. r.row[2] \in Entities
    BY <2>1, ChartAssumption DEF AccountRow
  <2>3. require \in Requires
    BY <2>2, NameTypes DEF Require, Requires
  <2> HIDE DEF require
  <2>4. CallsOf(r) = <<require, update>>
    BY <1>2 DEF CallsOf, require, update
  <2>5. Len(CallsOf(r)) = 2 /\ CallsOf(r)[1] = require /\ CallsOf(r)[2] = update
    BY <2>4
  <2>6. \A i \in 1 .. 2 : i = 1 \/ i = 2
    OBVIOUS
  <2>7. \A i \in 1 .. Len(CallsOf(r)) : CallOf(r, i, CallsOf(r)[i])
    BY <1>1, <2>3, <2>5, <2>6 DEF CallOf
  <2>8. Covered(r)
    BY <1>1, <2>5 DEF Covered
  <2> QED
    BY <1>1, <2>5, <2>7, <2>8 DEF CallsKnown
<1>3. CASE r.row[1] # "account"
  <2>1. CallsOf(r) = <<update>>
    BY <1>3 DEF CallsOf, update
  <2>2. Len(CallsOf(r)) = 1 /\ CallsOf(r)[1] = update
    BY <2>1
  <2> QED
    BY <1>1, <2>2 DEF CallsKnown, CallOf, Covered
<1> QED
  BY <1>2, <1>3

LEMMA PostCalls ==
    ASSUME NEW r \in Requests, r.op = "post" PROVE CallsKnown(r)
<1> DEFINE t == TxnOf("client", r.posting)
<1>1. t \in CatalogTxn /\ t.key = r.posting.key
  BY CatalogAssumption, TxnOfType DEF RequestTyped
<1>2. CallsOf(r) = <<PostCall(t)>>
  BY DEF CallsOf
<1>3. RowsOf(r) = {TxnRow(r.posting.key)}
  BY DEF RowsOf
<1> HIDE DEF t
<1>4. PostCall(t) \in Posts /\ RowsOfCall(PostCall(t)) = {TxnRow(t.key)}
  BY <1>1 DEF PostCall, Posts, RowsOfCall
<1>5. Len(CallsOf(r)) = 1 /\ CallsOf(r)[1] = PostCall(t)
  BY <1>2
<1> QED
  BY <1>1, <1>3, <1>4, <1>5 DEF CallsKnown, CallOf, Covered

LEMMA SeedRequestCalls ==
    ASSUME NEW r \in Requests, r.op = "seed" PROVE CallsKnown(r)
<1>1. CallsOf(r) = SeedCalls /\ RowsOf(r) = SeedRowNames
  BY DEF CallsOf, RowsOf
<1>2. /\ Len(SeedCalls) \in Nat /\ DOMAIN SeedCalls = 1 .. Len(SeedCalls)
      /\ SeedCalls[1] = [do |-> "guard"] /\ \A i \in 2 .. Len(SeedCalls) : SeedCalls[i] \in SeedSteps
  BY SeedCallsType, LenProperties DEF Guarded
<1>3. \A i \in 1 .. Len(SeedCalls) : CallOf(r, i, SeedCalls[i])
  <2>1. ASSUME NEW i \in 2 .. Len(SeedCalls) PROVE CallOf(r, i, SeedCalls[i])
    BY <1>2 DEF CallOf, SeedSteps
  <2>2. CallOf(r, 1, SeedCalls[1])
    BY <1>2 DEF CallOf
  <2>3. \A i \in 1 .. Len(SeedCalls) : i = 1 \/ i \in 2 .. Len(SeedCalls)
    BY <1>2
  <2> QED
    BY <2>1, <2>2, <2>3
<1>4. Covered(r)
  BY <1>1, <1>2 DEF Covered, SeedRowNames
<1> QED
  BY <1>1, <1>2, <1>3, <1>4 DEF CallsKnown

(* What every request calls.                                                *)
LEMMA CallsType == ASSUME NEW r \in Requests PROVE CallsKnown(r)
  BY CreateCalls, ProvisionCalls, UpdateCalls, PostCalls, SeedRequestCalls, CatalogAssumption
  DEF RequestTyped

-----------------------------------------------------------------------------
(* What the types rest on.  What a session has written of its own: ...      *)
WriteTyped(s, row, column, value) ==
    \/ column = "balance" /\ row \in AccountNames /\ value \in Int
    \/ column = "status" /\ row \in ReceivableNames
    \/ /\ column \in {"name", "data", "enabled"} /\ request[s].op = "update"
       /\ column = request[s].column /\ row = request[s].row

WorkTyped(s) ==
    /\ Touched(s) \subseteq RowNames /\ IsFiniteSet(DOMAIN inserted[s])
    /\ \A row \in DOMAIN inserted[s] :
         RowTyped(row, inserted[s][row]) /\ inserted[s][row].by = s
    /\ \A row \in DOMAIN updated[s], column \in {"by", "name", "data", "enabled", "balance", "status", "txn"} :
         column \in DOMAIN updated[s][row] => WriteTyped(s, row, column, updated[s][row][column])

(* ... it stands beside what is committed, ...                              *)
WorkPlaced(s) ==
    /\ DOMAIN inserted[s] \cap DOMAIN rows = {}
    /\ DOMAIN updated[s] \subseteq Visible(s)
    /\ \A k \in TxnKeys : ReceivableRow(k) \in Visible(s) => TxnRow(k) \in Visible(s)
    /\ \A row \in TxnsIn(inserted[s]) : AccountRows(inserted[s][row].txn) \subseteq Touched(s)

(* ... a posting has read its accounts, and has no transaction of its key,  *)
(* ...                                                                      *)
ReadFor(s, t) ==
    /\ TxnRow(t.key) \notin DOMAIN inserted[s] /\ AccountRows(t) \subseteq Visible(s)
    /\ DOMAIN loaded[s] = AccountRows(t) /\ \A row \in AccountRows(t) : loaded[s][row] \in Int

(* ... and where the session is tells how far its request has come.         *)
PlaceKnown(s) ==
    /\ pc[s] # "idle" => request[s] \in Requests
    /\ s \notin Busy => made[s] = 0 /\ inserted[s] = EmptyFcn /\ updated[s] = EmptyFcn
    /\ s \in Busy => made[s] \in 0 .. Len(Calls(s))
    /\ pc[s] = "write" => ~AllMade(s) /\ Call(s).do \in {"ensure", "update", "post"}
    /\ pc[s] = "write" /\ Call(s).do = "ensure" => Call(s).row \notin Touched(s)
    /\ pc[s] = "write" /\ Call(s).do = "update" => Call(s).row \in Visible(s)
    /\ pc[s] = "write" /\ Call(s).do = "post" => ReadFor(s, Call(s).txn)
    /\ pc[s] = "commit" => AllMade(s)

Apart == \A s \in Sessions : \A u \in Sessions \ {s} : Touched(s) \cap Touched(u) = {}

StateTyped ==
    /\ pc \in [Sessions -> {"idle", "call", "write", "commit"} \cup Over]
    /\ request \in [Sessions -> Requests \cup {None}]
    /\ reply \in [Sessions -> {"none", "2xx", "404", "409", "422", "500", "abort", "complete",
                               "nothing"}]
    /\ made \in [Sessions -> Nat]
    /\ DOMAIN inserted = Sessions /\ DOMAIN updated = Sessions /\ DOMAIN loaded = Sessions

(* The inductive invariant of the types.                                    *)
ShapeInv ==
    /\ StateTyped /\ WellFormed(rows) /\ Apart
    /\ \A s \in Sessions : WorkTyped(s) /\ WorkPlaced(s) /\ PlaceKnown(s)

-----------------------------------------------------------------------------
(* The names of rows are apart.                                             *)
LEMMA NameTags ==
    /\ \A row \in EntityNames : row[1] = "entity"
    /\ \A row \in AccountNames : row[1] = "account"
    /\ \A row \in PeriodNames : row[1] = "period"
    /\ \A row \in TxnNames : row[1] = "transaction"
    /\ \A row \in ReceivableNames : row[1] = "receivable"
    /\ SnapshotRow[1] = "snapshot"
  BY DEF EntityNames, EntityRow, AccountNames, AccountRow, PeriodNames, PeriodRow, TxnNames,
         TxnRow, ReceivableNames, ReceivableRow, SnapshotRow

LEMMA NamesByTag ==
    ASSUME NEW row \in RowNames
    PROVE  /\ row \in EntityNames <=> row[1] = "entity"
           /\ row \in AccountNames <=> row[1] = "account"
           /\ row \in PeriodNames <=> row[1] = "period"
           /\ row \in TxnNames <=> row[1] = "transaction"
           /\ row \in ReceivableNames <=> row[1] = "receivable"
           /\ row = SnapshotRow <=> row[1] = "snapshot"
  BY NameTags DEF RowNames

LEMMA NamesDiffer ==
    /\ \A k, l : (TxnRow(k) = TxnRow(l) => k = l) /\ (ReceivableRow(k) = ReceivableRow(l) => k = l)
    /\ \A k, l : TxnRow(k) # ReceivableRow(l)
    /\ \A a, b \in Accounts : AccountRow(a) = AccountRow(b) => a = b
    /\ \A a, k : AccountRow(a) # TxnRow(k) /\ AccountRow(a) # ReceivableRow(k)
<1>1. \A a, b \in Entities \X Codes : AccountRow(a) = AccountRow(b) => a = b
  BY DEF AccountRow
<1>2. Accounts \subseteq Entities \X Codes
  BY ChartAssumption
<1>3. \A a, k : AccountRow(a)[1] = "account" /\ TxnRow(k)[1] = "transaction"
                /\ ReceivableRow(k)[1] = "receivable" /\ TxnRow(k)[2] = k /\ ReceivableRow(k)[2] = k
  BY DEF AccountRow, TxnRow, ReceivableRow
<1> QED
  BY <1>1, <1>2, <1>3

(* What a session reads of a row.                                           *)
Base(s, row) == IF row \in DOMAIN inserted[s] THEN inserted[s][row] ELSE rows[row]

LEMMA MergeValues ==
    ASSUME NEW f, NEW g
    PROVE  /\ DOMAIN Merge(f, g) = DOMAIN f \cup DOMAIN g
           /\ \A x \in DOMAIN f : Merge(f, g)[x] = f[x]
           /\ \A x \in DOMAIN g \ DOMAIN f : Merge(f, g)[x] = g[x]
  BY DEF Merge

LEMMA EmptyValues == DOMAIN EmptyFcn = {}
  BY DEF EmptyFcn

LEMMA WrittenTyped ==
    ASSUME NEW s \in Sessions, WorkTyped(s), NEW row,
           NEW column \in {"by", "name", "data", "enabled", "balance", "status", "txn"},
           column \in DOMAIN Written(s, row)
    PROVE  WriteTyped(s, row, column, Written(s, row)[column])
  BY EmptyValues DEF Written, WorkTyped

LEMMA ColumnTypes ==
    ASSUME NEW row \in RowNames
    PROVE  /\ "by" \in Columns(row)
           /\ Columns(row) \subseteq {"by", "name", "data", "enabled", "balance", "status", "txn"}
           /\ row \in AccountNames => "balance" \in Columns(row)
           /\ row \in TxnNames => "txn" \in Columns(row)
           /\ row \in ReceivableNames \cup PeriodNames => "status" \in Columns(row)
<1>1. row[1] \in {"entity", "account", "period", "transaction", "receivable", "snapshot"}
  BY NameTags DEF RowNames
<1> QED
  BY <1>1, NamesByTag DEF Columns

LEMMA AttributesType ==
    ASSUME NEW s \in Sessions, WellFormed(rows), WorkTyped(s), NEW row \in Visible(s)
    PROVE  /\ row \in RowNames /\ RowTyped(row, Attributes(s, row)) /\ RowTyped(row, Base(s, row))
           /\ DOMAIN Attributes(s, row) = DOMAIN Written(s, row) \cup DOMAIN Base(s, row)
           /\ \A column \in DOMAIN Written(s, row) :
                Attributes(s, row)[column] = Written(s, row)[column]
           /\ \A column \in DOMAIN Base(s, row) \ DOMAIN Written(s, row) :
                Attributes(s, row)[column] = Base(s, row)[column]
           /\ Attributes(s, row).by = Base(s, row).by
           /\ row \in TxnNames => Attributes(s, row).txn = Base(s, row).txn
<1>1. row \in RowNames /\ RowTyped(row, Base(s, row))
  BY DEF Visible, WellFormed, WorkTyped, Touched, Base
<1>2. Attributes(s, row) = Merge(Written(s, row), Base(s, row))
  BY DEF Attributes, Base
<1>3. /\ DOMAIN Attributes(s, row) = DOMAIN Written(s, row) \cup DOMAIN Base(s, row)
      /\ \A column \in DOMAIN Written(s, row) :
           Attributes(s, row)[column] = Written(s, row)[column]
      /\ \A column \in DOMAIN Base(s, row) \ DOMAIN Written(s, row) :
           Attributes(s, row)[column] = Base(s, row)[column]
  <2>1. PICK f, g : f = Written(s, row) /\ g = Base(s, row)
    OBVIOUS
  <2>2. Attributes(s, row) = Merge(f, g)
    BY <1>2, <2>1
  <2>3. /\ DOMAIN Merge(f, g) = DOMAIN f \cup DOMAIN g
        /\ \A x \in DOMAIN f : Merge(f, g)[x] = f[x]
        /\ \A x \in DOMAIN g \ DOMAIN f : Merge(f, g)[x] = g[x]
    BY MergeValues
  <2> QED
    BY <2>1, <2>2, <2>3
<1>4. "by" \notin DOMAIN Written(s, row) /\ "txn" \notin DOMAIN Written(s, row)
  BY WrittenTyped DEF WriteTyped
<1>5. Attributes(s, row).by = Base(s, row).by
      /\ (row \in TxnNames => Attributes(s, row).txn = Base(s, row).txn)
  BY <1>1, <1>3, <1>4, ColumnTypes DEF RowTyped
<1>6. row \in AccountNames => Attributes(s, row).balance \in Int
  <2>1. "balance" \in DOMAIN Written(s, row) => Written(s, row).balance \in Int
    BY WrittenTyped DEF WriteTyped
  <2> QED
    BY <1>1, <1>3, <2>1, ColumnTypes DEF RowTyped
<1> QED
  BY <1>1, <1>3, <1>5, <1>6 DEF RowTyped

-----------------------------------------------------------------------------
(* What the steps have in common.  The other sessions stay as they are.     *)
OthersKeep(s) ==
    \A u \in Sessions \ {s} :
        /\ pc'[u] = pc[u] /\ request'[u] = request[u] /\ reply'[u] = reply[u] /\ made'[u] = made[u]
        /\ inserted'[u] = inserted[u] /\ updated'[u] = updated[u] /\ loaded'[u] = loaded[u]

LEMMA SessionMoves ==
    ASSUME StateTyped, NEW s \in Sessions, Begin(s) \/ Step(s) \/ Crash(s)
    PROVE  StateTyped' /\ OthersKeep(s)
<1> USE DEF StateTyped
<1>1. \A code \in {"none", "2xx", "404", "409", "422", "500", "abort", "complete", "nothing"},
         where \in Over : End(s, where, code) => StateTyped' /\ OthersKeep(s)
  BY DEF End, Goto, Release, Over, OthersKeep
<1>2. CASE Begin(s)
  BY <1>2 DEF Begin, Goto, work, OthersKeep
<1>3. NextCall(s) /\ UNCHANGED <<request, reply>> /\ DOMAIN inserted' = Sessions
      /\ DOMAIN updated' = Sessions /\ UNCHANGED loaded => StateTyped'
  BY DEF NextCall, Goto
<1>4. NextCall(s) => \A u \in Sessions \ {s} : pc'[u] = pc[u] /\ made'[u] = made[u]
  BY DEF NextCall, Goto
<1>5. \A code \in {"404", "409", "422", "500", "abort"} : Fail(s, code) => StateTyped' /\ OthersKeep(s)
  BY <1>1 DEF Fail, Over
<1>6. Uncaught(s) \in {"500", "abort"} /\ Refusal(s) \in {"422", "abort"}
  BY DEF Uncaught, Refusal
<1>7. CASE RequireRow(s)
  BY <1>3, <1>4, <1>5, <1>7 DEF RequireRow, OthersKeep
<1>8. CASE RefuseProvision(s)
  BY <1>5, <1>8 DEF RefuseProvision
<1>9. CASE CheckSeeded(s)
  BY <1>1, <1>3, <1>4, <1>9 DEF CheckSeeded, OthersKeep, Over
<1>10. CASE LookRow(s)
  <2>1. CASE NextCall(s)
    BY <1>3, <1>4, <1>10, <2>1 DEF LookRow, OthersKeep
  <2>2. CASE Goto(s, "write") /\ UNCHANGED made
    BY <1>10, <2>2 DEF LookRow, OthersKeep, Goto
  <2> QED
    BY <1>10, <2>1, <2>2 DEF LookRow
<1>11. CASE InsertRow(s)
  <2>1. (IF Call(s).do = "insert" THEN "409" ELSE Uncaught(s)) \in {"404", "409", "422", "500", "abort"}
    BY <1>6
  <2>2. CASE Taken(Call(s).row)
    BY <1>5, <1>11, <2>1, <2>2 DEF InsertRow
  <2>3. CASE ~Taken(Call(s).row)
    BY <1>3, <1>4, <1>11, <2>3 DEF InsertRow, OthersKeep
  <2> QED
    BY <2>2, <2>3
<1>12. CASE LoadRow(s)
  <2>1. CASE Call(s).row \notin Visible(s)
    BY <1>5, <1>12, <2>1 DEF LoadRow
  <2>2. CASE Call(s).row \in Visible(s)
    BY <1>12, <2>2 DEF LoadRow, OthersKeep, Goto
  <2> QED
    BY <2>1, <2>2
<1>13. CASE SaveRow(s)
  <2>1. DOMAIN updated' = Sessions /\ \A u \in Sessions \ {s} : updated'[u] = updated[u]
    BY <1>13 DEF SaveRow
  <2> QED
    BY <1>3, <1>4, <1>13, <2>1 DEF SaveRow, OthersKeep
<1>14. CASE ReplayPost(s)
  BY <1>3, <1>4, <1>14 DEF ReplayPost, OthersKeep
<1>15. CASE PostTxn(s)
  <2> DEFINE t == Call(s).txn
  <2>1. CASE t.expects /\ InferredGross(t) = 0
    BY <1>5, <1>6, <1>15, <2>1 DEF PostTxn
  <2>2. CASE ~(t.expects /\ InferredGross(t) = 0)
    <3>1. /\ DOMAIN inserted' = Sessions /\ DOMAIN updated' = Sessions /\ DOMAIN loaded' = Sessions
          /\ NextCall(s) /\ UNCHANGED <<rows, request, reply>>
          /\ \A u \in Sessions \ {s} : /\ inserted'[u] = inserted[u] /\ updated'[u] = updated[u]
                                       /\ loaded'[u] = loaded[u]
      BY <1>15, <2>2 DEF PostTxn
    <3> QED
      BY <1>4, <3>1 DEF NextCall, Goto, OthersKeep
  <2> QED
    BY <2>1, <2>2
<1>21. CASE ReadAccounts(s)
  <2>1. CASE ~Postable(s, Call(s).txn)
    BY <1>5, <1>6, <1>21, <2>1 DEF ReadAccounts
  <2>2. CASE Postable(s, Call(s).txn)
    BY <1>21, <2>2 DEF ReadAccounts, OthersKeep, Goto
  <2> QED
    BY <2>1, <2>2
<1>22. CASE LoseKey(s)
  BY <1>5, <1>6, <1>22 DEF LoseKey
<1>16. CASE ResolveReceivable(s)
  <2>1. CASE Call(s).row \notin Visible(s) \/ Attributes(s, Call(s).row).status # "PENDING"
    BY <1>5, <1>6, <1>16, <2>1 DEF ResolveReceivable
  <2>2. CASE ~(Call(s).row \notin Visible(s) \/ Attributes(s, Call(s).row).status # "PENDING")
    BY <1>3, <1>4, <1>16, <2>2 DEF ResolveReceivable, OthersKeep
  <2> QED
    BY <2>1, <2>2
<1>17. CASE Finish(s)
  BY <1>17 DEF Finish, Goto, work, OthersKeep
<1>18. CASE Commit(s)
  BY <1>1, <1>18 DEF Commit, Over
<1>19. CASE AbortDeadlocked(s)
  BY <1>5, <1>6, <1>19 DEF AbortDeadlocked
<1>20. CASE Crash(s)
  BY <1>1, <1>20 DEF Crash, Over
<1> QED
  BY <1>2, <1>7, <1>8, <1>9, <1>10, <1>11, <1>12, <1>13, <1>14, <1>15, <1>16, <1>17, <1>18,
     <1>19, <1>20, <1>21, <1>22 DEF Step

-----------------------------------------------------------------------------
(* What the calls of a request are, by what they do.                        *)
LEMMA CallsByKind ==
    ASSUME NEW r \in Requests, NEW i, NEW c, CallOf(r, i, c)
    PROVE  /\ c.do = "require" => c \in Requires
           /\ c.do = "ensure" => c \in Ensures /\ r.op \in {"provision", "seed"}
                                 /\ (c \notin Provides => r.op = "seed")
           /\ c.do = "insert" => c \in Inserts /\ r.op = "create" /\ c.row = EntityRow(r.entity)
           /\ c.do = "update" => /\ r.op = "update" /\ i = Len(CallsOf(r)) /\ c.row = r.row
                                 /\ c.column = r.column /\ c.value = r.value
           /\ c.do = "post" => c \in Posts /\ r.op \in {"post", "seed"}
           /\ c.do = "resolve" => c \in Resolves /\ r.op = "seed"
           /\ c.do = "guard" => r.op = "seed" /\ i = 1
<1>1. /\ \A x \in Requires : x.do = "require"
      /\ Provides \subseteq Ensures /\ \A x \in Ensures : x.do = "ensure"
      /\ \A x \in Inserts : x.do = "insert"
      /\ \A x \in Posts : x.do = "post"
      /\ \A x \in Resolves : x.do = "resolve"
  BY DEF Requires, Provides, Ensures, Inserts, Posts, Resolves
<1> QED
  BY <1>1 DEF CallOf

LEMMA CreatedTyped ==
    ASSUME NEW s, NEW c \in Ensures \cup Inserts
    PROVE  /\ c.row \in RowNames /\ c.row[1] # "transaction"
           /\ c.row \notin ReceivableNames
           /\ RowTyped(c.row, Merge([by |-> s], c.columns))
           /\ Merge([by |-> s], c.columns).by = s
           /\ c.row \in AccountNames => Merge([by |-> s], c.columns).balance = 0
<1> DEFINE new == Merge([by |-> s], c.columns)
<1>1. DOMAIN new = {"by"} \cup DOMAIN c.columns /\ new.by = s
      /\ \A x \in DOMAIN c.columns : x # "by" => new[x] = c.columns[x]
  BY DEF Merge
<1>2. PICK row : row = c.row
  OBVIOUS
<1> HIDE DEF new
<1>3. CASE row \in EntityNames /\ c.columns = NewEntity
  <2>1. row[1] = "entity" /\ row \in RowNames /\ row \notin AccountNames /\ row \notin TxnNames
        /\ row \notin ReceivableNames /\ Columns(row) = {"by", "name", "data"}
    BY <1>3, NameTags DEF Columns, RowNames
  <2>2. DOMAIN new = {"by", "name", "data"}
    BY <1>1, <1>3 DEF NewEntity
  <2> QED
    BY <1>1, <1>2, <2>1, <2>2 DEF RowTyped, new
<1>4. CASE row \in AccountNames /\ c.columns = NewAccount
  <2>1. row[1] = "account" /\ row \in RowNames /\ row \notin TxnNames
        /\ row \notin ReceivableNames /\ Columns(row) = {"by", "name", "enabled", "balance"}
    BY <1>4, NameTags DEF Columns, RowNames
  <2>2. DOMAIN new = {"by", "name", "enabled", "balance"} /\ new.balance = 0
    BY <1>1, <1>4 DEF NewAccount
  <2> QED
    BY <1>1, <1>2, <2>1, <2>2 DEF RowTyped, new
<1>5. CASE row \in PeriodNames /\ c.columns = [status |-> "OPEN"]
  <2>1. row[1] = "period" /\ row \in RowNames /\ row \notin AccountNames /\ row \notin TxnNames
        /\ row \notin ReceivableNames /\ Columns(row) = {"by", "status"}
    BY <1>5, NameTags DEF Columns, RowNames
  <2>2. DOMAIN new = {"by", "status"}
    BY <1>1, <1>5
  <2> QED
    BY <1>1, <1>2, <2>1, <2>2 DEF RowTyped, new
<1>6. CASE row = SnapshotRow /\ c.columns = [balance |-> 0]
  <2>1. row[1] = "snapshot" /\ row \in RowNames /\ row \notin AccountNames /\ row \notin TxnNames
        /\ row \notin ReceivableNames /\ Columns(row) = {"by", "balance"}
    BY <1>6, NameTags DEF Columns, RowNames
  <2>2. DOMAIN new = {"by", "balance"}
    BY <1>1, <1>6
  <2> QED
    BY <1>1, <1>2, <2>1, <2>2 DEF RowTyped, new
<1> QED
  BY <1>2, <1>3, <1>4, <1>5, <1>6 DEF Ensures, Provides, Inserts

LEMMA BookedTyped ==
    ASSUME NEW s, NEW t \in CatalogTxn, NEW row \in NewNames(t)
    PROVE  /\ row \in RowNames /\ RowTyped(row, NewRow(s, t, row)) /\ NewRow(s, t, row).by = s
           /\ row[1] = "transaction" => row = TxnRow(t.key) /\ NewRow(s, t, row).txn = t
<1>1. t.key \in TxnKeys
  BY DEF CatalogTxn
<1>2. row \in {TxnRow(t.key), ReceivableRow(t.key)}
  BY DEF NewNames
<1>3. CASE row = TxnRow(t.key)
  <2>1. row \in TxnNames
    BY <1>1, <1>3, NameTypes
  <2>2. NewRow(s, t, row) = [by |-> s, txn |-> t]
    BY <1>3 DEF NewRow
  <2> QED
    BY <1>3, <2>1, <2>2, NameTags DEF RowTyped, Columns, RowNames
<1>4. CASE row = ReceivableRow(t.key)
  <2>1. row \in ReceivableNames
    BY <1>1, <1>4, NameTypes
  <2>2. NewRow(s, t, row) = [by |-> s, status |-> "PENDING"]
    BY <1>4, NamesDiffer DEF NewRow
  <2> QED
    BY <2>1, <2>2, NameTags DEF RowTyped, Columns, RowNames
<1> QED
  BY <1>2, <1>3, <1>4

LEMMA CallKnown ==
    ASSUME StateTyped, NEW s \in Sessions, PlaceKnown(s), s \in Busy, ~AllMade(s)
    PROVE  /\ request[s] \in Requests /\ made[s] + 1 \in 1 .. Len(Calls(s)) /\ Len(Calls(s)) \in Nat
           /\ Call(s) = CallsOf(request[s])[made[s] + 1]
           /\ CallOf(request[s], made[s] + 1, Call(s))
<1>1. request[s] \in Requests /\ made[s] \in 0 .. Len(Calls(s)) /\ made[s] # Len(Calls(s))
  BY DEF PlaceKnown, Busy, AllMade
<1>2. CallsKnown(request[s])
  BY <1>1, CallsType
<1> QED
  BY <1>1, <1>2 DEF CallsKnown, Calls, Call

-----------------------------------------------------------------------------
(* A session's step ends its request, or adds some rows and columns to what *)
(* it has flushed, or commits.                                              *)
Ends(s) ==
    /\ pc'[s] \in Over /\ request'[s] = request[s] /\ made'[s] = 0
    /\ inserted'[s] = EmptyFcn /\ updated'[s] = EmptyFcn

ColumnNames == {"by", "name", "data", "enabled", "balance", "status", "txn"}

Grows(s, N, M) ==
    /\ rows' = rows /\ request'[s] = request[s]
    /\ N \subseteq RowNames /\ IsFiniteSet(N) /\ N \cap DOMAIN rows = {} /\ M \subseteq Visible(s)
    /\ \A u \in Sessions \ {s} : (N \cup M) \cap Touched(u) = {}
    /\ DOMAIN inserted'[s] = DOMAIN inserted[s] \cup N
    /\ DOMAIN updated'[s] = DOMAIN updated[s] \cup M
    /\ \A row \in DOMAIN inserted[s] \ N : inserted'[s][row] = inserted[s][row]
    /\ \A row \in N : RowTyped(row, inserted'[s][row]) /\ inserted'[s][row].by = s
    /\ \A row \in DOMAIN updated'[s], column \in ColumnNames :
         column \in DOMAIN updated'[s][row] => WriteTyped(s, row, column, updated'[s][row][column])
    /\ \A k \in TxnKeys : ReceivableRow(k) \in N => TxnRow(k) \in N
    /\ \A row \in N : row[1] = "transaction" => AccountRows(inserted'[s][row].txn) \subseteq M

(* Nothing is added.                                                        *)
LEMMA GrowsByNothing ==
    ASSUME NEW s \in Sessions, WorkTyped(s), rows' = rows, request'[s] = request[s],
           inserted'[s] = inserted[s], updated'[s] = updated[s]
    PROVE  Grows(s, {}, {})
  BY FS_EmptySet DEF Grows, WorkTyped, ColumnNames

LEMMA NextPlace ==
    ASSUME StateTyped, NEW s \in Sessions, PlaceKnown(s), s \in Busy, ~AllMade(s),
           NextCall(s), request'[s] = request[s]
    PROVE  PlaceKnown(s)'
<1>1. made'[s] = made[s] + 1 /\ pc'[s] = "call"
  BY DEF NextCall, Goto, StateTyped
<1>2. made'[s] \in 0 .. Len(Calls(s)) /\ request[s] \in Requests
  BY <1>1, CallKnown
<1>3. Calls(s)' = Calls(s)
  BY DEF Calls
<1> QED
  BY <1>1, <1>2, <1>3 DEF PlaceKnown, Busy

LEMMA FailEnds ==
    ASSUME StateTyped, NEW s \in Sessions, NEW code, Fail(s, code) PROVE Ends(s) /\ rows' = rows
  BY DEF StateTyped, Fail, End, Goto, Release, Ends, Over

(* A row is inserted, ...                                                   *)
LEMMA InsertGrows ==
    ASSUME ShapeInv, NEW s \in Sessions, InsertRow(s), ~Taken(Call(s).row)
    PROVE  /\ Grows(s, {Call(s).row}, {}) /\ PlaceKnown(s)' /\ NextCall(s)
           /\ Call(s) \in Ensures \cup Inserts
           /\ inserted'[s][Call(s).row] = Merge([by |-> s], Call(s).columns)
           /\ updated'[s] = updated[s]
<1> DEFINE row == Call(s).row
<1>1. /\ s \in Busy /\ ~AllMade(s) /\ Call(s).do \in {"ensure", "insert"}
      /\ Call(s).do = "ensure" => pc[s] = "write"
  BY DEF InsertRow, At, Busy
<1>2. StateTyped /\ PlaceKnown(s) /\ WorkTyped(s) /\ WorkPlaced(s)
  BY DEF ShapeInv
<1>3. Call(s) \in Ensures \cup Inserts
  BY <1>1, <1>2, CallKnown, CallsByKind
<1>4. Holders(s, {row}) = {}
  BY DEF InsertRow
<1>5. /\ rows' = rows /\ request' = request /\ updated' = updated /\ NextCall(s)
      /\ inserted' = [inserted EXCEPT ![s] = Filled(@, {row}, LAMBDA x : Merge([by |-> s], Call(s).columns))]
  BY DEF InsertRow
<1>6. /\ DOMAIN inserted'[s] = DOMAIN inserted[s] \cup {row}
      /\ inserted'[s][row] = Merge([by |-> s], Call(s).columns)
      /\ \A x \in DOMAIN inserted[s] \ {row} : inserted'[s][x] = inserted[s][x]
  BY <1>2, <1>5 DEF StateTyped, Filled
<1>7. /\ row \in RowNames /\ row[1] # "transaction" /\ row \notin ReceivableNames
      /\ RowTyped(row, Merge([by |-> s], Call(s).columns))
      /\ Merge([by |-> s], Call(s).columns).by = s
  BY <1>3, CreatedTyped
<1>8. \A k \in TxnKeys : ReceivableRow(k) # row
  BY <1>7, NameTypes
<1>9. row \notin DOMAIN rows
  BY DEF Taken
<1>10. \A u \in Sessions \ {s} : ({row} \cup {}) \cap Touched(u) = {}
  BY <1>4 DEF Holders
<1>11. \A x \in DOMAIN updated'[s], column \in ColumnNames :
         column \in DOMAIN updated'[s][x] => WriteTyped(s, x, column, updated'[s][x][column])
  BY <1>2, <1>5 DEF WorkTyped, ColumnNames
<1> HIDE DEF row
<1>12. Grows(s, {row}, {})
  BY <1>5, <1>6, <1>7, <1>8, <1>9, <1>10, <1>11, FS_Singleton DEF Grows
<1>13. PlaceKnown(s)'
  BY <1>1, <1>2, <1>5, NextPlace
<1> QED
  BY <1>3, <1>5, <1>6, <1>12, <1>13 DEF row

(* ... columns of a row are written, ...                                    *)
LEMMA WriteGrows ==
    ASSUME StateTyped, NEW s \in Sessions, WorkTyped(s), NEW M, M \subseteq Visible(s),
           Holders(s, M) = {}, NEW columns,
           \A row \in M, column \in ColumnNames :
             column \in DOMAIN columns[row] => WriteTyped(s, row, column, columns[row][column]),
           rows' = rows, request'[s] = request[s], inserted'[s] = inserted[s],
           updated'[s] = [row \in DOMAIN updated[s] \cup M |->
                            IF row \in M THEN Merge(columns[row], Written(s, row))
                            ELSE updated[s][row]]
    PROVE  Grows(s, {}, M)
<1>1. ASSUME NEW row \in DOMAIN updated'[s], NEW column \in ColumnNames,
             column \in DOMAIN updated'[s][row]
      PROVE  WriteTyped(s, row, column, updated'[s][row][column])
  <2>1. CASE row \in M
    <3>1. PICK f, g : f = columns[row] /\ g = Written(s, row)
      OBVIOUS
    <3>2. updated'[s][row] = Merge(f, g)
      BY <2>1, <3>1
    <3>. /\ DOMAIN Merge(f, g) = DOMAIN f \cup DOMAIN g
         /\ \A x \in DOMAIN f : Merge(f, g)[x] = f[x]
         /\ \A x \in DOMAIN g \ DOMAIN f : Merge(f, g)[x] = g[x]
      BY DEF Merge
    <3>3. CASE column \in DOMAIN f
      <4>1. updated'[s][row][column] = f[column]
        BY <3>2, <3>3
      <4> QED
        BY <2>1, <3>1, <3>3, <4>1
    <3>4. CASE column \notin DOMAIN f
      <4>1. column \in DOMAIN g /\ updated'[s][row][column] = g[column]
        BY <1>1, <3>2, <3>4
      <4> QED
        BY <3>1, <4>1, WrittenTyped DEF ColumnNames
    <3> QED
      BY <3>3, <3>4
  <2>2. CASE row \notin M
    <3>1. row \in DOMAIN updated[s] /\ updated'[s][row] = updated[s][row]
      BY <2>2
    <3> QED
      BY <1>1, <3>1 DEF WorkTyped, ColumnNames
  <2> QED
    BY <2>1, <2>2
<1>2. \A u \in Sessions \ {s} : ({} \cup M) \cap Touched(u) = {}
  BY DEF Holders
<1> QED
  BY <1>1, <1>2, FS_EmptySet DEF Grows

LEMMA UpdateRequest ==
    ASSUME NEW r \in Requests, r.op = "update"
    PROVE  r.row \in RowNames /\ r.column \in {"name", "data", "enabled"}
           /\ r.column \in Columns(r.row)
<1>1. \/ r.row \in EntityNames /\ r.column \in {"name", "data"}
      \/ r.row \in AccountNames /\ r.column \in {"name", "enabled"}
  BY CatalogAssumption DEF RequestTyped
<1> QED
  BY <1>1, NameTags DEF RowNames, Columns

LEMMA SaveGrows ==
    ASSUME ShapeInv, NEW s \in Sessions, SaveRow(s)
    PROVE  /\ PlaceKnown(s)' /\ NextCall(s) /\ inserted' = inserted
           /\ Call(s).row = request[s].row /\ Call(s).column = request[s].column
           /\ Call(s).value = request[s].value
           /\ request[s] \in Requests /\ request[s].op = "update"
           /\ made[s] + 1 = Len(Calls(s)) /\ Call(s).row \in Visible(s)
           /\ \/ Changed(s) = EmptyFcn /\ Grows(s, {}, {}) /\ updated' = updated
              \/ /\ Changed(s) # EmptyFcn /\ Grows(s, {}, {Call(s).row})
                 /\ updated'[s] =
                      [row \in DOMAIN updated[s] \cup {Call(s).row} |->
                         IF row \in {Call(s).row} THEN Merge(Changed(s), Written(s, row))
                         ELSE updated[s][row]]
<1>1. /\ s \in Busy /\ ~AllMade(s) /\ Call(s).do = "update" /\ pc[s] = "write"
      /\ NextCall(s) /\ rows' = rows /\ request' = request /\ inserted' = inserted
  BY DEF SaveRow, At, Busy
<1>2. StateTyped /\ PlaceKnown(s) /\ WorkTyped(s) /\ WorkPlaced(s)
  BY DEF ShapeInv
<1>3. /\ Call(s).row = request[s].row /\ Call(s).column = request[s].column
      /\ Call(s).value = request[s].value /\ request[s] \in Requests /\ request[s].op = "update"
      /\ made[s] + 1 = Len(Calls(s))
  BY <1>1, <1>2, CallKnown, CallsByKind DEF Calls
<1>4. Call(s).row \in Visible(s)
  BY <1>1, <1>2 DEF PlaceKnown
<1>5. PlaceKnown(s)'
  BY <1>1, <1>2, NextPlace
<1>6. CASE Changed(s) = EmptyFcn
  <2>1. updated' = updated
    BY <1>6 DEF SaveRow
  <2>2. Grows(s, {}, {})
    BY <1>1, <1>2, <2>1, GrowsByNothing
  <2> QED
    BY <1>1, <1>3, <1>4, <1>5, <1>6, <2>1, <2>2
<1>7. CASE Changed(s) # EmptyFcn
  <2> DEFINE M == {Call(s).row}
             columns == [row \in M |-> Changed(s)]
  <2>1. Holders(s, M) = {} /\ updated' = [updated EXCEPT ![s] = Writing(s, M, LAMBDA row : Changed(s))]
    BY <1>7 DEF SaveRow
  <2>2. updated'[s] = [row \in DOMAIN updated[s] \cup M |->
                         IF row \in M THEN Merge(Changed(s), Written(s, row)) ELSE updated[s][row]]
    BY <1>2, <2>1 DEF StateTyped, Writing, Filled
  <2>3. updated'[s] = [row \in DOMAIN updated[s] \cup M |->
                         IF row \in M THEN Merge(columns[row], Written(s, row)) ELSE updated[s][row]]
    BY <2>2
  <2>4. DOMAIN Changed(s) = {request[s].column}
    BY <1>3, <1>7 DEF Changed, Only
  <2>5. request[s].column \in {"name", "data", "enabled"}
    BY <1>3, UpdateRequest
  <2>6. \A row \in M, column \in ColumnNames :
          column \in DOMAIN columns[row] => WriteTyped(s, row, column, columns[row][column])
    BY <1>3, <2>4, <2>5 DEF WriteTyped
  <2> HIDE DEF M, columns
  <2>7. M \subseteq Visible(s)
    BY <1>4 DEF M
  <2>8. Grows(s, {}, M)
    BY <1>1, <1>2, <2>1, <2>3, <2>6, <2>7, WriteGrows
  <2> QED
    BY <1>1, <1>3, <1>4, <1>5, <1>7, <2>2, <2>8 DEF M
<1> QED
  BY <1>6, <1>7

LEMMA ResolveGrows ==
    ASSUME ShapeInv, NEW s \in Sessions, ResolveReceivable(s),
           Call(s).row \in Visible(s), Attributes(s, Call(s).row).status = "PENDING"
    PROVE  /\ Grows(s, {}, {Call(s).row}) /\ PlaceKnown(s)' /\ NextCall(s) /\ inserted' = inserted
           /\ Call(s).row \in ReceivableNames
           /\ updated'[s] =
                [row \in DOMAIN updated[s] \cup {Call(s).row} |->
                   IF row \in {Call(s).row} THEN Merge([status |-> Call(s).status], Written(s, row))
                   ELSE updated[s][row]]
<1>1. /\ s \in Busy /\ ~AllMade(s) /\ Call(s).do = "resolve"
      /\ NextCall(s) /\ rows' = rows /\ request' = request /\ inserted' = inserted
  BY DEF ResolveReceivable, At, Busy
<1>2. StateTyped /\ PlaceKnown(s) /\ WorkTyped(s) /\ WorkPlaced(s)
  BY DEF ShapeInv
<1>3. Call(s).row \in ReceivableNames
  BY <1>1, <1>2, CallKnown, CallsByKind DEF Resolves
<1>4. PlaceKnown(s)'
  BY <1>1, <1>2, NextPlace
<1> DEFINE M == {Call(s).row}
           columns == [row \in M |-> [status |-> Call(s).status]]
<1>5. /\ Holders(s, M) = {}
      /\ updated' = [updated EXCEPT ![s] = Writing(s, M, LAMBDA row : [status |-> Call(s).status])]
  BY DEF ResolveReceivable
<1>6. updated'[s] = [row \in DOMAIN updated[s] \cup M |->
                       IF row \in M THEN Merge([status |-> Call(s).status], Written(s, row))
                       ELSE updated[s][row]]
  BY <1>2, <1>5 DEF StateTyped, Writing, Filled
<1>7. updated'[s] = [row \in DOMAIN updated[s] \cup M |->
                       IF row \in M THEN Merge(columns[row], Written(s, row)) ELSE updated[s][row]]
  BY <1>6
<1>8. \A row \in M, column \in ColumnNames :
        column \in DOMAIN columns[row] => WriteTyped(s, row, column, columns[row][column])
  BY <1>3 DEF WriteTyped
<1> HIDE DEF M, columns
<1>9. Grows(s, {}, M)
  <2>1. M \subseteq Visible(s)
    BY DEF M
  <2> QED
    BY <1>1, <1>2, <1>5, <1>7, <1>8, <2>1, WriteGrows
<1> QED
  BY <1>1, <1>3, <1>4, <1>6, <1>9 DEF M

(* What a transaction adds to an account.                                   *)
LEMMA AmountType ==
    ASSUME NEW a \in Accounts, NEW e \in Entry PROVE Amount(a, e) \in Int
  BY DEF Amount, Delta, Entry

LEMMA EntryFacts ==
    ASSUME NEW t \in CatalogTxn
    PROVE  /\ t.entries \in Seq(Entry) /\ Len(t.entries) \in Nat
           /\ DOMAIN t.entries = 1 .. Len(t.entries)
           /\ IsFiniteSet(DOMAIN t.entries) /\ \A i \in DOMAIN t.entries : t.entries[i] \in Entry
<1>1. t.entries \in Seq(Entry)
  BY DEF CatalogTxn
<1>2. Len(t.entries) \in Nat /\ DOMAIN t.entries = 1 .. Len(t.entries)
  BY <1>1, LenProperties
<1>3. IsFiniteSet(1 .. Len(t.entries))
  BY <1>2, FS_Interval
<1> QED
  BY <1>1, <1>2, <1>3, ElementOfSeq

(* The sum of what a transaction books on an account.                       *)
AddedBy(t, a) ==
    SumFunctionOnSet([i \in EntriesOn(t, a) |-> Amount(a, t.entries[i])], EntriesOn(t, a))

LEMMA AddedType ==
    ASSUME NEW t \in CatalogTxn, NEW a \in Accounts
    PROVE  /\ Summable([i \in EntriesOn(t, a) |-> Amount(a, t.entries[i])], EntriesOn(t, a))
           /\ AddedBy(t, a) \in Int
<1> DEFINE f == [i \in EntriesOn(t, a) |-> Amount(a, t.entries[i])]
<1>1. IsFiniteSet(EntriesOn(t, a))
  BY EntryFacts, FS_Subset DEF EntriesOn
<1>2. \A i \in EntriesOn(t, a) : f[i] \in Int
  BY EntryFacts, AmountType DEF EntriesOn
<1>3. Summable(f, EntriesOn(t, a))
  BY <1>1, <1>2 DEF Summable
<1> HIDE DEF f
<1>4. SumFunctionOnSet(f, EntriesOn(t, a)) \in Int
  BY <1>3, SumType
<1> QED
  BY <1>3, <1>4 DEF f, AddedBy

(* A transaction whose accounts are rows that may be is one on the chart.   *)
LEMMA PostedAccounts ==
    ASSUME NEW t, AccountRows(t) \subseteq RowNames
    PROVE  /\ \A i \in DOMAIN t.entries : AccountAt(t, i) \in Accounts
           /\ \A row \in AccountRows(t) : \E a \in Accounts : row = AccountRow(a)
<1>1. ASSUME NEW i \in DOMAIN t.entries PROVE AccountAt(t, i) \in Accounts
  <2>1. AccountRow(AccountAt(t, i)) \in AccountNames
    <3>1. AccountRow(AccountAt(t, i)) \in RowNames /\ AccountRow(AccountAt(t, i))[1] = "account"
      BY DEF AccountRows, AccountRow
    <3> QED
      BY <3>1, NamesByTag
  <2>2. PICK a \in Accounts : AccountRow(AccountAt(t, i)) = AccountRow(a)
    BY <2>1 DEF AccountNames
  <2>3. a = <<a[1], a[2]>>
    BY ChartAssumption
  <2>4. AccountAt(t, i)[1] = a[1] /\ AccountAt(t, i)[2] = a[2]
    BY <2>2 DEF AccountRow
  <2>5. AccountAt(t, i) = <<AccountAt(t, i)[1], AccountAt(t, i)[2]>>
    BY DEF AccountAt
  <2> QED
    BY <2>3, <2>4, <2>5
<1> QED
  BY <1>1 DEF AccountRows

(* What a posting adds to a balance.                                        *)
LEMMA NetIs ==
    ASSUME NEW t \in CatalogTxn, AccountRows(t) \subseteq RowNames, NEW a \in Accounts
    PROVE  Net(t, AccountRow(a)) = AddedBy(t, a)
<1> DEFINE I == {i \in DOMAIN t.entries : AccountRow(AccountAt(t, i)) = AccountRow(a)}
<1>1. I = EntriesOn(t, a)
  BY PostedAccounts, NamesDiffer DEF EntriesOn
<1>2. \A i \in I : AccountAt(t, i) = a
  BY <1>1 DEF EntriesOn
<1>3. [i \in I |-> Amount(AccountAt(t, i), t.entries[i])] = [i \in EntriesOn(t, a) |-> Amount(a, t.entries[i])]
  BY <1>1, <1>2
<1>4. Net(t, AccountRow(a)) = SumFunctionOnSet([i \in I |-> Amount(AccountAt(t, i), t.entries[i])], I)
  BY DEF Net
<1> HIDE DEF I
<1> QED
  BY <1>1, <1>3, <1>4 DEF AddedBy

(* ... and a transaction is posted.                                         *)
LEMMA PostGrows ==
    ASSUME ShapeInv, NEW s \in Sessions, PostTxn(s),
           ~(Call(s).txn.expects /\ InferredGross(Call(s).txn) = 0)
    PROVE  /\ Grows(s, NewNames(Call(s).txn), AccountRows(Call(s).txn)) /\ PlaceKnown(s)' /\ NextCall(s)
           /\ Call(s).txn \in CatalogTxn /\ AccountRows(Call(s).txn) \subseteq Visible(s)
           /\ ReadFor(s, Call(s).txn)
           /\ TxnRow(Call(s).txn.key) \notin Visible(s)
           /\ NewNames(Call(s).txn) \cap Visible(s) = {}
           /\ inserted'[s] = [row \in DOMAIN inserted[s] \cup NewNames(Call(s).txn) |->
                                IF row \in NewNames(Call(s).txn) THEN NewRow(s, Call(s).txn, row) ELSE inserted[s][row]]
           /\ updated'[s] = [row \in DOMAIN updated[s] \cup AccountRows(Call(s).txn) |->
                               IF row \in AccountRows(Call(s).txn)
                               THEN Merge(Moved(s, Call(s).txn, row), Written(s, row))
                               ELSE updated[s][row]]
<1> DEFINE t == Call(s).txn
           N == NewNames(t)
           M == AccountRows(t)
           columns == [row \in M |-> Moved(s, t, row)]
<1>1. /\ s \in Busy /\ ~AllMade(s) /\ pc[s] = "write" /\ Call(s).do = "post"
      /\ TxnRow(t.key) \notin DOMAIN rows
      /\ rows' = rows /\ request' = request /\ NextCall(s)
      /\ Holders(s, PostNames(t)) = {}
      /\ inserted' = [inserted EXCEPT ![s] = Filled(@, NewNames(t), LAMBDA row : NewRow(s, t, row))]
      /\ \E moved \in {columns} :
           updated' = [updated EXCEPT ![s] = Writing(s, DOMAIN moved, LAMBDA row : moved[row])]
  BY DEF PostTxn, At, Busy, Taken
<1>2. /\ StateTyped /\ PlaceKnown(s) /\ WorkTyped(s) /\ WorkPlaced(s) /\ WellFormed(rows)
      /\ \A u \in Sessions : WorkTyped(u) /\ WorkPlaced(u)
  BY DEF ShapeInv
<1>3. t \in CatalogTxn /\ t.key \in TxnKeys
  <2>1. Call(s) \in Posts
    BY <1>1, <1>2, CallKnown, CallsByKind
  <2>2. \A c \in Posts : c.txn \in CatalogTxn
    BY DEF Posts
  <2>3. \A x \in CatalogTxn : x.key \in TxnKeys
    BY DEF CatalogTxn
  <2> QED
    BY <2>1, <2>2, <2>3
<1>4. AccountRows(t) \subseteq Visible(s) /\ ReadFor(s, t)
  BY <1>1, <1>2 DEF PlaceKnown, ReadFor
<1>5. Visible(s) \subseteq RowNames
  BY <1>2 DEF Visible, WellFormed, WorkTyped, Touched
<1>6. TxnRow(t.key) \notin Visible(s) /\ ReceivableRow(t.key) \notin Visible(s)
  BY <1>1, <1>2, <1>3, <1>4 DEF ReadFor, Visible, WorkPlaced
<1>7. N \cap Visible(s) = {} /\ N \subseteq {TxnRow(t.key), ReceivableRow(t.key)} /\ TxnRow(t.key) \in N
  BY <1>6 DEF NewNames
<1>8. inserted'[s] = [row \in DOMAIN inserted[s] \cup NewNames(t) |->
                        IF row \in NewNames(t) THEN NewRow(s, t, row) ELSE inserted[s][row]]
  BY <1>1, <1>2 DEF StateTyped, Filled
<1>9. updated'[s] = [row \in DOMAIN updated[s] \cup AccountRows(t) |->
                       IF row \in AccountRows(t)
                       THEN Merge(Moved(s, t, row), Written(s, row)) ELSE updated[s][row]]
  <2> HIDE DEF columns
  <2>1. PICK moved \in {columns} :
          updated' = [updated EXCEPT ![s] = Writing(s, DOMAIN moved, LAMBDA row : moved[row])]
    BY <1>1
  <2>2. DOMAIN moved = M /\ \A row \in M : moved[row] = Moved(s, t, row)
    BY <2>1 DEF columns
  <2>3. updated'[s] = [row \in DOMAIN updated[s] \cup DOMAIN moved |->
                         IF row \in DOMAIN moved THEN Merge(moved[row], Written(s, row)) ELSE updated[s][row]]
    BY <1>2, <2>1 DEF StateTyped, Writing, Filled
  <2> QED
    BY <2>2, <2>3
<1> HIDE DEF t
<1>10. \A row \in M, column \in ColumnNames :
         column \in DOMAIN columns[row] => WriteTyped(s, row, column, columns[row][column])
  <2>1. ASSUME NEW row \in M
        PROVE  row \in AccountNames /\ NewBalance(s, t, row) \in Int
    <3>1. PICK a \in Accounts : row = AccountRow(a)
      BY <1>4, <1>5, PostedAccounts
    <3>2. NewBalance(s, t, row) = loaded[s][row] + AddedBy(t, a)
      BY <1>3, <1>4, <1>5, <3>1, NetIs DEF NewBalance
    <3>3. row \in AccountNames
      BY <3>1, NameTypes
    <3>4. loaded[s][row] \in Int /\ AddedBy(t, a) \in Int
      BY <1>3, <1>4, AddedType DEF ReadFor
    <3> QED
      BY <3>2, <3>3, <3>4
  <2>2. \A row : /\ DOMAIN Moved(s, t, row) \subseteq {"balance"}
                 /\ "balance" \in DOMAIN Moved(s, t, row) => Moved(s, t, row)["balance"] = NewBalance(s, t, row)
    BY EmptyValues DEF Moved, Only
  <2>3. \A row \in M : columns[row] = Moved(s, t, row)
    OBVIOUS
  <2> QED
    BY <2>1, <2>2, <2>3 DEF WriteTyped
<1>11. \A u \in Sessions \ {s} : (N \cup M) \cap Touched(u) = {}
  <2>1. ASSUME NEW u \in Sessions \ {s}
        PROVE  /\ TxnRow(t.key) \notin Touched(u) /\ M \cap Touched(u) = {}
               /\ ReceivableRow(t.key) \notin Touched(u)
    <3>1. TxnRow(t.key) \notin Touched(u) /\ M \cap Touched(u) = {}
      BY <1>1 DEF Holders, PostNames
    <3>2. Touched(u) \subseteq Visible(u)
      BY <1>2 DEF WorkPlaced, Touched, Visible
    <3>3. TxnRow(t.key) \notin Visible(u)
      BY <1>6, <3>1 DEF Visible, Touched
    <3>4. ReceivableRow(t.key) \notin Visible(u)
      BY <1>2, <1>3, <3>3 DEF WorkPlaced
    <3> QED
      BY <3>1, <3>2, <3>4
  <2> QED
    BY <1>7, <2>1
<1>12. /\ \A row \in N : row \in RowNames /\ RowTyped(row, NewRow(s, t, row)) /\ NewRow(s, t, row).by = s
       /\ \A row \in N : row[1] = "transaction" => row = TxnRow(t.key) /\ NewRow(s, t, row).txn = t
  BY <1>3, BookedTyped
<1>13. IsFiniteSet(N)
  <2>1. IsFiniteSet({TxnRow(t.key)} \cup {ReceivableRow(t.key)})
    BY FS_Singleton, FS_Union
  <2>2. N \subseteq {TxnRow(t.key)} \cup {ReceivableRow(t.key)}
    BY <1>7
  <2> QED
    BY <2>1, <2>2, FS_Subset
<1>14. \A k \in TxnKeys : ReceivableRow(k) \in N => TxnRow(k) \in N
  BY <1>7, NamesDiffer
<1>15. PlaceKnown(s)'
  BY <1>1, <1>2, NextPlace
<1>16. \A row \in DOMAIN updated'[s], column \in ColumnNames :
         column \in DOMAIN updated'[s][row] => WriteTyped(s, row, column, updated'[s][row][column])
  <2>1. updated'[s] = [row \in DOMAIN updated[s] \cup M |->
                         IF row \in M THEN Merge(columns[row], Written(s, row)) ELSE updated[s][row]]
    BY <1>9
  <2> HIDE DEF M, columns, N
  <2>2. ASSUME NEW row \in DOMAIN updated'[s], NEW column \in ColumnNames,
               column \in DOMAIN updated'[s][row]
        PROVE  WriteTyped(s, row, column, updated'[s][row][column])
    <3>1. CASE row \in M
      <4>1. updated'[s][row] = Merge(columns[row], Written(s, row))
        BY <2>1, <3>1
      <4>2. PICK f, g : f = columns[row] /\ g = Written(s, row)
        OBVIOUS
      <4>3. /\ DOMAIN Merge(f, g) = DOMAIN f \cup DOMAIN g
            /\ \A x \in DOMAIN f : Merge(f, g)[x] = f[x]
            /\ \A x \in DOMAIN g \ DOMAIN f : Merge(f, g)[x] = g[x]
        BY DEF Merge
      <4>4. column \in DOMAIN f => updated'[s][row][column] = f[column]
        BY <4>1, <4>2, <4>3
      <4>5. column \notin DOMAIN f => column \in DOMAIN g /\ updated'[s][row][column] = g[column]
        BY <2>2, <4>1, <4>2, <4>3
      <4> QED
        BY <1>2, <1>10, <3>1, <4>2, <4>4, <4>5, WrittenTyped DEF ColumnNames
    <3>2. CASE row \notin M
      <4>1. row \in DOMAIN updated[s] /\ updated'[s][row] = updated[s][row]
        BY <2>1, <3>2
      <4> QED
        BY <1>2, <2>2, <4>1 DEF WorkTyped, ColumnNames
    <3> QED
      BY <3>1, <3>2
  <2> QED
    BY <2>2
<1> HIDE DEF N, M, columns
<1>17. /\ \A row \in DOMAIN inserted[s] \ N : inserted'[s][row] = inserted[s][row]
       /\ \A row \in N : inserted'[s][row] = NewRow(s, t, row)
       /\ DOMAIN inserted'[s] = DOMAIN inserted[s] \cup N
       /\ DOMAIN updated'[s] = DOMAIN updated[s] \cup M
  BY <1>8, <1>9 DEF N, M
<1>18. Grows(s, N, M)
  <2>1. N \cap DOMAIN rows = {} /\ M \subseteq Visible(s)
    BY <1>4, <1>7 DEF Visible, M
  <2>2. \A row \in N : row[1] = "transaction" => AccountRows(inserted'[s][row].txn) \subseteq M
    BY <1>12, <1>17 DEF M
  <2>3. N \subseteq RowNames /\ \A row \in N : RowTyped(row, inserted'[s][row]) /\ inserted'[s][row].by = s
    BY <1>12, <1>17
  <2> QED
    BY <1>1, <1>11, <1>13, <1>14, <1>16, <1>17, <2>1, <2>2, <2>3 DEF Grows
<1> QED
  BY <1>1, <1>3, <1>4, <1>6, <1>7, <1>8, <1>9, <1>15, <1>18 DEF N, M, t

-----------------------------------------------------------------------------
(* Every step but a commit ends the request or grows what was flushed.      *)
Advances(s) == (\E N, M : Grows(s, N, M)) /\ PlaceKnown(s)'

LEMMA QuietStep ==
    ASSUME StateTyped, NEW s \in Sessions, WorkTyped(s), PlaceKnown(s), s \in Busy, ~AllMade(s),
           rows' = rows, request' = request, inserted' = inserted, updated' = updated,
           \/ NextCall(s)
           \/ /\ Goto(s, "write") /\ made' = made
              /\ \/ Call(s).do = "ensure" /\ Call(s).row \notin Visible(s)
                 \/ Call(s).do = "update" /\ Call(s).row \in Visible(s)
                 \/ Call(s).do = "post" /\ ReadFor(s, Call(s).txn)'
              /\ WorkPlaced(s)
    PROVE  Advances(s)
<1>1. Grows(s, {}, {})
  BY GrowsByNothing
<1>2. PlaceKnown(s)'
  <2>1. CASE NextCall(s)
    BY <2>1, NextPlace
  <2>2. CASE /\ Goto(s, "write") /\ made' = made
             /\ \/ Call(s).do = "ensure" /\ Call(s).row \notin Visible(s)
                \/ Call(s).do = "update" /\ Call(s).row \in Visible(s)
                \/ Call(s).do = "post" /\ ReadFor(s, Call(s).txn)'
             /\ WorkPlaced(s)
    <3>1. pc'[s] = "write" /\ Calls(s)' = Calls(s) /\ Call(s)' = Call(s) /\ AllMade(s)' = AllMade(s)
      BY <2>2 DEF Goto, StateTyped, Calls, Call, AllMade
    <3>2. Touched(s)' = Touched(s) /\ Visible(s)' = Visible(s) /\ Touched(s) \subseteq Visible(s)
      BY <2>2 DEF Touched, Visible, WorkPlaced
    <3>3. request[s] \in Requests /\ made[s] \in 0 .. Len(Calls(s))
      BY DEF PlaceKnown, Busy
    <3>4. s \in Busy'
      BY <3>1 DEF Busy
    <3> QED
      BY <2>2, <3>1, <3>2, <3>3, <3>4 DEF PlaceKnown
  <2> QED
    BY <2>1, <2>2
<1> QED
  BY <1>1, <1>2 DEF Advances

(* The accounts a posting reads are the ones it will write.                 *)
LEMMA ReadsWhatPosts ==
    ASSUME StateTyped, NEW s \in Sessions, WorkTyped(s), WorkPlaced(s), PlaceKnown(s), WellFormed(rows),
           ReadAccounts(s), Postable(s, Call(s).txn)
    PROVE  ReadFor(s, Call(s).txn)'
<1> DEFINE t == Call(s).txn
<1>1. /\ loaded' = [loaded EXCEPT ![s] = [row \in AccountRows(t) |-> Attributes(s, row).balance]]
      /\ rows' = rows /\ request' = request /\ inserted' = inserted /\ made' = made
      /\ ~Posted(s, t)
  BY DEF ReadAccounts
<1>2. loaded'[s] = [row \in AccountRows(t) |-> Attributes(s, row).balance]
  BY <1>1 DEF StateTyped
<1>3. Call(s)' = Call(s) /\ Visible(s)' = Visible(s) /\ AccountRows(t)' = AccountRows(t)
  BY <1>1 DEF Call, Calls, Visible
<1>4. AccountRows(t) \subseteq Visible(s)
  BY DEF Postable
<1>5. Visible(s) \subseteq RowNames
  BY DEF Visible, WellFormed, WorkTyped, Touched
<1>6. ASSUME NEW row \in AccountRows(t) PROVE Attributes(s, row).balance \in Int
  <2>1. row \in AccountNames
    BY <1>4, <1>5, PostedAccounts, NameTypes
  <2> QED
    BY <1>4, <2>1, AttributesType DEF RowTyped
<1>7. TxnRow(t.key) \notin DOMAIN inserted'[s]
  BY <1>1 DEF Posted, Visible
<1> QED
  BY <1>2, <1>3, <1>4, <1>6, <1>7 DEF ReadFor

LEMMA StepAdvances ==
    ASSUME ShapeInv, NEW s \in Sessions, Step(s) \/ Crash(s), ~Commit(s)
    PROVE  (Ends(s) /\ rows' = rows) \/ Advances(s)
<1>0. /\ StateTyped /\ PlaceKnown(s) /\ WorkTyped(s) /\ WorkPlaced(s) /\ WellFormed(rows)
  BY DEF ShapeInv
<1>1. \A where \in Over : \A code : End(s, where, code) => Ends(s)
  BY <1>0 DEF StateTyped, End, Goto, Release, Ends
<1>2. \A code : Fail(s, code) => Ends(s) /\ rows' = rows
  BY <1>0, FailEnds
<1>3. \A where, call : At(s, where, call) /\ where \in {"call", "write"} => s \in Busy /\ ~AllMade(s)
  BY DEF At, Busy
<1>4. CASE RequireRow(s)
  <2>1. CASE Call(s).row \notin Visible(s)
    BY <1>2, <1>4, <2>1 DEF RequireRow
  <2>2. CASE Call(s).row \in Visible(s)
    BY <1>0, <1>3, <1>4, <2>2, QuietStep DEF RequireRow
  <2> QED
    BY <2>1, <2>2
<1>5. CASE RefuseProvision(s)
  BY <1>2, <1>5 DEF RefuseProvision
<1>6. CASE CheckSeeded(s)
  <2>1. CASE SeedEntityRows \cap Visible(s) # {}
    BY <1>1, <1>6, <2>1 DEF CheckSeeded, Over
  <2>2. CASE ~(SeedEntityRows \cap Visible(s) # {})
    BY <1>0, <1>3, <1>6, <2>2, QuietStep DEF CheckSeeded
  <2> QED
    BY <2>1, <2>2
<1>7. CASE LookRow(s)
  <2>1. /\ s \in Busy /\ ~AllMade(s) /\ Call(s).do = "ensure"
        /\ rows' = rows /\ request' = request /\ inserted' = inserted /\ updated' = updated
    BY <1>3, <1>7 DEF LookRow, At
  <2>2. CASE Call(s).row \in Visible(s)
    BY <1>0, <1>7, <2>1, <2>2, QuietStep DEF LookRow
  <2>3. CASE Call(s).row \notin Visible(s)
    <3>1. Goto(s, "write") /\ made' = made
      BY <1>7, <2>3 DEF LookRow
    <3> QED
      BY <1>0, <2>1, <2>3, <3>1, QuietStep
  <2> QED
    BY <2>2, <2>3
<1>8. CASE InsertRow(s)
  <2>1. CASE Taken(Call(s).row)
    BY <1>2, <1>8, <2>1 DEF InsertRow
  <2>2. CASE ~Taken(Call(s).row)
    BY <1>8, <2>2, InsertGrows DEF Advances
  <2> QED
    BY <2>1, <2>2
<1>9. CASE LoadRow(s)
  <2>1. CASE Call(s).row \notin Visible(s)
    BY <1>2, <1>9, <2>1 DEF LoadRow
  <2>2. CASE Call(s).row \in Visible(s)
    <3>1. /\ s \in Busy /\ ~AllMade(s) /\ Call(s).do = "update" /\ Goto(s, "write") /\ made' = made
          /\ rows' = rows /\ request' = request /\ inserted' = inserted /\ updated' = updated
      BY <1>3, <1>9, <2>2 DEF LoadRow, At
    <3> QED
      BY <1>0, <2>2, <3>1, QuietStep
  <2> QED
    BY <2>1, <2>2
<1>10. CASE SaveRow(s)
  BY <1>10, SaveGrows DEF Advances
<1>11. CASE ReplayPost(s)
  BY <1>0, <1>3, <1>11, QuietStep DEF ReplayPost
<1>12. CASE PostTxn(s)
  <2>1. CASE Call(s).txn.expects /\ InferredGross(Call(s).txn) = 0
    BY <1>2, <1>12, <2>1 DEF PostTxn
  <2>2. CASE ~(Call(s).txn.expects /\ InferredGross(Call(s).txn) = 0)
    BY <1>12, <2>2, PostGrows DEF Advances
  <2> QED
    BY <2>1, <2>2
<1>17. CASE ReadAccounts(s)
  <2>1. CASE ~Postable(s, Call(s).txn)
    BY <1>2, <1>17, <2>1 DEF ReadAccounts
  <2>2. CASE Postable(s, Call(s).txn)
    <3>1. /\ s \in Busy /\ ~AllMade(s) /\ Call(s).do = "post" /\ Goto(s, "write") /\ made' = made
          /\ rows' = rows /\ request' = request /\ inserted' = inserted /\ updated' = updated
      BY <1>3, <1>17, <2>2 DEF ReadAccounts, At
    <3>2. ReadFor(s, Call(s).txn)'
      BY <1>0, <1>17, <2>2, <3>1, ReadsWhatPosts
    <3> QED
      BY <1>0, <3>1, <3>2, QuietStep
  <2> QED
    BY <2>1, <2>2
<1>18. CASE LoseKey(s)
  BY <1>2, <1>18 DEF LoseKey
<1>13. CASE ResolveReceivable(s)
  <2>1. CASE Call(s).row \notin Visible(s) \/ Attributes(s, Call(s).row).status # "PENDING"
    BY <1>2, <1>13, <2>1 DEF ResolveReceivable
  <2>2. CASE Call(s).row \in Visible(s) /\ Attributes(s, Call(s).row).status = "PENDING"
    BY <1>13, <2>2, ResolveGrows DEF Advances
  <2> QED
    BY <2>1, <2>2
<1>14. CASE Finish(s)
  <2>1. /\ pc[s] = "call" /\ AllMade(s) /\ pc'[s] = "commit"
        /\ rows' = rows /\ request' = request /\ made' = made /\ inserted' = inserted
        /\ updated' = updated
    BY <1>0, <1>14 DEF Finish, Goto, work, StateTyped
  <2>2. Grows(s, {}, {})
    BY <1>0, <2>1, GrowsByNothing
  <2>3. PlaceKnown(s)'
    BY <1>0, <2>1 DEF PlaceKnown, Busy, Calls, AllMade
  <2> QED
    BY <2>2, <2>3 DEF Advances
<1>15. CASE AbortDeadlocked(s)
  BY <1>2, <1>15 DEF AbortDeadlocked
<1>16. CASE Crash(s)
  BY <1>1, <1>16 DEF Crash, Over
<1> QED
  BY <1>4, <1>5, <1>6, <1>7, <1>8, <1>9, <1>10, <1>11, <1>12, <1>13, <1>14, <1>15, <1>16,
     <1>17, <1>18 DEF Step

(* The others keep what they have, whoever commits beside them.             *)
LEMMA OthersShape ==
    ASSUME ShapeInv, NEW s \in Sessions, OthersKeep(s), NEW u \in Sessions \ {s},
           DOMAIN rows \subseteq DOMAIN rows', DOMAIN inserted[u] \cap DOMAIN rows' = {},
           WellFormed(rows)'
    PROVE  WorkTyped(u)' /\ WorkPlaced(u)' /\ PlaceKnown(u)' /\ Touched(u)' = Touched(u)
<1>1. WorkTyped(u) /\ WorkPlaced(u) /\ PlaceKnown(u)
  BY DEF ShapeInv
<1>2. /\ pc'[u] = pc[u] /\ request'[u] = request[u] /\ made'[u] = made[u]
      /\ inserted'[u] = inserted[u] /\ updated'[u] = updated[u] /\ loaded'[u] = loaded[u]
  BY DEF OthersKeep
<1>3. Touched(u)' = Touched(u) /\ Visible(u) \subseteq Visible(u)'
  BY <1>2 DEF Touched, Visible
<1>4. WorkTyped(u)'
  <2>1. \A row, column, value : WriteTyped(u, row, column, value)' = WriteTyped(u, row, column, value)
    BY <1>2 DEF WriteTyped
  <2> QED
    BY <1>1, <1>2, <1>3, <2>1 DEF WorkTyped
<1>5. WorkPlaced(u)'
  <2>1. ASSUME NEW k \in TxnKeys, ReceivableRow(k) \in Visible(u)' PROVE TxnRow(k) \in Visible(u)'
    <3>1. CASE ReceivableRow(k) \in DOMAIN inserted[u]
      BY <1>1, <1>3, <3>1 DEF WorkPlaced, Visible
    <3>2. CASE ReceivableRow(k) \in DOMAIN rows'
      BY <3>2 DEF WellFormed, Visible
    <3> QED
      BY <1>2, <2>1, <3>1, <3>2 DEF Visible
  <2> QED
    BY <1>1, <1>2, <1>3, <2>1 DEF WorkPlaced
<1>6. PlaceKnown(u)'
  <2>1. Calls(u)' = Calls(u) /\ Call(u)' = Call(u) /\ AllMade(u)' = AllMade(u)
    BY <1>2 DEF Calls, Call, AllMade
  <2>2. u \in Busy' <=> u \in Busy
    BY <1>2 DEF Busy
  <2>3. ReadFor(u, Call(u).txn) => ReadFor(u, Call(u).txn)'
    BY <1>2, <1>3, <2>1 DEF ReadFor
  <2> QED
    BY <1>1, <1>2, <1>3, <2>1, <2>2, <2>3 DEF PlaceKnown
<1> QED
  BY <1>3, <1>4, <1>5, <1>6

LEMMA StepBusy ==
    ASSUME NEW s \in Sessions, Step(s) \/ Crash(s) PROVE s \in Busy
<1>1. \A call : (At(s, "call", call) \/ At(s, "write", call)) => s \in Busy
  BY DEF At, Busy
<1>2. AbortDeadlocked(s) => s \in Busy
  BY DEF AbortDeadlocked, InDeadlock, Stuck
<1>3. Finish(s) \/ Commit(s) \/ Crash(s) => s \in Busy
  BY DEF Finish, Commit, Crash, Busy
<1> QED
  BY <1>1, <1>2, <1>3 DEF Step, RequireRow, RefuseProvision, CheckSeeded, LookRow, InsertRow,
     LoadRow, SaveRow, ReplayPost, ReadAccounts, LoseKey, PostTxn, ResolveReceivable

LEMMA EndsShape ==
    ASSUME ShapeInv, NEW s \in Sessions, s \in Busy, Ends(s), WellFormed(rows)'
    PROVE  WorkTyped(s)' /\ WorkPlaced(s)' /\ PlaceKnown(s)' /\ Touched(s)' = {}
<1>1. PlaceKnown(s)
  BY DEF ShapeInv
<1>2. /\ pc'[s] \in Over /\ made'[s] = 0 /\ inserted'[s] = EmptyFcn /\ updated'[s] = EmptyFcn
      /\ request'[s] = request[s]
  BY DEF Ends
<1>3. Touched(s)' = {} /\ Visible(s)' = DOMAIN rows'
  BY <1>2, EmptyValues DEF Touched, Visible
<1>4. WorkTyped(s)'
  BY <1>2, <1>3, EmptyValues, FS_EmptySet DEF WorkTyped
<1>5. WorkPlaced(s)'
  BY <1>2, <1>3, EmptyValues DEF WorkPlaced, WellFormed, TxnsIn
<1>6. PlaceKnown(s)'
  <2>1. pc[s] # "idle"
    BY DEF Busy
  <2> QED
    BY <1>1, <1>2, <2>1 DEF PlaceKnown, Busy, Over
<1> QED
  BY <1>2, <1>3, <1>4, <1>5, <1>6

LEMMA GrowsShape ==
    ASSUME ShapeInv, NEW s \in Sessions, NEW N, NEW M, Grows(s, N, M)
    PROVE  WorkTyped(s)' /\ WorkPlaced(s)' /\ Touched(s)' = Touched(s) \cup N \cup M
<1>1. WorkTyped(s) /\ WorkPlaced(s) /\ WellFormed(rows)
  BY DEF ShapeInv
<1>2. /\ rows' = rows /\ request'[s] = request[s]
      /\ N \subseteq RowNames /\ IsFiniteSet(N) /\ N \cap DOMAIN rows = {} /\ M \subseteq Visible(s)
      /\ DOMAIN inserted'[s] = DOMAIN inserted[s] \cup N
      /\ DOMAIN updated'[s] = DOMAIN updated[s] \cup M
      /\ \A row \in DOMAIN inserted[s] \ N : inserted'[s][row] = inserted[s][row]
      /\ \A row \in N : RowTyped(row, inserted'[s][row]) /\ inserted'[s][row].by = s
      /\ \A row \in DOMAIN updated'[s], column \in ColumnNames :
           column \in DOMAIN updated'[s][row] => WriteTyped(s, row, column, updated'[s][row][column])
      /\ \A k \in TxnKeys : ReceivableRow(k) \in N => TxnRow(k) \in N
      /\ \A row \in N : row[1] = "transaction" => AccountRows(inserted'[s][row].txn) \subseteq M
  BY DEF Grows
<1>3. Touched(s)' = Touched(s) \cup N \cup M /\ Visible(s)' = Visible(s) \cup N
  BY <1>2 DEF Touched, Visible
<1>4. Visible(s) \subseteq RowNames
  BY <1>1 DEF Visible, WellFormed, WorkTyped, Touched
<1>5. WorkTyped(s)'
  <2>1. \A row, column, value : WriteTyped(s, row, column, value)' = WriteTyped(s, row, column, value)
    BY <1>2 DEF WriteTyped
  <2>2. IsFiniteSet(DOMAIN inserted'[s])
    <3>1. \A A, B : IsFiniteSet(A) /\ IsFiniteSet(B) => IsFiniteSet(A \cup B)
      BY FS_Union
    <3> QED
      BY <1>1, <1>2, <3>1 DEF WorkTyped
  <2>3. Touched(s)' \subseteq RowNames
    BY <1>1, <1>2, <1>3, <1>4 DEF WorkTyped
  <2>4. \A row \in DOMAIN inserted'[s] : RowTyped(row, inserted'[s][row]) /\ inserted'[s][row].by = s
    BY <1>1, <1>2 DEF WorkTyped
  <2> QED
    BY <1>2, <2>1, <2>2, <2>3, <2>4 DEF WorkTyped, ColumnNames
<1>6. WorkPlaced(s)'
  <2>1. DOMAIN inserted'[s] \cap DOMAIN rows' = {} /\ DOMAIN updated'[s] \subseteq Visible(s)'
    BY <1>1, <1>2, <1>3 DEF WorkPlaced
  <2>2. \A k \in TxnKeys : ReceivableRow(k) \in Visible(s)' => TxnRow(k) \in Visible(s)'
    BY <1>1, <1>2, <1>3 DEF WorkPlaced
  <2>3. \A row \in TxnsIn(inserted'[s]) : AccountRows(inserted'[s][row].txn) \subseteq Touched(s)'
    <3>1. ASSUME NEW row \in TxnsIn(inserted'[s])
          PROVE  AccountRows(inserted'[s][row].txn) \subseteq Touched(s)'
      <4>1. row \in DOMAIN inserted'[s] /\ row[1] = "transaction"
        BY DEF TxnsIn
      <4>2. CASE row \in N
        BY <1>2, <1>3, <4>1, <4>2
      <4>3. CASE row \notin N
        <5>1. row \in DOMAIN inserted[s] /\ inserted'[s][row] = inserted[s][row]
          BY <1>2, <4>1, <4>3
        <5>2. row \in TxnsIn(inserted[s])
          BY <4>1, <5>1 DEF TxnsIn
        <5>3. AccountRows(inserted[s][row].txn) \subseteq Touched(s)
          BY <1>1, <5>2 DEF WorkPlaced
        <5> QED
          BY <1>3, <5>1, <5>3
      <4> QED
        BY <4>2, <4>3
    <3> QED
      BY <3>1
  <2> QED
    BY <2>1, <2>2, <2>3 DEF WorkPlaced
<1> QED
  BY <1>3, <1>5, <1>6

(* A commit puts what was flushed into the tables.                          *)
LEMMA CommitRows ==
    ASSUME ShapeInv, NEW s \in Sessions, Commit(s)
    PROVE  /\ Ends(s) /\ pc'[s] = "done" /\ DOMAIN rows' = DOMAIN rows \cup DOMAIN inserted[s]
           /\ \A row \in Touched(s) : rows'[row] = Attributes(s, row)
           /\ \A row \in DOMAIN rows \ Touched(s) : rows'[row] = rows[row]
           /\ Touched(s) \subseteq Visible(s)
<1>1. StateTyped /\ WorkPlaced(s)
  BY DEF ShapeInv
<1>2. Touched(s) \subseteq Visible(s)
  BY <1>1 DEF WorkPlaced, Touched, Visible
<1>3. rows' = [row \in DOMAIN rows \cup Touched(s) |->
                 IF row \in Touched(s) THEN Attributes(s, row) ELSE rows[row]]
  BY DEF Commit, CommittedRows, Filled
<1>4. Ends(s) /\ pc'[s] = "done"
  BY <1>1 DEF Commit, End, Goto, Release, StateTyped, Ends, Over
<1>5. DOMAIN rows \cup Touched(s) = DOMAIN rows \cup DOMAIN inserted[s]
  BY <1>2 DEF Visible, Touched
<1> QED
  BY <1>2, <1>3, <1>4, <1>5

LEMMA CommitShape ==
    ASSUME ShapeInv, NEW s \in Sessions, Commit(s)
    PROVE  WellFormed(rows)'
<1>1. StateTyped /\ WorkPlaced(s) /\ WorkTyped(s) /\ WellFormed(rows)
  BY DEF ShapeInv
<1>2. /\ DOMAIN rows' = DOMAIN rows \cup DOMAIN inserted[s]
      /\ \A row \in Touched(s) : rows'[row] = Attributes(s, row)
      /\ \A row \in DOMAIN rows \ Touched(s) : rows'[row] = rows[row]
      /\ Touched(s) \subseteq Visible(s)
  BY CommitRows
<1>3. DOMAIN rows' = Visible(s) /\ Visible(s) \subseteq RowNames
  BY <1>1, <1>2 DEF Visible, WellFormed, WorkTyped, Touched
<1>4. IsFiniteSet(DOMAIN rows')
  <2>1. \A A, B : IsFiniteSet(A) /\ IsFiniteSet(B) => IsFiniteSet(A \cup B)
    BY FS_Union
  <2> QED
    BY <1>1, <1>2, <2>1 DEF WellFormed, WorkTyped
<1>5. \A row \in DOMAIN rows' : RowTyped(row, rows'[row])
  BY <1>1, <1>2, <1>3, AttributesType DEF WellFormed, Visible, Touched
<1>6. \A k \in TxnKeys : ReceivableRow(k) \in DOMAIN rows' => TxnRow(k) \in DOMAIN rows'
  BY <1>1, <1>3 DEF WorkPlaced
<1>7. ASSUME NEW row \in TxnsIn(rows') PROVE AccountRows(rows'[row].txn) \subseteq DOMAIN rows'
  <2>1. row \in Visible(s) /\ row[1] = "transaction" /\ row \in TxnNames
    BY <1>3, NamesByTag DEF TxnsIn
  <2>2. rows'[row].txn = Base(s, row).txn
    <3>1. CASE row \in Touched(s)
      BY <1>1, <1>2, <2>1, <3>1, AttributesType
    <3>2. CASE row \notin Touched(s)
      BY <1>2, <2>1, <3>2 DEF Base, Touched, Visible
    <3> QED
      BY <3>1, <3>2
  <2>3. CASE row \in DOMAIN inserted[s]
    <3>1. row \in TxnsIn(inserted[s]) /\ Base(s, row) = inserted[s][row]
      BY <2>1, <2>3 DEF TxnsIn, Base
    <3> QED
      BY <1>1, <1>2, <1>3, <2>2, <3>1 DEF WorkPlaced
  <2>4. CASE row \notin DOMAIN inserted[s]
    <3>1. row \in TxnsIn(rows) /\ Base(s, row) = rows[row]
      BY <2>1, <2>4 DEF TxnsIn, Base, Visible
    <3> QED
      BY <1>1, <1>2, <2>2, <3>1 DEF WellFormed
  <2> QED
    BY <2>3, <2>4
<1> QED
  BY <1>3, <1>4, <1>5, <1>6, <1>7 DEF WellFormed

LEMMA ShapeSteps ==
    ASSUME ShapeInv, NEW s \in Sessions, Begin(s) \/ Step(s) \/ Crash(s) PROVE ShapeInv'
<1>1. StateTyped' /\ OthersKeep(s)
  BY SessionMoves DEF ShapeInv
<1>2. /\ StateTyped /\ WellFormed(rows) /\ Apart /\ WorkTyped(s) /\ WorkPlaced(s) /\ PlaceKnown(s)
      /\ \A u \in Sessions : WorkPlaced(u) /\ WorkTyped(u)
  BY DEF ShapeInv
<1>3. ASSUME WellFormed(rows)', DOMAIN rows \subseteq DOMAIN rows',
             \A u \in Sessions \ {s} : DOMAIN inserted[u] \cap DOMAIN rows' = {},
             WorkTyped(s)', WorkPlaced(s)', PlaceKnown(s)',
             \A u \in Sessions \ {s} : Touched(s)' \cap Touched(u) = {}
      PROVE  ShapeInv'
  <2>1. \A u \in Sessions \ {s} : WorkTyped(u)' /\ WorkPlaced(u)' /\ PlaceKnown(u)' /\ Touched(u)' = Touched(u)
    BY <1>1, <1>3, OthersShape
  <2>2. Apart'
    <3>1. ASSUME NEW v \in Sessions, NEW u \in Sessions \ {v} PROVE Touched(v)' \cap Touched(u)' = {}
      <4>1. CASE v = s
        BY <1>3, <2>1, <4>1
      <4>2. CASE u = s
        BY <1>3, <2>1, <4>2
      <4>3. CASE v # s /\ u # s
        BY <1>2, <2>1, <4>3 DEF Apart
      <4> QED
        BY <4>1, <4>2, <4>3
    <3> QED
      BY <3>1 DEF Apart
  <2> QED
    BY <1>1, <1>3, <2>1, <2>2 DEF ShapeInv
<1>4. CASE rows' = rows
  <2>1. WellFormed(rows)' /\ \A u \in Sessions \ {s} : DOMAIN inserted[u] \cap DOMAIN rows' = {}
    BY <1>2, <1>4 DEF WorkPlaced, WellFormed
  <2>2. CASE Ends(s)
    <3>1. ~Begin(s)
      BY <1>2, <2>2 DEF Begin, Goto, StateTyped, Ends, Over
    <3> QED
      BY <1>3, <1>4, <2>1, <2>2, <3>1, StepBusy, EndsShape
  <2>3. CASE Advances(s)
    <3>1. PICK N, M : Grows(s, N, M)
      BY <2>3 DEF Advances
    <3>2. WorkTyped(s)' /\ WorkPlaced(s)' /\ Touched(s)' = Touched(s) \cup N \cup M
      BY <3>1, GrowsShape
    <3>3. \A u \in Sessions \ {s} : Touched(s)' \cap Touched(u) = {}
      BY <1>2, <3>1, <3>2 DEF Grows, Apart
    <3> QED
      BY <1>3, <1>4, <2>1, <2>3, <3>2, <3>3 DEF Advances
  <2>4. CASE Begin(s)
    <3>1. /\ made' = made /\ inserted' = inserted /\ updated' = updated
          /\ pc[s] = "idle" /\ pc'[s] = "call" /\ request'[s] \in Requests
      BY <1>2, <2>4 DEF Begin, Goto, work, StateTyped
    <3>2. s \notin Busy /\ made[s] = 0 /\ inserted[s] = EmptyFcn /\ updated[s] = EmptyFcn
      BY <1>2, <3>1 DEF PlaceKnown, Busy
    <3>3. CallsKnown(request'[s])
      BY <3>1, CallsType
    <3>4. made'[s] \in 0 .. Len(CallsOf(request'[s]))
      BY <3>1, <3>2, <3>3 DEF CallsKnown
    <3>5. PlaceKnown(s)'
      BY <3>1, <3>2, <3>4 DEF PlaceKnown, Busy, Calls
    <3>6. Touched(s)' = {} /\ Visible(s)' = DOMAIN rows
      BY <1>4, <3>1, <3>2, EmptyValues DEF Touched, Visible
    <3>7. WorkTyped(s)'
      BY <3>1, <3>2, <3>6, EmptyValues, FS_EmptySet DEF WorkTyped
    <3>8. WorkPlaced(s)'
      BY <1>2, <1>4, <3>1, <3>2, <3>6, EmptyValues DEF WorkPlaced, WellFormed, TxnsIn
    <3> QED
      BY <1>3, <1>4, <2>1, <3>5, <3>6, <3>7, <3>8
  <2> QED
    BY <2>2, <2>3, <2>4, StepAdvances, CommitRows DEF Commit, Ends
<1>5. CASE Commit(s)
  <2>1. WellFormed(rows)' /\ Ends(s) /\ DOMAIN rows' = DOMAIN rows \cup DOMAIN inserted[s]
    BY <1>5, CommitRows, CommitShape
  <2>2. \A u \in Sessions \ {s} : DOMAIN inserted[u] \cap DOMAIN rows' = {}
    BY <1>2, <2>1 DEF WorkPlaced, Apart, Touched
  <2>3. WorkTyped(s)' /\ WorkPlaced(s)' /\ PlaceKnown(s)' /\ Touched(s)' = {}
    BY <1>5, <2>1, StepBusy, EndsShape DEF Step
  <2> QED
    BY <1>3, <2>1, <2>2, <2>3
<1>6. ~Commit(s) => rows' = rows
  <2>1. Begin(s) => rows' = rows
    BY DEF Begin
  <2>2. Advances(s) => rows' = rows
    BY DEF Advances, Grows
  <2> QED
    BY <2>1, <2>2, StepAdvances
<1> QED
  BY <1>4, <1>5, <1>6

(* The types, and what they rest on, hold at first and are kept.            *)
LEMMA ShapeInit == ASSUME Init PROVE ShapeInv
<1>1. rows \in Beginnings /\ WellFormed(rows)
  BY CatalogAssumption DEF Init
<1>2. StateTyped
  BY DEF Init, StateTyped
<1>3. ASSUME NEW s \in Sessions
      PROVE  WorkTyped(s) /\ WorkPlaced(s) /\ PlaceKnown(s) /\ Touched(s) = {}
  <2>1. /\ pc[s] = "idle" /\ request[s] = None /\ made[s] = 0 /\ inserted[s] = EmptyFcn
        /\ updated[s] = EmptyFcn
    BY DEF Init
  <2>2. Touched(s) = {} /\ Visible(s) = DOMAIN rows
    BY <2>1, EmptyValues DEF Touched, Visible
  <2>3. WorkTyped(s)
    BY <2>1, <2>2, EmptyValues, FS_EmptySet DEF WorkTyped
  <2>4. WorkPlaced(s)
    BY <1>1, <2>1, <2>2, EmptyValues DEF WorkPlaced, WellFormed, TxnsIn
  <2>5. PlaceKnown(s)
    BY <2>1 DEF PlaceKnown, Busy
  <2> QED
    BY <2>2, <2>3, <2>4, <2>5
<1> QED
  BY <1>1, <1>2, <1>3 DEF ShapeInv, Apart

LEMMA ShapeStuck == ASSUME ShapeInv, UNCHANGED vars PROVE ShapeInv'
  BY DEF ShapeInv, vars, work, StateTyped, WellFormed, Apart, WorkTyped, WorkPlaced, PlaceKnown,
         ReadFor, Touched, Visible, Busy, Calls, Call, AllMade, WriteTyped

LEMMA ShapeNext == ASSUME ShapeInv, [Next]_vars PROVE ShapeInv'
  BY ShapeSteps, ShapeStuck DEF Next, Quiet

LEMMA ShapeHolds == Spec => []ShapeInv
  BY ShapeInit, ShapeNext, PTL DEF Spec

LEMMA ShapeTypes == ASSUME ShapeInv PROVE CatalogTypeOK
<1>1. ASSUME NEW s \in Sessions
      PROVE  /\ Touched(s) \subseteq RowNames /\ DOMAIN inserted[s] \cap DOMAIN rows = {}
             /\ DOMAIN updated[s] \subseteq Visible(s)
             /\ \A u \in Sessions \ {s} : Touched(s) \cap Touched(u) = {}
  BY DEF ShapeInv, WorkTyped, WorkPlaced, Apart
<1> QED
  BY <1>1 DEF ShapeInv, CatalogTypeOK, StateTyped, WellFormed

(* Whatever the requests do side by side, every row is one of the tables    *)
(* with columns of its type, a row a session has flushed is not committed   *)
(* and not another session's, and what it has updated is there to update.   *)
THEOREM CatalogTypeCorrect == Spec => []CatalogTypeOK
  BY ShapeHolds, ShapeTypes, PTL
====
