---- MODULE Seed ----
(***************************************************************************)
(* The sample data: which entities the seed script creates, on which       *)
(* templates, and what it posts for them, in the order it does so.  Dates  *)
(* are days from today, and the periods are those of a fixed day of the    *)
(* month.                                                                  *)
(***************************************************************************)
EXTENDS Bookkeeping, Amounts, Templates

CONSTANTS PreviousMonth, CurrentMonth   \* the first days of the two months

MERCHANT == "seed-merchant-01"
PLATFORM == "seed-platform-01"
OPERATOR == "seed-operator-01"
SCRIPT   == "seed"
BAAS_A   == "seed-baas-a"
BAAS_B   == "seed-baas-b"
CUSTOMER == "seed-customer-01"

SeedEntities ==
    <<<<MERCHANT, "MERCHANT">>, <<PLATFORM, "PLATFORM">>, <<OPERATOR, "OPERATOR">>,
      <<BAAS_A, "BAAS_CUSTOMER">>, <<BAAS_B, "BAAS_CUSTOMER">>, <<CUSTOMER, "CUSTOMER">>>>

ClearingAccounts == <<<<"9.9.901", "EQUITY">>, <<"9.9.902", "EQUITY">>, <<"9.9.903", "EQUITY">>>>
ClearingEntities == <<MERCHANT, BAAS_A, BAAS_B>>

PeriodDates == <<PreviousMonth, CurrentMonth>>

OnChart(e, list) == \A i \in DOMAIN list : <<e, list[i][1]>> \in Accounts

-----------------------------------------------------------------------------
Units(reais) == reais * 100 * Cent
Money(x) == RoundHalfUp(x, Cent)

Mdr(gross)              == Money((gross * 2) \div 100)
PlatformFee(gross)      == Money((gross * 10) \div 100)
AnticipationFee(amount) == Money((amount * 15) \div 1000)

SaleEntries(gross) ==
    <<Debit("1.1.001", gross, "BRL"),              Credit("3.1.001", gross, "BRL"),
      Debit("4.1.001", Mdr(gross), "BRL"),         Credit("1.1.001", Mdr(gross), "BRL"),
      Debit("4.1.002", PlatformFee(gross), "BRL"), Credit("1.1.001", PlatformFee(gross), "BRL")>>
PlatformEntries(amount) ==
    <<Debit("1.1.001", amount, "BRL"), Credit("3.1.001", amount, "BRL")>>

Sales == <<[key |-> "seed:sale:01", platform |-> "seed:sale:01:platform",
            gross |-> Units(300), date |-> -20],
           [key |-> "seed:sale:02", platform |-> "seed:sale:02:platform",
            gross |-> Units(100), date |-> -10],
           [key |-> "seed:sale:03", platform |-> "seed:sale:03:platform",
            gross |-> Units(500), date |-> -5],
           [key |-> "seed:sale:04", platform |-> "seed:sale:04:platform",
            gross |-> Units(150), date |-> -3]>>
AnticipatedSale == Sales[1]
ReversedSale    == Sales[4]

SeedKey(k) == <<"", k>>
(* The reference_id of a sample sale names no row.                          *)
SaleTxn(sale) == Payload(SCRIPT, SeedKey(sale.key), MERCHANT, "SALE", sale.date,
                             SaleEntries(sale.gross), NoRef, TRUE)
PlatformTxn(sale) == Payload(SCRIPT, SeedKey(sale.platform), PLATFORM, "SALE", sale.date,
                                 PlatformEntries(PlatformFee(sale.gross)), NoRef, FALSE)

(* The receivable's net amount, which both requests are about.              *)
NetOf(sale) == Created(sale.gross, Mdr(sale.gross) + PlatformFee(sale.gross)).net

SettlementInFull(net) == net
SettlementAmount(net) == net - AnticipationFee(net)

Anticipation ==
    LET sale == AnticipatedSale IN
    TxnOf(SCRIPT, [op |-> "anticipate", key |-> SeedKey("seed:anticipation:01"), entity |-> MERCHANT,
               date |-> -2, amount |-> NetOf(sale), fee |-> AnticipationFee(NetOf(sale)),
               receivable |-> SeedKey(sale.key)])
Settlement ==
    LET sale == AnticipatedSale IN
    TxnOf(SCRIPT, [op |-> "settle", key |-> SeedKey("seed:settlement:01"), entity |-> MERCHANT,
               date |-> -1, amount |-> SettlementAmount(NetOf(sale)), network |-> "CIP-PIX",
               receivable |-> SeedKey(sale.key)])
Reversal ==
    ReversalTxn(SCRIPT, [key |-> SeedKey("seed:reversal:04"), entity |-> MERCHANT,
                     txn |-> SeedKey(ReversedSale.key)],
                SaleTxn(ReversedSale))

Cash(op, k, entity, reais, network, date) ==
    [op |-> op, key |-> SeedKey(k), entity |-> entity, date |-> date, amount |-> Units(reais),
     currency |-> "BRL", network |-> network]
CashTxns ==
    <<TxnOf(SCRIPT, Cash("deposit", "seed:deposit:seed-baas-a", BAAS_A, 1000, "STR", -15)),
      TxnOf(SCRIPT, Cash("deposit", "seed:deposit:seed-baas-b", BAAS_B, 500, "STR", -14)),
      TxnOf(SCRIPT, Cash("withdraw", "seed:withdrawal:seed-baas-a", BAAS_A, 250, "CIP-PIX", -7))>>

SeedTransfer == [op |-> "transfer", key |-> "seed:transfer:01", sender |-> BAAS_A,
                 receiver |-> BAAS_B, date |-> -5, amount |-> Units(150), currency |-> "BRL"]

SnapshotOf == <<BAAS_A, "1.1.001">>
SnapshotDate == -60

-----------------------------------------------------------------------------
SeedKeys == {Sales[i].key : i \in DOMAIN Sales} \cup {Sales[i].platform : i \in DOMAIN Sales}
            \cup {"seed:anticipation:01", "seed:settlement:01", "seed:reversal:04",
                  "seed:deposit:seed-baas-a", "seed:deposit:seed-baas-b",
                  "seed:withdrawal:seed-baas-a", "seed:transfer:01"}
SeedDates == {PreviousMonth, CurrentMonth, -20, -15, -14, -10, -7, -5, -3, -2, -1}

(* The chart, the keys and the calendar have room for the sample data.      *)
ASSUME SeedAssumption ==
    /\ \A i \in DOMAIN SeedEntities : OnChart(SeedEntities[i][1], GetTemplate(SeedEntities[i][2]))
    /\ \A i \in DOMAIN ClearingEntities : OnChart(ClearingEntities[i], ClearingAccounts)
    /\ SeedKeys \subseteq Keys /\ SeedDates \subseteq Dates
====
