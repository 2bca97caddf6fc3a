---- MODULE MCLedger ----
(***************************************************************************)
(* Constants for the model-checking runs of LedgerSessions: a merchant m1  *)
(* and a bank customer m2 with accounts their templates give them, and the *)
(* requests each run lets clients send, as often as there are handlers.    *)
(***************************************************************************)
EXTENDS LedgerAmounts, TLC

MCCodes == {"1.1.001", "1.1.002", "3.1.001", "4.1.001", "4.1.003", "9.9.901",
            "9.9.902", "9.9.903", "9.9.998", "9.9.999"}
MCKeys == {"sale", "odd", "settle", "reverse", "again", "ant", "dep", "wd", "t", "u", "self",
           "bad1", "bad2", "bad3", "bad4"}

Brl(type) == [type |-> type, currency |-> "BRL"]

MCChart ==
    (<<"m1", "1.1.001">> :> Brl("ASSET")) @@ (<<"m1", "1.1.002">> :> Brl("ASSET")) @@
    (<<"m1", "3.1.001">> :> Brl("REVENUE")) @@ (<<"m1", "4.1.001">> :> Brl("EXPENSE")) @@
    (<<"m1", "4.1.003">> :> Brl("EXPENSE")) @@ (<<"m1", "9.9.998">> :> Brl("EQUITY")) @@
    (<<"m1", "9.9.999">> :> Brl("EQUITY")) @@
    (<<"m2", "1.1.001">> :> Brl("ASSET")) @@ (<<"m2", "9.9.998">> :> Brl("EQUITY")) @@
    (<<"m2", "9.9.999">> :> Brl("EQUITY"))

-----------------------------------------------------------------------------
Key(k) == <<"", k>>

Post(k, date, entries, expects) ==
    [op |-> "post", key |-> Key(k), entity |-> "m1", type |-> "SALE", date |-> date,
     entries |-> entries, expects |-> expects]
Sale(date) ==
    Post("sale", date, <<Debit("1.1.001", 6, "BRL"), Debit("4.1.001", 4, "BRL"),
                         Credit("3.1.001", 10, "BRL")>>, TRUE)
(* A cent is 4: gross, fee and net of the first sale are 2.5, 1 and 1.5     *)
(* cents, those of the second 1.5, 0.25 and 1.25.                           *)
OddSale ==
    Post("odd", "today", <<Debit("1.1.001", 5, "BRL"), Debit("4.1.001", 1, "BRL"),
                           Credit("3.1.001", 6, "BRL")>>, TRUE)
Deposit(k, amount) ==
    [op |-> "deposit", key |-> Key(k), entity |-> "m1", date |-> "today",
     amount |-> amount, currency |-> "BRL", network |-> "none"]
Withdraw(k, amount) == [Deposit(k, amount) EXCEPT !.op = "withdraw"]
(* The fee equals the amount, so the deltas on 1.1.002 cancel.              *)
Anticipate ==
    [op |-> "anticipate", key |-> Key("ant"), entity |-> "m1", date |-> "today",
     amount |-> 4, fee |-> 4, receivable |-> Key("sale")]
Settle ==
    [op |-> "settle", key |-> Key("settle"), entity |-> "m1", date |-> "today",
     amount |-> 7, network |-> "none", receivable |-> Key("sale")]
Transfer(k, from, to) ==
    [op |-> "transfer", key |-> k, sender |-> from, receiver |-> to, date |-> "today",
     amount |-> 5, currency |-> "BRL"]
Reverse(k, txn) == [op |-> "reverse", key |-> Key(k), entity |-> "m1", txn |-> txn]
Void(txn) == [op |-> "void", entity |-> "m1", txn |-> txn]

CashRequests == {Deposit("dep", 3), Withdraw("wd", 2)}
TransferRequests == {Transfer("t", "m1", "m2"), Transfer("u", "m2", "m1"),
                     Transfer("self", "m1", "m1")}
SaleRequests == {Sale("today"), Settle, Reverse("reverse", Key("sale")), Anticipate}
PeriodRequests == {Sale("past"), Reverse("reverse", Key("sale"))}
OverlapRequests == SaleRequests \cup TransferRequests \cup {Reverse("again", <<SEND, "t">>)}

(* Requests post refuses: the entries do not balance, an account the entity *)
(* lacks, the wrong currency, no revenue to infer a receivable from.        *)
RefusedRequests ==
    {Post("bad1", "today", <<Debit("1.1.001", 9, "BRL"), Credit("3.1.001", 8, "BRL")>>, FALSE),
     Post("bad2", "today", <<Debit("1.1.001", 9, "BRL"), Credit("9.9.901", 9, "BRL")>>, FALSE),
     Post("bad3", "today", <<Debit("1.1.001", 9, "USD"), Credit("3.1.001", 9, "USD")>>, FALSE),
     Post("bad4", "today", <<Debit("1.1.001", 9, "BRL"), Credit("9.9.999", 9, "BRL")>>, TRUE)}

(* A reversal and a settlement share the key "again".                       *)
SerialRequests == {Sale("past"), Settle, Reverse("reverse", Key("sale")),
                   Reverse("again", Key("sale")), [Settle EXCEPT !.key = Key("again")],
                   Anticipate, Withdraw("wd", 2)}
AllRequests == SaleRequests \cup CashRequests \cup TransferRequests \cup RefusedRequests
               \cup {OddSale, Void(Key("sale"))}

NoJobs == {}
PastJobs == [op : {"create", "close"}, date : {"past"}]

(* Sessions are interchangeable, and so are administrators, whose jobs Init  *)
(* chooses freely.                                                          *)
MCSymmetry == Permutations(Sessions) \cup Permutations(Admins)
====
