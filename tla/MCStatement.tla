---- MODULE MCStatement ----
(***************************************************************************)
(* Constants for the runs of Statement: a customer c with two asset        *)
(* accounts, one of them opened later, and what handlers book for it on    *)
(* three days, two of which a statement covers.                            *)
(***************************************************************************)
EXTENDS Statement, TLC

Checking == <<"c", "1.1.001">>
Savings  == <<"c", "1.1.002">>
Fee      == <<"c", "4.1.001">>
World    == <<"c", "9.9.999">>
Transfer(e) == <<e, "9.9.998">>
Other    == <<"d", "1.1.001">>

MCAccountType ==
    (Checking :> "ASSET") @@ (Savings :> "ASSET") @@ (World :> "EQUITY") @@
    (Fee :> "EXPENSE") @@
    (Transfer("c") :> "EQUITY") @@ (Transfer("d") :> "EQUITY") @@ (Other :> "ASSET")

Debit(a, amount)  == [account |-> a, type |-> "DEBIT", amount |-> amount]
Credit(a, amount) == [account |-> a, type |-> "CREDIT", amount |-> amount]
Sending(key, date, entries) == [key |-> key, date |-> date, entries |-> entries]
Move(key, date, from, to, amount) == Sending(key, date, <<Debit(to, amount), Credit(from, amount)>>)

(* A deposit the day before the boundary, a withdrawal with a fee on it,    *)
(* savings put aside, and a transfer to another entity, whose two legs      *)
(* commit together.  The first two have more digits than the columns.       *)
MCCommits ==
    {{Move(4, 1, World, Checking, 3222)},
     {Sending(3, 2, <<Debit(World, 1617), Debit(Fee, 17), Credit(Checking, 1634)>>)},
     {Move(5, 2, Checking, Savings, 640)},
     {Move(1, 3, Checking, Transfer("c"), 320), Move(2, 3, Transfer("d"), Other, 320)}}

MCFirstAccounts == Accounts \ {Savings}

MCQueries ==
    {[kind |-> "statement", entity |-> "c", start |-> 2, end |-> 3],
     [kind |-> "statement", entity |-> "c", start |-> 3, end |-> 1],
     [kind |-> "balance", entity |-> "c", start |-> 3],
     [kind |-> "balance", entity |-> "c", start |-> 4],
     [kind |-> "balance", entity |-> "c", start |-> None],
     [kind |-> "balance", entity |-> "nobody", start |-> None]}
====
