---- MODULE MCCatalog ----
(***************************************************************************)
(* Constants for the run of Catalog: the seed script, which may be run     *)
(* more than once, and requests on a shop and its accounts.                *)
(***************************************************************************)
EXTENDS CatalogProperties

MCPreviousMonth == -33
MCCurrentMonth  == -3
MCDates == {-60, -33, -20, -15, -14, -10, -7, -5, -3, -2, -1, 0}
MCEntities == {"shop", "nobody"} \cup {SeedEntities[i][1] : i \in DOMAIN SeedEntities}

MCKeys == SeedKeys \cup {"dep", "dep2"}

MCSeedPrefixed == MCEntities \ {"shop", "nobody"}

(* Two lists of the same accounts, in opposite orders.                      *)
Plan == <<<<"1.1.001", "ASSET">>, <<"9.9.999", "EQUITY">>, <<"9.9.901", "EQUITY">>>>
NalP == <<<<"9.9.901", "EQUITY">>, <<"1.1.001", "ASSET">>>>

Provisioned ==
    UNION {{<<SeedEntities[i][1], l>> : l \in ToSet(GetTemplate(SeedEntities[i][2]))} :
             i \in DOMAIN SeedEntities}
    \cup {<<ClearingEntities[i], l>> : i \in DOMAIN ClearingEntities, l \in ToSet(ClearingAccounts)}
    \cup {<<"shop", l>> : l \in ToSet(Plan)}
MCCodes == {p[2][1] : p \in Provisioned} \cup {ACC_ANTICIPATION_FEE}
MCChart ==
    [a \in {<<p[1], p[2][1]>> : p \in Provisioned} |->
       [type |-> (CHOOSE p \in Provisioned : <<p[1], p[2][1]>> = a)[2][2], currency |-> "BRL"]]

Create(parent) == [op |-> "create", entity |-> "shop", parent |-> parent]
Provision(list) == [op |-> "provision", entity |-> "shop", list |-> list]
Change(row, column, value) == [op |-> "update", row |-> row, column |-> column, value |-> value]
Deposit(k) == [op |-> "post", posting |->
                 [op |-> "deposit", key |-> SeedKey(k), entity |-> "shop", date |-> 0,
                  amount |-> 7, currency |-> "BRL", network |-> "none"]]
ShopCash == AccountRow(<<"shop", "1.1.001">>)

MCRequests ==
    {[op |-> "seed"], Create(None), Create("nobody"), Provision(Plan), Provision(NalP), Provision(None),
     Change(EntityRow("shop"), "name", "renamed"), Change(EntityRow("shop"), "data", "more"),
     Change(ShopCash, "enabled", FALSE),
     Deposit("dep"), Deposit("dep2")}

(* Nothing; a month that was closed before; a shop, without and with its    *)
(* accounts.                                                                *)
Empty == EmptyFcn
ClosedMonth == PeriodRow(CurrentMonth) :> [by |-> None, status |-> "CLOSED"]
Shop == EntityRow("shop") :> ([by |-> None] @@ NewEntity)
ShopWithAccounts ==
    [row \in {AccountRow(<<"shop", Plan[i][1]>>) : i \in DOMAIN Plan} |->
       [by |-> None] @@ NewAccount] @@ Shop
MCBeginnings == {Empty, ClosedMonth, Shop, ShopWithAccounts}
====
