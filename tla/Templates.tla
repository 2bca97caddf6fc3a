---- MODULE Templates ----
(***************************************************************************)
(* The charts of accounts that provisioning by template gives an entity:   *)
(* <<code, account_type>> in the order they are inserted.  All are in BRL. *)
(***************************************************************************)
EXTENDS Sequences

Asset(code)     == <<code, "ASSET">>
Liability(code) == <<code, "LIABILITY">>
Revenue(code)   == <<code, "REVENUE">>
Expense(code)   == <<code, "EXPENSE">>
Equity(code)    == <<code, "EQUITY">>

Common == <<Equity("9.9.998"), Equity("9.9.999")>>

MerchantWithoutAnticipation ==
    <<Asset("1.1.001"), Asset("1.1.002"), Asset("1.2.001"),
      Liability("2.2.001"), Liability("2.2.002"), Liability("2.2.003"), Revenue("3.1.001"),
      Expense("4.1.001"), Expense("4.1.002"), Expense("4.2.001")>>

Merchant ==
    <<Asset("1.1.001"), Asset("1.1.002"), Asset("1.2.001"),
      Liability("2.2.001"), Liability("2.2.002"), Liability("2.2.003"), Revenue("3.1.001"),
      Expense("4.1.001"), Expense("4.1.002"), Expense("4.1.003"),
      Expense("4.2.001"), Expense("4.2.002"), Expense("4.2.003")>>

Customer == <<Liability("2.1.001"), Expense("4.1.001")>>

Operator == <<Asset("1.1.001"), Revenue("3.1.001"), Expense("4.1.001")>>

Platform == <<Asset("1.1.001"), Revenue("3.1.001"), Revenue("3.1.002")>>

BaasCustomer == <<Asset("1.1.001"), Asset("1.1.002")>>

GetTemplate(name) ==
    CASE name = "MERCHANT"      -> Merchant \o Common
      [] name = "CUSTOMER"      -> Customer \o Common
      [] name = "OPERATOR"      -> Operator \o Common
      [] name = "PLATFORM"      -> Platform \o Common
      [] name = "BAAS_CUSTOMER" -> BaasCustomer \o Common
====
