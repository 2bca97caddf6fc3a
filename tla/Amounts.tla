---- MODULE Amounts ----
(***************************************************************************)
(* What rounding does to money on its way through the ledger.  A client's  *)
(* Decimal is validated and added up as it came; an entry is stored with   *)
(* the scale of its column, a balance with a coarser one, a receivable in  *)
(* cents, and a balance is reported in cents as well.  Amounts are integer *)
(* numbers of a unit finer than every column.                              *)
(***************************************************************************)
EXTENDS Integers

CONSTANTS
    EntryGrain,     \* units in the last digit of transaction_entries.amount
    BalanceGrain,   \* units in the last digit of current_balance
    Cent            \* units in a cent

ASSUME AmountsAssumption ==
    /\ EntryGrain \in Nat \ {0}
    /\ BalanceGrain \in Nat \ {0} /\ BalanceGrain % EntryGrain = 0
    /\ Cent \in Nat \ {0} /\ Cent % BalanceGrain = 0

Abs(x) == IF x < 0 THEN -x ELSE x
OnScale(x, grain) == x % grain = 0

(* ROUND_HALF_UP of Decimal, and what PostgreSQL does to a numeric that has *)
(* more digits than its column: to the nearest, ties away from zero.        *)
RoundHalfUp(x, grain) ==
    LET magnitude == ((2 * Abs(x) + grain) \div (2 * grain)) * grain
    IN  IF x < 0 THEN -magnitude ELSE magnitude

(* quantize without a rounding argument: ROUND_HALF_EVEN.                   *)
RoundHalfEven(x, grain) ==
    CHOOSE y \in {(x \div grain) * grain, (x \div grain + 1) * grain} :
        \/ 2 * Abs(x - y) < grain
        \/ 2 * Abs(x - y) = grain /\ (y \div grain) % 2 = 0

Truncated(x, grain) == (x \div grain) * grain

-----------------------------------------------------------------------------
StoredInCents(x) == RoundHalfUp(x, Cent)
(* The amount column of an entry.                                           *)
Stored(x) == RoundHalfUp(x, EntryGrain)

BalanceTruncated(balance, delta) == Truncated(balance + delta, BalanceGrain)
(* _apply_balance_updates adds the client's amount, and the column rounds.  *)
BalanceAfter(balance, delta) == RoundHalfUp(balance + delta, BalanceGrain)

CreatedTruncatingNet(gross, fee) ==
    [gross |-> RoundHalfUp(gross, Cent), fee |-> RoundHalfUp(fee, Cent),
     net |-> Truncated(gross - fee, Cent)]
(* The receivable of a sale: each amount is rounded by itself.              *)
Created(gross, fee) ==
    [gross |-> RoundHalfUp(gross, Cent), fee |-> RoundHalfUp(fee, Cent),
     net |-> RoundHalfUp(gross - fee, Cent)]

ReportedTruncated(balance) == Truncated(balance, Cent)
(* The computed field "rounded" of a balance.                               *)
Reported(balance) == RoundHalfEven(balance, Cent)

====
