---- MODULE LedgerAmounts ----
(***************************************************************************)
(* The amounts of the receivables that booked sales leave behind.  The     *)
(* receivable table of LedgerSessions has their status; the amounts follow *)
(* from the entries of the sale.                                           *)
(***************************************************************************)
EXTENDS LedgerProperties, Amounts

(* What a sale pays in fees: its debits on expense accounts.                *)
InferredFee(t) ==
    SumOver(t.entries, {i \in DOMAIN t.entries :
                          /\ Chart[AccountAt(t, i)].type = "EXPENSE"
                          /\ t.entries[i].type = "DEBIT"})

AmountsOf(t) == Created(InferredGross(t), InferredFee(t))

(* The three amounts of a receivable agree to the cent, and exactly when    *)
(* the fee is a number of cents and no more than the gross amount, which    *)
(* has to be positive: nothing in the code makes it so.                     *)
ReceivableAddsUp ==
    \A t \in {u \in journal : u.expects} :
        LET r == AmountsOf(t)
        IN  /\ Abs(r.gross - r.fee - r.net) <= Cent
            /\ OnScale(InferredFee(t), Cent)
               /\ InferredGross(t) >= 0 /\ InferredFee(t) <= InferredGross(t)
                  => r.net = r.gross - r.fee
====
