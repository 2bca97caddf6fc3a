---- MODULE Journal ----
(***************************************************************************)
(* What the ledger promises about its journal, whatever happens among      *)
(* sessions: it only grows, by whole requests; what is in it is valid; a   *)
(* key is used at most once; and the two keys of a pair, the two legs of a *)
(* transfer, are used together or not at all.                              *)
(***************************************************************************)
CONSTANTS Valid,   \* the transactions that may be booked
          Pairs    \* pairs of keys that stand or fall together

VARIABLE journal   \* the set of committed transactions

Used(txns, key) == \E t \in txns : t.key = key

Init == journal = {}

(* One request is booked: journal' \ journal holds its transactions.        *)
Book ==
    /\ journal \subseteq journal'
    /\ journal' \ journal \subseteq Valid
    /\ \A t \in journal' \ journal, u \in journal' : t.key = u.key => t = u
    /\ \A p \in Pairs : Used(journal', p[1]) <=> Used(journal', p[2])

Spec == Init /\ [][Book]_journal

====
