---- MODULE CatalogProperties ----
(***************************************************************************)
(* What creation by name, changes by column and the seed script promise    *)
(* while requests overlap, wait for each other, fail and crash.            *)
(***************************************************************************)
EXTENDS Catalog

CatalogTypeOK ==
    /\ DOMAIN rows \subseteq RowNames
    /\ pc \in [Sessions -> {"idle", "call", "write", "commit"} \cup Over]
    /\ request \in [Sessions -> Requests \cup {None}]
    /\ reply \in [Sessions -> {"none", "2xx", "404", "409", "422", "500", "abort", "complete",
                               "nothing"}]
    /\ \A s \in Sessions :
         /\ Touched(s) \subseteq RowNames
         /\ DOMAIN inserted[s] \cap DOMAIN rows = {}
         /\ DOMAIN updated[s] \subseteq Visible(s)
         /\ \A u \in Sessions \ {s} : Touched(s) \cap Touched(u) = {}

RowsOfCall(c) ==
    CASE c.do \in {"ensure", "insert", "update"} -> {c.row}
      [] c.do = "post" -> {TxnRow(c.txn.key)}
      [] OTHER         -> {}
SeedRowNames == UNION {RowsOfCall(SeedCalls[i]) : i \in DOMAIN SeedCalls}
SeededWhole(table) ==
    SeedEntityRows \cap DOMAIN table # {} => SeedRowNames \subseteq DOMAIN table

(* The rows an answered request is about.                                   *)
RowsOf(r) ==
    CASE r.op = "create"    -> {EntityRow(r.entity)}
      [] r.op = "provision" -> {AccountRow(<<r.entity, r.list[i][1]>>) : i \in DOMAIN r.list}
      [] r.op = "update"    -> {r.row}
      [] r.op = "post"      -> {TxnRow(r.posting.key)}
      [] r.op = "seed"      -> SeedRowNames

(* The script takes an entity of the sample data for the whole of it, which *)
(* is right if no client uses one of their names.                           *)
SampleNamesReserved ==
    /\ \A r \in Requests : r.op = "create" => EntityRow(r.entity) \notin SeedEntityRows
    /\ \A b \in Beginnings : SeededWhole(b)
Answered(s) ==
    /\ pc[s] = "done"
    /\ reply[s] \in {"2xx", "complete"} \/ (reply[s] = "nothing" /\ SampleNamesReserved)

(* A request that was answered, and whose handler went on to commit, finds  *)
(* every row it is about, made by itself or by whoever was faster; so does  *)
(* a seed script that says it is complete, or that all was seeded already.  *)
AnsweredIsThere ==
    \A s \in Sessions : Answered(s) => RowsOf(request[s]) \subseteq DOMAIN rows

(* A request that failed, was refused, crashed or is not over has left no   *)
(* row: the loser of a race for a name takes none of its other rows along,  *)
(* and a seed is there as a whole or not at all.                            *)
AllOrNothing ==
    \A row \in DOMAIN rows, s \in Sessions : rows[row].by = s => pc[s] = "done"

(* A posting, and whatever else is asked of the same account meanwhile, do  *)
(* not undo each other: the balance is the sum of the entries booked, unless *)
(* two sessions have posted to the account (whose postings may overlap and   *)
(* lose one of the deltas: LedgerSessions), ...                             *)
Posters(a) ==
    {rows[row].by : row \in {r \in TxnsIn(rows) : EntriesOn(rows[r].txn, a) # {}}} \cap Sessions
BalancesFollowPostings ==
    \A a \in Accounts :
      /\ AccountRow(a) \in DOMAIN rows
      /\ \A s, u \in Posters(a) : s = u
      => rows[AccountRow(a)].balance = BookedIn(rows, a)

(* ... and a column that one request alone has changed keeps its value,     *)
(* whatever else was written to the row.                                    *)
ChangeNotLost ==
    \A s \in Sessions :
      LET r == request[s]
          rivals == {u \in Sessions \ {s} : /\ request[u] # None /\ request[u].op = "update"
                                            /\ request[u].row = r.row
                                            /\ request[u].column = r.column}
      IN  pc[s] = "done" /\ r.op = "update" /\ rivals = {}
          => rows[r.row][r.column] = r.value

(* The seed anticipates and settles one receivable, so that 1.1.002 ends at *)
(* zero, and reverses the sale of another; the rest is pending.             *)
SeedSettlesAnticipation ==
    \A s \in Sessions : reply[s] = "complete" =>
        /\ rows[AccountRow(<<MERCHANT, "1.1.002">>)].balance = 0
        /\ \A i \in DOMAIN Sales :
             rows[ReceivableRow(SeedKey(Sales[i].key))].status =
               CASE Sales[i] = AnticipatedSale -> "SETTLED"
                 [] Sales[i] = ReversedSale    -> "CANCELLED"
                 [] OTHER                      -> "PENDING"

(* The templates have every account the seed posts to, and its entries      *)
(* balance: a seed fails only if another session was there, or if a period  *)
(* was closed before.                                                       *)
SeedFailsOnlyIfDisturbed ==
    \A s \in Sessions : pc[s] = "failed" /\ request[s].op = "seed" =>
        \/ \E u \in Sessions \ {s} : pc[u] # "idle"
        \/ \E d \in Dates : PeriodRow(d) \in DOMAIN rows /\ rows[PeriodRow(d)].status # "OPEN"

(* Whoever waits for a name or a row lock gets on, or is chosen to end a    *)
(* deadlock: what has begun is answered, or lost with its worker.           *)
RequestsEnd == \A s \in Sessions : (s \in Busy) ~> (pc[s] \in Over)
====
