---- MODULE LedgerProperties ----
(***************************************************************************)
(* What the write path promises.  The first group holds however sessions   *)
(* interleave and crash; the second only when requests run one at a time;  *)
(* the third is what documents and comments say and the code does not do.  *)
(***************************************************************************)
EXTENDS LedgerSessions

(* The entries of the journal on an account, as pairs.                      *)
EntriesOn(a) ==
    UNION {{<<t, i>> : i \in {j \in DOMAIN t.entries : AccountAt(t, j) = a}} : t \in journal}

EntrySum(a) ==
    LET E == EntriesOn(a)
        e(x) == x[1].entries[x[2]]
    IN  SumFunctionOnSet([x \in E |-> Delta(Chart[a].type, e(x).type, e(x).amount)], E)

(* The transactions of the receivable of sale k.                            *)
Settlements(k) == {t \in journal : t.type = "SETTLEMENT" /\ t.ref = k}
Reversals(k) == {t \in journal : t.type = "REVERSAL" /\ t.ref = k}

(* No header uses the prefixes transfer puts before its key.                *)
KeysNotReserved ==
    \A r \in Requests : r.op \notin {"transfer", "void"} => r.key[1] = ""

(* No two different requests use one key.                                   *)
KeysDistinct ==
    KeysNotReserved /\ \A r, q \in Requests : r.op # "void" /\ q.op # "void"
                         /\ (r.op = "transfer" <=> q.op = "transfer") /\ r.key = q.key => r = q

(* The keys of the transactions an answered request stands for.             *)
KeysOf(r) == CASE r.op = "transfer" -> {<<SEND, r.key>>, <<RECV, r.key>>}
               [] r.op = "void"     -> {}
               [] OTHER             -> {r.key}

-----------------------------------------------------------------------------
PartialFcn(f, D, R) == DOMAIN f \subseteq D /\ f \in [DOMAIN f -> R]

TypeOK ==
    /\ journal \subseteq Txn
    /\ account \in [Accounts -> Row]
    /\ receivable \in [TxnKeys -> ReceivableStatuses \cup {"none"}]
    /\ pc \in [Sessions -> {"idle", "sendkey", "recvkey", "resolve", "original", "key",
                            "period", "read", "lock", "settle", "cancel", "respond",
                            "commit", "done", "failed", "crashed"}]
    /\ request \in [Sessions -> Requests \cup {None}]
    /\ todo \in [Sessions -> Seq(Txn)]
    /\ cursor \in [Sessions -> Nat]
    /\ inserted \in [Sessions -> SUBSET Txn]
    /\ reply \in [Sessions -> {"none", "201", "404", "422", "500"}]
    /\ loaded = [s \in Sessions |-> loaded[s]]
    /\ dirty = [s \in Sessions |-> dirty[s]]
    /\ rcvWrites = [s \in Sessions |-> rcvWrites[s]]
    /\ \A s \in Sessions :
         /\ PartialFcn(loaded[s], Accounts, Row)
         /\ PartialFcn(dirty[s], Accounts, DirtyRow)
         /\ PartialFcn(rcvWrites[s], TxnKeys, ReceivableStatuses)

(* SELECT FOR UPDATE: two sessions never have one account row locked, and   *)
(* so never have uncommitted changes of one row.                            *)
OneLockPerRow ==
    \A s, u \in Sessions : DOMAIN dirty[s] \cap DOMAIN dirty[u] # {} => s = u

(* Idempotency: however often and however concurrently a request is sent,   *)
(* a key stands for one transaction, counting the uncommitted ones.         *)
OneTxnPerKey ==
    \A t, u \in journal \cup UNION {inserted[s] : s \in Sessions} : t.key = u.key => t = u

(* A transfer books both legs or none, unless a client forges its keys.     *)
TransferAllOrNothing ==
    KeysNotReserved =>
      \A k \in Keys : KeyUsed(journal, <<SEND, k>>) <=> KeyUsed(journal, <<RECV, k>>)

(* What the two legs of transfers book on the transfer accounts cancels     *)
(* across all entities, as the documents want of 9.9.998.  (A leg that is   *)
(* reversed by itself still breaks the balance of the accounts.)            *)
TransfersNetZero ==
    KeysNotReserved =>
      LET legs == {t \in journal : t.key[1] \in {SEND, RECV}}
          booked(t, type) == SumOver(t.entries, {i \in DOMAIN t.entries :
                                /\ t.entries[i].code = ACC_TRANSFER
                                /\ t.entries[i].type = type})
      IN  SumFunctionOnSet([t \in legs |-> booked(t, "DEBIT") - booked(t, "CREDIT")], legs) = 0

(* The key README recommends for a reversal names the original.             *)
ReversalKeysRecommended ==
    KeysDistinct /\ \A r, q \in Requests :
      r.op = "reverse" /\ q.op = "reverse" => (r.key = q.key <=> r.txn = q.txn)

(* Under such keys a transaction is reversed at most once, however often    *)
(* and concurrently that is asked for, and the two of them together move    *)
(* no account.                                                              *)
ReversalsCancel ==
    ReversalKeysRecommended =>
      \A t \in journal :
        /\ Cardinality(Reversals(t.key)) <= 1
        /\ \A u \in Reversals(t.key), a \in Accounts :
              LET both == {x \in EntriesOn(a) : x[1] \in {t, u}}
                  e(x) == x[1].entries[x[2]]
              IN  SumFunctionOnSet([x \in both |-> Delta(Chart[a].type, e(x).type, e(x).amount)],
                                   both) = 0

(* A receivable exists exactly for the committed sales that asked for one.  *)
ReceivableIffSale ==
    \A k \in TxnKeys : receivable[k] # "none" <=> \E t \in journal : t.key = k /\ t.expects

(* A receivable leaves PENDING only together with the settlement or the     *)
(* reversal that accounts for it, provided no key is used for two purposes. *)
ResolvedByItsTxn ==
    KeysDistinct =>
      \A k \in TxnKeys : /\ receivable[k] = "SETTLED" => Settlements(k) # {}
                         /\ receivable[k] = "CANCELLED" => Reversals(k) # {}

(* A client that got 201 from a handler that went on to commit finds its    *)
(* transactions in the journal, also when it was a replay.                  *)
AcknowledgedIsBooked ==
    \A s \in Sessions : pc[s] = "done" /\ reply[s] = "201" =>
        \A k \in KeysOf(request[s]) : KeyUsed(journal, k)

(* balance_version betrays a lost update: it is never ahead of the number   *)
(* of entries on the account, and where it equals it the balance is the sum *)
(* of the entries.                                                          *)
DriftShowsInVersion ==
    \A a \in Accounts :
        /\ account[a].version <= Cardinality(EntriesOn(a))
        /\ account[a].version = Cardinality(EntriesOn(a)) => account[a].balance = EntrySum(a)

(* The journal of the sessions is the journal of the abstract ledger.       *)
Abstract ==
    INSTANCE Journal WITH
        Valid <- {t \in Txn : Accepted(t)},
        Pairs <- IF KeysNotReserved THEN {<<<<SEND, k>>, <<RECV, k>>>> : k \in Keys} ELSE {}

RefinesJournal == Abstract!Spec

(* Every request a handler has begun is answered or lost with its worker:   *)
(* no wait for a lock or a key lasts forever.                               *)
SessionsFinish == \A s \in Sessions : (s \in BusySessions) ~> (pc[s] \in Over)

-----------------------------------------------------------------------------
(* One connection: current_balance is the sum of the account's entries and  *)
(* balance_version counts them.                                             *)
BalanceMatchesEntries ==
    \A a \in Accounts : account[a] = [balance |-> EntrySum(a),
                                      version |-> Cardinality(EntriesOn(a))]

(* One connection: within each entity and currency the accounts that grow   *)
(* on debits weigh as much as the ones that grow on credits.                *)
BooksBalance ==
    \A e \in Entities, c \in Currencies :
        LET A == {a \in Accounts : a[1] = e /\ Chart[a].currency = c}
            weight(a) == IF Chart[a].type \in {"ASSET", "EXPENSE"}
                         THEN account[a].balance ELSE -account[a].balance
        IN  SumFunctionOnSet([a \in A |-> weight(a)], A) = 0

(* One connection: nothing is booked on a date whose period is closed or    *)
(* locked.                                                                  *)
NoBookingInBlockedPeriod ==
    [][\A t \in journal' \ journal : ~Blocked(t.date)]_vars

(* One connection: a receivable is settled or cancelled once.               *)
ReceivableOneWay ==
    [][\A k \in TxnKeys : receivable[k] \in {"SETTLED", "CANCELLED"}
                          => receivable'[k] = receivable[k]]_vars

(* One connection: a sale with a receivable is settled or reversed at most  *)
(* once, also when clients use one key for both.                            *)
ResolvedOnce ==
    \A k \in TxnKeys : receivable[k] # "none" => Cardinality(Settlements(k) \cup Reversals(k)) <= 1

====
