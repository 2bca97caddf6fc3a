---- MODULE SerialProofs ----
(***************************************************************************)
(* What holds when the pool gives out one connection, so that requests run *)
(* one at a time: no postings in closed periods, a settled or cancelled    *)
(* receivable stays so and is resolved by one transaction, balances are    *)
(* the sums of their entries, and the books balance.                       *)
(***************************************************************************)
EXTENDS OriginProofs, PeriodsProofs

(* A step of the whole system is a step of Periods, so what PeriodsProofs   *)
(* shows of the period requests is true beside the postings.                *)
LEMMA PoolFinite ==
    /\ IsFiniteSet(BusySessions) /\ IsFiniteSet(BusyAdmins)
    /\ Cardinality(BusySessions) \in Nat /\ Cardinality(BusyAdmins) \in Nat
<1>1. IsFiniteSet(BusySessions)
  BY SessionsAssumption, FS_Subset DEF BusySessions
<1>2. IsFiniteSet(BusyAdmins)
  BY PeriodsAssumption, FS_Subset DEF BusyAdmins
<1> QED
  BY <1>1, <1>2, FS_CardinalityType

(* A handler of the ledger changes nothing of the periods.                  *)
LEMMA StepOfSession ==
    ASSUME NEW s \in Sessions, SessionMove(s) PROVE UNCHANGED periodVars
<1> USE DEF others, work
<1>1. ASSUME NEW code, Fail(s, code) PROVE UNCHANGED periodVars
  BY <1>1 DEF Fail
<1>2. CASE Begin(s) \/ LookupSendKey(s) \/ LookupRecvKey(s) \/ LookupKey(s) \/ LockAndApply(s)
           \/ Respond(s) \/ Commit(s) \/ Crash(s)
  BY <1>2 DEF Begin, LookupSendKey, LookupRecvKey, LookupKey, LockAndApply, Respond, Commit,
     Crash
<1>3. CASE ResolveAccounts(s) \/ LoadOriginal(s) \/ VoidTransaction(s) \/ CheckPeriod(s)
           \/ ReadAccount(s)
  BY <1>1, <1>3 DEF ResolveAccounts, LoadOriginal, VoidTransaction, CheckPeriod, ReadAccount
<1>4. CASE InsertTransaction(s) \/ FinishPost(s)
  BY <1>1, <1>4, InsertCases, FinishCases DEF Inserts, Finishes
<1>5. CASE SettleReceivable(s) \/ CancelReceivable(s) \/ AbortDeadlocked(s)
  BY <1>1, <1>5, ResolveCases DEF Resolves, AbortDeadlocked
<1> QED
  BY <1>2, <1>3, <1>4, <1>5 DEF SessionMove, SessionStep

(* Seen from the periods, every step is one of Periods or a stutter.        *)
LEMMA StepOfPeriods == [Next]_vars => [PeriodsNext]_periodVars
<1> SUFFICES ASSUME [Next]_vars, periodVars' # periodVars PROVE PeriodsNext
  OBVIOUS
<1>2. ASSUME NEW a \in Admins, AdminMove(a) PROVE PeriodsNext
  <2>1. PoolHasRoom => Cardinality(BusyAdmins) < Connections
    <3>1. \A m, n, c \in Nat : m + n < c => n < c
      OBVIOUS
    <3> QED
      BY <3>1, PoolFinite, PeriodsAssumption DEF PoolHasRoom
  <2> QED
    BY <1>2, <2>1 DEF AdminMove, PeriodsNext
<1> QED
  BY StepOfSession, <1>2 DEF Next, SessionMove, Quiet, vars

(* The period rows keep one writer and their types beside the postings.     *)
THEOREM RowInvariantOfLedger == Spec => []RowInv
<1>1. Init => RowInv
  BY RowInvInit DEF Init
<1>2. RowInv /\ [Next]_vars => RowInv'
  BY StepOfPeriods, RowInvStep
<1> QED
  BY <1>1, <1>2, PTL DEF Spec

-----------------------------------------------------------------------------
(* One handler at a time, and then what it found still holds at its commit. *)
OneAtATime ==
    /\ \A s, u \in BusySessions : s = u
    /\ BusySessions # {} => BusyAdmins = {}

NothingHeld(s) ==
    pc[s] \in {"idle"} \cup Over => inserted[s] = {} /\ DOMAIN rcvWrites[s] = {}

StillOpen(s) ==
    /\ \A t \in inserted[s] : ~Blocked(t.date)
    /\ pc[s] = "read" => ~Blocked(Current(s).date)

StillPending(s) == \A k \in DOMAIN rcvWrites[s] : receivable[k] \in {"none", "PENDING"}

OneByOne ==
    /\ KeyInv /\ SaleInv /\ RowInv /\ OneAtATime
    /\ \A s \in Sessions : NothingHeld(s) /\ StillOpen(s) /\ StillPending(s)

LEMMA EmptyPool == ASSUME Connections = 1, PoolHasRoom PROVE BusySessions = {} /\ BusyAdmins = {}
<1>1. \A m, n \in Nat : m + n < 1 => m = 0 /\ n = 0
  OBVIOUS
<1>2. Cardinality(BusySessions) = 0 /\ Cardinality(BusyAdmins) = 0
  BY <1>1, PoolFinite DEF PoolHasRoom
<1> QED
  BY <1>2, PoolFinite, FS_EmptySet

(* A handler that moves has the connection.                                 *)
LEMMA MoverIsBusy ==
    ASSUME NEW s \in Sessions, SessionStep(s) \/ Crash(s) PROVE s \in BusySessions
  BY ResolveCases, InsertCases, FinishCases
     DEF SessionStep, LookupSendKey, LookupRecvKey, ResolveAccounts, LoadOriginal, VoidTransaction,
     LookupKey, CheckPeriod, ReadAccount, LockAndApply, Respond, Commit, AbortDeadlocked,
     InDeadlock, Crash, BusySessions, Over

(* While it moves, no other handler has anything.                           *)
LEMMA MovesOneByOne ==
    ASSUME Connections = 1, OneByOne, NEW s \in Sessions, SessionMove(s)
    PROVE  OneAtATime' /\ \A u \in Sessions \ {s} : NothingHeld(u)' /\ inserted'[u] = {}
                                                  /\ DOMAIN rcvWrites'[u] = {} /\ pc'[u] # "read"
<1>1. BusySessions \subseteq {s} /\ BusyAdmins = {}
  BY EmptyPool, MoverIsBusy DEF OneByOne, OneAtATime, SessionMove, Begin
<1>2. ASSUME NEW u \in Sessions \ {s}
      PROVE  /\ pc'[u] = pc[u] /\ inserted'[u] = inserted[u] /\ rcvWrites'[u] = rcvWrites[u]
             /\ pc[u] \in {"idle"} \cup Over
  BY <1>1, <1>2, MoveKeeps DEF OneByOne, KeyInv, ShapeInv, OthersKeep, BusySessions
<1>3. BusySessions' \subseteq {s}
  BY <1>2 DEF BusySessions
<1>4. BusyAdmins' = {}
  BY <1>1, StepOfSession DEF BusyAdmins, periodVars
<1> QED
  BY <1>2, <1>3, <1>4 DEF OneAtATime, OneByOne, NothingHeld, Over

(* It keeps to a period that is still open and a receivable that is still   *)
(* pending.                                                                 *)
LEMMA MoverStillOpen ==
    ASSUME OneByOne, NEW s \in Sessions, SessionMove(s)
    PROVE  NothingHeld(s)' /\ StillOpen(s)' /\ StillPending(s)'
<1>0. /\ ShapeInv /\ SaleWrites(s) /\ NothingHeld(s) /\ StillOpen(s) /\ StillPending(s)
      /\ \A d : Blocked(d)' <=> Blocked(d)
  BY StepOfSession DEF OneByOne, SaleInv, Blocked, periodVars
<1>1. CASE Proceeds(s)
  <2>1. Current(s)' = Current(s) \/ pc'[s] # "read"
    BY <1>1 DEF Proceeds, Current
  <2> QED
    BY <1>0, <1>1, <2>1 DEF Proceeds, NothingHeld, StillOpen, StillPending, Over, Postable
<1>2. CASE Inserts(s)
  <2>1. /\ pc[s] = "read" /\ pc'[s] = "lock" /\ UNCHANGED <<receivable, rcvWrites>>
        /\ inserted'[s] = inserted[s] \cup {Current(s)}
    BY <1>0, <1>2 DEF Inserts, others, tables, ShapeInv, TypeOK
  <2> QED
    BY <1>0, <2>1 DEF NothingHeld, StillOpen, StillPending, Over
<1>3. CASE Finishes(s)
  <2>1. /\ pc[s] = "lock" /\ pc'[s] \in {"key", "settle", "cancel", "respond"}
        /\ UNCHANGED <<receivable, inserted>>
    BY <1>0, <1>3, NextPayloadShape DEF Finishes, others, tables
  <2>2. DOMAIN rcvWrites'[s] \subseteq DOMAIN rcvWrites[s] \cup {Current(s).key}
    BY <1>0, <1>3 DEF Finishes, Put, ShapeInv, TypeOK
  <2>3. receivable[Current(s).key] = "none"
    <3>1. Current(s) \in inserted[s] /\ Current(s).key \in TxnKeys
      BY <1>0, <2>1, CurrentType DEF SaleWrites, Txn
    <3>2. ~KeyUsed(journal, Current(s).key)
      BY <3>1 DEF OneByOne, KeyInv, KeysApart
    <3> QED
      BY <3>1, <3>2 DEF OneByOne, SaleInv, ReceivableIffSale, KeyUsed
  <2> QED
    BY <1>0, <2>1, <2>2, <2>3 DEF NothingHeld, StillOpen, StillPending, Over
<1>4. CASE Resolves(s)
  <2> DEFINE k == IF pc[s] = "settle" THEN request[s].receivable ELSE request[s].txn
  <2>1. /\ pc'[s] = "respond" /\ UNCHANGED <<receivable, inserted>>
        /\ \/ rcvWrites' = rcvWrites
           \/ DOMAIN rcvWrites'[s] = DOMAIN rcvWrites[s] \cup {k} /\ receivable[k] = "PENDING"
    BY <1>0, <1>4 DEF Resolves, Put, others, tables, ShapeInv, TypeOK
  <2> HIDE DEF k
  <2> QED
    BY <1>0, <2>1 DEF NothingHeld, StillOpen, StillPending, Over
<1>5. CASE Commit(s) \/ Drops(s)
  <2>1. pc'[s] # "read" /\ inserted'[s] = {} /\ DOMAIN rcvWrites'[s] = {}
    BY <1>0, <1>5, ReleaseKeeps DEF Commit, Goto, Drops, ShapeInv, TypeOK, EmptyFcn
  <2> QED
    BY <2>1 DEF NothingHeld, StillOpen, StillPending
<1> QED
  BY <1>0, <1>1, <1>2, <1>3, <1>4, <1>5, SaleKinds

(* While an administrator moves, no handler has anything.                   *)
LEMMA AdminOneByOne ==
    ASSUME Connections = 1, OneByOne, NEW a \in Admins, AdminMove(a), UNCHANGED ledgerVars
    PROVE  OneAtATime' /\ \A s \in Sessions : NothingHeld(s)' /\ StillOpen(s)' /\ StillPending(s)'
<1>1. UNCHANGED <<pc, inserted, rcvWrites, receivable, todo>> /\ BusySessions' = BusySessions
  BY DEF ledgerVars, tables, sessionVars, work, BusySessions
<1>2. BusySessions = {}
  <2>1. CASE BeginJob(a) /\ PoolHasRoom
    BY <2>1, EmptyPool
  <2>2. CASE AdminStep(a) \/ CrashAdmin(a)
    BY <2>2 DEF AdminStep, ReadPeriod, SavePeriod, CommitPeriod, CrashAdmin, BusyAdmins,
       OneByOne, OneAtATime
  <2> QED
    BY <2>1, <2>2 DEF AdminMove
<1>3. \A s \in Sessions : pc[s] \in {"idle"} \cup Over
  BY <1>2 DEF BusySessions
<1>4. \A s \in Sessions : inserted[s] = {} /\ DOMAIN rcvWrites[s] = {} /\ pc[s] # "read"
  BY <1>3 DEF OneByOne, NothingHeld, Over
<1> QED
  BY <1>1, <1>2, <1>4 DEF OneAtATime, NothingHeld, StillOpen, StillPending

(* Every step keeps the invariant.                                          *)
LEMMA OneByOneStep ==
    ASSUME Connections = 1, OneByOne, [Next]_vars PROVE OneByOne'
<1>1. KeyInv' /\ SaleInv' /\ RowInv'
  BY KeyStep, SaleStep, StepOfPeriods, RowInvStep DEF OneByOne
<1>2. CASE UNCHANGED vars
  BY <1>1, <1>2 DEF vars, ledgerVars, tables, sessionVars, work, periodVars, OneByOne, OneAtATime,
     NothingHeld, StillOpen, StillPending, BusySessions, BusyAdmins, Blocked, Current
<1>3. ASSUME NEW s \in Sessions, SessionMove(s) PROVE OneByOne'
  <2>1. ASSUME NEW u \in Sessions \ {s} PROVE NothingHeld(u)' /\ StillOpen(u)' /\ StillPending(u)'
    BY <1>3, MovesOneByOne DEF StillOpen, StillPending
  <2> QED
    BY <1>1, <1>3, <2>1, MovesOneByOne, MoverStillOpen DEF OneByOne
<1>4. ASSUME NEW a \in Admins, AdminMove(a), UNCHANGED ledgerVars PROVE OneByOne'
  BY <1>1, <1>4, AdminOneByOne DEF OneByOne
<1> QED
  BY <1>2, <1>3, <1>4 DEF Next, SessionMove, Quiet

(* It holds at the start.                                                   *)
LEMMA OneByOneInit == Init => OneByOne
  BY KeyInit, SaleInit, RowInvInit
     DEF Init, LedgerInit, PeriodsInit, OneByOne, OneAtATime, NothingHeld, StillOpen, StillPending,
     BusySessions, BusyAdmins, EmptyFcn

-----------------------------------------------------------------------------
(* One connection: nothing is booked on a date whose period is closed.      *)
THEOREM SerialPeriodsRespected == Connections = 1 => (Spec => NoBookingInBlockedPeriod)
<1> SUFFICES ASSUME Connections = 1 PROVE Spec => NoBookingInBlockedPeriod
  OBVIOUS
<1>1. OneByOne /\ [Next]_vars => OneByOne'
  BY OneByOneStep
<1>2. OneByOne /\ [Next]_vars => [\A t \in journal' \ journal : ~Blocked(t.date)]_vars
  <2> SUFFICES ASSUME OneByOne, [Next]_vars, NEW t \in journal' \ journal PROVE ~Blocked(t.date)
    OBVIOUS
  <2>1. PICK s \in Sessions : Commit(s)
    BY StepCases, Kinds DEF OneByOne, KeyInv, KeepsWrites, Inserts, Drops, others, tables, ledgerVars
  <2> QED
    BY <2>1 DEF Commit, OneByOne, StillOpen
<1> QED
  BY <1>1, <1>2, OneByOneInit, PTL DEF Spec, NoBookingInBlockedPeriod

(* One connection: a receivable is settled or cancelled once.               *)
THEOREM SerialReceivablesOnce == Connections = 1 => (Spec => ReceivableOneWay)
<1> SUFFICES ASSUME Connections = 1 PROVE Spec => ReceivableOneWay
  OBVIOUS
<1>1. OneByOne /\ [Next]_vars => OneByOne'
  BY OneByOneStep
<1>2. OneByOne /\ [Next]_vars =>
        [\A k \in TxnKeys : receivable[k] \in {"SETTLED", "CANCELLED"}
                            => receivable'[k] = receivable[k]]_vars
  <2> SUFFICES ASSUME OneByOne, [Next]_vars, NEW k \in TxnKeys,
                      receivable[k] \in {"SETTLED", "CANCELLED"}
               PROVE  receivable'[k] = receivable[k]
    OBVIOUS
  <2>1. ASSUME NEW s \in Sessions, Commit(s) PROVE receivable'[k] = receivable[k]
    <3>1. k \notin DOMAIN rcvWrites[s]
      BY DEF OneByOne, StillPending
    <3> QED
      BY <2>1, <3>1 DEF Commit
  <2>2. CASE receivable' = receivable
    BY <2>2
  <2> QED
    BY <2>1, <2>2, StepCases, Kinds DEF OneByOne, KeyInv, KeepsWrites, Inserts, Drops, others,
       tables, ledgerVars
<1> QED
  BY <1>1, <1>2, OneByOneInit, PTL DEF Spec, ReceivableOneWay

-----------------------------------------------------------------------------
(* One connection: every version counts the account's entries, and a row a  *)
(* session has read is the committed one.                                   *)
UpToDate(s) ==
    /\ pc[s] \in {"idle"} \cup Over => DOMAIN loaded[s] = {}
    /\ \A a \in DOMAIN loaded[s] : loaded[s][a].version = account[a].version

CountInv ==
    /\ BalanceInv /\ OneByOne
    /\ \A a \in Accounts : account[a].version = Cardinality(EntriesOn(a))
    /\ \A s \in Sessions : UpToDate(s)

(* A commit keeps the count: nobody else has written since the session read *)
(* its rows.                                                                *)
LEMMA CommitCounts ==
    ASSUME CountInv, NEW s \in Sessions, Commit(s), NEW a \in Accounts
    PROVE  account'[a].version = Cardinality(EntriesOn(a)')
<1>1. Cardinality(EntriesOn(a)') = Cardinality(EntriesOn(a)) + Cardinality(AppliedTo(s, a))
  BY CommitEntries DEF CountInv
<1>2. /\ account[a].version = Cardinality(EntriesOn(a)) /\ Cardinality(EntriesOn(a)) \in Nat
      /\ Cardinality(AppliedTo(s, a)) \in Nat
  BY BookedFinite DEF CountInv, BalanceInv
<1>3. CASE a \notin DOMAIN dirty[s]
  <2>1. account'[a] = account[a] /\ AppliedTo(s, a) = {}
    BY <1>3, CommitRow DEF CountInv
  <2>2. Cardinality(AppliedTo(s, a)) = 0
    BY <2>1, SignedEmpty
  <2> QED
    BY <1>1, <1>2, <2>1, <2>2
<1>4. CASE a \in DOMAIN dirty[s]
  <2>1. account'[a].version = loaded[s][a].version + Cardinality(AppliedTo(s, a))
    BY <1>4, CommitRow DEF CountInv
  <2>2. a \in DOMAIN loaded[s]
    BY <1>4 DEF CountInv, BalanceInv, Tally
  <2> QED
    BY <1>1, <1>2, <2>1, <2>2 DEF CountInv, UpToDate
<1> QED
  BY <1>3, <1>4

(* The rows a handler has loaded are the committed ones.                    *)
LEMMA MoverUpToDate ==
    ASSUME CountInv, NEW s \in Sessions, SessionMove(s) PROVE UpToDate(s)'
<1>0. ShapeInv /\ UpToDate(s)
  BY DEF CountInv, OneByOne, KeyInv
<1>1. CASE KeepsRows(s)
  BY <1>0, <1>1 DEF KeepsRows, UpToDate
<1>2. CASE Loads(s)
  <2>1. PICK as \in SUBSET Accounts : Load(s, as)
    BY <1>2 DEF Loads
  <2>2. loaded'[s] = [a \in DOMAIN loaded[s] \cup as |->
                        IF a \in DOMAIN loaded[s] THEN loaded[s][a] ELSE account[a]]
    BY <1>0, <2>1 DEF Load, ShapeInv, TypeOK
  <2> QED
    BY <1>0, <1>2, <2>2 DEF Loads, UpToDate
<1>3. CASE Inserts(s) \/ LockAndApply(s) \/ Finishes(s)
  <2>1. UNCHANGED <<account, loaded>> /\ pc'[s] \notin {"idle"} \cup Over
    BY <1>0, <1>3, NextPayloadShape
       DEF Inserts, LockAndApply, Finishes, others, tables, ShapeInv, TypeOK, Over
  <2> QED
    BY <1>0, <2>1 DEF UpToDate
<1>4. CASE Commit(s) \/ Drops(s)
  <2>1. DOMAIN loaded'[s] = {}
    BY <1>0, <1>4, ReleaseKeeps DEF Commit, Drops, EmptyFcn, ShapeInv
  <2> QED
    BY <2>1 DEF UpToDate
<1> QED
  BY <1>0, <1>1, <1>2, <1>3, <1>4, RowKinds

(* Every step keeps the invariant.                                          *)
LEMMA CountStep ==
    ASSUME Connections = 1, CountInv, [Next]_vars PROVE CountInv'
<1>0. BalanceInv' /\ OneByOne'
  BY BalanceStep, OneByOneStep DEF CountInv
<1>1. CASE UNCHANGED ledgerVars
  <2>1. UNCHANGED <<journal, account, loaded, pc>>
    BY <1>1 DEF ledgerVars, tables, sessionVars, work
  <2> QED
    BY <1>0, <2>1, LedgerSame DEF CountInv, UpToDate
<1>2. ASSUME NEW s \in Sessions, SessionMove(s) PROVE CountInv'
  <2>0. BusySessions \subseteq {s}
    BY <1>2, EmptyPool, MoverIsBusy DEF CountInv, OneByOne, OneAtATime, SessionMove, Begin
  <2>1. ASSUME NEW u \in Sessions \ {s} PROVE UpToDate(u)'
    <3>1. pc'[u] = pc[u] /\ loaded'[u] = loaded[u]
      BY <1>2, MoveKeeps DEF CountInv, OneByOne, KeyInv, ShapeInv, OthersKeep
    <3>2. DOMAIN loaded[u] = {}
      BY <2>0 DEF BusySessions, CountInv, UpToDate
    <3> QED
      BY <3>1, <3>2 DEF UpToDate
  <2>2. \A a \in Accounts : account'[a].version = Cardinality(EntriesOn(a)')
    <3>1. CASE Commit(s)
      BY <3>1, CommitCounts
    <3>2. CASE UNCHANGED <<journal, account>>
      BY <3>2, LedgerSame DEF CountInv
    <3> QED
      BY <1>2, <3>1, <3>2, Kinds
         DEF CountInv, OneByOne, KeyInv, KeepsWrites, Inserts, Drops, others, tables
  <2> QED
    BY <1>0, <1>2, <2>1, <2>2, MoverUpToDate DEF CountInv
<1> QED
  BY <1>1, <1>2, StepCases

(* It holds at the start.                                                   *)
LEMMA CountInit == Init => CountInv
<1> SUFFICES ASSUME Init PROVE CountInv
  OBVIOUS
<1>1. ASSUME NEW a PROVE Cardinality(EntriesOn(a)) = 0
  <2>1. Contents(journal, a) = {}
    BY DEF Init, LedgerInit, Contents
  <2> QED
    BY <2>1, EntriesAsContents, SignedEmpty
<1> QED
  BY <1>1, BalanceInit, OneByOneInit DEF Init, LedgerInit, CountInv, UpToDate, EmptyFcn

(* A version that counts every entry vouches for the balance.               *)
LEMMA CountMeansMatch == CountInv => BalanceMatchesEntries
  BY DEF CountInv, BalanceInv, DriftShowsInVersion, KeyInv, ShapeInv, TypeOK, Row,
     BalanceMatchesEntries

(* One connection: current_balance is the sum of the account's entries and  *)
(* balance_version counts them.                                             *)
THEOREM SerialBalancesMatch == Connections = 1 => (Spec => []BalanceMatchesEntries)
<1> SUFFICES ASSUME Connections = 1 PROVE Spec => []BalanceMatchesEntries
  OBVIOUS
<1>1. CountInv /\ [Next]_vars => CountInv'
  BY CountStep
<1> QED
  BY <1>1, CountInit, CountMeansMatch, PTL DEF Spec

-----------------------------------------------------------------------------
(* The books balance because each transaction does: what a line moves,      *)
(* debits up and credits down, summed over the lines of one entity and      *)
(* currency by account and by transaction.                                  *)
Moved(x) == LET e == x[1].entries[x[2]] IN IF e.type = "DEBIT" THEN e.amount ELSE -e.amount
Moves == [x \in Lines |-> Moved(x)]

LEMMA MovesSummable ==
    ASSUME NEW E, IsFiniteSet(E), E \subseteq Lines PROVE Summable(Moves, E)
  BY LineParts DEF Summable, Moves, Moved, Entry

(* The lines of transaction t in currency c.                                *)
LinesIn(t, c) == {<<t, i>> : i \in {j \in DOMAIN t.entries : t.entries[j].currency = c}}

(* The lines of one side of a transaction add up to its total.              *)
LEMMA SideTotal ==
    ASSUME NEW t \in Txn, NEW c, NEW type \in EntryTypes,
           NEW I, I = {i \in DOMAIN t.entries : t.entries[i].type = type /\ t.entries[i].currency = c}
    PROVE  LET E == {<<t, i>> : i \in I}
           IN  /\ IsFiniteSet(E) /\ E \subseteq Lines /\ IsFiniteSet(I)
               /\ TotalOf(t.entries, type, c) \in Int
               /\ SumFunctionOnSet(Moves, E) = IF type = "DEBIT" THEN TotalOf(t.entries, type, c)
                                               ELSE -TotalOf(t.entries, type, c)
<1> DEFINE E == {<<t, i>> : i \in I}
           pair == [i \in I |-> <<t, i>>]
           amount == [i \in I |-> t.entries[i].amount]
           signed == [i \in I |-> IF type = "DEBIT" THEN amount[i] ELSE -amount[i]]
<1>1. /\ t.entries \in Seq(Entry) /\ DOMAIN t.entries = 1 .. Len(t.entries)
      /\ Len(t.entries) \in Nat
  BY LenProperties DEF Txn
<1>2. IsFiniteSet(I)
  <2>1. IsFiniteSet(1 .. Len(t.entries))
    BY <1>1, FS_Interval
  <2> QED
    BY <1>1, <2>1, FS_Subset
<1>3. E = {pair[i] : i \in I}
  OBVIOUS
<1>4. IsFiniteSet(E)
  <2>1. IsFiniteSet({pair[i] : i \in I})
    <3> HIDE DEF pair
    <3> QED
      BY <1>2, FiniteImage
  <2> QED
    BY <1>3, <2>1
<1>5. \A i \in I : <<t, i>> \in Lines
  <2> SUFFICES ASSUME NEW i \in I PROVE <<t, i>> \in Lines
    OBVIOUS
  <2>1. <<t, i>> \in {t} \X DOMAIN t.entries
    OBVIOUS
  <2> QED
    BY <2>1 DEF Lines
<1>6. \A i \in I : t.entries[i] \in Entry /\ t.entries[i].type = type
  BY <1>1, ElementOfSeq
<1>7. ASSUME NEW i \in I
      PROVE  amount[i] \in Int /\ signed[i] \in Int /\ Moves[pair[i]] = signed[i]
  <2>1. amount[i] = t.entries[i].amount /\ amount[i] \in Int
    BY <1>6 DEF Entry
  <2>2. Moves[<<t, i>>] = IF type = "DEBIT" THEN t.entries[i].amount ELSE -t.entries[i].amount
    BY <1>5, <1>6 DEF Moves, Moved
  <2>3. signed[i] = (IF type = "DEBIT" THEN amount[i] ELSE -amount[i]) /\ pair[i] = <<t, i>>
    OBVIOUS
  <2> HIDE DEF amount, signed, pair
  <2> QED
    BY <2>1, <2>2, <2>3
<1>8. \A i, j \in I : pair[i] = pair[j] => i = j
  OBVIOUS
<1>9. SumFunctionOnSet(Moves, {pair[i] : i \in I}) = SumFunctionOnSet(signed, I)
  <2>1. \A i \in I : Moves[pair[i]] = signed[i] /\ signed[i] \in Int
    BY <1>7
  <2> HIDE DEF pair, signed
  <2> QED
    BY <1>2, <2>1, <1>8, SumRenamed
<1>10. TotalOf(t.entries, type, c) = SumFunctionOnSet(amount, I)
  BY DEF TotalOf, SumOver
<1>11. Summable(amount, I)
  BY <1>2, <1>7 DEF Summable
<1>12. SumFunctionOnSet(amount, I) \in Int
  <2> HIDE DEF amount
  <2> QED
    BY <1>11, SumType
<1>13. CASE type = "DEBIT"
  <2>1. \A i \in I : amount[i] = signed[i]
    BY <1>13
  <2>2. SumFunctionOnSet(amount, I) = SumFunctionOnSet(signed, I)
    <3> HIDE DEF amount, signed
    <3> QED
      BY <1>11, <2>1, SumSame
  <2> QED
    BY <1>2, <1>3, <1>4, <1>5, <1>9, <1>10, <1>12, <1>13, <2>2
<1>14. CASE type # "DEBIT"
  <2>1. \A i \in I : signed[i] = -amount[i]
    BY <1>14
  <2>2. SumFunctionOnSet(signed, I) = -SumFunctionOnSet(amount, I)
    <3> HIDE DEF amount, signed
    <3> QED
      BY <1>11, <2>1, SumNegated
  <2> QED
    BY <1>2, <1>3, <1>4, <1>5, <1>9, <1>10, <1>12, <1>14, <2>2
<1> QED
  BY <1>13, <1>14

(* A transaction that balances moves nothing in any currency.               *)
LEMMA BalancedMovesNothing ==
    ASSUME NEW t \in Txn, Balanced(t.entries), NEW c
    PROVE  Summable(Moves, LinesIn(t, c)) /\ SumFunctionOnSet(Moves, LinesIn(t, c)) = 0
<1> DEFINE I(type) == {i \in DOMAIN t.entries : t.entries[i].type = type /\ t.entries[i].currency = c}
           E(type) == {<<t, i>> : i \in I(type)}
           total(type) == TotalOf(t.entries, type, c)
<1>1. /\ IsFiniteSet(E("DEBIT")) /\ E("DEBIT") \subseteq Lines /\ total("DEBIT") \in Int
      /\ SumFunctionOnSet(Moves, E("DEBIT")) = total("DEBIT")
  BY SideTotal DEF EntryTypes
<1>2. /\ IsFiniteSet(E("CREDIT")) /\ E("CREDIT") \subseteq Lines /\ total("CREDIT") \in Int
      /\ SumFunctionOnSet(Moves, E("CREDIT")) = -total("CREDIT")
  BY SideTotal DEF EntryTypes
<1>3. LinesIn(t, c) = E("DEBIT") \cup E("CREDIT")
  <2>1. \A i \in DOMAIN t.entries : t.entries[i].type \in EntryTypes
    <3>1. t.entries \in Seq(Entry) /\ DOMAIN t.entries = 1 .. Len(t.entries)
      BY LenProperties DEF Txn
    <3>2. \A i \in DOMAIN t.entries : t.entries[i] \in Entry
      BY <3>1, ElementOfSeq
    <3> QED
      BY <3>2 DEF Entry
  <2> QED
    BY <2>1 DEF LinesIn, EntryTypes
<1>4. E("DEBIT") \cap E("CREDIT") = {}
  OBVIOUS
<1>5. Summable(Moves, E("DEBIT") \cup E("CREDIT"))
  <2>1. IsFiniteSet(E("DEBIT") \cup E("CREDIT")) /\ E("DEBIT") \cup E("CREDIT") \subseteq Lines
    <3> HIDE DEF E
    <3> QED
      BY <1>1, <1>2, FS_Union
  <2> HIDE DEF E
  <2> QED
    BY <2>1, MovesSummable
<1>6. total("DEBIT") = total("CREDIT")
  <2>1. CASE c \in {t.entries[i].currency : i \in DOMAIN t.entries}
    BY <2>1 DEF Balanced
  <2>2. CASE c \notin {t.entries[i].currency : i \in DOMAIN t.entries}
    <3>1. I("DEBIT") = {} /\ I("CREDIT") = {}
      BY <2>2
    <3> QED
      BY <3>1, SumEmpty DEF TotalOf, SumOver
  <2> QED
    BY <2>1, <2>2
<1>7. SumFunctionOnSet(Moves, E("DEBIT") \cup E("CREDIT")) = total("DEBIT") - total("CREDIT")
  <2> HIDE DEF E, total
  <2> QED
    BY <1>1, <1>2, <1>4, <1>5, SumUnion
<1> HIDE DEF E, total
<1> QED
  BY <1>1, <1>3, <1>5, <1>6, <1>7

(* An account that grows on debits weighs what its lines move, one that     *)
(* grows on credits the opposite.                                           *)
LEMMA WeightOfLines ==
    ASSUME NEW a \in Accounts, NEW E, IsFiniteSet(E), E \subseteq Lines
    PROVE  SumFunctionOnSet(Moves, E) =
             IF Chart[a].type \in {"ASSET", "EXPENSE"} THEN Signed(a, E) ELSE -Signed(a, E)
<1>1. Summable(Weighted(a, E), E)
  BY WeightedSummable
<1>2. \A x \in E : /\ x[1].entries[x[2]] \in Entry /\ x \in Lines
                   /\ Moves[x] = Moved(x) /\ Weighted(a, E)[x] = Weight(a, x)
  BY LineParts DEF Moves, Weighted
<1>3. CASE Chart[a].type \in {"ASSET", "EXPENSE"}
  <2>1. \A x \in E : Weighted(a, E)[x] = Moves[x]
    BY <1>2, <1>3 DEF Weight, Moved, Delta, Entry, EntryTypes
  <2>2. SumFunctionOnSet(Weighted(a, E), E) = SumFunctionOnSet(Moves, E)
    BY <1>1, <2>1, SumSame
  <2> QED
    BY <1>3, <2>2 DEF Signed
<1>4. CASE Chart[a].type \notin {"ASSET", "EXPENSE"}
  <2>1. \A x \in E : Moves[x] = -Weighted(a, E)[x]
    BY <1>2, <1>4 DEF Weight, Moved, Delta, Entry, EntryTypes
  <2>2. SumFunctionOnSet(Moves, E) = -SumFunctionOnSet(Weighted(a, E), E)
    BY <1>1, <2>1, SumNegated
  <2> QED
    BY <1>4, <2>2 DEF Signed
<1> QED
  BY <1>3, <1>4

(* The lines on the accounts of an entity and currency are the lines of     *)
(* that entity's transactions in that currency.                             *)
AccountsOf(e, c) == {a \in Accounts : a[1] = e /\ Chart[a].currency = c}
TxnsOf(e) == {t \in journal : t.entity = e}

LEMMA LinesBothWays ==
    ASSUME ValidInv, NEW e, NEW c
    PROVE  \A x : (\E a \in AccountsOf(e, c) : x \in Contents(journal, a))
                   <=> \E t \in TxnsOf(e) : x \in LinesIn(t, c)
<1> DEFINE A == AccountsOf(e, c)
           T == TxnsOf(e)
<1>1. \A t \in journal : OnChart(t) /\ CurrenciesMatch(t)
  BY DEF ValidInv, ShapeInv, Booked, Accepted
<1>2. ASSUME NEW x PROVE (\E a \in A : x \in Contents(journal, a)) <=> \E t \in T : x \in LinesIn(t, c)
  <2>1. ASSUME NEW t \in journal, NEW i \in DOMAIN t.entries
        PROVE  AccountAt(t, i) \in A <=> t \in T /\ t.entries[i].currency = c
    BY <1>1 DEF OnChart, CurrenciesMatch, AccountAt, AccountsOf, TxnsOf
  <2>2. (\E a \in A : x \in Contents(journal, a)) <=>
          \E t \in journal : \E i \in DOMAIN t.entries : x = <<t, i>> /\ AccountAt(t, i) \in A
    <3> HIDE DEF A
    <3> QED
      BY ContentsOf DEF AccountsOf
  <2>3. (\E t \in T : x \in LinesIn(t, c)) <=>
          \E t \in journal : \E i \in DOMAIN t.entries :
             x = <<t, i>> /\ t \in T /\ t.entries[i].currency = c
    BY DEF LinesIn, TxnsOf
  <2> QED
    BY <2>1, <2>2, <2>3
<1> QED
  BY <1>2

(* A balance is the weight of the entries on its account.                   *)
LEMMA BalanceIsSum ==
    ASSUME BalanceMatchesEntries, NEW a \in Accounts
    PROVE  account[a].balance = Signed(a, Contents(journal, a))
<1>1. account[a] = [balance |-> EntrySum(a), version |-> Cardinality(EntriesOn(a))]
  BY DEF BalanceMatchesEntries
<1>2. account[a].balance = EntrySum(a)
  BY <1>1
<1> QED
  BY <1>2, EntriesAsContents

(* The entries of one entity and currency balance, added up account by      *)
(* account.                                                                 *)
LEMMA BooksOfOne ==
    ASSUME BalanceInv, ValidInv, NEW e, NEW c,
           NEW A, A = AccountsOf(e, c), NEW w,
           \A a \in A : w[a] = SumFunctionOnSet(Moves, Contents(journal, a))
    PROVE  SumFunctionOnSet(w, A) = 0
<1>t. PICK T : T = TxnsOf(e)
  OBVIOUS
<1>1. IsFiniteSet(A) /\ A \subseteq Accounts
  BY ChartAssumption, FS_Subset DEF AccountsOf
<1>2. IsFiniteSet(T) /\ \A t \in T : t \in Txn /\ Accepted(t)
  <2>1. IsFiniteSet(T)
    BY <1>t, FS_Subset DEF BalanceInv, FiniteInv, TxnsOf
  <2> QED
    BY <1>t, <2>1 DEF ValidInv, ShapeInv, Booked, TypeOK, TxnsOf
<1>f. PICK F : F = [a \in A |-> Contents(journal, a)]
  OBVIOUS
<1>g. PICK G : G = [t \in T |-> LinesIn(t, c)]
  OBVIOUS
<1>3. ASSUME NEW a \in A
      PROVE  Summable(Moves, F[a]) /\ w[a] = SumFunctionOnSet(Moves, F[a])
  <2>1. IsFiniteSet(Contents(journal, a)) /\ Contents(journal, a) \subseteq Lines
    BY ContentsFinite, ContentsAreLines DEF BalanceInv, FiniteInv, KeyInv, ShapeInv, TypeOK
  <2> QED
    BY <1>f, <2>1, MovesSummable
<1>4. \A a, b \in A : a # b => F[a] \cap F[b] = {}
  BY <1>f, ContentsOf
<1>u. PICK U : U = UNION {F[a] : a \in A}
  OBVIOUS
<1>5. SumFunctionOnSet(Moves, U) = SumFunctionOnSet(w, A)
  <2>1. Parts(Moves, F, A, U)
    BY <1>1, <1>3, <1>4, <1>u DEF Parts
  <2> QED
    BY <1>3, <2>1, SumByParts
<1>6. \A x : x \in U <=> \E t \in T : x \in G[t]
  <2>1. \A x : (\E a \in A : x \in Contents(journal, a)) <=> \E t \in T : x \in LinesIn(t, c)
    BY <1>t, LinesBothWays
  <2>2. \A x : x \in U <=> \E a \in A : x \in Contents(journal, a)
    BY <1>u, <1>f
  <2> QED
    BY <1>g, <2>1, <2>2
<1>z. PICK z : z = [t \in T |-> 0]
  OBVIOUS
<1>7. \A t \in T : Summable(Moves, G[t]) /\ z[t] = SumFunctionOnSet(Moves, G[t])
  BY <1>2, <1>g, <1>z, BalancedMovesNothing DEF Accepted
<1>8. \A t, u \in T : t # u => G[t] \cap G[u] = {}
  BY <1>g DEF LinesIn
<1>9. SumFunctionOnSet(Moves, U) = SumFunctionOnSet(z, T)
  <2>1. Parts(Moves, G, T, U)
    BY <1>2, <1>6, <1>7, <1>8 DEF Parts
  <2> QED
    BY <1>7, <2>1, SumByParts
<1>10. SumFunctionOnSet(z, T) = 0
  BY <1>2, <1>z, SumZero
<1> QED
  BY <1>5, <1>9, <1>10

(* So do the balances, as each is the sum of its entries.                   *)
LEMMA BooksFollow ==
    ASSUME BalanceInv, ValidInv, BalanceMatchesEntries PROVE BooksBalance
<1> DEFINE weight(a) == IF Chart[a].type \in {"ASSET", "EXPENSE"}
                        THEN account[a].balance ELSE -account[a].balance
<1>1. ASSUME NEW a \in Accounts PROVE weight(a) = SumFunctionOnSet(Moves, Contents(journal, a))
  <2>1. IsFiniteSet(Contents(journal, a)) /\ Contents(journal, a) \subseteq Lines
    BY ContentsFinite, ContentsAreLines DEF BalanceInv, FiniteInv, KeyInv, ShapeInv, TypeOK
  <2>2. SumFunctionOnSet(Moves, Contents(journal, a)) =
          IF Chart[a].type \in {"ASSET", "EXPENSE"} THEN Signed(a, Contents(journal, a))
          ELSE -Signed(a, Contents(journal, a))
    BY <2>1, WeightOfLines
  <2> QED
    BY <2>2, BalanceIsSum
<1> SUFFICES ASSUME NEW e \in Entities, NEW c \in Currencies,
                    NEW A, A = AccountsOf(e, c), NEW w, w = [a \in A |-> weight(a)]
             PROVE  SumFunctionOnSet(w, A) = 0
  BY DEF BooksBalance, AccountsOf
<1>2. \A a \in A : w[a] = SumFunctionOnSet(Moves, Contents(journal, a))
  <2> HIDE DEF weight
  <2> QED
    BY <1>1 DEF AccountsOf
<1> HIDE DEF weight
<1> QED
  BY <1>2, BooksOfOne

(* One connection: the accounts of an entity in a currency that grow on     *)
(* debits weigh as much as those that grow on credits.                      *)
THEOREM SerialBooksBalance == Connections = 1 => (Spec => []BooksBalance)
<1> SUFFICES ASSUME Connections = 1 PROVE Spec => []BooksBalance
  OBVIOUS
<1>1. CountInv /\ [Next]_vars => CountInv'
  BY CountStep
<1>2. CountInv /\ ValidInv => BooksBalance
  BY BooksFollow, CountMeansMatch DEF CountInv
<1> QED
  BY <1>1, <1>2, CountInit, ValidInit, ValidStep, PTL DEF Spec

-----------------------------------------------------------------------------
(* One connection: what settles or reverses a sale.  A session that settles *)
(* or reverses has dealt with the receivable by the time it responds.       *)
Dealt(s, k) == k \in DOMAIN rcvWrites[s] /\ rcvWrites[s][k] # "PENDING"

Resolving(s) ==
    pc[s] \in {"respond", "commit"} =>
      /\ request[s].op = "settle" => Dealt(s, request[s].receivable)
      /\ request[s].op = "reverse" =>
            receivable[request[s].txn] = "none" \/ Dealt(s, request[s].txn)

Resolvers(k) == Settlements(k) \cup Reversals(k)

ResolvedAt(k) ==
    /\ receivable[k] = "PENDING" => Resolvers(k) = {}
    /\ receivable[k] # "none" => \A t, u \in Resolvers(k) : t = u
    /\ Settlements(k) # {} => receivable[k] # "none"
    /\ Reversals(k) # {} => KeyUsed(journal, k)

OnceInv ==
    /\ OneByOne /\ OriginInv
    /\ \A s \in Sessions : Resolving(s)
    /\ \A k \in TxnKeys : ResolvedAt(k)

(* Only the steps on the receivable lead settlements and reversals to their *)
(* response.                                                                *)
LEMMA WaysToRespond ==
    ASSUME ShapeInv, NEW s \in Sessions, SessionMove(s), pc'[s] \in {"respond", "commit"},
           request'[s].op \in {"settle", "reverse"}
    PROVE  Resolves(s) \/ (pc[s] \in {"respond", "commit"} /\ request' = request
                             /\ UNCHANGED <<receivable, rcvWrites>>)
<1> USE DEF others, tables, work, Goto
<1>1. ASSUME NEW code, Fail(s, code) PROVE FALSE
  BY <1>1 DEF Fail, ShapeInv, TypeOK
<1>2. CASE Begin(s)
  <2>1. PICK r \in Requests : pc'[s] = FirstStep(r)
    BY <1>2 DEF Begin, ShapeInv, TypeOK
  <2> QED
    BY <2>1 DEF FirstStep
<1>3. CASE LookupSendKey(s) \/ LookupRecvKey(s)
  BY <1>3 DEF LookupSendKey, LookupRecvKey, ShapeInv, TypeOK, AskedFor
<1>4. CASE LookupKey(s) \/ FinishPost(s)
  <2>1. CASE NextPayload(s) /\ request' = request
    <3>1. pc'[s] \in {"key", AfterPosts(s)}
      BY <2>1 DEF NextPayload, ShapeInv, TypeOK
    <3> QED
      BY <2>1, <3>1 DEF AfterPosts
  <2>2. CASE pc'[s] = "period"
    BY <2>2
  <2> QED
    BY <1>1, <1>4, <2>1, <2>2, FinishCases DEF LookupKey, Finishes, ShapeInv, TypeOK
<1>5. CASE ResolveAccounts(s) \/ LoadOriginal(s) \/ VoidTransaction(s) \/ CheckPeriod(s)
  BY <1>1, <1>5 DEF ResolveAccounts, LoadOriginal, VoidTransaction, CheckPeriod, ShapeInv, TypeOK
<1>6. CASE ReadAccount(s) \/ LockAndApply(s)
  BY <1>1, <1>6 DEF ReadAccount, LockAndApply
<1>7. CASE InsertTransaction(s)
  BY <1>1, <1>7, InsertCases DEF Inserts, ShapeInv, TypeOK
<1>8. CASE SettleReceivable(s) \/ CancelReceivable(s)
  BY <1>1, <1>8, ResolveCases
<1>9. CASE Respond(s)
  BY <1>9 DEF Respond
<1>10. CASE Commit(s) \/ AbortDeadlocked(s) \/ Crash(s)
  BY <1>1, <1>10 DEF Commit, AbortDeadlocked, Crash, ShapeInv, TypeOK
<1> QED
  BY <1>2, <1>3, <1>4, <1>5, <1>6, <1>7, <1>8, <1>9, <1>10 DEF SessionMove, SessionStep

(* A handler about to settle or reverse deals with the receivable, if any.  *)
LEMMA MoverResolving ==
    ASSUME OnceInv, NEW s \in Sessions, SessionMove(s) PROVE Resolving(s)'
<1>0. ShapeInv /\ Resolving(s) /\ AskedFor(s)
  BY DEF OnceInv, OriginInv, CoverInv, ShapeInv
<1> SUFFICES ASSUME pc'[s] \in {"respond", "commit"}, request'[s].op \in {"settle", "reverse"}
             PROVE  Resolving(s)'
  BY DEF Resolving
<1>1. CASE Resolves(s)
  <2>1. /\ UNCHANGED <<request, receivable>>
        /\ \/ pc[s] = "settle" /\ rcvWrites'[s] = Put(rcvWrites[s], request[s].receivable, "SETTLED")
           \/ pc[s] = "cancel" /\ receivable[request[s].txn] = "none"
           \/ pc[s] = "cancel" /\ rcvWrites'[s] = Put(rcvWrites[s], request[s].txn, "CANCELLED")
    BY <1>0, <1>1 DEF Resolves, others, tables, ShapeInv, TypeOK
  <2> QED
    BY <1>0, <2>1 DEF Resolving, Dealt, Put, AskedFor
<1>2. CASE pc[s] \in {"respond", "commit"} /\ request' = request /\ UNCHANGED <<receivable, rcvWrites>>
  BY <1>0, <1>2 DEF Resolving, Dealt
<1> QED
  BY <1>0, <1>1, <1>2, WaysToRespond

(* What a commit adds to the settlements and reversals of k: at most one    *)
(* transaction, with which a pending receivable stops being one.            *)
LEMMA CommitResolver ==
    ASSUME OnceInv, NEW s \in Sessions, Commit(s), NEW k \in TxnKeys,
           NEW t \in inserted[s], t.type \in {"SETTLEMENT", "REVERSAL"}, t.ref = k
    PROVE  /\ \A u \in inserted[s] : u = t
           /\ t.type = "SETTLEMENT" => k \in DOMAIN rcvWrites[s]
           /\ t.type = "REVERSAL" => KeyUsed(journal, k)
           /\ k \notin DOMAIN rcvWrites[s] => receivable[k] = "none"
           /\ k \in DOMAIN rcvWrites[s] => receivable[k] = "PENDING" /\ rcvWrites[s][k] # "PENDING"
<1>r. PICK r : r = request[s]
  OBVIOUS
<1>0. /\ ShapeInv /\ KeyInv /\ SaleWrites(s) /\ Resolving(s) /\ StillPending(s)
      /\ pc[s] = "commit" /\ r \in Requests /\ \A u \in inserted[s] : MadeFor(u, r)
  BY <1>r DEF OnceInv, OneByOne, KeyInv, SaleInv, Commit, OriginInv, FromRequest, ShapeInv, AskedFor
<1>1. /\ t.type = "SETTLEMENT" => r.op = "settle" /\ r.receivable = k
      /\ t.type = "REVERSAL" => r.op = "reverse" /\ r.txn = k
      /\ \A u \in inserted[s] : u.key = r.key /\ ~u.expects
  <2>1. r.op \in {"settle", "reverse"}
    BY <1>0, OriginSays
  <2> QED
    BY <1>0, <2>1, OriginSays
<1>2. \A u \in inserted[s] : u = t
  BY <1>0, <1>1 DEF KeyInv, KeysApart
<1>3. k \in DOMAIN rcvWrites[s] => receivable[k] = "PENDING"
  BY <1>0, <1>1 DEF SaleWrites, StillPending
<1>4. /\ t.type = "SETTLEMENT" => Dealt(s, k)
      /\ t.type = "REVERSAL" => receivable[k] = "none" \/ Dealt(s, k)
  BY <1>r, <1>0, <1>1 DEF Resolving
<1>5. t.type = "REVERSAL" => KeyUsed(journal, k)
  BY <1>0, <1>1 DEF MadeFor, PostsAtOnce, KeyUsed
<1>6. k \in DOMAIN rcvWrites[s] => rcvWrites[s][k] # "PENDING"
  BY <1>3, <1>4 DEF Dealt
<1> QED
  BY <1>2, <1>3, <1>4, <1>5, <1>6 DEF Dealt

(* After a commit, no receivable is resolved twice.                         *)
LEMMA CommitResolved ==
    ASSUME OnceInv, NEW s \in Sessions, Commit(s), NEW k \in TxnKeys PROVE ResolvedAt(k)'
<1>0. /\ ResolvedAt(k) /\ SaleInv /\ SaleWrites(s) /\ KeyInv /\ StillPending(s) /\ ShapeInv
      /\ journal' = journal \cup inserted[s]
      /\ receivable'[k] = IF k \in DOMAIN rcvWrites[s] THEN rcvWrites[s][k] ELSE receivable[k]
      /\ (receivable'[k] # "none" <=> receivable[k] # "none" \/ k \in DOMAIN rcvWrites[s])
  <2>1. SaleInv
    BY DEF OnceInv, OneByOne
  <2> QED
    BY <2>1, CommitReceivable DEF OnceInv, OneByOne, KeyInv, SaleInv, Commit
<1>1. CASE \E t \in inserted[s] : t.type \in {"SETTLEMENT", "REVERSAL"} /\ t.ref = k
  <2>1. PICK t \in inserted[s] : t.type \in {"SETTLEMENT", "REVERSAL"} /\ t.ref = k
    BY <1>1
  <2>2. /\ \A u \in inserted[s] : u = t
        /\ t.type = "SETTLEMENT" => k \in DOMAIN rcvWrites[s]
        /\ t.type = "REVERSAL" => KeyUsed(journal, k)
        /\ k \notin DOMAIN rcvWrites[s] => receivable[k] = "none"
        /\ k \in DOMAIN rcvWrites[s] => receivable[k] = "PENDING" /\ rcvWrites[s][k] # "PENDING"
    BY <2>1, CommitResolver
  <2>3. Resolvers(k)' \subseteq Resolvers(k) \cup {t}
    BY <1>0, <2>2 DEF Resolvers, Settlements, Reversals
  <2>4. receivable'[k] # "none" => Resolvers(k)' \subseteq {t}
    BY <1>0, <2>2, <2>3 DEF ResolvedAt
  <2>5. receivable'[k] # "PENDING"
    BY <1>0, <2>2
  <2>6. Settlements(k)' # {} => receivable'[k] # "none"
    BY <1>0, <2>2 DEF ResolvedAt, Settlements
  <2>7. Reversals(k)' # {} => KeyUsed(journal, k)'
    BY <1>0, <2>2 DEF ResolvedAt, Reversals, KeyUsed
  <2> QED
    BY <2>4, <2>5, <2>6, <2>7 DEF ResolvedAt
<1>2. CASE \A t \in inserted[s] : ~(t.type \in {"SETTLEMENT", "REVERSAL"} /\ t.ref = k)
  <2>1. Settlements(k)' = Settlements(k) /\ Reversals(k)' = Reversals(k)
    BY <1>0, <1>2 DEF Settlements, Reversals
  <2>2. k \in DOMAIN rcvWrites[s] => Resolvers(k) = {}
    <3>1. ASSUME k \in DOMAIN rcvWrites[s], receivable[k] = "none" PROVE Resolvers(k) = {}
      <4>1. ~KeyUsed(journal, k)
        BY <1>0, <3>1 DEF SaleWrites, KeyInv, KeysApart
      <4> QED
        BY <1>0, <3>1, <4>1 DEF ResolvedAt, Resolvers
    <3> QED
      BY <1>0, <3>1 DEF StillPending, ResolvedAt
  <2>3. Resolvers(k)' = Resolvers(k)
    BY <2>1 DEF Resolvers
  <2>4. receivable'[k] = "PENDING" => Resolvers(k)' = {}
    BY <1>0, <2>2, <2>3 DEF ResolvedAt
  <2>5. receivable'[k] # "none" => \A t, u \in Resolvers(k)' : t = u
    BY <1>0, <2>2, <2>3 DEF ResolvedAt
  <2>6. KeyUsed(journal, k) => KeyUsed(journal, k)'
    BY <1>0 DEF KeyUsed
  <2> QED
    BY <1>0, <2>1, <2>4, <2>5, <2>6 DEF ResolvedAt
<1> QED
  BY <1>1, <1>2

(* Every step keeps the invariant.                                          *)
LEMMA OnceStep == ASSUME Connections = 1, OnceInv, [Next]_vars PROVE OnceInv'
<1>0. OneByOne' /\ OriginInv' /\ ShapeInv
  BY OneByOneStep, OriginStep DEF OnceInv, OriginInv, CoverInv
<1>1. CASE UNCHANGED ledgerVars
  BY <1>0, <1>1 DEF ledgerVars, tables, sessionVars, work, OnceInv, Resolving, Dealt, ResolvedAt,
     Resolvers, Settlements, Reversals, KeyUsed
<1>2. ASSUME NEW s \in Sessions, SessionMove(s) PROVE OnceInv'
  <2>1. ASSUME NEW u \in Sessions \ {s} PROVE Resolving(u)'
    <3>1. pc'[u] = pc[u] /\ u \notin BusySessions
      <4>1. BusySessions \subseteq {s}
        BY <1>2, EmptyPool, MoverIsBusy DEF OnceInv, OneByOne, OneAtATime, SessionMove, Begin
      <4> QED
        BY <1>0, <1>2, <4>1, MoveKeeps DEF ShapeInv, OthersKeep
    <3> QED
      BY <3>1 DEF BusySessions, Over, Resolving
  <2>2. ASSUME NEW k \in TxnKeys PROVE ResolvedAt(k)'
    <3>1. CASE UNCHANGED <<journal, receivable>>
      BY <3>1 DEF OnceInv, ResolvedAt, Resolvers, Settlements, Reversals, KeyUsed
    <3> QED
      BY <1>0, <1>2, <3>1, CommitResolved, Kinds DEF KeepsWrites, Inserts, Drops, others, tables
  <2> QED
    BY <1>0, <1>2, <2>1, <2>2, MoverResolving DEF OnceInv
<1> QED
  BY <1>1, <1>2, StepCases

(* It holds at the start.                                                   *)
LEMMA OnceInit == Init => OnceInv
  BY OneByOneInit, OriginInit DEF Init, LedgerInit, OnceInv, Resolving, ResolvedAt, Resolvers,
     Settlements, Reversals

(* One connection: a sale with a receivable is settled or reversed at most  *)
(* once, whatever keys clients use.                                         *)
THEOREM SerialResolvedOnce == Connections = 1 => (Spec => []ResolvedOnce)
<1> SUFFICES ASSUME Connections = 1 PROVE Spec => []ResolvedOnce
  OBVIOUS
<1>1. OnceInv /\ [Next]_vars => OnceInv'
  BY OnceStep
<1>2. OnceInv => ResolvedOnce
  <2> SUFFICES ASSUME OnceInv, NEW k \in TxnKeys, receivable[k] # "none"
               PROVE  Cardinality(Settlements(k) \cup Reversals(k)) <= 1
    BY DEF ResolvedOnce
  <2>1. \A t, u \in Resolvers(k) : t = u
    BY DEF OnceInv, ResolvedAt
  <2>2. CASE Resolvers(k) = {}
    <3>1. Cardinality(Resolvers(k)) = 0
      BY <2>2, FS_EmptySet
    <3> QED
      BY <3>1 DEF Resolvers
  <2>3. CASE Resolvers(k) # {}
    <3>1. PICK t : Resolvers(k) = {t}
      BY <2>1, <2>3
    <3>2. Cardinality(Resolvers(k)) = 1
      BY <3>1, FS_Singleton
    <3> QED
      BY <3>2 DEF Resolvers
  <2> QED
    BY <2>2, <2>3
<1> QED
  BY <1>1, <1>2, OnceInit, PTL DEF Spec

====
