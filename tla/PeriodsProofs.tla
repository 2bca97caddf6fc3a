---- MODULE PeriodsProofs ----
(***************************************************************************)
(* Theorems about Periods, for any number of dates, handlers and requests. *)
(***************************************************************************)
EXTENDS Periods, FiniteSetTheorems, TLAPS

(* What OneWriterPerRow rests on, and what it buys: the row an uncommitted  *)
(* creation writes does not exist yet.                                      *)
CreationsPending ==
    \A a \in Admins : adminPc[a] = "commit" /\ job[a].op = "create" => period[job[a].date] = "none"

RowInv == PeriodsTypeOK /\ OneWriterPerRow /\ CreationsPending

LEMMA RowInvInit == PeriodsInit => RowInv
  BY PeriodsAssumption DEF PeriodsInit, RowInv, PeriodsTypeOK, OneWriterPerRow, CreationsPending

LEMMA JobTypes == PeriodsTypeOK => \A a \in Admins : job[a] \in Job
  BY PeriodsAssumption DEF PeriodsTypeOK

LEMMA RowInvStep == RowInv /\ [PeriodsNext]_periodVars => RowInv'
<1> SUFFICES ASSUME RowInv, [PeriodsNext]_periodVars PROVE RowInv'
  OBVIOUS
<1> USE DEF RowInv, PeriodsTypeOK, OneWriterPerRow, CreationsPending
<1>j. \A a \in Admins : job[a] \in Job
  BY JobTypes
<1>1. ASSUME NEW a \in Admins, BeginJob(a) PROVE RowInv'
  BY <1>1 DEF BeginJob, GoAdmin
<1>2. ASSUME NEW a \in Admins, ReadPeriod(a) PROVE RowInv'
  BY <1>2 DEF ReadPeriod, GoAdmin
<1>3. ASSUME NEW a \in Admins, SavePeriod(a) PROVE RowInv'
  BY <1>3 DEF SavePeriod, GoAdmin, RowHeldByOther
<1>4. ASSUME NEW a \in Admins, CommitPeriod(a) PROVE RowInv'
  <2>1. To(job[a].op) \in PeriodStatuses
    BY <1>j DEF To, Job, PeriodStatuses
  <2>2. ClosedByAfter(a) \in Admins \cup {None}
    BY <1>j DEF ClosedByAfter, Job
  <2>3. PeriodsTypeOK'
    BY <1>4, <2>1, <2>2 DEF CommitPeriod, GoAdmin
  <2>4. OneWriterPerRow'
    BY <1>4 DEF CommitPeriod, GoAdmin
  <2>5. CreationsPending'
    BY <1>4, <1>j DEF CommitPeriod, GoAdmin, Job
  <2> QED BY <2>3, <2>4, <2>5
<1>5. ASSUME NEW a \in Admins, CrashAdmin(a) PROVE RowInv'
  BY <1>5 DEF CrashAdmin, GoAdmin
<1>6. CASE UNCHANGED periodVars
  BY <1>6 DEF periodVars
<1> QED
  BY <1>1, <1>2, <1>3, <1>4, <1>5, <1>6 DEF PeriodsNext, AdminStep, AllJobsOver

(* The inductive invariant holds in every reachable state.                  *)
THEOREM RowInvariant == PeriodsSpec => []RowInv
  BY RowInvInit, RowInvStep, PTL DEF PeriodsSpec

(* The variables keep their types.                                          *)
THEOREM PeriodsTypeCorrect == PeriodsSpec => []PeriodsTypeOK
  BY RowInvariant, PTL DEF RowInv

(* However many requests overlap, a row has one uncommitted writer.         *)
THEOREM PeriodRowsExclusive == PeriodsSpec => []OneWriterPerRow
  BY RowInvariant, PTL DEF RowInv

(* However many requests overlap, creating a period never overwrites one.   *)
THEOREM PeriodCreationSafe == PeriodsSpec => CreationNeverOverwrites
<1>1. RowInv => [\A a \in Admins : job[a].op = "create" /\ adminPc[a] = "commit" /\ adminPc'[a] = "done"
                         => period[job[a].date] = "none"]_periodVars
  BY DEF RowInv, CreationsPending
<1> QED
  BY <1>1, RowInvariant, PTL DEF CreationNeverOverwrites

(* What closed_by says of the requests that are over.                       *)
LEMMA AuditStep ==
    ASSUME RowInv, AuditNamesCloser, [PeriodsNext]_periodVars PROVE AuditNamesCloser'
<1> USE DEF RowInv, PeriodsTypeOK, AuditNamesCloser
<1>1. \A a \in Admins : job[a] \in Job
  BY JobTypes
<1>2. ASSUME NEW a \in Admins, CommitPeriod(a) PROVE AuditNamesCloser'
  <2>1. SUFFICES ASSUME NEW d \in Dates
                 PROVE  /\ period'[d] \in {"none", "OPEN"} => closedBy'[d] = None
                        /\ period'[d] = "CLOSED" => closedBy'[d] # None
                        /\ closedBy'[d] # None => /\ job'[closedBy'[d]] = [op |-> "close", date |-> d]
                                                  /\ adminPc'[closedBy'[d]] = "done"
    OBVIOUS
  <2>2. \A b \in Admins : adminPc[b] = "done" => adminPc'[b] = "done"
    BY <1>2 DEF CommitPeriod, GoAdmin
  <2>3. CASE d # job[a].date
    BY <1>2, <2>2, <2>3 DEF CommitPeriod
  <2>4. CASE d = job[a].date
    <3>1. /\ period'[d] = To(job[a].op) /\ closedBy'[d] = ClosedByAfter(a)
          /\ job' = job /\ adminPc'[a] = "done"
      BY <1>2, <2>4 DEF CommitPeriod, GoAdmin
    <3>2. CASE job[a].op \in {"create", "reopen"}
      BY <3>1, <3>2, PeriodsAssumption DEF To, ClosedByAfter
    <3>3. CASE job[a].op = "close"
      <4>1. job[a] = [op |-> "close", date |-> d]
        BY <1>1, <2>4, <3>3 DEF Job
      <4> QED
        BY <3>1, <3>3, <4>1, PeriodsAssumption DEF To, ClosedByAfter
    <3>4. CASE job[a].op = "lock"
      BY <2>2, <2>4, <3>1, <3>4 DEF To, ClosedByAfter
    <3> QED
      BY <1>1, <3>2, <3>3, <3>4 DEF Job
  <2> QED
    BY <2>3, <2>4
<1>3. ASSUME NEW a \in Admins, BeginJob(a) \/ ReadPeriod(a) \/ SavePeriod(a) \/ CrashAdmin(a)
      PROVE  AuditNamesCloser'
  <2>1. /\ UNCHANGED <<period, closedBy, job>>
        /\ \A b \in Admins : adminPc[b] = "done" => adminPc'[b] = "done"
    BY <1>3 DEF BeginJob, ReadPeriod, SavePeriod, CrashAdmin, BusyAdmins, GoAdmin
  <2>2. \A d \in Dates : closedBy[d] # None => closedBy[d] \in Admins
    OBVIOUS
  <2> QED
    BY <2>1, <2>2
<1>4. CASE UNCHANGED periodVars
  BY <1>4 DEF periodVars
<1> QED
  BY <1>2, <1>3, <1>4 DEF PeriodsNext, AdminStep, AllJobsOver

(* However many requests overlap, closed_by agrees with the status.         *)
THEOREM AuditCorrect == PeriodsSpec => []AuditNamesCloser
<1>1. PeriodsInit => AuditNamesCloser
  BY DEF PeriodsInit, AuditNamesCloser
<1> QED
  BY <1>1, AuditStep, RowInvariant, PTL DEF PeriodsSpec

-----------------------------------------------------------------------------
(* One connection: a single request is under way, so what it read still     *)
(* holds when it commits.                                                   *)
OneBusyAdmin == \A a, b \in BusyAdmins : a = b

ReadsStillHold ==
    \A a \in Admins : adminPc[a] \in {"save", "commit"} /\ job[a].op # "create"
                      => period[job[a].date] = From(job[a].op)

SerialInv == RowInv /\ OneBusyAdmin /\ ReadsStillHold /\ BlockedIffClosedBy

LEMMA SerialInvInit == PeriodsInit => SerialInv
  BY RowInvInit DEF PeriodsInit, SerialInv, OneBusyAdmin, ReadsStillHold, BlockedIffClosedBy,
     BusyAdmins, Blocked

LEMMA IdlePool == ASSUME Cardinality(BusyAdmins) < 1 PROVE BusyAdmins = {}
<1>1. IsFiniteSet(BusyAdmins)
  BY PeriodsAssumption, FS_Subset DEF BusyAdmins
<1> QED
  BY <1>1, FS_CardinalityType, FS_EmptySet

LEMMA SerialInvStep ==
    ASSUME Connections = 1, SerialInv, [PeriodsNext]_periodVars PROVE SerialInv'
<1>0. RowInv'
  BY RowInvStep DEF SerialInv
<1> USE DEF SerialInv, RowInv, PeriodsTypeOK, OneBusyAdmin, ReadsStillHold, BlockedIffClosedBy,
        BusyAdmins, Blocked
<1>j. \A a \in Admins : job[a] \in Job
  BY JobTypes
<1>1. ASSUME NEW a \in Admins, Cardinality(BusyAdmins) < 1, BeginJob(a) PROVE SerialInv'
  <2>1. \A b \in Admins : adminPc[b] \notin {"read", "save", "commit"}
    BY <1>1, IdlePool
  <2> QED
    BY <1>1, <2>1, <1>0 DEF BeginJob, GoAdmin
<1>2. ASSUME NEW a \in Admins, ReadPeriod(a) PROVE SerialInv'
  BY <1>0, <1>2 DEF ReadPeriod, GoAdmin
<1>3. ASSUME NEW a \in Admins, SavePeriod(a) PROVE SerialInv'
  BY <1>0, <1>3 DEF SavePeriod, GoAdmin
<1>4. ASSUME NEW a \in Admins, CommitPeriod(a) PROVE SerialInv'
  <2>1. \A b \in Admins \ {a} : adminPc[b] \notin {"read", "save", "commit"}
    BY <1>4 DEF CommitPeriod
  <2>2. OneBusyAdmin' /\ ReadsStillHold'
    BY <1>4, <2>1 DEF CommitPeriod, GoAdmin
  <2>3. Blocked(job[a].date)' <=> closedBy'[job[a].date] # None
    BY <1>4, <1>j, PeriodsAssumption
       DEF CommitPeriod, GoAdmin, To, From, ClosedByAfter, Job
  <2>4. BlockedIffClosedBy'
    BY <1>4, <2>3 DEF CommitPeriod
  <2> QED
    BY <1>0, <2>2, <2>4
<1>5. ASSUME NEW a \in Admins, CrashAdmin(a) PROVE SerialInv'
  BY <1>0, <1>5 DEF CrashAdmin, GoAdmin
<1>6. CASE UNCHANGED periodVars
  BY <1>0, <1>6 DEF periodVars
<1> QED
  BY <1>1, <1>2, <1>3, <1>4, <1>5, <1>6 DEF PeriodsNext, AdminStep, AllJobsOver

(* One connection: the closed_by column agrees with the status.             *)
THEOREM SerialAudit == Connections = 1 => (PeriodsSpec => []BlockedIffClosedBy)
<1> SUFFICES ASSUME Connections = 1 PROVE PeriodsSpec => []BlockedIffClosedBy
  OBVIOUS
<1>1. SerialInv /\ [PeriodsNext]_periodVars => SerialInv'
  BY SerialInvStep
<1>2. SerialInv => BlockedIffClosedBy
  BY DEF SerialInv
<1> QED
  BY SerialInvInit, <1>1, <1>2, PTL DEF PeriodsSpec
====
