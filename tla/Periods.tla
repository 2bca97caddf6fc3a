---- MODULE Periods ----
(***************************************************************************)
(* The life of accounting_periods under PeriodService.  Every request runs *)
(* in a database transaction of its own at READ COMMITTED: close, reopen   *)
(* and lock read the row without locking it, decide on the status they     *)
(* read, and flush an UPDATE that names the row by its id alone.           *)
(***************************************************************************)
EXTENDS Calendar, Integers, FiniteSets

CONSTANTS
    Admins,       \* handlers of period requests; each serves one request
    Jobs,         \* the requests administrators may send
    Connections,  \* database connections the pool gives out at a time
    None          \* NULL

PeriodStatuses == {"OPEN", "CLOSED", "LOCKED"}
Job == [op : {"create", "close", "reopen", "lock"}, date : Dates]

ASSUME PeriodsAssumption ==
    /\ Jobs \subseteq Job
    /\ IsFiniteSet(Admins)
    /\ Connections \in Nat \ {0}
    /\ None \notin Admins

VARIABLES
    period,    \* date -> status of its row, "none" when it has no row
    closedBy,  \* date -> the row's closed_by
    adminPc,   \* admin -> where its handler is
    job        \* admin -> the request it serves

periodVars == <<period, closedBy, adminPc, job>>

Blocked(d) == period[d] \in {"CLOSED", "LOCKED"}

PeriodsInit ==
    /\ period = [d \in Dates |-> "none"]
    /\ closedBy = [d \in Dates |-> None]
    /\ adminPc = [a \in Admins |-> "idle"]
    /\ job \in [Admins -> Jobs]

BusyAdmins == {a \in Admins : adminPc[a] \in {"read", "save", "commit"}}

GoAdmin(a, where) == adminPc' = [adminPc EXCEPT ![a] = where]

BeginJob(a) ==
    /\ adminPc[a] = "idle"
    /\ GoAdmin(a, IF job[a].op = "create" THEN "save" ELSE "read")
    /\ UNCHANGED <<period, closedBy, job>>

(* The status a transition starts from and the one it leads to.             *)
From(op) == IF op = "close" THEN "OPEN" ELSE "CLOSED"
To(op) == CASE op \in {"create", "reopen"} -> "OPEN"
            [] op = "close"                -> "CLOSED"
            [] op = "lock"                 -> "LOCKED"

ReadPeriodPolling(a) ==
    /\ adminPc[a] = "read"
    /\ GoAdmin(a, IF period[job[a].date] = From(job[a].op) THEN "save" ELSE "read")
    /\ UNCHANGED <<period, closedBy, job>>

(* get_by_id and the status check: 404 without a row, 422 on a wrong status. *)
ReadPeriod(a) ==
    /\ adminPc[a] = "read"
    /\ GoAdmin(a, IF period[job[a].date] = From(job[a].op) THEN "save" ELSE "failed")
    /\ UNCHANGED <<period, closedBy, job>>

(* The row lock of an uncommitted UPDATE, or the index entry of an          *)
(* uncommitted INSERT.                                                      *)
RowHeldByOther(a) ==
    \E b \in Admins \ {a} : adminPc[b] = "commit" /\ job[b].date = job[a].date

SavePeriodUnflushed(a) ==
    /\ adminPc[a] = "save"
    /\ GoAdmin(a, IF job[a].op = "create" /\ period[job[a].date] # "none"
                  THEN "failed" ELSE "commit")
    /\ UNCHANGED <<period, closedBy, job>>
SavePeriodMerging(a) ==
    /\ adminPc[a] = "save"
    /\ ~RowHeldByOther(a)
    /\ GoAdmin(a, "commit")
    /\ UNCHANGED <<period, closedBy, job>>

(* save flushes.  A second row for a date breaks the unique constraint, and *)
(* create answers with DuplicatePeriodError.                                *)
SavePeriod(a) ==
    /\ adminPc[a] = "save"
    /\ ~RowHeldByOther(a)
    /\ GoAdmin(a, IF job[a].op = "create" /\ period[job[a].date] # "none"
                  THEN "failed" ELSE "commit")
    /\ UNCHANGED <<period, closedBy, job>>

ClosedByOperation(a) == job[a].op
ClosedByKept(a) == IF job[a].op = "close" THEN a ELSE closedBy[job[a].date]

(* lock leaves closed_by as it is in the row.                               *)
ClosedByAfter(a) ==
    CASE job[a].op = "close"                -> a
      [] job[a].op \in {"reopen", "create"} -> None
      [] job[a].op = "lock"                 -> closedBy[job[a].date]

CommitPeriod(a) ==
    /\ adminPc[a] = "commit"
    /\ period' = [period EXCEPT ![job[a].date] = To(job[a].op)]
    /\ closedBy' = [closedBy EXCEPT ![job[a].date] = ClosedByAfter(a)]
    /\ GoAdmin(a, "done")
    /\ UNCHANGED job

(* The worker dies, or loses the database, and the server rolls back.       *)
CrashAdmin(a) ==
    /\ a \in BusyAdmins
    /\ GoAdmin(a, "crashed")
    /\ UNCHANGED <<period, closedBy, job>>

AdminStep(a) == ReadPeriod(a) \/ SavePeriod(a) \/ CommitPeriod(a)

AllJobsOver ==
    /\ \A a \in Admins : adminPc[a] \in {"done", "failed", "crashed"}
    /\ UNCHANGED periodVars

PeriodsNext ==
    \/ \E a \in Admins : \/ Cardinality(BusyAdmins) < Connections /\ BeginJob(a)
                         \/ AdminStep(a)
                         \/ CrashAdmin(a)
    \/ AllJobsOver

PeriodsSpec ==
    /\ PeriodsInit
    /\ [][PeriodsNext]_periodVars
    /\ \A a \in Admins : WF_periodVars(AdminStep(a))

-----------------------------------------------------------------------------
PeriodsTypeOK ==
    /\ period \in [Dates -> PeriodStatuses \cup {"none"}]
    /\ closedBy \in [Dates -> Admins \cup {None}]
    /\ adminPc \in [Admins -> {"idle", "read", "save", "commit",
                               "done", "failed", "crashed"}]
    /\ job \in [Admins -> Jobs]

(* Two uncommitted writes never exist for one row: what the row lock of the *)
(* flushed UPDATE, and the unique index under INSERT, have to guarantee.    *)
OneWriterPerRow ==
    \A a, b \in Admins :
        adminPc[a] = "commit" /\ adminPc[b] = "commit" /\ job[a].date = job[b].date => a = b

(* A creation never overwrites the row of a date that already has one: a    *)
(* closed period cannot be opened again by posting it a second time.        *)
CreationNeverOverwrites ==
    [][\A a \in Admins : job[a].op = "create" /\ adminPc[a] = "commit" /\ adminPc'[a] = "done"
                         => period[job[a].date] = "none"]_periodVars

(* However requests overlap, an open row names no closer, a closed row      *)
(* names one, and whoever closed_by names has closed the row.               *)
AuditNamesCloser ==
    \A d \in Dates :
        /\ period[d] \in {"none", "OPEN"} => closedBy[d] = None
        /\ period[d] = "CLOSED" => closedBy[d] # None
        /\ closedBy[d] # None => /\ job[closedBy[d]] = [op |-> "close", date |-> d]
                                 /\ adminPc[closedBy[d]] = "done"

(* With one request at a time closed_by is set on locked rows as well: only *)
(* a reopening that overlaps the locking can take it away from them.        *)
BlockedIffClosedBy == \A d \in Dates : Blocked(d) <=> closedBy[d] # None

(* A period request that reached a handler is answered.                     *)
JobsAnswered == \A a \in Admins : (a \in BusyAdmins) ~> (a \notin BusyAdmins)

(* src/README.md:55: the status progresses one-way, open -> closed -> locked.*)
StatusOneWay ==
    [][\A d \in Dates : Blocked(d) => period'[d] \in {period[d], "LOCKED"}]_periodVars

(* The same line: once locked, the period is immutable.                     *)
LockedIsImmutable ==
    [][\A d \in Dates : period[d] = "LOCKED" => period'[d] = "LOCKED"]_periodVars

====
