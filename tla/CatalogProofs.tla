---- MODULE CatalogProofs ----
(***************************************************************************)
(* Theorems about Catalog, for any sessions, requests and beginnings: what *)
(* was answered is there, nothing is left half done, a balance that one    *)
(* session posts to is the sum of what is booked, and no change is lost.   *)
(***************************************************************************)
EXTENDS CatalogTypes

-----------------------------------------------------------------------------
(* Rows that are committed were put there by a request that is over.        *)
LEMMA DoneStays ==
    ASSUME ShapeInv, NEW s \in Sessions, Begin(s) \/ Step(s) \/ Crash(s), NEW u \in Sessions,
           pc[u] = "done"
    PROVE  u # s /\ pc'[u] = "done" /\ request'[u] = request[u] /\ reply'[u] = reply[u]
<1>1. pc[s] # "done"
  <2>1. Begin(s) => pc[s] # "done"
    BY DEF Begin
  <2>2. Step(s) \/ Crash(s) => pc[s] # "done"
    BY StepBusy DEF Busy
  <2> QED
    BY <2>1, <2>2
<1>2. OthersKeep(s)
  BY SessionMoves DEF ShapeInv
<1> QED
  BY <1>1, <1>2 DEF OthersKeep

(* A commit says of its rows who made them.                                 *)
LEMMA CommitOrigin ==
    ASSUME ShapeInv, NEW s \in Sessions, Commit(s)
    PROVE  /\ \A row \in DOMAIN inserted[s] : rows'[row].by = s
           /\ \A row \in DOMAIN rows : rows'[row].by = rows[row].by
<1>1. /\ WorkTyped(s) /\ WellFormed(rows) /\ DOMAIN inserted[s] \cap DOMAIN rows = {}
      /\ \A row \in Touched(s) : rows'[row] = Attributes(s, row)
      /\ \A row \in DOMAIN rows \ Touched(s) : rows'[row] = rows[row]
  BY CommitRows DEF ShapeInv, WorkPlaced
<1>2. ASSUME NEW row \in DOMAIN inserted[s] PROVE rows'[row].by = s
  <2>1. row \in Touched(s) /\ row \in Visible(s) /\ Base(s, row) = inserted[s][row]
    BY <1>2 DEF Touched, Visible, Base
  <2> QED
    BY <1>1, <1>2, <2>1, AttributesType DEF WorkTyped
<1>3. ASSUME NEW row \in DOMAIN rows PROVE rows'[row].by = rows[row].by
  <2>1. row \in Visible(s) /\ Base(s, row) = rows[row]
    BY <1>1, <1>3 DEF Visible, Base
  <2> QED
    BY <1>1, <1>3, <2>1, AttributesType
<1> QED
  BY <1>2, <1>3

LEMMA OriginStep ==
    ASSUME ShapeInv, AllOrNothing, NEW s \in Sessions, Begin(s) \/ Step(s) \/ Crash(s)
    PROVE  AllOrNothing'
<1>1. CASE ~Commit(s)
  <2>1. rows' = rows
    BY <1>1, StepAdvances DEF Begin, Advances, Grows
  <2> QED
    BY <2>1, DoneStays DEF AllOrNothing
<1>2. CASE Commit(s)
  <2>1. pc'[s] = "done" /\ DOMAIN rows' = DOMAIN rows \cup DOMAIN inserted[s]
    BY <1>2, CommitRows
  <2>2. ASSUME NEW row \in DOMAIN rows', NEW u \in Sessions, rows'[row].by = u PROVE pc'[u] = "done"
    <3>1. CASE row \in DOMAIN inserted[s]
      BY <1>2, <2>1, <2>2, <3>1, CommitOrigin
    <3>2. CASE row \notin DOMAIN inserted[s]
      BY <1>2, <2>1, <2>2, <3>2, CommitOrigin, DoneStays DEF AllOrNothing
    <3> QED
      BY <3>1, <3>2
  <2> QED
    BY <2>2 DEF AllOrNothing
<1> QED
  BY <1>1, <1>2

(* A committed row was made by a request that has been committed as a       *)
(* whole: sessions that fail, crash or are rolled back leave no row.        *)
THEOREM NothingHalfDone == Spec => []AllOrNothing
<1>1. Init => AllOrNothing
  BY CatalogAssumption DEF Init, AllOrNothing
<1>2. ShapeInv /\ AllOrNothing /\ [Next]_vars => AllOrNothing'
  <2>1. AllOrNothing /\ UNCHANGED vars => AllOrNothing'
    BY DEF AllOrNothing, vars
  <2> QED
    BY <2>1, OriginStep DEF Next, Quiet
<1> QED
  BY <1>1, <1>2, ShapeHolds, PTL DEF Spec

-----------------------------------------------------------------------------
(* Every call a session has made has left its rows within sight, a session  *)
(* that has made none has flushed none, and only the seed script flushes    *)
(* the entities of the sample data.                                         *)
MadeThere(s) ==
    /\ s \in Busy => \A i \in 1 .. made[s] : /\ Calls(s)[i].do # "refuse"
                                           /\ RowsOfCall(Calls(s)[i]) \subseteq Visible(s)
    /\ made[s] = 0 => inserted[s] = EmptyFcn
    /\ SampleNamesReserved /\ SeedEntityRows \cap DOMAIN inserted[s] # {} => request[s].op = "seed"
AnsweredInv ==
    /\ AnsweredIsThere /\ \A s \in Sessions : MadeThere(s)
    /\ SampleNamesReserved => SeededWhole(rows)

(* How far a step takes a request.                                          *)
Calling(s) ==
    /\ pc'[s] \in {"call", "write", "commit"}
    /\ \/ made'[s] = made[s] /\ inserted'[s] = inserted[s]
       \/ /\ made'[s] = made[s] + 1 /\ ~AllMade(s)
          /\ Call(s).do # "refuse" /\ RowsOfCall(Call(s)) \subseteq Visible(s)'
          /\ DOMAIN inserted[s] \subseteq DOMAIN inserted'[s]
          /\ \/ SeedEntityRows \cap DOMAIN inserted'[s] \subseteq DOMAIN inserted[s]
             \/ request[s].op = "seed" \/ ~SampleNamesReserved

LEMMA MadeOne ==
    ASSUME StateTyped, NEW s \in Sessions, NextCall(s)
    PROVE  made'[s] = made[s] + 1 /\ pc'[s] = "call"
  BY DEF StateTyped, NextCall, Goto

LEMMA CallingOn ==
    ASSUME StateTyped, NEW s \in Sessions, ~AllMade(s), NextCall(s), rows' = rows, inserted' = inserted,
           Call(s).do # "refuse", RowsOfCall(Call(s)) \subseteq Visible(s)
    PROVE  Calling(s)
  BY MadeOne DEF Calling, Visible

LEMMA SeedEntitiesNamed == SeedEntityRows \subseteq EntityNames
  BY CatalogAssumption, NameTypes DEF SeedEntityRows

LEMMA StepCalling ==
    ASSUME ShapeInv, NEW s \in Sessions, Step(s) \/ Crash(s), ~Commit(s)
    PROVE  \/ Ends(s) /\ pc'[s] # "done"
           \/ Ends(s) /\ CheckSeeded(s) /\ SeedEntityRows \cap Visible(s) # {}
           \/ Calling(s)
<1>0. /\ StateTyped /\ PlaceKnown(s) /\ WorkTyped(s) /\ WorkPlaced(s)
  BY DEF ShapeInv
<1>1. \A where \in Over : \A code : End(s, where, code) => Ends(s) /\ pc'[s] = where
  BY <1>0 DEF StateTyped, End, Goto, Release, Ends
<1>2. \A code : Fail(s, code) => Ends(s) /\ pc'[s] # "done"
  BY <1>1 DEF Fail, Over
<1>3. \A where, call : At(s, where, call) /\ where \in {"call", "write"} => s \in Busy /\ ~AllMade(s)
  BY DEF At, Busy
<1>4. CASE RequireRow(s)
  <2>1. CASE Call(s).row \notin Visible(s)
    BY <1>2, <1>4, <2>1 DEF RequireRow
  <2>2. CASE Call(s).row \in Visible(s)
    <3>1. RowsOfCall(Call(s)) = {} /\ Call(s).do # "refuse" /\ ~AllMade(s)
      BY <1>4 DEF RequireRow, At, RowsOfCall
    <3> QED
      BY <1>0, <1>4, <2>2, <3>1, CallingOn DEF RequireRow
  <2> QED
    BY <2>1, <2>2
<1>5. CASE RefuseProvision(s)
  BY <1>2, <1>5 DEF RefuseProvision
<1>6. CASE CheckSeeded(s)
  <2>1. CASE SeedEntityRows \cap Visible(s) # {}
    BY <1>1, <1>6, <2>1 DEF CheckSeeded, Over
  <2>2. CASE ~(SeedEntityRows \cap Visible(s) # {})
    <3>1. RowsOfCall(Call(s)) = {} /\ Call(s).do # "refuse" /\ ~AllMade(s)
      BY <1>6 DEF CheckSeeded, At, RowsOfCall
    <3> QED
      BY <1>0, <1>6, <2>2, <3>1, CallingOn DEF CheckSeeded
  <2> QED
    BY <2>1, <2>2
<1>7. CASE LookRow(s)
  <2>1. /\ ~AllMade(s) /\ Call(s).do = "ensure" /\ RowsOfCall(Call(s)) = {Call(s).row}
        /\ rows' = rows /\ request' = request /\ inserted' = inserted /\ updated' = updated
    BY <1>3, <1>7 DEF LookRow, At, RowsOfCall
  <2>2. CASE Call(s).row \in Visible(s)
    BY <1>0, <1>7, <2>1, <2>2, CallingOn DEF LookRow
  <2>3. CASE Call(s).row \notin Visible(s)
    BY <1>0, <1>7, <2>1, <2>3 DEF LookRow, Calling, Goto, StateTyped
  <2> QED
    BY <2>2, <2>3
<1>8. CASE InsertRow(s)
  <2>1. CASE Taken(Call(s).row)
    BY <1>2, <1>8, <2>1 DEF InsertRow
  <2>2. CASE ~Taken(Call(s).row)
    <3>1. /\ ~AllMade(s) /\ Call(s).do \in {"ensure", "insert"} /\ RowsOfCall(Call(s)) = {Call(s).row}
          /\ s \in Busy
      BY <1>3, <1>8 DEF InsertRow, At, RowsOfCall
    <3>2. Grows(s, {Call(s).row}, {}) /\ NextCall(s)
      BY <1>8, <2>2, InsertGrows
    <3>3. /\ made'[s] = made[s] + 1 /\ pc'[s] = "call"
          /\ DOMAIN inserted'[s] = DOMAIN inserted[s] \cup {Call(s).row}
      BY <1>0, <3>2, MadeOne DEF Grows
    <3>4. Call(s).row \notin SeedEntityRows \/ request[s].op = "seed" \/ ~SampleNamesReserved
      <4>1. CASE Call(s).do = "ensure"
        <5>1. Call(s) \in Provides \/ request[s].op = "seed"
          BY <1>0, <3>1, <4>1, CallKnown, CallsByKind
        <5>2. Call(s) \in Provides => Call(s).row[1] = "account"
          BY NameTags DEF Provides
        <5> QED
          BY <5>1, <5>2, SeedEntitiesNamed, NameTags
      <4>2. CASE Call(s).do = "insert"
        <5>1. /\ request[s] \in Requests /\ request[s].op = "create"
              /\ Call(s).row = EntityRow(request[s].entity)
          BY <1>0, <3>1, <4>2, CallKnown, CallsByKind
        <5>2. SampleNamesReserved => EntityRow(request[s].entity) \notin SeedEntityRows
          BY <5>1 DEF SampleNamesReserved
        <5> QED
          BY <5>1, <5>2
      <4> QED
        BY <3>1, <4>1, <4>2
    <3>5. RowsOfCall(Call(s)) \subseteq Visible(s)'
      BY <3>1, <3>3 DEF Visible
    <3> QED
      BY <3>1, <3>3, <3>4, <3>5 DEF Calling
  <2> QED
    BY <2>1, <2>2
<1>9. CASE LoadRow(s)
  <2>1. CASE Call(s).row \notin Visible(s)
    BY <1>2, <1>9, <2>1 DEF LoadRow
  <2>2. CASE Call(s).row \in Visible(s)
    BY <1>0, <1>9, <2>2 DEF LoadRow, Calling, Goto, StateTyped
  <2> QED
    BY <2>1, <2>2
<1>10. CASE SaveRow(s)
  <2>1. /\ ~AllMade(s) /\ Call(s).do = "update" /\ RowsOfCall(Call(s)) = {Call(s).row} /\ rows' = rows
    BY <1>10 DEF SaveRow, At, RowsOfCall
  <2>2. NextCall(s) /\ inserted' = inserted /\ Call(s).row \in Visible(s)
    BY <1>10, SaveGrows
  <2> QED
    BY <1>0, <2>1, <2>2, CallingOn
<1>11. CASE ReplayPost(s)
  <2>1. /\ ~AllMade(s) /\ Call(s).do = "post" /\ RowsOfCall(Call(s)) = {TxnRow(Call(s).txn.key)}
    BY <1>11 DEF ReplayPost, At, RowsOfCall
  <2>2. RowsOfCall(Call(s)) \subseteq Visible(s) /\ NextCall(s) /\ rows' = rows /\ inserted' = inserted
    BY <1>11, <2>1 DEF ReplayPost, Posted
  <2> QED
    BY <1>0, <2>1, <2>2, CallingOn
<1>12. CASE PostTxn(s)
  <2>1. CASE Call(s).txn.expects /\ InferredGross(Call(s).txn) = 0
    BY <1>2, <1>12, <2>1 DEF PostTxn
  <2>2. CASE ~(Call(s).txn.expects /\ InferredGross(Call(s).txn) = 0)
    <3>1. /\ ~AllMade(s) /\ Call(s).do = "post" /\ RowsOfCall(Call(s)) = {TxnRow(Call(s).txn.key)}
      BY <1>12 DEF PostTxn, At, RowsOfCall
    <3>2. Grows(s, NewNames(Call(s).txn), AccountRows(Call(s).txn)) /\ NextCall(s)
          /\ Call(s).txn \in CatalogTxn
      BY <1>12, <2>2, PostGrows
    <3>3. /\ made'[s] = made[s] + 1 /\ pc'[s] = "call"
          /\ DOMAIN inserted'[s] = DOMAIN inserted[s] \cup NewNames(Call(s).txn)
      BY <1>0, <3>2, MadeOne DEF Grows
    <3>4. TxnRow(Call(s).txn.key) \in NewNames(Call(s).txn)
      BY DEF NewNames
    <3>5. NewNames(Call(s).txn) \cap SeedEntityRows = {}
      <4>1. \A k : TxnRow(k)[1] # "entity" /\ ReceivableRow(k)[1] # "entity"
        BY DEF TxnRow, ReceivableRow
      <4> QED
        BY <4>1, SeedEntitiesNamed, NameTags DEF NewNames
    <3>6. RowsOfCall(Call(s)) \subseteq Visible(s)'
      BY <3>1, <3>3, <3>4 DEF Visible
    <3> QED
      BY <3>1, <3>3, <3>5, <3>6 DEF Calling
  <2> QED
    BY <2>1, <2>2
<1>13. CASE ResolveReceivable(s)
  <2>1. CASE Call(s).row \notin Visible(s) \/ Attributes(s, Call(s).row).status # "PENDING"
    BY <1>2, <1>13, <2>1 DEF ResolveReceivable
  <2>2. CASE Call(s).row \in Visible(s) /\ Attributes(s, Call(s).row).status = "PENDING"
    <3>1. /\ ~AllMade(s) /\ Call(s).do = "resolve" /\ RowsOfCall(Call(s)) = {}
      BY <1>13 DEF ResolveReceivable, At, RowsOfCall
    <3>2. NextCall(s) /\ inserted' = inserted /\ rows' = rows
      BY <1>13, <2>2 DEF ResolveReceivable
    <3> QED
      BY <1>0, <3>1, <3>2, CallingOn
  <2> QED
    BY <2>1, <2>2
<1>14. CASE Finish(s)
  BY <1>0, <1>14 DEF Finish, work, Calling, Goto, StateTyped
<1>15. CASE AbortDeadlocked(s)
  BY <1>2, <1>15 DEF AbortDeadlocked
<1>16. CASE Crash(s)
  BY <1>1, <1>16 DEF Crash, Over
<1>17. CASE ReadAccounts(s)
  <2>1. CASE ~Postable(s, Call(s).txn)
    BY <1>2, <1>17, <2>1 DEF ReadAccounts
  <2>2. CASE Postable(s, Call(s).txn)
    BY <1>0, <1>17, <2>2 DEF ReadAccounts, Calling, Goto, StateTyped
  <2> QED
    BY <2>1, <2>2
<1>18. CASE LoseKey(s)
  BY <1>2, <1>18 DEF LoseKey
<1> QED
  BY <1>4, <1>5, <1>6, <1>7, <1>8, <1>9, <1>10, <1>11, <1>12, <1>13, <1>14, <1>15, <1>16, <1>17,
     <1>18 DEF Step

(* A commit finds every row its request is about.                           *)
LEMMA CommitCovers ==
    ASSUME ShapeInv, AnsweredInv, NEW s \in Sessions, Commit(s)
    PROVE  RowsOf(request[s]) \subseteq DOMAIN rows'
<1>1. PlaceKnown(s) /\ MadeThere(s) /\ pc[s] = "commit" /\ s \in Busy
  BY DEF ShapeInv, AnsweredInv, Commit, Busy
<1>2. request[s] \in Requests /\ made[s] = Len(Calls(s))
  BY <1>1 DEF PlaceKnown, AllMade
<1>3. \A i \in 1 .. Len(CallsOf(request[s])) :
         /\ CallsOf(request[s])[i].do # "refuse"
         /\ RowsOfCall(CallsOf(request[s])[i]) \subseteq Visible(s)
  BY <1>1, <1>2 DEF MadeThere, Calls
<1>4. Covered(request[s])
  BY <1>2, CallsType DEF CallsKnown
<1>5. DOMAIN rows' = Visible(s)
  BY CommitRows DEF Visible
<1> QED
  BY <1>3, <1>4, <1>5 DEF Covered

LEMMA AnsweredStep ==
    ASSUME ShapeInv, AnsweredInv, NEW s \in Sessions, Begin(s) \/ Step(s) \/ Crash(s)
    PROVE  AnsweredInv'
<1>0. /\ ShapeInv' /\ OthersKeep(s) /\ StateTyped /\ PlaceKnown(s) /\ MadeThere(s)
      /\ AnsweredIsThere /\ (SampleNamesReserved => SeededWhole(rows))
      /\ \A u \in Sessions : MadeThere(u)
  BY ShapeSteps, SessionMoves DEF ShapeInv, AnsweredInv
<1>1. DOMAIN rows \subseteq DOMAIN rows'
  <2>1. ~Commit(s) => rows' = rows
    BY StepAdvances DEF Begin, Advances, Grows
  <2> QED
    BY <2>1, CommitRows
<1>2. ASSUME NEW u \in Sessions \ {s} PROVE MadeThere(u)'
  <2>1. /\ pc'[u] = pc[u] /\ request'[u] = request[u] /\ made'[u] = made[u]
        /\ inserted'[u] = inserted[u] /\ MadeThere(u)
    BY <1>0 DEF OthersKeep
  <2>2. Visible(u) \subseteq Visible(u)' /\ Calls(u)' = Calls(u) /\ (u \in Busy' <=> u \in Busy)
    BY <1>1, <2>1 DEF Visible, Calls, Busy
  <2> QED
    BY <2>1, <2>2 DEF MadeThere
<1>3. Ends(s) => MadeThere(s)'
  <2>1. ASSUME Ends(s) PROVE s \notin Busy' /\ inserted'[s] = EmptyFcn /\ made'[s] = 0
    BY <2>1 DEF Ends, Busy, Over
  <2> QED
    BY <2>1, EmptyValues DEF MadeThere
<1>4. ASSUME MadeThere(s)', SampleNamesReserved => SeededWhole(rows)',
             Answered(s)' => RowsOf(request[s]) \subseteq DOMAIN rows' /\ request'[s] = request[s]
      PROVE  AnsweredInv'
  <2>1. ASSUME NEW u \in Sessions, Answered(u)'
        PROVE  RowsOf(request'[u]) \subseteq DOMAIN rows'
    <3>1. CASE u = s
      BY <1>4, <2>1, <3>1
    <3>2. CASE u # s
      <4>1. Answered(u) /\ request'[u] = request[u]
        BY <1>0, <2>1, <3>2 DEF OthersKeep, Answered
      <4> QED
        BY <1>0, <1>1, <2>1, <4>1 DEF AnsweredIsThere
    <3> QED
      BY <3>1, <3>2
  <2> QED
    BY <1>2, <1>4, <2>1 DEF AnsweredInv, AnsweredIsThere
<1>5. rows' = rows /\ SampleNamesReserved => SeededWhole(rows)'
  BY <1>0 DEF SeededWhole
<1>6. CASE Begin(s)
  <2>1. /\ rows' = rows /\ made' = made /\ inserted' = inserted /\ pc[s] = "idle" /\ pc'[s] = "call"
        /\ made[s] = 0 /\ inserted[s] = EmptyFcn
    BY <1>0, <1>6 DEF Begin, Goto, work, StateTyped, PlaceKnown, Busy
  <2>2. MadeThere(s)'
    BY <2>1, EmptyValues DEF MadeThere
  <2> QED
    BY <1>4, <1>5, <2>1, <2>2 DEF Answered
<1>7. CASE (Step(s) \/ Crash(s)) /\ ~Commit(s)
  <2>1. rows' = rows /\ s \in Busy /\ request'[s] = request[s]
    BY <1>7, StepAdvances, StepBusy DEF Advances, Grows, Ends
  <2>2. CASE Ends(s) /\ pc'[s] # "done"
    BY <1>3, <1>4, <1>5, <2>1, <2>2 DEF Answered
  <2>3. CASE Ends(s) /\ CheckSeeded(s) /\ SeedEntityRows \cap Visible(s) # {}
    <3>1. ~AllMade(s) /\ Call(s).do = "guard"
      BY <2>3 DEF CheckSeeded, At
    <3>2. request[s].op = "seed" /\ made[s] + 1 = 1 /\ made[s] \in Nat
      BY <1>0, <2>1, <3>1, CallKnown, CallsByKind DEF StateTyped
    <3>3. made[s] = 0
      BY <3>2
    <3>4. SeedEntityRows \cap DOMAIN rows # {}
      BY <1>0, <2>3, <3>3, EmptyValues DEF MadeThere, Visible
    <3>5. SampleNamesReserved => RowsOf(request[s]) \subseteq DOMAIN rows
      BY <1>0, <3>2, <3>4 DEF SeededWhole, RowsOf
    <3>6. reply'[s] = "nothing"
      BY <1>0, <2>3 DEF StateTyped, CheckSeeded, End, work
    <3>7. Answered(s)' => SampleNamesReserved
      BY <3>6 DEF Answered
    <3> QED
      BY <1>3, <1>4, <1>5, <2>1, <2>3, <3>5, <3>7
  <2>4. CASE Calling(s)
    <3>1. pc'[s] # "done" /\ Calls(s)' = Calls(s) /\ made[s] \in Nat /\ made[s] \in 0 .. Len(Calls(s))
      BY <1>0, <2>1, <2>4 DEF Calling, Calls, StateTyped, PlaceKnown
    <3>2. CASE made'[s] = made[s] /\ inserted'[s] = inserted[s]
      <4>1. Visible(s)' = Visible(s)
        BY <2>1, <3>2 DEF Visible
      <4>2. MadeThere(s)'
        BY <1>0, <2>1, <3>1, <3>2, <4>1 DEF MadeThere
      <4> QED
        BY <1>4, <1>5, <2>1, <3>1, <4>2 DEF Answered
    <3>3. CASE /\ made'[s] = made[s] + 1 /\ ~AllMade(s)
               /\ Call(s).do # "refuse" /\ RowsOfCall(Call(s)) \subseteq Visible(s)'
               /\ DOMAIN inserted[s] \subseteq DOMAIN inserted'[s]
               /\ \/ SeedEntityRows \cap DOMAIN inserted'[s] \subseteq DOMAIN inserted[s]
                  \/ request[s].op = "seed" \/ ~SampleNamesReserved
      <4>1. Visible(s) \subseteq Visible(s)' /\ Call(s) = Calls(s)[made[s] + 1]
        BY <2>1, <3>3 DEF Visible, Call
      <4>2. \A i \in 1 .. made'[s] : i \in 1 .. made[s] \/ i = made[s] + 1
        BY <3>1, <3>3
      <4>3. \A i \in 1 .. made'[s] : /\ Calls(s)'[i].do # "refuse"
                                     /\ RowsOfCall(Calls(s)'[i]) \subseteq Visible(s)'
        <5>1. ASSUME NEW i \in 1 .. made'[s]
              PROVE  Calls(s)[i].do # "refuse" /\ RowsOfCall(Calls(s)[i]) \subseteq Visible(s)'
          <6>1. CASE i \in 1 .. made[s]
            BY <1>0, <2>1, <4>1, <6>1 DEF MadeThere
          <6>2. CASE i = made[s] + 1
            BY <3>3, <4>1, <6>2
          <6> QED
            BY <4>2, <6>1, <6>2
        <5> QED
          BY <3>1, <5>1
      <4>4. made'[s] # 0
        BY <3>1, <3>3
      <4>5. SampleNamesReserved /\ SeedEntityRows \cap DOMAIN inserted'[s] # {} => request'[s].op = "seed"
        BY <1>0, <2>1, <3>3 DEF MadeThere
      <4>6. MadeThere(s)'
        BY <4>3, <4>4, <4>5 DEF MadeThere
      <4> QED
        BY <1>4, <1>5, <2>1, <3>1, <4>6 DEF Answered
    <3> QED
      BY <2>4, <3>2, <3>3 DEF Calling
  <2> QED
    BY <1>7, <2>2, <2>3, <2>4, StepCalling
<1>8. CASE Commit(s)
  <2>1. Ends(s) /\ DOMAIN rows' = DOMAIN rows \cup DOMAIN inserted[s] /\ request'[s] = request[s]
        /\ RowsOf(request[s]) \subseteq DOMAIN rows'
    BY <1>8, CommitRows, CommitCovers DEF Ends
  <2>2. ASSUME SampleNamesReserved PROVE SeededWhole(rows)'
    <3>1. CASE SeedEntityRows \cap DOMAIN rows # {}
      BY <1>0, <1>1, <2>2, <3>1 DEF SeededWhole
    <3>2. CASE SeedEntityRows \cap DOMAIN inserted[s] # {}
      <4>1. request[s].op = "seed"
        BY <1>0, <2>2, <3>2 DEF MadeThere
      <4>2. RowsOf(request[s]) = SeedRowNames
        BY <4>1 DEF RowsOf
      <4> QED
        BY <2>1, <4>2 DEF SeededWhole
    <3> QED
      BY <2>1, <3>1, <3>2 DEF SeededWhole
  <2> QED
    BY <1>3, <1>4, <2>1, <2>2
<1> QED
  BY <1>6, <1>7, <1>8 DEF Step

LEMMA AnsweredInit == ASSUME Init PROVE AnsweredInv
<1>1. rows \in Beginnings /\ (SampleNamesReserved => SeededWhole(rows))
  BY DEF Init, SampleNamesReserved
<1>2. \A s \in Sessions : pc[s] = "idle" /\ made[s] = 0 /\ inserted[s] = EmptyFcn
  BY DEF Init
<1> QED
  BY <1>1, <1>2, EmptyValues DEF AnsweredInv, AnsweredIsThere, Answered, MadeThere, Busy

(* Whoever was told that a request is done finds its rows.                  *)
THEOREM AnsweredRowsThere == Spec => []AnsweredIsThere
<1>1. ShapeInv /\ AnsweredInv /\ [Next]_vars => AnsweredInv'
  <2>1. AnsweredInv /\ UNCHANGED vars => AnsweredInv'
    BY DEF AnsweredInv, AnsweredIsThere, Answered, SeededWhole, MadeThere, vars, work, Calls, Visible,
           Busy
  <2> QED
    BY <2>1, AnsweredStep DEF Next, Quiet
<1>2. AnsweredInv => AnsweredIsThere
  BY DEF AnsweredInv
<1> QED
  BY <1>1, <1>2, AnsweredInit, ShapeHolds, PTL DEF Spec

-----------------------------------------------------------------------------
(* Whether transactions of a table book on an account.                      *)
BooksOn(table, a) == \E row \in TxnsIn(table) : EntriesOn(table[row].txn, a) # {}

(* While no session's posting on an account is committed, a session sees a  *)
(* balance that is the entries that are committed and those it has flushed  *)
(* itself, ...                                                              *)
SeesBooked(s) ==
    \A a \in Accounts : AccountRow(a) \in Visible(s) /\ Posters(a) = {}
      => Attributes(s, AccountRow(a)).balance = BookedIn(rows, a) + BookedIn(inserted[s], a)

(* ... what a posting has read is that balance still, ...                   *)
ReadsBooked(s) ==
    pc[s] = "write" /\ Call(s).do = "post" =>
      \A a \in Accounts : AccountRow(a) \in AccountRows(Call(s).txn) /\ Posters(a) = {}
        => loaded[s][AccountRow(a)] = BookedIn(rows, a) + BookedIn(inserted[s], a)

(* ... and a session that writes a balance has posted to the account.       *)
OwnsBalances(s) ==
    \A a \in Accounts : "balance" \in DOMAIN Written(s, AccountRow(a)) => BooksOn(inserted[s], a)

BalanceInv ==
    /\ BalancesFollowPostings
    /\ \A s \in Sessions : SeesBooked(s) /\ ReadsBooked(s) /\ OwnsBalances(s)

-----------------------------------------------------------------------------
(* What is booked, transaction by transaction.                              *)
Ledger(table) ==
    /\ IsFiniteSet(DOMAIN table) /\ \A row \in TxnsIn(table) : table[row].txn \in CatalogTxn

TxnAmounts(table, a) == [row \in TxnsIn(table) |-> AddedBy(table[row].txn, a)]

LEMMA BookedByTxn ==
    ASSUME NEW table, Ledger(table), NEW a \in Accounts
    PROVE  /\ Summable(TxnAmounts(table, a), TxnsIn(table))
           /\ BookedIn(table, a) = SumFunctionOnSet(TxnAmounts(table, a), TxnsIn(table))
           /\ BookedIn(table, a) \in Int
<1> DEFINE F == [row \in TxnsIn(table) |-> {<<row, i>> : i \in EntriesOn(table[row].txn, a)}]
           E == UNION {{<<row, i>> : i \in EntriesOn(table[row].txn, a)} : row \in TxnsIn(table)}
           f == [x \in E |-> Amount(a, table[x[1]].txn.entries[x[2]])]
<1>1. BookedIn(table, a) = SumFunctionOnSet(f, E)
  BY DEF BookedIn
<1>2. E = UNION {F[row] : row \in TxnsIn(table)}
  OBVIOUS
<1>3. IsFiniteSet(TxnsIn(table))
  BY FS_Subset DEF Ledger, TxnsIn
<1>4. ASSUME NEW row \in TxnsIn(table)
      PROVE  Summable(f, F[row]) /\ TxnAmounts(table, a)[row] = SumFunctionOnSet(f, F[row])
  <2>1. PICK t \in CatalogTxn : t = table[row].txn
    BY DEF Ledger
  <2>2. PICK S : S = EntriesOn(t, a)
    OBVIOUS
  <2> DEFINE g == [i \in S |-> Amount(a, t.entries[i])]
             b == [i \in S |-> <<row, i>>]
  <2>3. Summable(g, S) /\ AddedBy(t, a) = SumFunctionOnSet(g, S)
    BY <2>2, AddedType DEF AddedBy
  <2>4. F[row] = {b[i] : i \in S}
    BY <2>1, <2>2
  <2>5. \A i \in S : b[i] \in E /\ f[b[i]] = g[i]
    BY <2>1, <2>2
  <2>6. \A i, j \in S : b[i] = b[j] => i = j
    OBVIOUS
  <2>7. IsFiniteSet(S) /\ \A i \in S : g[i] \in Int
    BY <2>3 DEF Summable
  <2> HIDE DEF f, g, b, E
  <2>8. SumFunctionOnSet(f, {b[i] : i \in S}) = SumFunctionOnSet(g, S)
    BY <2>5, <2>6, <2>7, SumRenamed
  <2>9. IsFiniteSet({b[i] : i \in S})
    BY <2>7, FiniteImage
  <2>10. Summable(f, F[row])
    BY <2>4, <2>5, <2>7, <2>9 DEF Summable
  <2>11. TxnAmounts(table, a)[row] = AddedBy(t, a)
    BY <2>1 DEF TxnAmounts
  <2> QED
    BY <2>3, <2>4, <2>8, <2>10, <2>11
<1>5. \A r, q \in TxnsIn(table) : r # q => F[r] \cap F[q] = {}
  OBVIOUS
<1> HIDE DEF F, E, f
<1>6. SumFunctionOnSet(f, E) = SumFunctionOnSet(TxnAmounts(table, a), TxnsIn(table))
  <2>1. PICK G, g, h, I : G = F /\ g = TxnAmounts(table, a) /\ h = f /\ I = TxnsIn(table)
    OBVIOUS
  <2>2. IsFiniteSet(I)
    BY <1>3, <2>1
  <2>3. \A row \in I : Summable(h, G[row])
    BY <1>4, <2>1
  <2>4. \A row \in I : g[row] = SumFunctionOnSet(h, G[row])
    BY <1>4, <2>1
  <2>5. \A r, q \in I : r # q => G[r] \cap G[q] = {}
    BY <1>5, <2>1
  <2>6. PICK U : U = E
    OBVIOUS
  <2>7. U = UNION {G[row] : row \in I}
    BY <1>2, <2>1, <2>6
  <2>8. Parts(h, G, I, U)
    BY <2>2, <2>3, <2>5, <2>7 DEF Parts
  <2>9. SumFunctionOnSet(h, U) = SumFunctionOnSet(g, I)
    BY <2>4, <2>8, SumByParts
  <2> QED
    BY <2>1, <2>6, <2>9
<1>7. \A row \in TxnsIn(table) : TxnAmounts(table, a)[row] \in Int
  BY AddedType DEF TxnAmounts, Ledger
<1>8. Summable(TxnAmounts(table, a), TxnsIn(table))
  BY <1>3, <1>7 DEF Summable
<1> QED
  BY <1>1, <1>6, <1>8, SumType

(* What two tables hold together is booked in both.                         *)
LEMMA BookedTogether ==
    ASSUME NEW f, NEW g, NEW h, Ledger(f), Ledger(g), Ledger(h), NEW a \in Accounts,
           TxnsIn(h) = TxnsIn(f) \cup TxnsIn(g), TxnsIn(f) \cap TxnsIn(g) = {},
           \A row \in TxnsIn(f) : h[row].txn = f[row].txn,
           \A row \in TxnsIn(g) : h[row].txn = g[row].txn
    PROVE  BookedIn(h, a) = BookedIn(f, a) + BookedIn(g, a)
<1>1. PICK F, G, H : F = TxnAmounts(f, a) /\ G = TxnAmounts(g, a) /\ H = TxnAmounts(h, a)
  OBVIOUS
<1>2. /\ Summable(F, TxnsIn(f)) /\ BookedIn(f, a) = SumFunctionOnSet(F, TxnsIn(f))
      /\ Summable(G, TxnsIn(g)) /\ BookedIn(g, a) = SumFunctionOnSet(G, TxnsIn(g))
      /\ Summable(H, TxnsIn(h)) /\ BookedIn(h, a) = SumFunctionOnSet(H, TxnsIn(h))
  BY <1>1, BookedByTxn
<1>3. (\A row \in TxnsIn(f) : F[row] = H[row]) /\ \A row \in TxnsIn(g) : G[row] = H[row]
  BY <1>1 DEF TxnAmounts
<1>4. SumFunctionOnSet(F, TxnsIn(f)) = SumFunctionOnSet(H, TxnsIn(f))
  BY <1>2, <1>3, SumSame
<1>5. SumFunctionOnSet(G, TxnsIn(g)) = SumFunctionOnSet(H, TxnsIn(g))
  BY <1>2, <1>3, SumSame
<1>6. SumFunctionOnSet(H, TxnsIn(f) \cup TxnsIn(g))
        = SumFunctionOnSet(H, TxnsIn(f)) + SumFunctionOnSet(H, TxnsIn(g))
  BY <1>2, SumUnion
<1> QED
  BY <1>2, <1>4, <1>5, <1>6

(* Nothing is booked on an account that no transaction names.               *)
LEMMA NoEntries ==
    ASSUME NEW t, NEW a, AccountRow(a) \notin AccountRows(t) PROVE EntriesOn(t, a) = {}
  BY DEF EntriesOn, AccountRows

LEMMA BookedNothing ==
    ASSUME NEW table, Ledger(table), NEW a \in Accounts, ~BooksOn(table, a)
    PROVE  BookedIn(table, a) = 0
<1>1. PICK F : F = TxnAmounts(table, a)
  OBVIOUS
<1>2. Summable(F, TxnsIn(table)) /\ BookedIn(table, a) = SumFunctionOnSet(F, TxnsIn(table))
  BY <1>1, BookedByTxn
<1>3. \A t : EntriesOn(t, a) = {} => AddedBy(t, a) = 0
  BY SumEmpty DEF AddedBy
<1>4. \A row \in TxnsIn(table) : F[row] = 0
  BY <1>1, <1>3 DEF TxnAmounts, BooksOn
<1> QED
  BY <1>2, <1>4, SumZero DEF Summable

LEMMA BookedOne ==
    ASSUME NEW k, NEW t \in CatalogTxn, NEW a \in Accounts
    PROVE  /\ Ledger(Only(TxnRow(k), [txn |-> t])) /\ TxnsIn(Only(TxnRow(k), [txn |-> t])) = {TxnRow(k)}
           /\ BookedIn(Only(TxnRow(k), [txn |-> t]), a) = AddedBy(t, a)
<1>1. PICK table : table = Only(TxnRow(k), [txn |-> t])
  OBVIOUS
<1>2. DOMAIN table = {TxnRow(k)} /\ table[TxnRow(k)].txn = t
  BY <1>1 DEF Only
<1>3. TxnRow(k)[1] = "transaction"
  BY DEF TxnRow
<1>4. TxnsIn(table) = {TxnRow(k)} /\ Ledger(table)
  BY <1>2, <1>3, FS_Singleton DEF TxnsIn, Ledger
<1>5. PICK F : F = TxnAmounts(table, a)
  OBVIOUS
<1>6. F[TxnRow(k)] = AddedBy(t, a) /\ AddedBy(t, a) \in Int
  BY <1>2, <1>4, <1>5, AddedType DEF TxnAmounts
<1>7. BookedIn(table, a) = SumFunctionOnSet(F, {TxnRow(k)})
  BY <1>4, <1>5, BookedByTxn
<1>8. SumFunctionOnSet(F, {TxnRow(k)}) = F[TxnRow(k)]
  BY <1>6, SumOne
<1> QED
  BY <1>1, <1>4, <1>6, <1>7, <1>8

(* The tables of the state, and what sessions have flushed, are ledgers.    *)
LEMMA LedgersHere ==
    ASSUME ShapeInv, NEW s \in Sessions
    PROVE  /\ Ledger(rows) /\ Ledger(inserted[s])
           /\ \A a \in Accounts : BookedIn(rows, a) \in Int /\ BookedIn(inserted[s], a) \in Int
<1>1. WellFormed(rows) /\ WorkTyped(s)
  BY DEF ShapeInv
<1>2. \A row \in TxnsIn(rows) \cup TxnsIn(inserted[s]) : row \in TxnNames
  BY <1>1, NamesByTag DEF WellFormed, WorkTyped, Touched, TxnsIn
<1>3. Ledger(rows) /\ Ledger(inserted[s])
  BY <1>1, <1>2 DEF WellFormed, WorkTyped, RowTyped, Ledger, TxnsIn
<1> QED
  BY <1>3, BookedByTxn

LEMMA EmptyLedger ==
    ASSUME NEW a \in Accounts PROVE Ledger(EmptyFcn) /\ BookedIn(EmptyFcn, a) = 0
<1>1. TxnsIn(EmptyFcn) = {} /\ Ledger(EmptyFcn)
  BY EmptyValues, FS_EmptySet DEF TxnsIn, Ledger
<1> QED
  BY <1>1, BookedNothing DEF BooksOn

-----------------------------------------------------------------------------
(* What a session reads of a column before and after a step.                *)
LEMMA ReadSame ==
    ASSUME ShapeInv, NEW s \in Sessions, NEW row \in Visible(s), NEW column \in Columns(row),
           Base(s, row)' = Base(s, row),
           column \in DOMAIN Written(s, row)' <=> column \in DOMAIN Written(s, row),
           column \in DOMAIN Written(s, row) => Written(s, row)'[column] = Written(s, row)[column]
    PROVE  Attributes(s, row)'[column] = Attributes(s, row)[column]
<1>1. column \in DOMAIN Base(s, row)
  <2>1. RowTyped(row, Base(s, row))
    BY AttributesType DEF ShapeInv
  <2> QED
    BY <2>1 DEF RowTyped
<1>2. PICK f, g, h : f = Written(s, row) /\ g = Base(s, row) /\ h = Written(s, row)'
  OBVIOUS
<1>3. Attributes(s, row) = Merge(f, g) /\ Attributes(s, row)' = Merge(h, g)
  BY <1>2 DEF Attributes, Base
<1>4. /\ Merge(f, g)[column] = IF column \in DOMAIN f THEN f[column] ELSE g[column]
      /\ Merge(h, g)[column] = IF column \in DOMAIN h THEN h[column] ELSE g[column]
  BY <1>1, <1>2 DEF Merge
<1> QED
  BY <1>2, <1>3, <1>4

LEMMA ReadWritten ==
    ASSUME NEW s, NEW row, NEW column, column \in DOMAIN Written(s, row)'
    PROVE  Attributes(s, row)'[column] = Written(s, row)'[column]
<1>1. PICK g, h : g = Base(s, row)' /\ h = Written(s, row)'
  OBVIOUS
<1>2. Attributes(s, row)' = Merge(h, g)
  BY <1>1 DEF Attributes, Base
<1>3. Merge(h, g)[column] = h[column]
  BY <1>1 DEF Merge
<1> QED
  BY <1>1, <1>2, <1>3

LEMMA ReadBase ==
    ASSUME NEW s, NEW row, NEW column, column \in DOMAIN Base(s, row)',
           column \notin DOMAIN Written(s, row)'
    PROVE  Attributes(s, row)'[column] = Base(s, row)'[column]
<1>1. PICK g, h : g = Base(s, row)' /\ h = Written(s, row)'
  OBVIOUS
<1>2. Attributes(s, row)' = Merge(h, g)
  BY <1>1 DEF Attributes, Base
<1>3. Merge(h, g)[column] = g[column]
  BY <1>1 DEF Merge
<1> QED
  BY <1>1, <1>2, <1>3

-----------------------------------------------------------------------------
(* What a session sees of a balance after a step: another's work leaves it, *)
LEMMA UntouchedSees ==
    ASSUME NEW u \in Sessions, SeesBooked(u), OwnsBalances(u), rows' = rows,
           inserted'[u] = inserted[u], updated'[u] = updated[u]
    PROVE  SeesBooked(u)' /\ OwnsBalances(u)'
<1>1. /\ Visible(u)' = Visible(u) /\ \A row : Attributes(u, row)' = Attributes(u, row)
      /\ \A row : Written(u, row)' = Written(u, row)
  BY DEF Visible, Attributes, Written
<1>2. \A a : /\ BookedIn(rows, a)' = BookedIn(rows, a)
             /\ BookedIn(inserted[u], a)' = BookedIn(inserted[u], a)
             /\ BooksOn(inserted[u], a)' = BooksOn(inserted[u], a)
  OBVIOUS
<1>3. \A a : Posters(a)' = Posters(a)
  BY DEF Posters
<1> QED
  BY <1>1, <1>2, <1>3 DEF SeesBooked, OwnsBalances

(* one without work sees what is committed,                                 *)
LEMMA FreshSees ==
    ASSUME ShapeInv', BalancesFollowPostings', NEW s \in Sessions, inserted'[s] = EmptyFcn,
           updated'[s] = EmptyFcn
    PROVE  SeesBooked(s)' /\ OwnsBalances(s)'
<1>1. ASSUME NEW a \in Accounts, AccountRow(a) \in Visible(s)', Posters(a)' = {}
      PROVE  Attributes(s, AccountRow(a))'.balance = BookedIn(rows', a) + BookedIn(inserted'[s], a)
  <2>1. PICK row : row = AccountRow(a)
    OBVIOUS
  <2>2. row \in DOMAIN rows' /\ row \in AccountNames
    BY <1>1, <2>1, EmptyValues, NameTypes DEF Visible
  <2>3. "balance" \in DOMAIN rows'[row] /\ rows'[row].balance \in Int
    <3>1. RowTyped(row, rows'[row])
      BY <2>2 DEF ShapeInv, WellFormed
    <3> QED
      BY <2>2, <3>1, ColumnTypes DEF RowTyped, RowNames
  <2>4. Base(s, row)' = rows'[row] /\ Written(s, row)' = EmptyFcn
    BY EmptyValues DEF Base, Written
  <2>5. Attributes(s, row)'.balance = rows'[row].balance
    BY <2>3, <2>4, EmptyValues, ReadBase
  <2>6. rows'[row].balance = BookedIn(rows', a)
    BY <1>1, <2>1, <2>2 DEF BalancesFollowPostings
  <2>7. BookedIn(inserted'[s], a) = 0
    BY EmptyLedger
  <2> QED
    BY <2>1, <2>3, <2>5, <2>6, <2>7
<1>2. \A row : Written(s, row)' = EmptyFcn
  BY EmptyValues DEF Written
<1> QED
  BY <1>1, <1>2, EmptyValues DEF SeesBooked, OwnsBalances

(* a column that is not the balance leaves it,                              *)
LEMMA WritesSee ==
    ASSUME ShapeInv, NEW s \in Sessions, SeesBooked(s), OwnsBalances(s), rows' = rows,
           inserted'[s] = inserted[s], NEW M, NEW columns,
           updated'[s] = [row \in DOMAIN updated[s] \cup M |->
                            IF row \in M THEN Merge(columns[row], Written(s, row))
                            ELSE updated[s][row]],
           \A row \in M \cap AccountNames : "balance" \notin DOMAIN columns[row]
    PROVE  SeesBooked(s)' /\ OwnsBalances(s)'
<1>1. ASSUME NEW a \in Accounts
      PROVE  /\ AccountRow(a) \in Visible(s) =>
                  Attributes(s, AccountRow(a))'.balance = Attributes(s, AccountRow(a)).balance
             /\ "balance" \in DOMAIN Written(s, AccountRow(a))' =>
                  "balance" \in DOMAIN Written(s, AccountRow(a))
  <2>1. PICK row : row = AccountRow(a)
    OBVIOUS
  <2>2. row \in AccountNames /\ row \in RowNames /\ "balance" \in Columns(row)
    BY <2>1, NameTypes, ColumnTypes DEF RowNames
  <2>3. Base(s, row)' = Base(s, row)
    BY DEF Base
  <2>4. CASE row \in M
    <3>1. PICK f, g : f = columns[row] /\ g = Written(s, row)
      OBVIOUS
    <3>2. Written(s, row)' = Merge(f, g)
      BY <2>4, <3>1 DEF Written
    <3>3. /\ "balance" \in DOMAIN Merge(f, g) <=> "balance" \in DOMAIN g
          /\ "balance" \in DOMAIN g => Merge(f, g).balance = g.balance
      BY <2>2, <2>4, <3>1 DEF Merge
    <3> QED
      BY <1>1, <2>1, <2>2, <2>3, <3>1, <3>2, <3>3, ReadSame
  <2>5. CASE row \notin M
    <3>1. Written(s, row)' = Written(s, row)
      BY <2>5 DEF Written
    <3> QED
      BY <1>1, <2>1, <2>2, <2>3, <3>1, ReadSame
  <2> QED
    BY <2>4, <2>5
<1>2. Visible(s)' = Visible(s)
  BY DEF Visible
<1>3. \A a : /\ BookedIn(rows, a)' = BookedIn(rows, a)
             /\ BookedIn(inserted[s], a)' = BookedIn(inserted[s], a)
             /\ BooksOn(inserted[s], a)' = BooksOn(inserted[s], a)
  OBVIOUS
<1>4. \A a : Posters(a)' = Posters(a)
  BY DEF Posters
<1> QED
  BY <1>1, <1>2, <1>3, <1>4 DEF SeesBooked, OwnsBalances

(* nothing is booked on an account that is new,                             *)
LEMMA NothingOnNew ==
    ASSUME ShapeInv, NEW s \in Sessions, NEW a \in Accounts, AccountRow(a) \notin Visible(s)
    PROVE  /\ BookedIn(rows, a) = 0 /\ BookedIn(inserted[s], a) = 0 /\ Posters(a) = {}
<1>1. Ledger(rows) /\ Ledger(inserted[s])
  BY LedgersHere
<1>2. \A row \in TxnsIn(rows) : EntriesOn(rows[row].txn, a) = {}
  BY NoEntries DEF ShapeInv, WellFormed, Visible
<1>3. Touched(s) \subseteq Visible(s)
  BY DEF ShapeInv, WorkPlaced, Touched, Visible
<1>4. \A row \in TxnsIn(inserted[s]) : EntriesOn(inserted[s][row].txn, a) = {}
  BY <1>3, NoEntries DEF ShapeInv, WorkPlaced
<1> QED
  BY <1>1, <1>2, <1>4, BookedNothing DEF BooksOn, Posters

LEMMA InsertSees ==
    ASSUME ShapeInv, ShapeInv', NEW s \in Sessions, SeesBooked(s), OwnsBalances(s), InsertRow(s),
           ~Taken(Call(s).row)
    PROVE  SeesBooked(s)' /\ OwnsBalances(s)'
<1>1. PICK row, c : row = Call(s).row /\ c = Call(s)
  OBVIOUS
<1>2. /\ Grows(s, {row}, {}) /\ c \in Ensures \cup Inserts
      /\ inserted'[s][row] = Merge([by |-> s], c.columns) /\ updated'[s] = updated[s]
  BY <1>1, InsertGrows
<1>3. /\ rows' = rows /\ DOMAIN inserted'[s] = DOMAIN inserted[s] \cup {row}
      /\ \A x \in DOMAIN inserted[s] \ {row} : inserted'[s][x] = inserted[s][x]
      /\ row \notin DOMAIN rows
  BY <1>2 DEF Grows
<1>4. /\ row \in RowNames /\ row[1] # "transaction"
      /\ row \in AccountNames => inserted'[s][row].balance = 0
  BY <1>1, <1>2, CreatedTyped
<1>5. row \in AccountNames => row \notin Visible(s)
  <2>1. ASSUME row \in AccountNames PROVE At(s, "write", "ensure")
    <3>1. At(s, "call", "insert") => c \in Inserts
      <4>1. \A x \in Ensures : x.do = "ensure"
        BY DEF Ensures, Provides
      <4> QED
        BY <1>1, <1>2, <4>1 DEF At
    <3>2. c \in Inserts => row \in EntityNames
      BY <1>1 DEF Inserts
    <3> QED
      BY <2>1, <3>1, <3>2, NameTags DEF InsertRow
  <2>2. At(s, "write", "ensure") => row \notin Touched(s)
    BY <1>1 DEF ShapeInv, PlaceKnown, At
  <2> QED
    BY <1>3, <2>1, <2>2 DEF Visible, Touched
<1>6. TxnsIn(inserted'[s]) = TxnsIn(inserted[s])
      /\ \A x \in TxnsIn(inserted[s]) : inserted'[s][x].txn = inserted[s][x].txn
  BY <1>3, <1>4 DEF TxnsIn
<1>7. Ledger(inserted[s]) /\ Ledger(inserted'[s])
  <2>1. Ledger(inserted[s])
    BY LedgersHere
  <2>2. IsFiniteSet(DOMAIN inserted'[s])
    BY DEF ShapeInv, WorkTyped
  <2> QED
    BY <1>6, <2>1, <2>2 DEF Ledger
<1>8. ASSUME NEW a \in Accounts PROVE BookedIn(inserted'[s], a) = BookedIn(inserted[s], a)
  <2>1. PICK f, h : f = inserted[s] /\ h = inserted'[s]
    OBVIOUS
  <2>2. TxnsIn(EmptyFcn) = {} /\ Ledger(EmptyFcn) /\ BookedIn(EmptyFcn, a) = 0
    BY EmptyValues, EmptyLedger DEF TxnsIn
  <2>3. BookedIn(h, a) = BookedIn(f, a) + BookedIn(EmptyFcn, a)
    BY <1>6, <1>7, <2>1, <2>2, BookedTogether
  <2>4. BookedIn(f, a) \in Int
    BY <1>7, <2>1, BookedByTxn
  <2> QED
    BY <2>1, <2>2, <2>3, <2>4
<1>9. ASSUME NEW a \in Accounts, AccountRow(a) \in Visible(s)', Posters(a)' = {}
      PROVE  Attributes(s, AccountRow(a))'.balance = BookedIn(rows', a) + BookedIn(inserted'[s], a)
  <2>1. PICK x : x = AccountRow(a)
    OBVIOUS
  <2>2. x \in AccountNames /\ x \in RowNames /\ "balance" \in Columns(x)
    BY <2>1, NameTypes, ColumnTypes DEF RowNames
  <2>3. Written(s, x)' = Written(s, x)
    BY <1>2 DEF Written
  <2>4. CASE x = row
    <3>1. row \notin Visible(s)
      BY <1>5, <2>2, <2>4
    <3>2. Written(s, x)' = EmptyFcn
      BY <2>3, <2>4, <3>1 DEF Written, ShapeInv, WorkPlaced
    <3>3. Base(s, x)' = inserted'[s][row] /\ "balance" \in DOMAIN inserted'[s][row]
      <4>1. RowTyped(row, inserted'[s][row])
        BY <1>2 DEF Grows
      <4> QED
        BY <1>3, <2>2, <2>4, <4>1 DEF Base, RowTyped
    <3>4. Attributes(s, x)'.balance = 0
      BY <1>4, <2>2, <2>4, <3>2, <3>3, EmptyValues, ReadBase
    <3>5. AccountRow(a) \notin Visible(s)
      BY <2>1, <2>4, <3>1
    <3>6. BookedIn(rows, a) = 0 /\ BookedIn(inserted[s], a) = 0
      BY <3>5, NothingOnNew
    <3> QED
      BY <1>3, <1>8, <2>1, <3>4, <3>6
  <2>5. CASE x # row
    <3>1. x \in Visible(s)
      BY <1>3, <1>9, <2>1, <2>5 DEF Visible
    <3>2. Base(s, x)' = Base(s, x)
      BY <1>3, <2>5 DEF Base
    <3>3. Attributes(s, x)'.balance = Attributes(s, x).balance
      BY <2>2, <2>3, <3>1, <3>2, ReadSame
    <3>4. Posters(a) = {}
      BY <1>3, <1>9 DEF Posters
    <3> QED
      BY <1>3, <1>8, <2>1, <3>1, <3>3, <3>4 DEF SeesBooked
  <2> QED
    BY <2>1, <2>4, <2>5
<1>10. OwnsBalances(s)'
  <2>1. \A x : Written(s, x)' = Written(s, x)
    BY <1>2 DEF Written
  <2>2. \A a : BooksOn(inserted[s], a) => BooksOn(inserted'[s], a)
    BY <1>6 DEF BooksOn
  <2> QED
    BY <2>1, <2>2 DEF OwnsBalances
<1> QED
  BY <1>9, <1>10 DEF SeesBooked

(* a posting adds to the balance what it books,                             *)
LEMMA PostSees ==
    ASSUME ShapeInv, ShapeInv', NEW s \in Sessions, SeesBooked(s), ReadsBooked(s), OwnsBalances(s),
           PostTxn(s), ~(Call(s).txn.expects /\ InferredGross(Call(s).txn) = 0)
    PROVE  SeesBooked(s)' /\ OwnsBalances(s)'
<1>1. PICK t : t = Call(s).txn
  OBVIOUS
<1>2. /\ Grows(s, NewNames(t), AccountRows(t))
      /\ t \in CatalogTxn /\ AccountRows(t) \subseteq Visible(s)
      /\ TxnRow(t.key) \notin Visible(s)
      /\ NewNames(t) \cap Visible(s) = {}
      /\ inserted'[s] = [row \in DOMAIN inserted[s] \cup NewNames(t) |->
                           IF row \in NewNames(t) THEN NewRow(s, t, row) ELSE inserted[s][row]]
      /\ updated'[s] = [row \in DOMAIN updated[s] \cup AccountRows(t) |->
                          IF row \in AccountRows(t)
                          THEN Merge(Moved(s, t, row), Written(s, row)) ELSE updated[s][row]]
  BY <1>1, PostGrows
<1>11. pc[s] = "write" /\ Call(s).do = "post"
  BY DEF PostTxn, At
<1>3. rows' = rows
  BY <1>2 DEF Grows
<1>4. Visible(s) \subseteq RowNames
  BY DEF ShapeInv, Visible, WellFormed, WorkTyped, Touched
<1>5. NewNames(t) \subseteq {TxnRow(t.key), ReceivableRow(t.key)} /\ TxnRow(t.key) \in NewNames(t)
  BY DEF NewNames
<1>6. TxnRow(t.key)[1] = "transaction" /\ ReceivableRow(t.key)[1] # "transaction"
      /\ NewRow(s, t, TxnRow(t.key)).txn = t
  BY DEF TxnRow, ReceivableRow, NewRow
<1>7. ASSUME NEW a \in Accounts
      PROVE  BookedIn(inserted'[s], a) = BookedIn(inserted[s], a) + AddedBy(t, a)
  <2>1. PICK f, g, h : f = inserted[s] /\ g = Only(TxnRow(t.key), [txn |-> t]) /\ h = inserted'[s]
    OBVIOUS
  <2>2. Ledger(g) /\ TxnsIn(g) = {TxnRow(t.key)} /\ BookedIn(g, a) = AddedBy(t, a)
        /\ g[TxnRow(t.key)].txn = t
    <3>1. Ledger(g) /\ TxnsIn(g) = {TxnRow(t.key)} /\ BookedIn(g, a) = AddedBy(t, a)
      BY <1>2, <2>1, BookedOne
    <3>2. g[TxnRow(t.key)].txn = t
      BY <2>1 DEF Only
    <3> QED
      BY <3>1, <3>2
  <2>3. Ledger(f)
    BY <2>1, LedgersHere
  <2>4. TxnsIn(h) = TxnsIn(f) \cup TxnsIn(g)
    BY <1>2, <1>5, <1>6, <2>1, <2>2 DEF TxnsIn
  <2>5. TxnsIn(f) \cap TxnsIn(g) = {}
    BY <1>2, <2>1, <2>2 DEF TxnsIn, Visible
  <2>6. \A row \in TxnsIn(f) : h[row].txn = f[row].txn
    BY <1>2, <2>1 DEF TxnsIn, Visible
  <2>7. \A row \in TxnsIn(g) : h[row].txn = g[row].txn
    BY <1>2, <1>5, <1>6, <2>1, <2>2
  <2>8. Ledger(h)
    <3>1. IsFiniteSet(DOMAIN inserted'[s])
      BY DEF ShapeInv, WorkTyped
    <3> QED
      BY <2>1, <2>2, <2>3, <2>4, <2>6, <2>7, <3>1 DEF Ledger
  <2>9. BookedIn(h, a) = BookedIn(f, a) + BookedIn(g, a)
    BY <2>2, <2>3, <2>4, <2>5, <2>6, <2>7, <2>8, BookedTogether
  <2> QED
    BY <2>1, <2>2, <2>9
<1>10. ASSUME NEW a \in Accounts, AccountRow(a) \in AccountRows(t)
       PROVE  Written(s, AccountRow(a))' = Merge(Moved(s, t, AccountRow(a)), Written(s, AccountRow(a)))
  BY <1>2, <1>10 DEF Written
<1>8. ASSUME NEW a \in Accounts, AccountRow(a) \in Visible(s)', Posters(a)' = {}
      PROVE  Attributes(s, AccountRow(a))'.balance = BookedIn(rows', a) + BookedIn(inserted'[s], a)
  <2>1. PICK x : x = AccountRow(a)
    OBVIOUS
  <2>2. x \in AccountNames /\ x \in RowNames /\ "balance" \in Columns(x)
    BY <2>1, NameTypes, ColumnTypes DEF RowNames
  <2>7. Posters(a) = {}
    BY <1>3, <1>8 DEF Posters
  <2>3. x \in Visible(s) /\ x \notin NewNames(t)
    <3>1. x \notin NewNames(t)
      BY <1>5, <2>1, NamesDiffer
    <3> QED
      BY <1>2, <1>3, <1>8, <2>1, <3>1 DEF Visible
  <2>4. Base(s, x)' = Base(s, x)
    BY <1>2, <1>3, <2>3 DEF Base
  <2>5. /\ Attributes(s, x).balance = BookedIn(rows, a) + BookedIn(inserted[s], a)
        /\ BookedIn(rows, a) \in Int /\ BookedIn(inserted[s], a) \in Int /\ AddedBy(t, a) \in Int
    BY <1>2, <2>1, <2>3, <2>7, LedgersHere, AddedType DEF SeesBooked
  <2>6. Attributes(s, x)'.balance = Attributes(s, x).balance + AddedBy(t, a)
    <3>1. CASE x \in AccountRows(t) /\ Net(t, x) # 0
      <4>1. PICK f, g : f = Moved(s, t, x) /\ g = Written(s, x)
        OBVIOUS
      <4>2. Written(s, x)' = Merge(f, g)
        BY <1>10, <2>1, <3>1, <4>1
      <4>3. "balance" \in DOMAIN f /\ f.balance = NewBalance(s, t, x)
        BY <3>1, <4>1 DEF Moved, Only
      <4>4. "balance" \in DOMAIN Merge(f, g) /\ Merge(f, g).balance = NewBalance(s, t, x)
        BY <4>3 DEF Merge
      <4>5. Attributes(s, x)'.balance = NewBalance(s, t, x)
        BY <4>2, <4>4, ReadWritten
      <4>6. NewBalance(s, t, x) = loaded[s][x] + AddedBy(t, a)
        BY <1>2, <1>4, <2>1, NetIs DEF NewBalance
      <4>7. loaded[s][x] = BookedIn(rows, a) + BookedIn(inserted[s], a)
        BY <1>1, <1>11, <2>1, <2>7, <3>1 DEF ReadsBooked
      <4> QED
        BY <2>5, <4>5, <4>6, <4>7
    <3>2. CASE x \in AccountRows(t) /\ Net(t, x) = 0
      <4>1. AddedBy(t, a) = 0
        BY <1>2, <1>4, <2>1, <3>2, NetIs
      <4>2. PICK f, g : f = Moved(s, t, x) /\ g = Written(s, x)
        OBVIOUS
      <4>3. Written(s, x)' = Merge(f, g)
        BY <1>10, <2>1, <3>2, <4>2
      <4>4. DOMAIN f = {}
        BY <3>2, <4>2, EmptyValues DEF Moved
      <4>5. /\ "balance" \in DOMAIN Merge(f, g) <=> "balance" \in DOMAIN g
            /\ "balance" \in DOMAIN g => Merge(f, g).balance = g.balance
        BY <4>4 DEF Merge
      <4>6. Attributes(s, x)'.balance = Attributes(s, x).balance
        BY <2>2, <2>3, <2>4, <4>2, <4>3, <4>5, ReadSame
      <4> QED
        BY <2>5, <4>1, <4>6
    <3>3. CASE x \notin AccountRows(t)
      <4>1. AddedBy(t, a) = 0
        BY <2>1, <3>3, NoEntries, SumEmpty DEF AddedBy
      <4>2. Written(s, x)' = Written(s, x)
        BY <1>2, <3>3 DEF Written
      <4>3. Attributes(s, x)'.balance = Attributes(s, x).balance
        BY <2>2, <2>3, <2>4, <4>2, ReadSame
      <4> QED
        BY <2>5, <4>1, <4>3
    <3> QED
      BY <3>1, <3>2, <3>3
  <2> QED
    BY <1>3, <1>7, <2>1, <2>5, <2>6
<1>9. ASSUME NEW a \in Accounts, "balance" \in DOMAIN Written(s, AccountRow(a))'
      PROVE  BooksOn(inserted'[s], a)
  <2>1. TxnRow(t.key) \in TxnsIn(inserted'[s]) /\ inserted'[s][TxnRow(t.key)].txn = t
    BY <1>2, <1>5, <1>6 DEF TxnsIn
  <2>2. EntriesOn(t, a) # {} => BooksOn(inserted'[s], a)
    BY <2>1 DEF BooksOn
  <2>3. BooksOn(inserted[s], a) => BooksOn(inserted'[s], a)
    <3>1. \A row \in TxnsIn(inserted[s]) : row \in TxnsIn(inserted'[s]) /\ inserted'[s][row] = inserted[s][row]
      BY <1>2 DEF TxnsIn, Visible
    <3> QED
      BY <3>1 DEF BooksOn
  <2>4. CASE AccountRow(a) \in AccountRows(t)
    <3>1. PICK i \in DOMAIN t.entries : AccountRow(a) = AccountRow(AccountAt(t, i))
      BY <2>4 DEF AccountRows
    <3>2. AccountAt(t, i) \in Accounts
      BY <1>2, <1>4, PostedAccounts
    <3>3. AccountAt(t, i) = a
      BY <3>1, <3>2, NamesDiffer
    <3> QED
      BY <2>2, <3>3 DEF EntriesOn
  <2>5. CASE AccountRow(a) \notin AccountRows(t)
    <3>1. Written(s, AccountRow(a))' = Written(s, AccountRow(a))
      BY <1>2, <2>5 DEF Written
    <3> QED
      BY <1>9, <2>3, <3>1 DEF OwnsBalances
  <2> QED
    BY <2>4, <2>5
<1> QED
  BY <1>8, <1>9 DEF SeesBooked, OwnsBalances

(* what it has read is the balance it has seen,                             *)
LEMMA ReadSees ==
    ASSUME ShapeInv, NEW s \in Sessions, SeesBooked(s), ReadAccounts(s)
    PROVE  ReadsBooked(s)'
<1>1. CASE ~Postable(s, Call(s).txn)
  <2>1. pc'[s] # "write"
    BY <1>1, FailEnds DEF ReadAccounts, ShapeInv, Ends, Over
  <2> QED
    BY <2>1 DEF ReadsBooked
<1>2. CASE Postable(s, Call(s).txn)
  <2> DEFINE t == Call(s).txn
  <2>1. /\ loaded' = [loaded EXCEPT ![s] = [row \in AccountRows(t) |-> Attributes(s, row).balance]]
        /\ rows' = rows /\ request' = request /\ made' = made /\ inserted' = inserted
        /\ AccountRows(t) \subseteq Visible(s)
    BY <1>2 DEF ReadAccounts, Postable
  <2>2. \A row \in AccountRows(t) : loaded'[s][row] = Attributes(s, row).balance
    BY <2>1 DEF ShapeInv, StateTyped
  <2>3. Call(s)' = Call(s) /\ AccountRows(t)' = AccountRows(t) /\ \A a : Posters(a)' = Posters(a)
    BY <2>1 DEF Call, Calls, Posters
  <2>4. \A a : /\ BookedIn(rows, a)' = BookedIn(rows, a)
               /\ BookedIn(inserted[s], a)' = BookedIn(inserted[s], a)
    BY <2>1
  <2> QED
    BY <2>1, <2>2, <2>3, <2>4 DEF SeesBooked, ReadsBooked
<1> QED
  BY <1>1, <1>2

(* and a commit books what was flushed.                                     *)
LEMMA CommitTxns ==
    ASSUME ShapeInv, NEW s \in Sessions, Commit(s)
    PROVE  /\ \A row \in TxnsIn(rows) : rows'[row].txn = rows[row].txn
           /\ \A row \in TxnsIn(inserted[s]) : rows'[row].txn = inserted[s][row].txn
<1>1. /\ \A row \in Touched(s) : rows'[row] = Attributes(s, row)
      /\ \A row \in DOMAIN rows \ Touched(s) : rows'[row] = rows[row]
      /\ WellFormed(rows) /\ WorkTyped(s) /\ DOMAIN inserted[s] \cap DOMAIN rows = {}
  BY CommitRows DEF ShapeInv, WorkPlaced
<1>2. ASSUME NEW row \in Visible(s), row[1] = "transaction" PROVE rows'[row].txn = Base(s, row).txn
  <2>1. row \in TxnNames
    BY <1>1, <1>2, NamesByTag DEF Visible, WellFormed, WorkTyped, Touched
  <2>2. CASE row \in Touched(s)
    BY <1>1, <2>1, <2>2, AttributesType
  <2>3. CASE row \notin Touched(s)
    BY <1>1, <2>1, <2>3 DEF Base, Touched, Visible
  <2> QED
    BY <2>2, <2>3
<1> QED
  BY <1>1, <1>2 DEF Base, TxnsIn, Visible

LEMMA CommitBooks ==
    ASSUME ShapeInv, ShapeInv', NEW s \in Sessions, Commit(s), NEW a \in Accounts
    PROVE  BookedIn(rows', a) = BookedIn(rows, a) + BookedIn(inserted[s], a)
<1>1. PICK f, g, h : f = rows /\ g = inserted[s] /\ h = rows'
  OBVIOUS
<1>2. DOMAIN rows' = DOMAIN rows \cup DOMAIN inserted[s] /\ DOMAIN inserted[s] \cap DOMAIN rows = {}
  BY CommitRows DEF ShapeInv, WorkPlaced
<1>3. Ledger(f) /\ Ledger(g)
  BY <1>1, LedgersHere
<1>4. TxnsIn(h) = TxnsIn(f) \cup TxnsIn(g) /\ TxnsIn(f) \cap TxnsIn(g) = {}
  BY <1>1, <1>2 DEF TxnsIn
<1>5. /\ \A row \in TxnsIn(f) : h[row].txn = f[row].txn
      /\ \A row \in TxnsIn(g) : h[row].txn = g[row].txn
  BY <1>1, CommitTxns
<1>6. Ledger(h)
  <2>1. IsFiniteSet(DOMAIN rows')
    BY DEF ShapeInv, WellFormed
  <2> QED
    BY <1>1, <1>3, <1>4, <1>5, <2>1 DEF Ledger
<1>7. BookedIn(h, a) = BookedIn(f, a) + BookedIn(g, a)
  BY <1>3, <1>4, <1>5, <1>6, BookedTogether
<1> QED
  BY <1>1, <1>7

LEMMA NotBookedUntouched ==
    ASSUME ShapeInv, NEW s \in Sessions, NEW a \in Accounts, AccountRow(a) \notin Touched(s)
    PROVE  BookedIn(inserted[s], a) = 0 /\ ~BooksOn(inserted[s], a)
<1>1. Ledger(inserted[s])
  BY LedgersHere
<1>2. ~BooksOn(inserted[s], a)
  BY NoEntries DEF ShapeInv, WorkPlaced, BooksOn
<1> QED
  BY <1>1, <1>2, BookedNothing

LEMMA CommitPosters ==
    ASSUME ShapeInv, AllOrNothing, NEW s \in Sessions, Commit(s), NEW a \in Accounts
    PROVE  /\ s \notin Posters(a)
           /\ Posters(a)' = Posters(a) \cup (IF BooksOn(inserted[s], a) THEN {s} ELSE {})
<1>1. pc[s] = "commit" /\ DOMAIN inserted[s] \cap DOMAIN rows = {} /\ DOMAIN updated[s] \subseteq Visible(s)
  BY DEF Commit, ShapeInv, WorkPlaced
<1>2. s \notin Posters(a)
  BY <1>1 DEF AllOrNothing, Posters, TxnsIn
<1>3. DOMAIN rows' = DOMAIN rows \cup DOMAIN inserted[s]
  BY CommitRows
<1>4. \A row \in TxnsIn(rows) : rows'[row].txn = rows[row].txn /\ rows'[row].by = rows[row].by
  BY CommitTxns, CommitOrigin DEF TxnsIn
<1>5. \A row \in TxnsIn(inserted[s]) : rows'[row].txn = inserted[s][row].txn /\ rows'[row].by = s
  BY CommitTxns, CommitOrigin DEF TxnsIn
<1>6. TxnsIn(rows') = TxnsIn(rows) \cup TxnsIn(inserted[s])
  BY <1>3 DEF TxnsIn
<1> DEFINE Of(table) == {row \in TxnsIn(table) : EntriesOn(table[row].txn, a) # {}}
<1>7. Of(rows') = Of(rows) \cup Of(inserted[s])
  BY <1>4, <1>5, <1>6
<1>8. /\ {rows'[row].by : row \in Of(rows)} = {rows[row].by : row \in Of(rows)}
      /\ {rows'[row].by : row \in Of(inserted[s])} = IF BooksOn(inserted[s], a) THEN {s} ELSE {}
  BY <1>4, <1>5 DEF BooksOn
<1>9. Posters(a) = {rows[row].by : row \in Of(rows)} \cap Sessions
      /\ Posters(a)' = {rows'[row].by : row \in Of(rows')} \cap Sessions
  BY DEF Posters
<1> HIDE DEF Of
<1> QED
  BY <1>2, <1>7, <1>8, <1>9

LEMMA CommitBalances ==
    ASSUME ShapeInv, ShapeInv', AllOrNothing, BalanceInv, NEW s \in Sessions, Commit(s)
    PROVE  BalancesFollowPostings'
<1>1. /\ DOMAIN rows' = DOMAIN rows \cup DOMAIN inserted[s]
      /\ \A row \in Touched(s) : rows'[row] = Attributes(s, row)
      /\ \A row \in DOMAIN rows \ Touched(s) : rows'[row] = rows[row]
      /\ WellFormed(rows) /\ WorkTyped(s) /\ DOMAIN inserted[s] \cap DOMAIN rows = {}
  BY CommitRows DEF ShapeInv, WorkPlaced
<1>2. ASSUME NEW a \in Accounts, AccountRow(a) \in DOMAIN rows',
             \A u, v \in Posters(a)' : u = v
      PROVE  rows'[AccountRow(a)].balance = BookedIn(rows', a)
  <2>1. BookedIn(rows', a) = BookedIn(rows, a) + BookedIn(inserted[s], a)
        /\ BookedIn(rows, a) \in Int
    BY CommitBooks, LedgersHere
  <2>2. /\ s \notin Posters(a)
        /\ Posters(a)' = Posters(a) \cup (IF BooksOn(inserted[s], a) THEN {s} ELSE {})
    BY CommitPosters
  <2>3. CASE AccountRow(a) \in Touched(s) /\ Posters(a) = {}
    BY <1>1, <1>2, <2>1, <2>3 DEF BalanceInv, SeesBooked, Visible
  <2>4. CASE Posters(a) # {} \/ AccountRow(a) \notin Touched(s)
    <3>1. ~BooksOn(inserted[s], a)
      BY <1>2, <2>2, <2>4, NotBookedUntouched
    <3>2. BookedIn(inserted[s], a) = 0
      BY <3>1, LedgersHere, BookedNothing
    <3>3. AccountRow(a) \in DOMAIN rows
      <4>1. CASE AccountRow(a) \notin Touched(s)
        BY <1>1, <1>2, <4>1 DEF Touched
      <4>2. CASE Posters(a) # {}
        <5>1. PICK row \in TxnsIn(rows) : EntriesOn(rows[row].txn, a) # {}
          BY <4>2 DEF Posters
        <5> QED
          BY <1>1, <5>1, NoEntries DEF WellFormed
      <4> QED
        BY <2>4, <4>1, <4>2
    <3>4. rows[AccountRow(a)].balance = BookedIn(rows, a)
      BY <1>2, <2>2, <3>1, <3>3 DEF BalanceInv, BalancesFollowPostings
    <3>5. rows'[AccountRow(a)].balance = rows[AccountRow(a)].balance
      <4>1. CASE AccountRow(a) \in Touched(s)
        <5>1. PICK row : row = AccountRow(a)
          OBVIOUS
        <5>2. row \in AccountNames /\ row \in RowNames
          BY <5>1, NameTypes DEF RowNames
        <5>3. "balance" \in DOMAIN rows[row]
          BY <1>1, <3>3, <5>1, <5>2, ColumnTypes DEF WellFormed, RowTyped
        <5>4. row \in Visible(s) /\ Base(s, row) = rows[row]
          BY <1>1, <3>3, <5>1 DEF Visible, Base
        <5>5. "balance" \notin DOMAIN Written(s, row)
          BY <3>1, <5>1 DEF BalanceInv, OwnsBalances
        <5>7. \A column \in DOMAIN Base(s, row) \ DOMAIN Written(s, row) :
                Attributes(s, row)[column] = Base(s, row)[column]
          BY <1>1, <5>4, AttributesType
        <5>6. Attributes(s, row).balance = rows[row].balance
          BY <5>3, <5>4, <5>5, <5>7
        <5> QED
          BY <1>1, <4>1, <5>1, <5>6
      <4>2. CASE AccountRow(a) \notin Touched(s)
        BY <1>1, <3>3, <4>2
      <4> QED
        BY <4>1, <4>2
    <3> QED
      BY <2>1, <3>2, <3>4, <3>5
  <2> QED
    BY <2>3, <2>4
<1> QED
  BY <1>2 DEF BalancesFollowPostings

LEMMA CommitSees ==
    ASSUME ShapeInv, ShapeInv', AllOrNothing, BalanceInv, NEW s \in Sessions, Commit(s),
           OthersKeep(s), BalancesFollowPostings', NEW u \in Sessions \ {s}
    PROVE  SeesBooked(u)' /\ OwnsBalances(u)' /\ ReadsBooked(u)'
<1>1. /\ DOMAIN rows' = DOMAIN rows \cup DOMAIN inserted[s]
      /\ \A row \in Touched(s) : rows'[row] = Attributes(s, row)
      /\ \A row \in DOMAIN rows \ Touched(s) : rows'[row] = rows[row]
  BY CommitRows
<1>2. inserted'[u] = inserted[u] /\ updated'[u] = updated[u] /\ Touched(u) \cap Touched(s) = {}
  BY DEF OthersKeep, ShapeInv, Apart
<1>3. ASSUME NEW a \in Accounts, AccountRow(a) \in Visible(u)', Posters(a)' = {}
      PROVE  Attributes(u, AccountRow(a))'.balance = BookedIn(rows', a) + BookedIn(inserted'[u], a)
  <2>6. Posters(a) = {}
    BY <1>3, CommitPosters
  <2>1. PICK x : x = AccountRow(a)
    OBVIOUS
  <2>2. x \in AccountNames /\ x \in RowNames /\ "balance" \in Columns(x)
    BY <2>1, NameTypes, ColumnTypes DEF RowNames
  <2>3. /\ BookedIn(rows', a) = BookedIn(rows, a) + BookedIn(inserted[s], a)
        /\ BookedIn(rows, a) \in Int /\ BookedIn(inserted[u], a) \in Int
        /\ BookedIn(inserted'[u], a) = BookedIn(inserted[u], a)
    BY <1>2, CommitBooks, LedgersHere
  <2>4. CASE x \in Touched(u)
    <3>1. BookedIn(inserted[s], a) = 0 /\ x \notin Touched(s)
      BY <1>2, <2>1, <2>4, NotBookedUntouched
    <3>2. x \in Visible(u)
      BY <2>4 DEF ShapeInv, WorkPlaced, Touched, Visible
    <3>3. Base(u, x)' = Base(u, x) /\ Written(u, x)' = Written(u, x)
      BY <1>1, <1>2, <3>1, <3>2 DEF Base, Written, Visible
    <3>4. Attributes(u, x)'.balance = Attributes(u, x).balance
      BY <2>2, <3>2, <3>3, ReadSame
    <3> QED
      BY <2>1, <2>3, <2>6, <3>1, <3>2, <3>4 DEF BalanceInv, SeesBooked
  <2>5. CASE x \notin Touched(u)
    <3>1. BookedIn(inserted[u], a) = 0
      BY <2>1, <2>5, NotBookedUntouched
    <3>2. x \in DOMAIN rows' /\ Base(u, x)' = rows'[x] /\ Written(u, x)' = EmptyFcn
      BY <1>2, <1>3, <2>1, <2>5 DEF Visible, Touched, Base, Written
    <3>3. rows'[x].balance = BookedIn(rows', a) /\ "balance" \in DOMAIN rows'[x]
          /\ rows'[x].balance \in Int
      <4>1. RowTyped(x, rows'[x])
        BY <3>2 DEF ShapeInv, WellFormed
      <4> QED
        BY <1>3, <2>1, <2>2, <3>2, <4>1 DEF BalancesFollowPostings, RowTyped
    <3>4. Attributes(u, x)'.balance = rows'[x].balance
      BY <3>2, <3>3, EmptyValues, ReadBase
    <3> QED
      BY <2>1, <2>3, <3>1, <3>3, <3>4
  <2> QED
    BY <2>1, <2>4, <2>5
<1>4. OwnsBalances(u)'
  <2>1. \A x : Written(u, x)' = Written(u, x)
    BY <1>2 DEF Written
  <2> QED
    BY <1>2, <2>1 DEF BalanceInv, OwnsBalances
<1>5. ReadsBooked(u)'
  <2>1. ASSUME pc'[u] = "write", Call(u)'.do = "post", NEW a \in Accounts,
               AccountRow(a) \in AccountRows(Call(u)'.txn), Posters(a)' = {}
        PROVE  loaded'[u][AccountRow(a)] = BookedIn(rows', a) + BookedIn(inserted'[u], a)
    <3>1. pc'[u] = pc[u] /\ loaded'[u] = loaded[u] /\ Call(u)' = Call(u)
      BY DEF OthersKeep, Call, Calls
    <3>2. Posters(a) = {} /\ ~BooksOn(inserted[s], a)
      BY <2>1, CommitPosters
    <3>3. loaded[u][AccountRow(a)] = BookedIn(rows, a) + BookedIn(inserted[u], a)
      BY <2>1, <3>1, <3>2 DEF BalanceInv, ReadsBooked
    <3>4. BookedIn(inserted[s], a) = 0
      BY <3>2, LedgersHere, BookedNothing
    <3>5. BookedIn(rows', a) = BookedIn(rows, a) /\ BookedIn(rows, a) \in Int
      BY <3>4, CommitBooks, LedgersHere
    <3> QED
      BY <1>2, <3>1, <3>3, <3>5
  <2> QED
    BY <2>1 DEF ReadsBooked
<1> QED
  BY <1>3, <1>4, <1>5 DEF SeesBooked

(* The steps that add nothing.                                              *)
Adds(s) ==
    \/ InsertRow(s) /\ ~Taken(Call(s).row)
    \/ SaveRow(s)
    \/ PostTxn(s) /\ ~(Call(s).txn.expects /\ InferredGross(Call(s).txn) = 0)
    \/ /\ ResolveReceivable(s) /\ Call(s).row \in Visible(s)
       /\ Attributes(s, Call(s).row).status = "PENDING"

LEMMA AddsNothing ==
    ASSUME ShapeInv, NEW s \in Sessions, Begin(s) \/ Step(s) \/ Crash(s), ~Commit(s), ~Adds(s)
    PROVE  /\ rows' = rows
           /\ \/ Ends(s)
              \/ inserted'[s] = inserted[s] /\ updated'[s] = updated[s]
<1>0. StateTyped
  BY DEF ShapeInv
<1>1. \A where \in Over : \A code : End(s, where, code) => Ends(s)
  BY <1>0 DEF StateTyped, End, Goto, Release, Ends
<1>2. \A code : Fail(s, code) => Ends(s) /\ rows' = rows
  BY <1>0, FailEnds
<1>3. CASE Begin(s)
  BY <1>3 DEF Begin, work
<1>4. CASE RequireRow(s)
  BY <1>2, <1>4 DEF RequireRow
<1>5. CASE RefuseProvision(s) \/ AbortDeadlocked(s)
  BY <1>2, <1>5 DEF RefuseProvision, AbortDeadlocked
<1>6. CASE CheckSeeded(s)
  BY <1>1, <1>6 DEF CheckSeeded, Over
<1>7. CASE LookRow(s)
  BY <1>7 DEF LookRow
<1>8. CASE InsertRow(s)
  BY <1>2, <1>8 DEF InsertRow, Adds
<1>9. CASE LoadRow(s)
  BY <1>2, <1>9 DEF LoadRow
<1>10. CASE ReplayPost(s)
  BY <1>10 DEF ReplayPost
<1>11. CASE PostTxn(s)
  BY <1>2, <1>11 DEF PostTxn, Adds
<1>12. CASE ResolveReceivable(s)
  BY <1>2, <1>12 DEF ResolveReceivable, Adds
<1>13. CASE Finish(s)
  BY <1>13 DEF Finish, work
<1>14. CASE Crash(s)
  BY <1>1, <1>14 DEF Crash, Over
<1>15. CASE SaveRow(s)
  BY <1>15 DEF Adds
<1>16. CASE ReadAccounts(s)
  BY <1>2, <1>16 DEF ReadAccounts
<1>17. CASE LoseKey(s)
  BY <1>2, <1>17 DEF LoseKey
<1> QED
  BY <1>3, <1>4, <1>5, <1>6, <1>7, <1>8, <1>9, <1>10, <1>11, <1>12, <1>13, <1>14, <1>15, <1>16,
     <1>17 DEF Step

LEMMA SaveSees ==
    ASSUME ShapeInv, NEW s \in Sessions, SeesBooked(s), OwnsBalances(s), SaveRow(s)
    PROVE  SeesBooked(s)' /\ OwnsBalances(s)'
<1>1. /\ rows' = rows /\ inserted' = inserted
      /\ Call(s).column = request[s].column /\ request[s] \in Requests /\ request[s].op = "update"
      /\ \/ updated' = updated
         \/ /\ Changed(s) # EmptyFcn
            /\ updated'[s] = [row \in DOMAIN updated[s] \cup {Call(s).row} |->
                 IF row \in {Call(s).row} THEN Merge(Changed(s), Written(s, row))
                 ELSE updated[s][row]]
  BY SaveGrows DEF Grows
<1>2. CASE updated' = updated
  BY <1>1, <1>2, UntouchedSees
<1>3. CASE /\ Changed(s) # EmptyFcn
           /\ updated'[s] = [row \in DOMAIN updated[s] \cup {Call(s).row} |->
                IF row \in {Call(s).row} THEN Merge(Changed(s), Written(s, row))
                ELSE updated[s][row]]
  <2> DEFINE M == {Call(s).row}
             columns == [row \in M |-> Changed(s)]
  <2>1. updated'[s] = [row \in DOMAIN updated[s] \cup M |->
                         IF row \in M THEN Merge(columns[row], Written(s, row)) ELSE updated[s][row]]
    BY <1>3
  <2>2. DOMAIN Changed(s) = {request[s].column} /\ request[s].column # "balance"
    BY <1>1, <1>3, UpdateRequest DEF Changed, Only
  <2>3. \A row \in M \cap AccountNames : "balance" \notin DOMAIN columns[row]
    BY <2>2
  <2> HIDE DEF M, columns
  <2> QED
    BY <1>1, <2>1, <2>3, WritesSee
<1> QED
  BY <1>1, <1>2, <1>3

LEMMA ResolveSees ==
    ASSUME ShapeInv, NEW s \in Sessions, SeesBooked(s), OwnsBalances(s), ResolveReceivable(s),
           Call(s).row \in Visible(s), Attributes(s, Call(s).row).status = "PENDING"
    PROVE  SeesBooked(s)' /\ OwnsBalances(s)'
<1> DEFINE M == {Call(s).row}
           columns == [row \in M |-> [status |-> Call(s).status]]
<1>1. /\ rows' = rows /\ inserted' = inserted /\ Call(s).row \in ReceivableNames
      /\ updated'[s] = [row \in DOMAIN updated[s] \cup {Call(s).row} |->
           IF row \in {Call(s).row} THEN Merge([status |-> Call(s).status], Written(s, row))
           ELSE updated[s][row]]
  BY ResolveGrows DEF Grows
<1>2. updated'[s] = [row \in DOMAIN updated[s] \cup M |->
                       IF row \in M THEN Merge(columns[row], Written(s, row)) ELSE updated[s][row]]
  BY <1>1
<1>3. \A row \in M \cap AccountNames : "balance" \notin DOMAIN columns[row]
  OBVIOUS
<1> HIDE DEF M, columns
<1> QED
  BY <1>1, <1>2, <1>3, WritesSee

(* Only having read its accounts takes a posting to its writing.            *)
LEMMA ReadsBefore ==
    ASSUME ShapeInv, NEW s \in Sessions, Begin(s) \/ Step(s) \/ Crash(s), ~ReadAccounts(s)
    PROVE  ~(pc'[s] = "write" /\ Call(s)'.do = "post")
<1>0. StateTyped
  BY DEF ShapeInv
<1>1. \A where \in Over : where # "write"
  BY DEF Over
<1>2. \A where \in Over : \A code : End(s, where, code) => pc'[s] # "write"
  BY <1>0, <1>1 DEF End, Goto, StateTyped
<1>3. \A code : Fail(s, code) => pc'[s] # "write"
  BY <1>2 DEF Fail, Over
<1>4. NextCall(s) => pc'[s] # "write"
  BY <1>0, MadeOne
<1>5. CASE Begin(s)
  BY <1>0, <1>5 DEF Begin, Goto, StateTyped
<1>6. CASE LookRow(s) \/ LoadRow(s)
  <2>1. CASE NextCall(s) \/ \E code : Fail(s, code)
    BY <1>3, <1>4, <2>1
  <2>2. CASE Goto(s, "write") /\ UNCHANGED made /\ UNCHANGED request
    <3>1. Call(s)' = Call(s)
      BY <2>2 DEF Call, Calls
    <3> QED
      BY <1>6, <3>1 DEF LookRow, LoadRow, At
  <2> QED
    BY <1>6, <2>1, <2>2 DEF LookRow, LoadRow
<1>7. CASE RequireRow(s) \/ RefuseProvision(s) \/ CheckSeeded(s)
  BY <1>2, <1>3, <1>4, <1>7 DEF RequireRow, RefuseProvision, CheckSeeded, Over
<1>8. CASE InsertRow(s) \/ SaveRow(s)
  BY <1>3, <1>4, <1>8 DEF InsertRow, SaveRow
<1>9. CASE ReplayPost(s) \/ LoseKey(s) \/ PostTxn(s)
  BY <1>3, <1>4, <1>9 DEF ReplayPost, LoseKey, PostTxn
<1>10. CASE ResolveReceivable(s)
  BY <1>3, <1>4, <1>10 DEF ResolveReceivable
<1>11. CASE Finish(s)
  BY <1>0, <1>11 DEF Finish, Goto, StateTyped
<1>12. CASE Commit(s) \/ AbortDeadlocked(s) \/ Crash(s)
  BY <1>2, <1>3, <1>12 DEF Commit, AbortDeadlocked, Crash, Over
<1> QED
  BY <1>5, <1>6, <1>7, <1>8, <1>9, <1>10, <1>11, <1>12 DEF Step

LEMMA BalanceStep ==
    ASSUME ShapeInv, AllOrNothing, BalanceInv, NEW s \in Sessions, Begin(s) \/ Step(s) \/ Crash(s)
    PROVE  BalanceInv'
<1>0. /\ ShapeInv' /\ OthersKeep(s) /\ BalancesFollowPostings
      /\ \A u \in Sessions : SeesBooked(u) /\ ReadsBooked(u) /\ OwnsBalances(u)
  BY ShapeSteps, SessionMoves DEF ShapeInv, BalanceInv
<1>1. ReadsBooked(s)'
  <2>1. CASE ReadAccounts(s)
    BY <1>0, <2>1, ReadSees
  <2>2. CASE ~ReadAccounts(s)
    BY <2>2, ReadsBefore DEF ReadsBooked
  <2> QED
    BY <2>1, <2>2
<1>2. CASE ~Commit(s)
  <2>1. rows' = rows
    BY <1>2, StepAdvances DEF Begin, Advances, Grows
  <2>2. BalancesFollowPostings'
    BY <1>0, <2>1 DEF BalancesFollowPostings, Posters
  <2>3. ASSUME NEW u \in Sessions \ {s} PROVE SeesBooked(u)' /\ OwnsBalances(u)' /\ ReadsBooked(u)'
    <3>1. /\ pc'[u] = pc[u] /\ inserted'[u] = inserted[u] /\ updated'[u] = updated[u]
          /\ loaded'[u] = loaded[u] /\ Call(u)' = Call(u) /\ \A a : Posters(a)' = Posters(a)
      BY <1>0, <2>1 DEF OthersKeep, Call, Calls, Posters
    <3>2. ReadsBooked(u)'
      BY <1>0, <2>1, <3>1 DEF ReadsBooked
    <3> QED
      BY <1>0, <2>1, <3>1, <3>2, UntouchedSees
  <2>4. SeesBooked(s)' /\ OwnsBalances(s)'
    <3>1. CASE Ends(s)
      BY <1>0, <2>2, <3>1, FreshSees DEF Ends
    <3>2. CASE inserted'[s] = inserted[s] /\ updated'[s] = updated[s]
      BY <1>0, <2>1, <3>2, UntouchedSees
    <3>3. CASE InsertRow(s) /\ ~Taken(Call(s).row)
      BY <1>0, <3>3, InsertSees
    <3>4. CASE SaveRow(s)
      BY <1>0, <3>4, SaveSees
    <3>5. CASE PostTxn(s) /\ ~(Call(s).txn.expects /\ InferredGross(Call(s).txn) = 0)
      BY <1>0, <3>5, PostSees
    <3>6. CASE /\ ResolveReceivable(s) /\ Call(s).row \in Visible(s)
               /\ Attributes(s, Call(s).row).status = "PENDING"
      BY <1>0, <3>6, ResolveSees
    <3> QED
      BY <1>2, <3>1, <3>2, <3>3, <3>4, <3>5, <3>6, AddsNothing DEF Adds
  <2> QED
    BY <1>1, <2>2, <2>3, <2>4 DEF BalanceInv
<1>3. CASE Commit(s)
  <2>1. BalancesFollowPostings'
    BY <1>0, <1>3, CommitBalances
  <2>2. ASSUME NEW u \in Sessions \ {s} PROVE SeesBooked(u)' /\ OwnsBalances(u)' /\ ReadsBooked(u)'
    BY <1>0, <1>3, <2>1, CommitSees
  <2>3. SeesBooked(s)' /\ OwnsBalances(s)'
    BY <1>0, <1>3, <2>1, CommitRows, FreshSees DEF Ends
  <2> QED
    BY <1>1, <2>1, <2>2, <2>3 DEF BalanceInv
<1> QED
  BY <1>2, <1>3

LEMMA BalanceInit == ASSUME Init PROVE BalanceInv
<1>1. ShapeInv /\ BalancesBooked(rows)
  BY ShapeInit, CatalogAssumption DEF Init
<1>2. ASSUME NEW s \in Sessions, NEW a \in Accounts, AccountRow(a) \in Visible(s)
      PROVE  Attributes(s, AccountRow(a)).balance = BookedIn(rows, a) + BookedIn(inserted[s], a)
  <2>1. PICK row : row = AccountRow(a)
    OBVIOUS
  <2>2. inserted[s] = EmptyFcn /\ updated[s] = EmptyFcn
    BY DEF Init
  <2>3. row \in DOMAIN rows /\ row \in AccountNames /\ row \in RowNames
    BY <1>2, <2>1, <2>2, EmptyValues, NameTypes DEF Visible, RowNames
  <2>4. "balance" \in DOMAIN rows[row] /\ rows[row].balance \in Int
    BY <1>1, <2>3, ColumnTypes DEF ShapeInv, WellFormed, RowTyped
  <2>5. Attributes(s, row) = Merge(EmptyFcn, rows[row])
    BY <2>2, EmptyValues DEF Attributes, Written
  <2>6. Merge(EmptyFcn, rows[row]).balance = rows[row].balance
    BY <2>4, EmptyValues DEF Merge
  <2>7. BookedIn(inserted[s], a) = 0
    BY <2>2, EmptyLedger
  <2>8. rows[row].balance = BookedIn(rows, a)
    BY <1>1, <2>1, <2>3 DEF BalancesBooked
  <2> QED
    BY <2>1, <2>4, <2>5, <2>6, <2>7, <2>8
<1>3. BalancesFollowPostings
  BY <1>1 DEF BalancesBooked, BalancesFollowPostings
<1>4. ASSUME NEW s \in Sessions PROVE ReadsBooked(s) /\ OwnsBalances(s)
  <2>1. pc[s] = "idle" /\ updated[s] = EmptyFcn
    BY DEF Init
  <2> QED
    BY <2>1, EmptyValues DEF ReadsBooked, OwnsBalances, Written
<1> QED
  BY <1>1, <1>2, <1>3, <1>4 DEF BalanceInv, SeesBooked

(* The balance of an account that one session at most posts to is the sum   *)
(* of what is booked on it, whatever the others do beside it.  That of two  *)
(* sessions' postings one may be lost, run v_lost of LedgerSessions shows.  *)
THEOREM BalancesAreBooked == Spec => []BalancesFollowPostings
<1>1. ShapeInv /\ AllOrNothing /\ BalanceInv /\ [Next]_vars => BalanceInv'
  <2>1. ASSUME BalanceInv, UNCHANGED vars PROVE BalanceInv'
    <3>1. /\ rows' = rows /\ pc' = pc /\ request' = request /\ made' = made /\ inserted' = inserted
          /\ updated' = updated /\ loaded' = loaded
      BY <2>1 DEF vars, work
    <3>2. \A u \in Sessions : SeesBooked(u)' /\ OwnsBalances(u)'
      BY <2>1, <3>1, UntouchedSees DEF BalanceInv
    <3>3. \A u \in Sessions : Call(u)' = Call(u)
      BY <3>1 DEF Call, Calls
    <3>4. \A a : Posters(a)' = Posters(a)
      BY <3>1 DEF Posters
    <3>5. \A u \in Sessions : ReadsBooked(u)'
      BY <2>1, <3>1, <3>3, <3>4 DEF BalanceInv, ReadsBooked
    <3> QED
      BY <2>1, <3>1, <3>2, <3>4, <3>5 DEF BalanceInv, BalancesFollowPostings
  <2> QED
    BY <2>1, BalanceStep DEF Next, Quiet
<1>2. BalanceInv => BalancesFollowPostings
  BY DEF BalanceInv
<1> QED
  BY <1>1, <1>2, BalanceInit, ShapeHolds, NothingHalfDone, PTL DEF Spec

-----------------------------------------------------------------------------
(* No other session has a request for the same column of the same row.      *)
NoRivals(s) == \A u \in Sessions \ {s} : ~(/\ request[u] # None /\ request[u].op = "update"
                                            /\ request[u].row = request[s].row
                                            /\ request[u].column = request[s].column)

(* While an update is under way the column is as the session has read it,   *)
(* from the write on it is what was asked for, and so it is after commit.   *)
ChangeStands(s, r) ==
    /\ pc[s] = "write" => loaded[s][r.column] = Attributes(s, r.row)[r.column]
    /\ pc[s] \in {"call", "commit"} /\ AllMade(s) =>
         r.row \in Visible(s) /\ Attributes(s, r.row)[r.column] = r.value
    /\ pc[s] = "done" => r.row \in DOMAIN rows /\ rows[r.row][r.column] = r.value
KeepsChange(s) ==
    pc[s] # "idle" /\ request[s].op = "update" /\ NoRivals(s) => ChangeStands(s, request[s])
ChangeInv == \A s \in Sessions : KeepsChange(s)

-----------------------------------------------------------------------------
(* A session that has not begun has no request, and no rival ever goes away. *)
Unasked == \A s \in Sessions : pc[s] = "idle" => request[s] = None

Rivals(r, q) == q # None /\ q.op = "update" /\ q.row = r.row /\ q.column = r.column

LEMMA RivalsStay ==
    ASSUME ShapeInv, Unasked, NEW u \in Sessions, Begin(u) \/ Step(u) \/ Crash(u)
    PROVE  /\ Unasked'
           /\ \A s \in Sessions : request[s] # None => request'[s] = request[s]
           /\ \A s \in Sessions : request[s] # None /\ NoRivals(s)' => NoRivals(s)
<1>1. OthersKeep(u) /\ StateTyped
  BY SessionMoves DEF ShapeInv
<1>2. CASE Begin(u)
  <2>1. request[u] = None /\ pc'[u] = "call"
    BY <1>1, <1>2 DEF Begin, Goto, Unasked, StateTyped
  <2>2. Unasked' /\ \A s \in Sessions : request[s] # None => request'[s] = request[s]
    BY <1>1, <2>1 DEF Unasked, OthersKeep
  <2> QED
    BY <2>2 DEF NoRivals
<1>3. CASE Step(u) \/ Crash(u)
  <2>1. u \in Busy
    BY <1>3, StepBusy
  <2>2. request'[u] = request[u]
    BY <1>3, StepAdvances, CommitRows DEF Ends, Advances, Grows
  <2>3. \A s \in Sessions : request'[s] = request[s]
    BY <1>1, <2>2 DEF OthersKeep
  <2>4. pc'[u] # "idle"
    <3>1. \A where \in Over : where # "idle"
      BY DEF Over
    <3> QED
      BY <1>3, <3>1, StepCalling, CommitRows DEF Ends, Calling
  <2>5. Unasked'
    BY <1>1, <2>3, <2>4 DEF Unasked, OthersKeep
  <2>6. \A s \in Sessions : NoRivals(s)' => NoRivals(s)
    BY <2>3 DEF NoRivals
  <2> QED
    BY <2>3, <2>5, <2>6
<1> QED
  BY <1>2, <1>3

LEMMA ReadSameColumn ==
    ASSUME ShapeInv, NEW s \in Sessions, NEW row \in Visible(s), NEW column \in Columns(row),
           column \in DOMAIN Base(s, row)', Base(s, row)'[column] = Base(s, row)[column],
           Written(s, row)' = Written(s, row)
    PROVE  Attributes(s, row)'[column] = Attributes(s, row)[column]
<1>1. column \in DOMAIN Base(s, row)
  <2>1. RowTyped(row, Base(s, row))
    BY AttributesType DEF ShapeInv
  <2> QED
    BY <2>1 DEF RowTyped
<1>2. PICK f, g, h : f = Written(s, row) /\ g = Base(s, row) /\ h = Base(s, row)'
  OBVIOUS
<1>3. Attributes(s, row) = Merge(f, g) /\ Attributes(s, row)' = Merge(f, h)
  BY <1>2 DEF Attributes, Base
<1>4. /\ Merge(f, g)[column] = IF column \in DOMAIN f THEN f[column] ELSE g[column]
      /\ Merge(f, h)[column] = IF column \in DOMAIN f THEN f[column] ELSE h[column]
  BY <1>1, <1>2 DEF Merge
<1> QED
  BY <1>2, <1>3, <1>4

(* A commit leaves what another request alone has changed.                  *)
LEMMA CommitKeepsColumn ==
    ASSUME ShapeInv, NEW u \in Sessions, Commit(u), NEW r \in Requests, r.op = "update",
           ~Rivals(r, request[u]), r.row \in DOMAIN rows
    PROVE  r.column \in DOMAIN rows'[r.row] /\ rows'[r.row][r.column] = rows[r.row][r.column]
<1>1. /\ \A row \in Touched(u) : rows'[row] = Attributes(u, row)
      /\ \A row \in DOMAIN rows \ Touched(u) : rows'[row] = rows[row]
      /\ WellFormed(rows) /\ WorkTyped(u) /\ DOMAIN inserted[u] \cap DOMAIN rows = {}
      /\ PlaceKnown(u) /\ u \in Busy
  BY CommitRows DEF ShapeInv, WorkPlaced, Commit, Busy
<1>2. PICK row, column : row = r.row /\ column = r.column
  OBVIOUS
<1>3. column \in Columns(row) /\ column \in {"name", "data", "enabled"} /\ row \in RowNames
  BY <1>2, UpdateRequest
<1>4. row \in Visible(u) /\ Base(u, row) = rows[row] /\ column \in DOMAIN rows[row]
  BY <1>1, <1>2, <1>3 DEF Visible, Base, WellFormed, RowTyped
<1>5. CASE row \in Touched(u)
  <2>1. column \notin DOMAIN Written(u, row)
    <3>1. ASSUME column \in DOMAIN Written(u, row) PROVE FALSE
      <4>1. WriteTyped(u, row, column, Written(u, row)[column])
        BY <1>1, <1>3, <3>1, WrittenTyped
      <4>2. request[u].op = "update" /\ request[u].column = column /\ request[u].row = row
        BY <1>3, <4>1 DEF WriteTyped
      <4>3. request[u] # None
        BY <1>1, CatalogAssumption DEF PlaceKnown, Busy
      <4> QED
        BY <1>2, <4>2, <4>3 DEF Rivals
    <3> QED
      BY <3>1
  <2>2. /\ DOMAIN Attributes(u, row) = DOMAIN Written(u, row) \cup DOMAIN Base(u, row)
        /\ \A c \in DOMAIN Base(u, row) \ DOMAIN Written(u, row) :
             Attributes(u, row)[c] = Base(u, row)[c]
    BY <1>1, <1>4, AttributesType
  <2> QED
    BY <1>1, <1>2, <1>4, <1>5, <2>1, <2>2
<1>6. CASE row \notin Touched(u)
  BY <1>1, <1>2, <1>4, <1>6
<1> QED
  BY <1>5, <1>6

(* Nor does any step of another session disturb it.                         *)
LEMMA OthersKeepChange ==
    ASSUME ShapeInv, ShapeInv', Unasked, NEW u \in Sessions, Begin(u) \/ Step(u) \/ Crash(u),
           NEW s \in Sessions \ {u}, KeepsChange(s)
    PROVE  KeepsChange(s)'
<1>1. SUFFICES ASSUME pc'[s] # "idle", request'[s].op = "update", NoRivals(s)'
               PROVE  ChangeStands(s, request[s])'
  BY DEF KeepsChange
<1>2. /\ pc'[s] = pc[s] /\ request'[s] = request[s] /\ made'[s] = made[s]
      /\ inserted'[s] = inserted[s] /\ updated'[s] = updated[s] /\ loaded'[s] = loaded[s]
  BY SessionMoves DEF ShapeInv, OthersKeep
<1>3. PICK r \in Requests : r = request[s] /\ r # None /\ r.op = "update"
  BY <1>1, <1>2, CatalogAssumption DEF ShapeInv, PlaceKnown
<1>4. NoRivals(s)
  BY <1>1, <1>3, RivalsStay
<1>5. ~Rivals(r, request[u])
  BY <1>3, <1>4 DEF NoRivals, Rivals
<1>6. AllMade(s)' = AllMade(s)
  BY <1>2 DEF AllMade, Calls
<1>7. r.column \in Columns(r.row)
  BY <1>3, UpdateRequest
<1>8. r.row \in DOMAIN rows => /\ r.row \in DOMAIN rows' /\ r.column \in DOMAIN rows'[r.row]
                               /\ rows'[r.row][r.column] = rows[r.row][r.column]
  <2>1. CASE Commit(u)
    BY <1>3, <1>5, <2>1, CommitKeepsColumn, CommitRows
  <2>2. CASE ~Commit(u)
    <3>1. rows' = rows
      BY <2>2, StepAdvances DEF Begin, Advances, Grows
    <3>2. r.row \in DOMAIN rows => r.column \in DOMAIN rows[r.row]
      BY <1>7 DEF ShapeInv, WellFormed, RowTyped
    <3> QED
      BY <3>1, <3>2
  <2> QED
    BY <2>1, <2>2
<1>9. r.row \in Visible(s) => /\ r.row \in Visible(s)'
                              /\ Attributes(s, r.row)'[r.column] = Attributes(s, r.row)[r.column]
  <2>1. ASSUME r.row \in Visible(s) PROVE r.row \in Visible(s)'
    BY <1>2, <1>8, <2>1 DEF Visible
  <2>2. ASSUME r.row \in Visible(s)
        PROVE  r.column \in DOMAIN Base(s, r.row)' /\ Base(s, r.row)'[r.column] = Base(s, r.row)[r.column]
    <3>1. CASE r.row \in DOMAIN inserted[s]
      <4>1. Base(s, r.row)' = Base(s, r.row) /\ Base(s, r.row) = inserted[s][r.row]
        BY <1>2, <3>1 DEF Base
      <4>2. r.column \in DOMAIN inserted[s][r.row]
        BY <1>7, <3>1 DEF ShapeInv, WorkTyped, RowTyped
      <4> QED
        BY <4>1, <4>2
    <3>2. CASE r.row \notin DOMAIN inserted[s]
      <4>1. r.row \in DOMAIN rows /\ Base(s, r.row)' = rows'[r.row] /\ Base(s, r.row) = rows[r.row]
        BY <1>2, <2>2, <3>2 DEF Base, Visible
      <4> QED
        BY <1>8, <4>1
    <3> QED
      BY <3>1, <3>2
  <2>3. Written(s, r.row)' = Written(s, r.row)
    BY <1>2 DEF Written
  <2> QED
    BY <1>7, <2>1, <2>2, <2>3, ReadSameColumn
<1>10. pc[s] = "write" => r.row \in Visible(s)
  <2>1. ASSUME pc[s] = "write" PROVE r.row \in Visible(s)
    <3>1. StateTyped /\ PlaceKnown(s) /\ s \in Busy /\ ~AllMade(s)
      BY <2>1 DEF ShapeInv, PlaceKnown, Busy
    <3>2. Call(s).do # "ensure"
      BY <1>3, <3>1, CallKnown, CallsByKind
    <3>5. Call(s).do # "post"
      BY <1>3, <3>1, CallKnown, CallsByKind
    <3>3. Call(s).do = "update" /\ Call(s).row \in Visible(s)
      BY <2>1, <3>1, <3>2, <3>5 DEF PlaceKnown
    <3>4. Call(s).row = r.row
      BY <1>3, <3>1, <3>3, CallKnown, CallsByKind
    <3> QED
      BY <3>3, <3>4
  <2> QED
    BY <2>1
<1>11. ChangeStands(s, r)
  BY <1>1, <1>2, <1>3, <1>4 DEF KeepsChange
<1>12. /\ pc[s] = "write" => loaded[s][r.column] = Attributes(s, r.row)[r.column]
       /\ pc[s] \in {"call", "commit"} /\ AllMade(s) =>
            r.row \in Visible(s) /\ Attributes(s, r.row)[r.column] = r.value
       /\ pc[s] = "done" => r.row \in DOMAIN rows /\ rows[r.row][r.column] = r.value
  BY <1>11 DEF ChangeStands
<1>13. ChangeStands(s, r)'
  BY <1>2, <1>6, <1>8, <1>9, <1>10, <1>12 DEF ChangeStands
<1> QED
  BY <1>2, <1>3, <1>13

(* What is read of a column that is committed is what is committed.         *)
LEMMA ReadCommitted ==
    ASSUME ShapeInv, NEW s \in Sessions, NEW r \in Requests, r.op = "update",
           r.row \in DOMAIN rows, r.row \notin Touched(s)
    PROVE  Attributes(s, r.row)[r.column] = rows[r.row][r.column]
<1>1. r.row \in Visible(s) /\ Base(s, r.row) = rows[r.row] /\ Written(s, r.row) = EmptyFcn
  BY DEF Visible, Base, Touched, Written
<1>2. r.column \in DOMAIN rows[r.row]
  BY UpdateRequest DEF ShapeInv, WellFormed, RowTyped
<1>3. \A c \in DOMAIN Base(s, r.row) \ DOMAIN Written(s, r.row) :
        Attributes(s, r.row)[c] = Base(s, r.row)[c]
  BY <1>1, AttributesType DEF ShapeInv
<1> QED
  BY <1>1, <1>2, <1>3, EmptyValues

(* The session's own steps: it saves the value, or finds it there, ...      *)
LEMMA SaveKeepsChange ==
    ASSUME ShapeInv, NEW s \in Sessions, SaveRow(s), ChangeStands(s, request[s])
    PROVE  ChangeStands(s, request[s])'
<1>1. /\ NextCall(s) /\ rows' = rows /\ inserted' = inserted /\ request' = request
      /\ Call(s).row = request[s].row /\ Call(s).column = request[s].column
      /\ Call(s).value = request[s].value
      /\ request[s] \in Requests /\ request[s].op = "update" /\ Call(s).row \in Visible(s)
      /\ \/ Changed(s) = EmptyFcn /\ updated' = updated
         \/ /\ Changed(s) # EmptyFcn
            /\ updated'[s] = [row \in DOMAIN updated[s] \cup {Call(s).row} |->
                 IF row \in {Call(s).row} THEN Merge(Changed(s), Written(s, row))
                 ELSE updated[s][row]]
  BY SaveGrows DEF SaveRow
<1>2. PICK r \in Requests : r = request[s]
  BY <1>1
<1>3. pc[s] = "write" /\ pc'[s] = "call"
  BY <1>1, MadeOne DEF ShapeInv, SaveRow, At
<1>4. loaded[s][r.column] = Attributes(s, r.row)[r.column]
  BY <1>2, <1>3 DEF ChangeStands
<1>5. r.row \in Visible(s)'
  BY <1>1, <1>2 DEF Visible
<1>6. CASE Changed(s) = EmptyFcn /\ updated' = updated
  <2>1. DOMAIN Changed(s) = {}
    BY <1>6, EmptyValues
  <2>2. loaded[s][r.column] = r.value
    BY <1>1, <1>2, <2>1 DEF Changed, Only
  <2>3. Attributes(s, r.row)' = Attributes(s, r.row)
    BY <1>1, <1>6 DEF Attributes, Written
  <2> QED
    BY <1>2, <1>1, <1>3, <1>4, <1>5, <2>2, <2>3 DEF ChangeStands
<1>7. CASE /\ Changed(s) # EmptyFcn
           /\ updated'[s] = [row \in DOMAIN updated[s] \cup {Call(s).row} |->
                IF row \in {Call(s).row} THEN Merge(Changed(s), Written(s, row))
                ELSE updated[s][row]]
  <2>1. PICK f, g : f = Changed(s) /\ g = Written(s, r.row)
    OBVIOUS
  <2>2. r.column \in DOMAIN f /\ f[r.column] = r.value
    BY <1>1, <1>2, <1>7, <2>1 DEF Changed, Only
  <2>3. Written(s, r.row)' = Merge(f, g)
    BY <1>1, <1>2, <1>7, <2>1 DEF Written
  <2>4. r.column \in DOMAIN Merge(f, g) /\ Merge(f, g)[r.column] = r.value
    BY <2>2 DEF Merge
  <2>5. Attributes(s, r.row)'[r.column] = r.value
    BY <2>3, <2>4, ReadWritten
  <2> QED
    BY <1>1, <1>2, <1>3, <1>5, <2>5 DEF ChangeStands
<1> QED
  BY <1>1, <1>6, <1>7

(* ... and commits it.                                                      *)
LEMMA CommitKeepsChange ==
    ASSUME ShapeInv, NEW s \in Sessions, Commit(s), request[s] \in Requests,
           request[s].op = "update", ChangeStands(s, request[s])
    PROVE  ChangeStands(s, request[s])'
<1>1. /\ pc'[s] = "done" /\ request'[s] = request[s]
      /\ DOMAIN rows' = DOMAIN rows \cup DOMAIN inserted[s]
      /\ \A row \in Touched(s) : rows'[row] = Attributes(s, row)
      /\ \A row \in DOMAIN rows \ Touched(s) : rows'[row] = rows[row]
  BY CommitRows DEF Ends
<1>2. PICK r \in Requests : r = request[s] /\ r.op = "update"
  OBVIOUS
<1>3. AllMade(s) /\ pc[s] = "commit"
  BY DEF ShapeInv, PlaceKnown, Commit
<1>4. r.row \in Visible(s) /\ Attributes(s, r.row)[r.column] = r.value
  BY <1>2, <1>3 DEF ChangeStands
<1>5. r.row \in DOMAIN rows' /\ rows'[r.row][r.column] = r.value
  <2>1. CASE r.row \in Touched(s)
    BY <1>1, <1>4, <2>1 DEF Visible
  <2>2. CASE r.row \notin Touched(s)
    <3>1. r.row \in DOMAIN rows
      BY <1>4, <2>2 DEF Visible, Touched
    <3> QED
      BY <1>1, <1>2, <1>4, <2>2, <3>1, ReadCommitted
  <2> QED
    BY <2>1, <2>2
<1> QED
  BY <1>1, <1>2, <1>5 DEF ChangeStands

(* Before the update, all calls are not made.                               *)
LEMMA UpdateIsLast ==
    ASSUME ShapeInv, NEW s \in Sessions, s \in Busy, ~AllMade(s), request[s].op = "update",
           Call(s).do # "update", NextCall(s), request'[s] = request[s]
    PROVE  ~AllMade(s)'
<1>1. StateTyped /\ PlaceKnown(s)
  BY DEF ShapeInv
<1>2. /\ request[s] \in Requests /\ made[s] + 1 \in 1 .. Len(Calls(s)) /\ Len(Calls(s)) \in Nat
      /\ Call(s) = Calls(s)[made[s] + 1]
  BY <1>1, CallKnown DEF Calls
<1>3. Calls(s)[Len(Calls(s))].do = "update"
  BY <1>2, CallsType DEF CallsKnown, Calls
<1>4. made[s] + 1 # Len(Calls(s))
  BY <1>2, <1>3
<1>5. made'[s] = made[s] + 1 /\ Calls(s)' = Calls(s)
  BY <1>1, MadeOne DEF Calls
<1> QED
  BY <1>4, <1>5 DEF AllMade

LEMMA OwnKeepsChange ==
    ASSUME ShapeInv, ShapeInv', Unasked, NEW s \in Sessions, Begin(s) \/ Step(s) \/ Crash(s),
           KeepsChange(s)
    PROVE  KeepsChange(s)'
<1>0. StateTyped /\ PlaceKnown(s) /\ OthersKeep(s)
  BY SessionMoves DEF ShapeInv
<1>1. SUFFICES ASSUME pc'[s] # "idle", request'[s].op = "update", NoRivals(s)'
               PROVE  ChangeStands(s, request[s])'
  BY DEF KeepsChange
<1>2. CASE Begin(s)
  <2>1. pc'[s] = "call" /\ made'[s] = 0 /\ request'[s] \in Requests
    BY <1>0, <1>2 DEF Begin, Goto, StateTyped, PlaceKnown, Busy, work
  <2>2. Len(CallsOf(request'[s])) >= 1 /\ Len(CallsOf(request'[s])) \in Nat
    BY <1>1, <2>1, CallsType DEF CallsKnown
  <2>3. ~AllMade(s)'
    BY <2>1, <2>2 DEF AllMade, Calls
  <2> QED
    BY <2>1, <2>3 DEF ChangeStands
<1>3. CASE Step(s) \/ Crash(s)
  <2>1. s \in Busy /\ request[s] \in Requests /\ request[s] # None
    BY <1>0, <1>3, StepBusy, CatalogAssumption DEF PlaceKnown, Busy
  <2>2. request'[s] = request[s] /\ request[s].op = "update" /\ NoRivals(s)
    BY <1>1, <1>3, <2>1, RivalsStay
  <2>3. ChangeStands(s, request[s])
    BY <2>1, <2>2 DEF KeepsChange, Busy
  <2>4. \A where \in {"failed", "crashed"} : pc'[s] = where => ChangeStands(s, request[s])'
    BY DEF ChangeStands
  <2>5. \A where \in {"failed", "crashed"} : \A code : End(s, where, code) => pc'[s] = where
    BY <1>0 DEF End, Goto, StateTyped
  <2>6. \A code : Fail(s, code) => ChangeStands(s, request[s])'
    BY <2>4, <2>5 DEF Fail
  <2>7. ~AllMade(s) => CallOf(request[s], made[s] + 1, Call(s))
    BY <1>0, <2>1, CallKnown
  <2>8. ~AllMade(s) => Call(s).do \notin {"ensure", "insert", "post", "resolve", "guard"}
    BY <2>1, <2>2, <2>7, CallsByKind
  <2>9. CASE RequireRow(s)
    <3>1. CASE Call(s).row \notin Visible(s)
      BY <2>6, <2>9, <3>1 DEF RequireRow
    <3>2. CASE Call(s).row \in Visible(s)
      <4>1. NextCall(s) /\ ~AllMade(s) /\ Call(s).do = "require"
        BY <2>9, <3>2 DEF RequireRow, At
      <4>2. ~AllMade(s)' /\ pc'[s] = "call"
        BY <1>0, <2>1, <2>2, <4>1, UpdateIsLast, MadeOne
      <4> QED
        BY <4>2 DEF ChangeStands
    <3> QED
      BY <3>1, <3>2
  <2>10. CASE RefuseProvision(s) \/ AbortDeadlocked(s)
    BY <2>6, <2>10 DEF RefuseProvision, AbortDeadlocked
  <2>11. CASE CheckSeeded(s) \/ LookRow(s) \/ InsertRow(s) \/ ReplayPost(s) \/ ReadAccounts(s)
              \/ LoseKey(s) \/ PostTxn(s) \/ ResolveReceivable(s)
    BY <2>8, <2>11
    DEF CheckSeeded, LookRow, InsertRow, ReplayPost, ReadAccounts, LoseKey, PostTxn,
        ResolveReceivable, At
  <2>12. CASE LoadRow(s)
    <3>1. CASE Call(s).row \notin Visible(s)
      BY <2>6, <2>12, <3>1 DEF LoadRow
    <3>2. CASE Call(s).row \in Visible(s)
      <4>1. /\ ~AllMade(s) /\ Call(s).do = "update" /\ pc'[s] = "write"
            /\ loaded'[s] = Attributes(s, Call(s).row)
            /\ rows' = rows /\ inserted' = inserted /\ updated' = updated
        BY <1>0, <2>12, <3>2 DEF LoadRow, At, Goto, StateTyped
      <4>2. Call(s).row = request[s].row
        BY <2>1, <2>7, <4>1, CallsByKind
      <4>3. \A row : Attributes(s, row)' = Attributes(s, row)
        BY <4>1 DEF Attributes, Written
      <4> QED
        BY <2>2, <4>1, <4>2, <4>3 DEF ChangeStands
    <3> QED
      BY <3>1, <3>2
  <2>13. CASE SaveRow(s)
    BY <2>3, <2>13, SaveKeepsChange
  <2>14. CASE Finish(s)
    <3>1. /\ pc[s] = "call" /\ AllMade(s) /\ pc'[s] = "commit"
          /\ rows' = rows /\ inserted' = inserted /\ updated' = updated
      BY <1>0, <2>14 DEF Finish, Goto, StateTyped, work
    <3>2. /\ Visible(s)' = Visible(s) /\ \A row : Attributes(s, row)' = Attributes(s, row)
      BY <3>1 DEF Visible, Attributes, Written
    <3> QED
      BY <2>2, <2>3, <3>1, <3>2 DEF ChangeStands
  <2>15. CASE Commit(s)
    BY <2>1, <2>2, <2>3, <2>15, CommitKeepsChange
  <2>16. CASE Crash(s)
    BY <2>4, <2>5, <2>16 DEF Crash
  <2> QED
    BY <1>3, <2>9, <2>10, <2>11, <2>12, <2>13, <2>14, <2>15, <2>16 DEF Step
<1> QED
  BY <1>2, <1>3

(* A change that no other request makes is not lost.                        *)
THEOREM ChangesKept == Spec => []ChangeNotLost
<1>1. Init => Unasked /\ ChangeInv
  BY DEF Init, Unasked, ChangeInv, KeepsChange
<1>2. ShapeInv /\ Unasked /\ ChangeInv /\ [Next]_vars => Unasked' /\ ChangeInv'
  <2>1. ASSUME ShapeInv, Unasked, ChangeInv, NEW u \in Sessions, Begin(u) \/ Step(u) \/ Crash(u)
        PROVE  Unasked' /\ ChangeInv'
    <3>1. ShapeInv' /\ Unasked'
      BY <2>1, ShapeSteps, RivalsStay
    <3>2. \A s \in Sessions : KeepsChange(s)'
      BY <2>1, <3>1, OwnKeepsChange, OthersKeepChange DEF ChangeInv
    <3> QED
      BY <3>1, <3>2 DEF ChangeInv
  <2>2. ASSUME Unasked, ChangeInv, UNCHANGED vars PROVE Unasked' /\ ChangeInv'
    BY <2>2 DEF Unasked, ChangeInv, KeepsChange, ChangeStands, NoRivals, vars, work, Visible,
         Attributes, Written, AllMade, Calls
  <2> QED
    BY <2>1, <2>2 DEF Next, Quiet
<1>3. Unasked /\ ChangeInv => ChangeNotLost
  BY DEF ChangeInv, KeepsChange, ChangeStands, NoRivals, ChangeNotLost
<1> QED
  BY <1>1, <1>2, <1>3, ShapeHolds, PTL DEF Spec
====
