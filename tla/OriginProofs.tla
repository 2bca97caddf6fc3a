---- MODULE OriginProofs ----
(***************************************************************************)
(* What current_balance and balance_version say of the entries, for any    *)
(* number of sessions: a session's copy of an account row is the row of    *)
(* some earlier moment, what it adds to it are its own entries, and a      *)
(* version that equals the number of entries vouches for the balance.      *)
(* Then where transactions come from: each was made for one request, and   *)
(* what follows from that for transfers, reversals and receivables.        *)
(***************************************************************************)
EXTENDS LedgerProofs, LedgerAmounts, AmountTheorems

(* Pairs of a transaction and the number of one of its entries.             *)
Lines == UNION {{t} \X DOMAIN t.entries : t \in Txn}

(* The entries of the transactions T on account a.                          *)
Contents(T, a) == UNION {{<<t, i>> : i \in {j \in DOMAIN t.entries : AccountAt(t, j) = a}} : t \in T}

(* What they add to the balance of a.                                       *)
Weight(a, x) == Delta(Chart[a].type, x[1].entries[x[2]].type, x[1].entries[x[2]].amount)
Weighted(a, E) == [x \in E |-> Weight(a, x)]
Signed(a, E) == SumFunctionOnSet(Weighted(a, E), E)

LEMMA ContentsOf ==
    ASSUME NEW T, NEW a, NEW x
    PROVE  x \in Contents(T, a) <=>
             \E t \in T : \E i \in DOMAIN t.entries : x = <<t, i>> /\ AccountAt(t, i) = a
  BY DEF Contents

(* A line is a transaction and the position of one of its entries.          *)
LEMMA LineParts ==
    ASSUME NEW x \in Lines
    PROVE  /\ x = <<x[1], x[2]>> /\ x[1] \in Txn /\ x[2] \in DOMAIN x[1].entries
           /\ x[1].entries[x[2]] \in Entry
<1>1. PICK t \in Txn : x \in {t} \X DOMAIN t.entries
  BY DEF Lines
<1>2. t.entries \in Seq(Entry)
  BY DEF Txn
<1>3. x[1] = t /\ x[2] \in DOMAIN t.entries /\ x = <<x[1], x[2]>>
  BY <1>1
<1>4. t.entries[x[2]] \in Entry
  BY <1>2, <1>3, ElementOfSeq, LenProperties
<1> QED
  BY <1>3, <1>4

(* The entries of transactions on an account are lines.                     *)
LEMMA ContentsAreLines ==
    ASSUME NEW T, T \subseteq Txn, NEW a PROVE Contents(T, a) \subseteq Lines
<1> SUFFICES ASSUME NEW x \in Contents(T, a) PROVE x \in Lines
  OBVIOUS
<1>1. PICK t \in T : \E i \in DOMAIN t.entries : x = <<t, i>>
  BY ContentsOf
<1>2. x \in {t} \X DOMAIN t.entries
  BY <1>1
<1> QED
  BY <1>2 DEF Lines

(* Finitely many transactions have finitely many entries.                   *)
LEMMA ContentsFinite ==
    ASSUME NEW T, IsFiniteSet(T), T \subseteq Txn, NEW a PROVE IsFiniteSet(Contents(T, a))
<1> DEFINE on(t) == {j \in DOMAIN t.entries : AccountAt(t, j) = a}
           of == [t \in T |-> {<<t, i>> : i \in on(t)}]
           parts == {of[t] : t \in T}
<1>1. Contents(T, a) = UNION parts
  BY DEF Contents
<1>2. IsFiniteSet(parts)
  <2> HIDE DEF of
  <2> QED
    BY FiniteImage
<1>3. ASSUME NEW t \in T PROVE IsFiniteSet(of[t])
  <2>1. t.entries \in Seq(Entry)
    BY DEF Txn
  <2>2. DOMAIN t.entries = 1 .. Len(t.entries) /\ Len(t.entries) \in Nat
    BY <2>1, LenProperties
  <2>3. IsFiniteSet(on(t))
    <3>1. IsFiniteSet(1 .. Len(t.entries))
      BY <2>2, FS_Interval
    <3> QED
      BY <2>2, <3>1, FS_Subset
  <2> DEFINE pair == [i \in on(t) |-> <<t, i>>]
  <2>4. of[t] = {pair[i] : i \in on(t)}
    OBVIOUS
  <2>5. IsFiniteSet({pair[i] : i \in on(t)})
    <3> HIDE DEF pair, on
    <3> QED
      BY <2>3, FiniteImage
  <2> QED
    BY <2>4, <2>5
<1>4. \A P \in parts : IsFiniteSet(P)
  BY <1>3
<1>5. IsFiniteSet(UNION parts)
  <2> HIDE DEF parts
  <2> QED
    BY <1>2, <1>4, FS_UNION
<1> QED
  BY <1>1, <1>5

(* An entry weighs an integer.                                              *)
LEMMA WeightType == ASSUME NEW a, NEW x \in Lines PROVE Weight(a, x) \in Int
  BY LineParts DEF Weight, Delta, Entry

(* The weights of finitely many entries can be added up.                    *)
LEMMA WeightedSummable ==
    ASSUME NEW a, NEW E, NEW D, E \subseteq D, IsFiniteSet(E), E \subseteq Lines
    PROVE  Summable(Weighted(a, D), E)
  BY WeightType DEF Summable, Weighted

(* Their sum is an integer.                                                 *)
LEMMA SignedType ==
    ASSUME NEW a, NEW E, IsFiniteSet(E), E \subseteq Lines PROVE Signed(a, E) \in Int
  BY WeightedSummable, SumType DEF Signed

(* A part of the entries weighs the same seen alone.                        *)
LEMMA SignedPart ==
    ASSUME NEW a, NEW D, NEW E, E \subseteq D, IsFiniteSet(E), E \subseteq Lines
    PROVE  SumFunctionOnSet(Weighted(a, D), E) = Signed(a, E)
<1>1. \A x \in E : Weighted(a, D)[x] = Weighted(a, E)[x]
  BY DEF Weighted
<1> QED
  BY <1>1, WeightedSummable, SumSame DEF Signed

(* Disjoint sets of entries add up, in weight and in number.                *)
LEMMA SignedUnion ==
    ASSUME NEW a, NEW D, NEW E, IsFiniteSet(D), IsFiniteSet(E), D \subseteq Lines, E \subseteq Lines,
           D \cap E = {}
    PROVE  /\ Signed(a, D \cup E) = Signed(a, D) + Signed(a, E)
           /\ Cardinality(D \cup E) = Cardinality(D) + Cardinality(E)
<1>1. IsFiniteSet(D \cup E) /\ Cardinality(D \cup E) = Cardinality(D) + Cardinality(E)
  <2>1. IsFiniteSet(D \cup E)
        /\ Cardinality(D \cup E) = Cardinality(D) + Cardinality(E) - Cardinality(D \cap E)
    BY FS_Union
  <2>2. Cardinality(D \cap E) = 0 /\ Cardinality(D) \in Nat /\ Cardinality(E) \in Nat
    BY FS_EmptySet, FS_CardinalityType
  <2> QED
    BY <2>1, <2>2
<1>2. Summable(Weighted(a, D \cup E), D \cup E)
  BY <1>1, WeightedSummable
<1>3. SumFunctionOnSet(Weighted(a, D \cup E), D \cup E) =
        SumFunctionOnSet(Weighted(a, D \cup E), D) + SumFunctionOnSet(Weighted(a, D \cup E), E)
  BY <1>2, SumUnion
<1>4. /\ SumFunctionOnSet(Weighted(a, D \cup E), D) = Signed(a, D)
      /\ SumFunctionOnSet(Weighted(a, D \cup E), E) = Signed(a, E)
  BY SignedPart
<1> QED
  BY <1>1, <1>3, <1>4 DEF Signed

(* One more entry adds its weight.                                          *)
LEMMA SignedAdd ==
    ASSUME NEW a, NEW E, IsFiniteSet(E), E \subseteq Lines, NEW x \in Lines, x \notin E
    PROVE  /\ Signed(a, E \cup {x}) = Signed(a, E) + Weight(a, x)
           /\ Cardinality(E \cup {x}) = Cardinality(E) + 1
<1>1. Signed(a, {x}) = Weight(a, x)
  BY WeightType, SumOne DEF Signed, Weighted
<1>2. IsFiniteSet({x}) /\ Cardinality({x}) = 1 /\ {x} \subseteq Lines /\ E \cap {x} = {}
  BY FS_Singleton
<1>3. /\ Signed(a, E \cup {x}) = Signed(a, E) + Signed(a, {x})
      /\ Cardinality(E \cup {x}) = Cardinality(E) + Cardinality({x})
  BY <1>2, SignedUnion
<1> QED
  BY <1>1, <1>2, <1>3

(* No entries weigh nothing.                                                *)
LEMMA SignedEmpty == ASSUME NEW a PROVE Signed(a, {}) = 0 /\ Cardinality({}) = 0
  BY SumEmpty, FS_EmptySet DEF Signed

(* The sum the properties speak of.                                         *)
LEMMA EntriesAsContents ==
    ASSUME NEW a
    PROVE  EntriesOn(a) = Contents(journal, a) /\ EntrySum(a) = Signed(a, Contents(journal, a))
  BY DEF EntriesOn, EntrySum, Contents, Signed, Weighted, Weight

-----------------------------------------------------------------------------
(* The entries of s whose deltas its dirty rows have: all it has inserted,  *)
(* but of the transaction being posted only those behind the cursor.        *)
AppliedTo(s, a) == {x \in Contents(inserted[s], a) :
                      pc[s] = "lock" /\ x[1] = Current(s) => x[2] <= cursor[s]}

(* A loaded row is no newer than the entries, and when it is as new it has  *)
(* their sum, as the committed row has.                                     *)
Snapshot(s) ==
    \A a \in DOMAIN loaded[s] :
        /\ loaded[s][a].version <= Cardinality(EntriesOn(a))
        /\ loaded[s][a].version = Cardinality(EntriesOn(a)) =>
             loaded[s][a].balance = EntrySum(a) /\ account[a].balance = EntrySum(a)

(* A dirty row is the loaded one with the applied entries added.            *)
Tally(s) ==
    /\ \A a \in Accounts : a \in DOMAIN dirty[s] <=> AppliedTo(s, a) # {}
    /\ \A a \in DOMAIN dirty[s] :
        /\ a \in DOMAIN loaded[s]
        /\ dirty[s][a].version = loaded[s][a].version + Cardinality(AppliedTo(s, a))
        /\ dirty[s][a].balance = loaded[s][a].balance + Signed(a, AppliedTo(s, a))

FiniteInv == IsFiniteSet(journal) /\ \A s \in Sessions : IsFiniteSet(inserted[s])

BalanceInv ==
    /\ KeyInv /\ SaleInv /\ FiniteInv /\ DriftShowsInVersion
    /\ \A s \in Sessions : Snapshot(s) /\ Tally(s)

LEMMA BookedFinite ==
    ASSUME KeyInv, FiniteInv, NEW s \in Sessions, NEW a
    PROVE  /\ IsFiniteSet(EntriesOn(a)) /\ EntriesOn(a) \subseteq Lines
           /\ IsFiniteSet(AppliedTo(s, a)) /\ AppliedTo(s, a) \subseteq Lines
           /\ Cardinality(EntriesOn(a)) \in Nat /\ EntrySum(a) \in Int
           /\ Cardinality(AppliedTo(s, a)) \in Nat /\ Signed(a, AppliedTo(s, a)) \in Int
<1>1. journal \subseteq Txn /\ inserted[s] \subseteq Txn
  BY DEF KeyInv, ShapeInv, TypeOK
<1>2. IsFiniteSet(EntriesOn(a)) /\ EntriesOn(a) \subseteq Lines
  BY <1>1, ContentsFinite, ContentsAreLines, EntriesAsContents DEF FiniteInv
<1>3. IsFiniteSet(Contents(inserted[s], a)) /\ Contents(inserted[s], a) \subseteq Lines
  BY <1>1, ContentsFinite, ContentsAreLines DEF FiniteInv
<1>4. IsFiniteSet(AppliedTo(s, a)) /\ AppliedTo(s, a) \subseteq Lines
  <2>1. AppliedTo(s, a) \subseteq Contents(inserted[s], a)
    BY DEF AppliedTo
  <2> QED
    BY <1>3, <2>1, FS_Subset
<1> QED
  BY <1>2, <1>4, FS_CardinalityType, SignedType, EntriesAsContents

-----------------------------------------------------------------------------
(* What the steps of a session do with account rows.                        *)
KeepsRows(s) ==
    /\ UNCHANGED <<journal, account, loaded, dirty, inserted>>
    /\ pc[s] # "lock" /\ pc'[s] \notin {"lock", "idle"} \cup Over

Loads(s) ==
    /\ \E as \in SUBSET Accounts : Load(s, as)
    /\ UNCHANGED <<journal, account, dirty, inserted>>
    /\ pc[s] # "lock" /\ pc'[s] \notin {"lock", "idle"} \cup Over

LEMMA OriginalOnChart ==
    ASSUME ShapeInv, NEW r, OriginalFound(r)
    PROVE  {AccountAt(Original(r), i) : i \in DOMAIN Original(r).entries} \subseteq Accounts
  BY KeyUsedTxn DEF OriginalFound, Original, ShapeInv, Booked, OnChart

(* The ways in which a step treats the account rows of a session.           *)
LEMMA RowKinds ==
    ASSUME ShapeInv, NEW s \in Sessions, SessionMove(s)
    PROVE  KeepsRows(s) \/ Loads(s) \/ Inserts(s) \/ LockAndApply(s) \/ Finishes(s) \/ Commit(s)
           \/ Drops(s)
<1> USE DEF others, tables, work, Goto, Over
<1>1. ASSUME NEW code, Fail(s, code), pc[s] # "idle" PROVE Drops(s)
  BY <1>1 DEF Fail, Drops, ShapeInv, TypeOK
<1>2. CASE Begin(s) \/ LookupSendKey(s) \/ LookupRecvKey(s) \/ Respond(s)
  BY <1>2 DEF Begin, FirstStep, LookupSendKey, LookupRecvKey, Respond, KeepsRows, ShapeInv, TypeOK
<1>3. CASE LookupKey(s)
  <2>1. CASE NextPayload(s)
    BY <1>3, <2>1, NextPayloadShape DEF LookupKey, KeepsRows
  <2>2. CASE Goto(s, "period")
    BY <1>3, <2>2 DEF LookupKey, KeepsRows, ShapeInv, TypeOK
  <2> QED
    BY <1>3, <2>1, <2>2 DEF LookupKey
<1>4. CASE ResolveAccounts(s) \/ VoidTransaction(s) \/ CheckPeriod(s)
  BY <1>4, <1>1 DEF ResolveAccounts, VoidTransaction, CheckPeriod, KeepsRows, ShapeInv, TypeOK
<1>5. CASE LoadOriginal(s)
  <2>1. CASE OriginalFound(request[s])
    <3> DEFINE as == {AccountAt(Original(request[s]), i) : i \in DOMAIN Original(request[s]).entries}
    <3>1. /\ Load(s, as) /\ pc[s] = "original" /\ pc' = [pc EXCEPT ![s] = "key"]
          /\ UNCHANGED <<journal, account, dirty, inserted>>
      BY <1>5, <2>1 DEF LoadOriginal
    <3>2. as \in SUBSET Accounts
      BY <2>1, OriginalOnChart
    <3> HIDE DEF as
    <3> QED
      BY <3>1, <3>2 DEF Loads, ShapeInv, TypeOK
  <2> QED
    BY <1>5, <1>1, <2>1 DEF LoadOriginal
<1>6. CASE ReadAccount(s)
  <2>1. CASE CurrentAccount(s) \in Accounts
    <3>1. Load(s, {CurrentAccount(s)}) /\ {CurrentAccount(s)} \in SUBSET Accounts
      BY <1>6, <2>1 DEF ReadAccount
    <3> QED
      BY <1>6, <2>1, <3>1 DEF ReadAccount, Loads
  <2> QED
    BY <1>6, <1>1, <2>1 DEF ReadAccount
<1>7. CASE InsertTransaction(s)
  BY <1>7, <1>1, InsertCases
<1>8. CASE FinishPost(s)
  BY <1>8, <1>1, FinishCases
<1>9. CASE SettleReceivable(s) \/ CancelReceivable(s)
  <2>1. CASE Resolves(s)
    BY <2>1 DEF Resolves, KeepsRows, ShapeInv, TypeOK
  <2> QED
    BY <1>9, <1>1, <2>1, ResolveCases
<1>10. CASE AbortDeadlocked(s) \/ Crash(s)
  BY <1>10, <1>1 DEF AbortDeadlocked, InDeadlock, BusySessions, Crash, Drops, ShapeInv, TypeOK
<1> QED
  BY <1>2, <1>3, <1>4, <1>5, <1>6, <1>7, <1>8, <1>9, <1>10 DEF SessionMove, SessionStep

-----------------------------------------------------------------------------
(* How the steps change the applied entries.                                *)
LEMMA AppliedSame ==
    ASSUME NEW u, inserted'[u] = inserted[u], pc[u] = "lock" <=> pc'[u] = "lock",
           pc[u] = "lock" => cursor'[u] = cursor[u] /\ todo'[u] = todo[u], NEW a
    PROVE  AppliedTo(u, a)' = AppliedTo(u, a)
  BY DEF AppliedTo, Contents, Current

(* A transaction that has just been inserted has no applied entry.          *)
LEMMA InsertApplied ==
    ASSUME KeyInv, SaleInv, NEW s \in Sessions, Inserts(s), NEW a
    PROVE  AppliedTo(s, a)' = AppliedTo(s, a)
<1>1. /\ inserted'[s] = inserted[s] \cup {Current(s)} /\ pc[s] = "read" /\ pc'[s] = "lock"
      /\ cursor'[s] = 0 /\ Current(s)' = Current(s)
  BY DEF Inserts, KeyInv, ShapeInv, TypeOK, Current
<1>2. Current(s) \notin inserted[s]
  BY <1>1 DEF KeyInv, FreshKey, KeyUsed
<1>3. Current(s).entries \in Seq(Entry)
  BY <1>1, CurrentType DEF KeyInv
<1>4. \A i \in DOMAIN Current(s).entries : ~(i <= 0)
  BY <1>3, LenProperties
<1>5. ASSUME NEW x PROVE x \in AppliedTo(s, a)' <=> x \in AppliedTo(s, a)
  <2>1. x \in AppliedTo(s, a) <=>
          \E t \in inserted[s] : \E i \in DOMAIN t.entries : x = <<t, i>> /\ AccountAt(t, i) = a
    BY <1>1, ContentsOf DEF AppliedTo
  <2>2. x \in AppliedTo(s, a)' <=>
          /\ x \in Contents(inserted[s] \cup {Current(s)}, a)
          /\ x[1] = Current(s) => x[2] <= 0
    BY <1>1 DEF AppliedTo, Contents
  <2>3. x \in Contents(inserted[s] \cup {Current(s)}, a) <=>
          \E t \in inserted[s] \cup {Current(s)} : \E i \in DOMAIN t.entries :
             x = <<t, i>> /\ AccountAt(t, i) = a
    BY ContentsOf
  <2> QED
    BY <1>2, <1>4, <2>1, <2>2, <2>3
<1> QED
  BY <1>5

(* A post that is finished has all its entries applied.                     *)
LEMMA FinishApplied ==
    ASSUME KeyInv, NEW s \in Sessions, Finishes(s), NEW a
    PROVE  AppliedTo(s, a)' = AppliedTo(s, a)
<1>1. pc[s] = "lock" /\ ~EntriesLeft(s) /\ inserted'[s] = inserted[s] /\ pc'[s] # "lock"
  BY NextPayloadShape DEF Finishes, KeyInv
<1>2. /\ DOMAIN Current(s).entries = 1 .. Len(Current(s).entries)
      /\ Len(Current(s).entries) \in Nat /\ cursor[s] \in Nat
  BY <1>1, CurrentType DEF KeyInv, ShapeInv, TypeOK
<1>3. \A i \in DOMAIN Current(s).entries : i <= cursor[s]
  BY <1>1, <1>2 DEF EntriesLeft
<1>4. ASSUME NEW x \in Contents(inserted[s], a), x[1] = Current(s) PROVE x[2] <= cursor[s]
  BY <1>3, <1>4, ContentsOf
<1>5. AppliedTo(s, a) = Contents(inserted[s], a)
  BY <1>4 DEF AppliedTo
<1>6. AppliedTo(s, a)' = Contents(inserted[s], a)
  BY <1>1 DEF AppliedTo, Contents
<1> QED
  BY <1>5, <1>6

(* An entry that is applied was not applied before, and counts from now on. *)
LEMMA LockApplied ==
    ASSUME KeyInv, SaleInv, NEW s \in Sessions, LockAndApply(s), NEW a
    PROVE  LET x == <<Current(s), cursor[s] + 1>>
           IN  /\ x \in Lines /\ x \notin AppliedTo(s, a)
               /\ AppliedTo(s, a)' = IF a = CurrentAccount(s) THEN AppliedTo(s, a) \cup {x}
                                     ELSE AppliedTo(s, a)
<1> DEFINE t == Current(s)
           n == cursor[s] + 1
<1>1. /\ pc[s] = "lock" /\ pc'[s] = "lock" /\ inserted'[s] = inserted[s] /\ cursor'[s] = n
      /\ Current(s)' = t /\ t \in inserted[s] /\ EntriesLeft(s)
  BY DEF LockAndApply, KeyInv, SaleInv, SaleWrites, ShapeInv, TypeOK, Current
<1>2. /\ DOMAIN t.entries = 1 .. Len(t.entries) /\ t \in Txn
      /\ Len(t.entries) \in Nat /\ cursor[s] \in Nat
  BY <1>1, CurrentType DEF KeyInv, ShapeInv, TypeOK
<1>3. n \in DOMAIN t.entries /\ AccountAt(t, n) = CurrentAccount(s) /\ ~(n <= cursor[s])
  BY <1>1, <1>2 DEF EntriesLeft, CurrentAccount
<1>4. <<t, n>> \in Lines
  BY <1>2, <1>3 DEF Lines
<1>5. \A i \in DOMAIN t.entries : i <= n <=> i <= cursor[s] \/ i = n
  BY <1>2
<1>6. \A x : x \in AppliedTo(s, a) <=>
         \E v \in inserted[s] : \E i \in DOMAIN v.entries :
            x = <<v, i>> /\ AccountAt(v, i) = a /\ (v = t => i <= cursor[s])
  BY <1>1, ContentsOf DEF AppliedTo
<1>7. \A x : x \in AppliedTo(s, a)' <=>
         \E v \in inserted[s] : \E i \in DOMAIN v.entries :
            x = <<v, i>> /\ AccountAt(v, i) = a /\ (v = t => i <= n)
  <2>1. AppliedTo(s, a)' = {x \in Contents(inserted[s], a) : x[1] = t => x[2] <= n}
    BY <1>1 DEF AppliedTo, Contents
  <2> QED
    BY <2>1, ContentsOf
<1>8. <<t, n>> \notin AppliedTo(s, a)
  BY <1>3, <1>6
<1>9. ASSUME NEW x
      PROVE  x \in AppliedTo(s, a)' <=> x \in AppliedTo(s, a) \/ (a = CurrentAccount(s) /\ x = <<t, n>>)
  <2> HIDE DEF t, n
  <2> QED
    BY <1>1, <1>3, <1>5, <1>6, <1>7
<1> QED
  BY <1>4, <1>8, <1>9

-----------------------------------------------------------------------------
(* What the moving session knows of the rows.                               *)
LEMMA LedgerSame ==
    ASSUME UNCHANGED <<journal, account>>
    PROVE  /\ \A a : EntriesOn(a)' = EntriesOn(a) /\ EntrySum(a)' = EntrySum(a)
           /\ DriftShowsInVersion => DriftShowsInVersion'
<1>1. \A a : EntriesOn(a)' = EntriesOn(a) /\ EntrySum(a)' = EntrySum(a)
  BY DEF EntriesOn, EntrySum
<1> QED
  BY <1>1 DEF DriftShowsInVersion

(* What was true of a loaded row stays true while books and row stay.       *)
LEMMA SnapshotSame ==
    ASSUME NEW u, Snapshot(u), UNCHANGED <<journal, account>>, loaded'[u] = loaded[u]
    PROVE  Snapshot(u)'
  BY LedgerSame DEF Snapshot

(* So does what was true of a changed row.                                  *)
LEMMA TallySame ==
    ASSUME NEW u, Tally(u), dirty'[u] = dirty[u], loaded'[u] = loaded[u],
           \A a : AppliedTo(u, a)' = AppliedTo(u, a)
    PROVE  Tally(u)'
<1>1. \A a : Signed(a, AppliedTo(u, a))' = Signed(a, AppliedTo(u, a))
  BY DEF Signed, Weighted, Weight
<1> QED
  BY <1>1 DEF Tally

(* A session without rows has nothing to be wrong about.                    *)
LEMMA ReleasedRows ==
    ASSUME NEW s \in Sessions, loaded'[s] = EmptyFcn, dirty'[s] = EmptyFcn, inserted'[s] = {}
    PROVE  Snapshot(s)' /\ Tally(s)'
<1>1. \A a : AppliedTo(s, a)' = {}
  BY DEF AppliedTo, Contents
<1> QED
  BY <1>1 DEF Snapshot, Tally, EmptyFcn

(* A row just loaded is as it was committed.                                *)
LEMMA LoadsRows ==
    ASSUME BalanceInv, NEW s \in Sessions, Loads(s) PROVE Snapshot(s)' /\ Tally(s)'
<1>1. PICK as \in SUBSET Accounts : Load(s, as)
  BY DEF Loads
<1>2. loaded'[s] = [a \in DOMAIN loaded[s] \cup as |->
                      IF a \in DOMAIN loaded[s] THEN loaded[s][a] ELSE account[a]]
  BY <1>1 DEF Load, BalanceInv, KeyInv, ShapeInv, TypeOK
<1>3. /\ DOMAIN loaded'[s] = DOMAIN loaded[s] \cup as
      /\ \A a \in DOMAIN loaded[s] : loaded'[s][a] = loaded[s][a]
      /\ \A a \in as \ DOMAIN loaded[s] : loaded'[s][a] = account[a]
  BY <1>2
<1>4. /\ \A a : EntriesOn(a)' = EntriesOn(a) /\ EntrySum(a)' = EntrySum(a)
      /\ account' = account
  BY LedgerSame DEF Loads
<1>5. Snapshot(s)'
  BY <1>3, <1>4 DEF BalanceInv, Snapshot, DriftShowsInVersion
<1>6. \A a : AppliedTo(s, a)' = AppliedTo(s, a)
  BY AppliedSame DEF Loads
<1>7. \A a : Signed(a, AppliedTo(s, a))' = Signed(a, AppliedTo(s, a))
  BY <1>6 DEF Signed, Weighted, Weight
<1>8. dirty'[s] = dirty[s]
  BY DEF Loads
<1>9. Tally(s)
  BY DEF BalanceInv
<1>10. Tally(s)'
  <2>1. \A a \in Accounts : a \in DOMAIN dirty'[s] <=> AppliedTo(s, a)' # {}
    BY <1>6, <1>8, <1>9 DEF Tally
  <2>2. ASSUME NEW a \in DOMAIN dirty'[s]
        PROVE  /\ a \in DOMAIN loaded'[s]
               /\ dirty'[s][a].version = loaded'[s][a].version + Cardinality(AppliedTo(s, a)')
               /\ dirty'[s][a].balance = loaded'[s][a].balance + Signed(a, AppliedTo(s, a))'
    BY <1>3, <1>6, <1>7, <1>8, <1>9, <2>2 DEF Tally
  <2> QED
    BY <2>1, <2>2 DEF Tally
<1> QED
  BY <1>5, <1>10

(* A flush leaves version and balance of a changed row alone.               *)
LEMMA InsertRows ==
    ASSUME BalanceInv, NEW s \in Sessions, Inserts(s) PROVE Snapshot(s)' /\ Tally(s)'
<1>1. UNCHANGED <<journal, account>> /\ loaded'[s] = loaded[s] /\ dirty'[s] = Flushed(s)
  BY DEF Inserts, others, tables, BalanceInv, KeyInv, ShapeInv, TypeOK
<1>2. Snapshot(s)'
  BY <1>1, SnapshotSame DEF BalanceInv
<1>3. \A a : AppliedTo(s, a)' = AppliedTo(s, a)
  BY InsertApplied DEF BalanceInv
<1>4. \A a : Signed(a, AppliedTo(s, a))' = Signed(a, AppliedTo(s, a))
  BY <1>3 DEF Signed, Weighted, Weight
<1>5. /\ DOMAIN dirty'[s] = DOMAIN dirty[s]
      /\ \A a \in DOMAIN dirty[s] : /\ dirty'[s][a].version = dirty[s][a].version
                                    /\ dirty'[s][a].balance = dirty[s][a].balance
  <2>1. \A a \in DOMAIN dirty[s] : dirty[s][a] \in DirtyRow
    BY DEF BalanceInv, KeyInv, ShapeInv, TypeOK, PartialFcn
  <2> QED
    BY <1>1, <2>1 DEF Flushed, DirtyRow
<1>6. Tally(s)'
  BY <1>1, <1>3, <1>4, <1>5 DEF BalanceInv, Tally
<1> QED
  BY <1>2, <1>6

(* Applying an entry moves balance and version of the row by one entry.     *)
LEMMA LockRows ==
    ASSUME BalanceInv, NEW s \in Sessions, LockAndApply(s) PROVE Snapshot(s)' /\ Tally(s)'
<1>a. PICK c : c = CurrentAccount(s)
  OBVIOUS
<1>x. PICK x : x = <<Current(s), cursor[s] + 1>>
  OBVIOUS
<1>r. PICK row : row = Applied(Attributes(s, c), c, x[1].entries[x[2]])
  OBVIOUS
<1>1. UNCHANGED <<journal, account>> /\ loaded'[s] = loaded[s] /\ dirty'[s] = Put(dirty[s], c, row)
  BY <1>a, <1>x, <1>r DEF LockAndApply, others, tables, BalanceInv, KeyInv, ShapeInv, TypeOK
<1>2. Snapshot(s)'
  BY <1>1, SnapshotSame DEF BalanceInv
<1>3. /\ x \in Lines /\ x \notin AppliedTo(s, c) /\ AppliedTo(s, c)' = AppliedTo(s, c) \cup {x}
      /\ \A a : a # c => AppliedTo(s, a)' = AppliedTo(s, a)
  BY <1>a, <1>x, LockApplied DEF BalanceInv
<1>4. /\ Signed(c, AppliedTo(s, c) \cup {x}) = Signed(c, AppliedTo(s, c)) + Weight(c, x)
      /\ Cardinality(AppliedTo(s, c) \cup {x}) = Cardinality(AppliedTo(s, c)) + 1
  <2>1. IsFiniteSet(AppliedTo(s, c)) /\ AppliedTo(s, c) \subseteq Lines
    BY BookedFinite DEF BalanceInv
  <2> QED
    BY <1>3, <2>1, SignedAdd
<1>5. c \in DOMAIN loaded[s] /\ c \in Accounts /\ loaded[s][c] \in Row
  <2>1. /\ pc[s] = "lock" /\ DOMAIN Current(s).entries = 1 .. Len(Current(s).entries)
        /\ Len(Current(s).entries) \in Nat /\ cursor[s] \in Nat
        /\ cursor[s] < Len(Current(s).entries)
    BY CurrentType DEF LockAndApply, EntriesLeft, BalanceInv, KeyInv, ShapeInv, TypeOK
  <2>2. cursor[s] + 1 \in DOMAIN Current(s).entries
    BY <2>1
  <2> QED
    BY <1>a, <2>1, <2>2 DEF BalanceInv, KeyInv, ShapeInv, ReadSoFar, CurrentAccount, TypeOK, PartialFcn
<1>6. /\ c \in DOMAIN dirty[s] <=> AppliedTo(s, c) # {}
      /\ Attributes(s, c).version = loaded[s][c].version + Cardinality(AppliedTo(s, c))
      /\ Attributes(s, c).balance = loaded[s][c].balance + Signed(c, AppliedTo(s, c))
  <2>1. CASE c \in DOMAIN dirty[s]
    BY <1>5, <2>1 DEF BalanceInv, Tally, Attributes
  <2>2. CASE c \notin DOMAIN dirty[s]
    <3>1. AppliedTo(s, c) = {}
      BY <1>5, <2>2 DEF BalanceInv, Tally
    <3>2. loaded[s][c].version \in Int /\ loaded[s][c].balance \in Int
      BY <1>5 DEF Row
    <3> QED
      BY <2>2, <3>1, <3>2, SignedEmpty DEF Attributes
  <2> QED
    BY <2>1, <2>2
<1>7. /\ row.version = Attributes(s, c).version + 1
      /\ row.balance = Attributes(s, c).balance + Weight(c, x)
  <2>1. Attributes(s, c) \in DirtyRow
    BY <1>5 DEF Attributes, Row, DirtyRow, BalanceInv, KeyInv, ShapeInv, TypeOK, PartialFcn
  <2>2. \A d : LET new == [Attributes(s, c) EXCEPT !.balance = @ + d, !.version = @ + 1]
               IN  /\ new.version = Attributes(s, c).version + 1
                   /\ new.balance = Attributes(s, c).balance + d
    BY <2>1 DEF DirtyRow
  <2> QED
    BY <1>r, <2>2 DEF Applied, Weight
<1>8. /\ Cardinality(AppliedTo(s, c)) \in Nat /\ Signed(c, AppliedTo(s, c)) \in Int
      /\ Weight(c, x) \in Int /\ loaded[s][c].version \in Int /\ loaded[s][c].balance \in Int
  <2>1. Cardinality(AppliedTo(s, c)) \in Nat /\ Signed(c, AppliedTo(s, c)) \in Int
    BY BookedFinite DEF BalanceInv
  <2>2. Weight(c, x) \in Int
    BY <1>3, WeightType
  <2> QED
    BY <1>5, <2>1, <2>2 DEF Row
<1>9. /\ row.version = loaded[s][c].version + Cardinality(AppliedTo(s, c) \cup {x})
      /\ row.balance = loaded[s][c].balance + Signed(c, AppliedTo(s, c) \cup {x})
  <2> QED
    BY <1>4, <1>6, <1>7, <1>8
<1>10. /\ \A a : a # c => Signed(a, AppliedTo(s, a))' = Signed(a, AppliedTo(s, a))
       /\ Signed(c, AppliedTo(s, c)') = Signed(c, AppliedTo(s, c) \cup {x})
  BY <1>3 DEF Signed, Weighted, Weight
<1>11. /\ DOMAIN dirty'[s] = DOMAIN dirty[s] \cup {c} /\ dirty'[s][c] = row
       /\ \A a \in DOMAIN dirty[s] \ {c} : dirty'[s][a] = dirty[s][a]
  BY <1>1 DEF Put
<1>12. ASSUME NEW a \in Accounts PROVE a \in DOMAIN dirty'[s] <=> AppliedTo(s, a)' # {}
  BY <1>3, <1>11 DEF BalanceInv, Tally
<1>13. ASSUME NEW a \in DOMAIN dirty'[s]
       PROVE  /\ a \in DOMAIN loaded'[s]
              /\ dirty'[s][a].version = loaded'[s][a].version + Cardinality(AppliedTo(s, a)')
              /\ dirty'[s][a].balance = loaded'[s][a].balance + Signed(a, AppliedTo(s, a)')
  <2>1. CASE a = c
    <3> QED
      BY <1>1, <1>3, <1>5, <1>9, <1>11, <2>1
  <2>2. CASE a # c
    <3> QED
      BY <1>1, <1>3, <1>11, <1>13, <2>2 DEF BalanceInv, Tally
  <2> QED
    BY <2>1, <2>2
<1>14. Tally(s)'
  BY <1>12, <1>13 DEF Tally, Signed, Weighted, Weight
<1> QED
  BY <1>2, <1>14

(* Every step keeps what its session knows of rows.                         *)
LEMMA MoverRows ==
    ASSUME BalanceInv, NEW s \in Sessions, SessionMove(s) PROVE Snapshot(s)' /\ Tally(s)'
<1>0. ShapeInv /\ Snapshot(s) /\ Tally(s)
  BY DEF BalanceInv, KeyInv
<1>1. CASE KeepsRows(s)
  <2>1. \A a : AppliedTo(s, a)' = AppliedTo(s, a)
    BY <1>1, AppliedSame DEF KeepsRows
  <2> QED
    BY <1>0, <1>1, <2>1, SnapshotSame, TallySame DEF KeepsRows
<1>2. CASE Finishes(s)
  <2>1. UNCHANGED <<journal, account, loaded, dirty>>
    BY <1>2 DEF Finishes, others, tables
  <2>2. \A a : AppliedTo(s, a)' = AppliedTo(s, a)
    BY <1>2, FinishApplied DEF BalanceInv
  <2> QED
    BY <1>0, <2>1, <2>2, SnapshotSame, TallySame
<1>3. CASE Commit(s) \/ Drops(s)
  BY <1>0, <1>3, ReleaseKeeps, ReleasedRows DEF Commit, Drops, ShapeInv
<1> QED
  BY <1>0, <1>1, <1>2, <1>3, RowKinds, LoadsRows, InsertRows, LockRows

-----------------------------------------------------------------------------
(* A commit adds the entries of its session to the journal and writes the   *)
(* rows they moved.                                                         *)
LEMMA CommitEntries ==
    ASSUME BalanceInv, NEW s \in Sessions, Commit(s), NEW a
    PROVE  /\ EntriesOn(a)' = EntriesOn(a) \cup AppliedTo(s, a)
           /\ Cardinality(EntriesOn(a)') = Cardinality(EntriesOn(a)) + Cardinality(AppliedTo(s, a))
           /\ EntrySum(a)' = EntrySum(a) + Signed(a, AppliedTo(s, a))
<1>1. journal' = journal \cup inserted[s] /\ pc[s] = "commit"
  BY DEF Commit
<1>2. AppliedTo(s, a) = Contents(inserted[s], a)
  BY <1>1 DEF AppliedTo
<1>3. EntriesOn(a)' = EntriesOn(a) \cup AppliedTo(s, a)
  BY <1>1, <1>2, EntriesAsContents DEF Contents, EntriesOn
<1>4. EntriesOn(a) \cap AppliedTo(s, a) = {}
  <2>1. \A t \in inserted[s] : t \notin journal
    BY DEF BalanceInv, KeyInv, KeysApart, KeyUsed
  <2>2. /\ \A x \in EntriesOn(a) : x[1] \in journal
        /\ \A x \in AppliedTo(s, a) : x[1] \in inserted[s]
    BY <1>2, EntriesAsContents, ContentsOf
  <2> QED
    BY <2>1, <2>2
<1>5. /\ Signed(a, EntriesOn(a) \cup AppliedTo(s, a)) = Signed(a, EntriesOn(a)) + Signed(a, AppliedTo(s, a))
      /\ Cardinality(EntriesOn(a) \cup AppliedTo(s, a)) =
           Cardinality(EntriesOn(a)) + Cardinality(AppliedTo(s, a))
  <2>1. /\ IsFiniteSet(EntriesOn(a)) /\ EntriesOn(a) \subseteq Lines
        /\ IsFiniteSet(AppliedTo(s, a)) /\ AppliedTo(s, a) \subseteq Lines
    BY BookedFinite DEF BalanceInv
  <2> QED
    BY <1>4, <2>1, SignedUnion
<1>6. EntrySum(a) = Signed(a, EntriesOn(a)) /\ EntrySum(a)' = Signed(a, EntriesOn(a)')
  BY DEF EntrySum, EntriesOn, Signed, Weighted, Weight
<1> QED
  BY <1>3, <1>5, <1>6

(* What a commit writes to a row: the version it loaded and one for each    *)
(* entry applied.                                                           *)
LEMMA CommitRow ==
    ASSUME BalanceInv, NEW s \in Sessions, Commit(s), NEW a \in Accounts
    PROVE  /\ a \notin DOMAIN dirty[s] => account'[a] = account[a] /\ AppliedTo(s, a) = {}
           /\ a \in DOMAIN dirty[s] =>
                /\ Cardinality(AppliedTo(s, a)) >= 1
                /\ account'[a].version = loaded[s][a].version + Cardinality(AppliedTo(s, a))
                /\ account'[a].balance = loaded[s][a].balance + Signed(a, AppliedTo(s, a))
                   \/ /\ account'[a].balance = account[a].balance
                      /\ Signed(a, AppliedTo(s, a)) = 0
<1>1. /\ Tally(s)
      /\ account'[a] = IF a \in DOMAIN dirty[s] THEN Written(s, a) ELSE account[a]
  BY DEF Commit, BalanceInv, KeyInv, ShapeInv, TypeOK
<1>2. a \notin DOMAIN dirty[s] => account'[a] = account[a] /\ AppliedTo(s, a) = {}
  BY <1>1 DEF Tally
<1>3. ASSUME a \in DOMAIN dirty[s]
      PROVE  /\ Cardinality(AppliedTo(s, a)) >= 1
             /\ account'[a].version = loaded[s][a].version + Cardinality(AppliedTo(s, a))
             /\ account'[a].balance = loaded[s][a].balance + Signed(a, AppliedTo(s, a))
                \/ /\ account'[a].balance = account[a].balance
                   /\ Signed(a, AppliedTo(s, a)) = 0
  <2>1. /\ a \in DOMAIN loaded[s]
        /\ dirty[s][a].version = loaded[s][a].version + Cardinality(AppliedTo(s, a))
        /\ dirty[s][a].balance = loaded[s][a].balance + Signed(a, AppliedTo(s, a))
        /\ AppliedTo(s, a) # {}
    BY <1>1, <1>3 DEF Tally
  <2>2. Cardinality(AppliedTo(s, a)) >= 1
    <3>1. Cardinality(AppliedTo(s, a)) \in Nat /\ Cardinality(AppliedTo(s, a)) # 0
      BY <2>1, BookedFinite, FS_EmptySet DEF BalanceInv
    <3> QED
      BY <3>1
  <2>3. loaded[s][a].balance \in Int
    BY <2>1 DEF BalanceInv, KeyInv, ShapeInv, TypeOK, PartialFcn, Row
  <2>4. Signed(a, AppliedTo(s, a)) \in Int
    BY BookedFinite DEF BalanceInv
  <2>5. CASE NamesBalance(s, a)
    BY <1>1, <1>3, <2>1, <2>2, <2>5 DEF Written
  <2>6. CASE ~NamesBalance(s, a)
    <3>1. dirty[s][a].balance = loaded[s][a].balance
      BY <2>6 DEF NamesBalance
    <3>2. Signed(a, AppliedTo(s, a)) = 0
      BY <2>1, <2>3, <2>4, <3>1
    <3> QED
      BY <1>1, <1>3, <2>1, <2>2, <2>6, <3>2 DEF Written
  <2> QED
    BY <2>5, <2>6
<1> QED
  BY <1>2, <1>3

(* A commit on a stale row loses entries, and leaves a version that is too  *)
(* small.                                                                   *)
LEMMA CommitDrift ==
    ASSUME BalanceInv, NEW s \in Sessions, Commit(s), NEW a \in Accounts
    PROVE  /\ account'[a].version <= Cardinality(EntriesOn(a)')
           /\ account'[a].version = Cardinality(EntriesOn(a)') => account'[a].balance = EntrySum(a)'
<1>1. /\ Cardinality(EntriesOn(a)') = Cardinality(EntriesOn(a)) + Cardinality(AppliedTo(s, a))
      /\ EntrySum(a)' = EntrySum(a) + Signed(a, AppliedTo(s, a))
  BY CommitEntries
<1>2. /\ Cardinality(EntriesOn(a)) \in Nat /\ EntrySum(a) \in Int
      /\ Cardinality(AppliedTo(s, a)) \in Nat /\ Signed(a, AppliedTo(s, a)) \in Int
  BY BookedFinite DEF BalanceInv
<1>3. account[a].version \in Int
  BY DEF BalanceInv, KeyInv, ShapeInv, TypeOK, Row
<1>4. CASE a \notin DOMAIN dirty[s]
  <2>1. account'[a] = account[a] /\ AppliedTo(s, a) = {}
    BY <1>4, CommitRow
  <2>2. Signed(a, AppliedTo(s, a)) = 0 /\ Cardinality(AppliedTo(s, a)) = 0
    BY <2>1, SignedEmpty
  <2>3. /\ account[a].version <= Cardinality(EntriesOn(a))
        /\ account[a].version = Cardinality(EntriesOn(a)) => account[a].balance = EntrySum(a)
    BY DEF BalanceInv, DriftShowsInVersion
  <2> QED
    BY <1>1, <1>2, <2>1, <2>2, <2>3
<1>5. CASE a \in DOMAIN dirty[s]
  <2>1. /\ account'[a].version = loaded[s][a].version + Cardinality(AppliedTo(s, a))
        /\ account'[a].balance = loaded[s][a].balance + Signed(a, AppliedTo(s, a))
           \/ /\ account'[a].balance = account[a].balance
              /\ Signed(a, AppliedTo(s, a)) = 0
    BY <1>5, CommitRow
  <2>2. a \in DOMAIN loaded[s]
    BY <1>5 DEF BalanceInv, Tally
  <2>3. /\ loaded[s][a].version \in Int
        /\ loaded[s][a].version <= Cardinality(EntriesOn(a))
        /\ loaded[s][a].version = Cardinality(EntriesOn(a)) =>
             loaded[s][a].balance = EntrySum(a) /\ account[a].balance = EntrySum(a)
    BY <2>2 DEF BalanceInv, Snapshot, KeyInv, ShapeInv, TypeOK, PartialFcn, Row
  <2>4. \A m, n, k \in Int : /\ m <= n => m + k <= n + k
                             /\ m + k = n + k => m = n
    OBVIOUS
  <2>5. account'[a].version <= Cardinality(EntriesOn(a)')
    BY <1>1, <1>2, <2>1, <2>3, <2>4
  <2>6. ASSUME account'[a].version = Cardinality(EntriesOn(a)')
        PROVE  account'[a].balance = EntrySum(a)'
    <3>1. loaded[s][a].version = Cardinality(EntriesOn(a))
      BY <1>1, <1>2, <2>1, <2>3, <2>4, <2>6
    <3> QED
      BY <1>1, <1>2, <2>1, <2>3, <3>1
  <2> QED
    BY <2>5, <2>6
<1> QED
  BY <1>4, <1>5

(* What another session has loaded is old once its account has new entries. *)
LEMMA CommitSnapshots ==
    ASSUME BalanceInv, NEW s \in Sessions, Commit(s), NEW u \in Sessions, loaded'[u] = loaded[u]
    PROVE  Snapshot(u)'
<1> SUFFICES ASSUME NEW a \in DOMAIN loaded[u]
             PROVE  /\ loaded[u][a].version <= Cardinality(EntriesOn(a)')
                    /\ loaded[u][a].version = Cardinality(EntriesOn(a)') =>
                         /\ loaded[u][a].balance = EntrySum(a)'
                         /\ account'[a].balance = EntrySum(a)'
  BY DEF Snapshot
<1>1. a \in Accounts /\ loaded[u][a].version \in Int
  BY DEF BalanceInv, KeyInv, ShapeInv, TypeOK, PartialFcn, Row
<1>2. /\ loaded[u][a].version <= Cardinality(EntriesOn(a))
      /\ loaded[u][a].version = Cardinality(EntriesOn(a)) =>
           loaded[u][a].balance = EntrySum(a) /\ account[a].balance = EntrySum(a)
  BY DEF BalanceInv, Snapshot
<1>3. /\ Cardinality(EntriesOn(a)') = Cardinality(EntriesOn(a)) + Cardinality(AppliedTo(s, a))
      /\ EntrySum(a)' = EntrySum(a) + Signed(a, AppliedTo(s, a))
  BY CommitEntries
<1>4. /\ Cardinality(EntriesOn(a)) \in Nat /\ EntrySum(a) \in Int
      /\ Cardinality(AppliedTo(s, a)) \in Nat
  BY BookedFinite DEF BalanceInv
<1>5. CASE a \notin DOMAIN dirty[s]
  <2>1. account'[a] = account[a] /\ AppliedTo(s, a) = {}
    BY <1>1, <1>5, CommitRow
  <2>2. Signed(a, AppliedTo(s, a)) = 0 /\ Cardinality(AppliedTo(s, a)) = 0
    BY <2>1, SignedEmpty
  <2> QED
    BY <1>2, <1>3, <1>4, <2>1, <2>2
<1>6. CASE a \in DOMAIN dirty[s]
  <2>1. Cardinality(AppliedTo(s, a)) >= 1
    BY <1>1, <1>6, CommitRow
  <2>2. \A m, n, k \in Int : m <= n /\ k >= 1 => m <= n + k /\ m # n + k
    OBVIOUS
  <2>3. /\ loaded[u][a].version <= Cardinality(EntriesOn(a)')
        /\ loaded[u][a].version # Cardinality(EntriesOn(a)')
    BY <1>1, <1>2, <1>3, <1>4, <2>1, <2>2
  <2> QED
    BY <2>3
<1> QED
  BY <1>5, <1>6

-----------------------------------------------------------------------------
(* Journal and insertions stay finite.                                      *)
LEMMA FiniteStep ==
    ASSUME BalanceInv, NEW s \in Sessions, SessionMove(s) PROVE FiniteInv'
<1>1. \A u \in Sessions \ {s} : inserted'[u] = inserted[u]
  BY MoveKeeps DEF BalanceInv, KeyInv, ShapeInv, OthersKeep
<1>2. CASE KeepsWrites(s)
  BY <1>2 DEF BalanceInv, FiniteInv, KeepsWrites
<1>3. CASE Inserts(s)
  <2>1. journal' = journal /\ inserted'[s] = inserted[s] \cup {Current(s)}
    BY <1>3 DEF Inserts, others, tables, BalanceInv, KeyInv, ShapeInv, TypeOK
  <2>2. IsFiniteSet(inserted'[s])
    BY <2>1, FS_AddElement DEF BalanceInv, FiniteInv
  <2> QED
    BY <1>1, <2>1, <2>2 DEF BalanceInv, FiniteInv
<1>4. CASE Commit(s) \/ Drops(s)
  <2>1. inserted'[s] = {} /\ (journal' = journal \/ journal' = journal \cup inserted[s])
    BY <1>4, ReleaseKeeps DEF Commit, Drops, BalanceInv, KeyInv, ShapeInv
  <2>2. IsFiniteSet(journal')
    <3>1. IsFiniteSet(journal \cup inserted[s])
      BY FS_Union DEF BalanceInv, FiniteInv
    <3> QED
      BY <2>1, <3>1 DEF BalanceInv, FiniteInv
  <2> QED
    BY <1>1, <2>1, <2>2, FS_EmptySet DEF BalanceInv, FiniteInv
<1> QED
  BY <1>2, <1>3, <1>4, Kinds DEF BalanceInv, KeyInv

(* Every step keeps the invariant.                                          *)
LEMMA BalanceStep == BalanceInv /\ [Next]_vars => BalanceInv'
<1> SUFFICES ASSUME BalanceInv, [Next]_vars PROVE BalanceInv'
  OBVIOUS
<1>0. KeyInv' /\ SaleInv'
  BY KeyStep, SaleStep DEF BalanceInv
<1>1. CASE UNCHANGED ledgerVars
  <2>1. /\ UNCHANGED <<journal, account, loaded, dirty, inserted>>
        /\ pc' = pc /\ cursor' = cursor /\ todo' = todo
    BY <1>1 DEF ledgerVars, tables, sessionVars, work
  <2>2. ASSUME NEW u \in Sessions PROVE Snapshot(u)' /\ Tally(u)'
    <3>1. \A a : AppliedTo(u, a)' = AppliedTo(u, a)
      BY <2>1, AppliedSame
    <3> QED
      BY <2>1, <3>1, SnapshotSame, TallySame DEF BalanceInv
  <2>3. DriftShowsInVersion' /\ FiniteInv'
    BY <2>1, LedgerSame DEF BalanceInv, FiniteInv
  <2> QED
    BY <1>0, <2>2, <2>3 DEF BalanceInv
<1>2. ASSUME NEW s \in Sessions, SessionMove(s) PROVE BalanceInv'
  <2>1. ASSUME NEW u \in Sessions \ {s}
        PROVE  /\ loaded'[u] = loaded[u] /\ dirty'[u] = dirty[u]
               /\ \A a : AppliedTo(u, a)' = AppliedTo(u, a)
    BY <1>2, <2>1, MoveKeeps, AppliedSame DEF BalanceInv, KeyInv, ShapeInv, OthersKeep
  <2>2. DriftShowsInVersion' /\ \A u \in Sessions \ {s} : Snapshot(u)'
    <3>1. CASE Commit(s)
      <4>1. DriftShowsInVersion'
        BY <3>1, CommitDrift DEF DriftShowsInVersion
      <4> QED
        BY <2>1, <3>1, <4>1, CommitSnapshots
    <3>2. CASE UNCHANGED <<journal, account>>
      BY <2>1, <3>2, LedgerSame, SnapshotSame DEF BalanceInv
    <3> QED
      BY <1>2, <3>1, <3>2, Kinds DEF BalanceInv, KeyInv, KeepsWrites, Inserts, Drops, others, tables
  <2>3. ASSUME NEW u \in Sessions \ {s} PROVE Tally(u)'
    BY <2>1, <2>3, TallySame DEF BalanceInv
  <2> QED
    BY <1>0, <1>2, <2>2, <2>3, MoverRows, FiniteStep DEF BalanceInv
<1> QED
  BY <1>1, <1>2, StepCases

(* It holds at the start.                                                   *)
LEMMA BalanceInit == Init => BalanceInv
<1> SUFFICES ASSUME Init PROVE BalanceInv
  OBVIOUS
<1>1. KeyInv /\ SaleInv
  BY KeyInit, SaleInit
<1>2. FiniteInv
  BY FS_EmptySet DEF Init, LedgerInit, FiniteInv
<1>3. \A a : EntriesOn(a) = {} /\ EntrySum(a) = 0 /\ Cardinality(EntriesOn(a)) = 0
  <2>1. ASSUME NEW a PROVE Contents(journal, a) = {}
    BY DEF Init, LedgerInit, Contents
  <2> QED
    BY <2>1, EntriesAsContents, SignedEmpty
<1>4. DriftShowsInVersion
  BY <1>3 DEF DriftShowsInVersion, Init, LedgerInit
<1>5. ASSUME NEW s \in Sessions PROVE Snapshot(s) /\ Tally(s)
  <2>1. \A a : AppliedTo(s, a) = {}
    BY DEF AppliedTo, Contents, Init, LedgerInit
  <2> QED
    BY <2>1 DEF Snapshot, Tally, EmptyFcn, Init, LedgerInit
<1> QED
  BY <1>1, <1>2, <1>4, <1>5 DEF BalanceInv

(* Lost updates show: an account's version never exceeds the number of its  *)
(* entries, and where the two agree the balance is the sum of the entries.  *)
THEOREM VersionVouchesForBalance == Spec => []DriftShowsInVersion
<1>1. BalanceInv => DriftShowsInVersion
  BY DEF BalanceInv
<1> QED
  BY <1>1, BalanceInit, BalanceStep, PTL DEF Spec

-----------------------------------------------------------------------------
(* t is what the service makes for request r, a reversal from a transaction *)
(* that has been committed.                                                 *)
MadeFor(t, r) ==
    \/ r.op \in PostsAtOnce /\ t = TxnOf(t.by, r)
    \/ r.op = "transfer" /\ (t = SenderTxn(t.by, r) \/ t = ReceiverTxn(t.by, r))
    \/ r.op = "reverse" /\ \E o \in journal : /\ o.key = r.txn /\ o.entity = r.entity
                                              /\ t = ReversalTxn(t.by, r, o)

FromRequest(s) ==
    pc[s] # "idle" => /\ \A i \in DOMAIN todo[s] : MadeFor(todo[s][i], request[s])
                      /\ \A t \in inserted[s] : MadeFor(t, request[s])

OriginInv ==
    /\ CoverInv
    /\ \A t \in journal : \E r \in Requests : MadeFor(t, r)
    /\ \A s \in Sessions : FromRequest(s)

LEMMA MadeForGrows ==
    ASSUME journal \subseteq journal', NEW t, NEW r, MadeFor(t, r) PROVE MadeFor(t, r)'
  BY DEF MadeFor

(* The steps that change neither the payloads of a session nor what it has  *)
(* inserted, and the ones that move on to the next payload.                 *)
KeepsTodo(s) == UNCHANGED <<journal, inserted, request, todo>>

Advances(s) ==
    /\ pc[s] \in {"key", "lock"} /\ todo'[s] = Tail(todo[s])
    /\ UNCHANGED <<journal, inserted, request>>

LEMMA TodoKinds ==
    ASSUME ShapeInv, NEW s \in Sessions, SessionMove(s)
    PROVE  \/ (KeepsTodo(s) /\ pc[s] # "idle") \/ Advances(s) \/ Begin(s) \/ Inserts(s) \/ Commit(s)
           \/ Drops(s) \/ (ResolveAccounts(s) /\ ~Drops(s)) \/ (LoadOriginal(s) /\ ~Drops(s))
<1> USE DEF others, tables, work
<1>1. ASSUME NEW code, Fail(s, code), pc[s] # "idle" PROVE Drops(s)
  BY <1>1 DEF Fail, Drops, Goto, ShapeInv, TypeOK
<1>2. CASE LookupSendKey(s) \/ LookupRecvKey(s) \/ LockAndApply(s) \/ Respond(s)
  BY <1>2 DEF LookupSendKey, LookupRecvKey, LockAndApply, Respond, KeepsTodo
<1>3. ASSUME NextPayload(s) PROVE todo'[s] = Tail(todo[s])
  BY <1>3 DEF NextPayload, ShapeInv, TypeOK
<1>4. CASE LookupKey(s) \/ FinishPost(s)
  BY <1>1, <1>3, <1>4, FinishCases DEF LookupKey, Finishes, KeepsTodo, Advances
<1>5. CASE VoidTransaction(s) \/ CheckPeriod(s) \/ ReadAccount(s)
  BY <1>1, <1>5 DEF VoidTransaction, CheckPeriod, ReadAccount, KeepsTodo
<1>6. CASE InsertTransaction(s)
  BY <1>1, <1>6, InsertCases
<1>7. CASE SettleReceivable(s) \/ CancelReceivable(s)
  BY <1>1, <1>7, ResolveCases DEF Resolves, KeepsTodo
<1>8. CASE AbortDeadlocked(s) \/ Crash(s)
  BY <1>1, <1>8 DEF AbortDeadlocked, InDeadlock, BusySessions, Crash, Drops, Goto, ShapeInv, TypeOK
<1> QED
  BY <1>2, <1>4, <1>5, <1>6, <1>7, <1>8 DEF SessionMove, SessionStep

(* What a session posts is made for the request it handles.                 *)
LEMMA MoverFromRequest ==
    ASSUME OriginInv, NEW s \in Sessions, SessionMove(s) PROVE FromRequest(s)'
<1>0. /\ ShapeInv /\ Mine(s) /\ FromRequest(s)
      /\ \A t, r : MadeFor(t, r) => MadeFor(t, r)'
  <2>1. ShapeInv /\ Mine(s) /\ FromRequest(s)
    BY DEF OriginInv, CoverInv
  <2>2. journal \subseteq journal'
    BY <2>1, JournalGrows
  <2>3. ASSUME NEW t, NEW r, MadeFor(t, r) PROVE MadeFor(t, r)'
    BY <2>2, <2>3, MadeForGrows
  <2> QED
    BY <2>1, <2>3
<1>1. CASE KeepsTodo(s) /\ pc[s] # "idle"
  BY <1>0, <1>1 DEF KeepsTodo, FromRequest
<1>2. CASE Advances(s)
  <2>1. todo[s] \in Seq(Txn) /\ todo[s] # <<>> /\ pc[s] # "idle"
    BY <1>0, <1>2 DEF ShapeInv, TypeOK, ReadSoFar, Advances
  <2>2. /\ Len(todo[s]) \in Nat \ {0} /\ DOMAIN todo[s] = 1 .. Len(todo[s])
        /\ Tail(todo[s]) \in Seq(Txn) /\ Len(Tail(todo[s])) = Len(todo[s]) - 1
        /\ \A i \in 1 .. Len(Tail(todo[s])) : Tail(todo[s])[i] = todo[s][i + 1]
    BY <2>1, LenProperties, EmptySeq, HeadTailProperties
  <2>3. DOMAIN Tail(todo[s]) = 1 .. (Len(todo[s]) - 1)
    BY <2>2, LenProperties
  <2>4. \A i \in DOMAIN Tail(todo[s]) : i + 1 \in DOMAIN todo[s] /\ Tail(todo[s])[i] = todo[s][i + 1]
    BY <2>2, <2>3
  <2>5. \A i \in DOMAIN todo'[s] : MadeFor(todo'[s][i], request[s])
    BY <1>0, <1>2, <2>1, <2>4 DEF Advances, FromRequest
  <2> QED
    BY <1>0, <1>2, <2>1, <2>5 DEF Advances, FromRequest
<1>3. CASE Begin(s)
  <2>1. PICK r \in Requests :
           /\ request' = [request EXCEPT ![s] = r]
           /\ todo' = [todo EXCEPT ![s] = IF FirstStep(r) = "key" THEN <<TxnOf(s, r)>> ELSE <<>>]
    BY <1>3 DEF Begin
  <2>2. r.op \in PostsAtOnce \cup {"transfer", "reverse", "void"}
    BY SessionsAssumption DEF Request, PostRequest, CashRequest, AnticipateRequest, SettleRequest,
       TransferRequest, ReverseRequest, VoidRequest, PostsAtOnce
  <2>3. /\ inserted'[s] = {} /\ request'[s] = r
        /\ todo'[s] = IF FirstStep(r) = "key" THEN <<TxnOf(s, r)>> ELSE <<>>
    BY <1>0, <1>3, <2>1 DEF Begin, Mine, ShapeInv, TypeOK
  <2>4. CASE FirstStep(r) # "key"
    BY <2>3, <2>4 DEF FromRequest
  <2>5. CASE FirstStep(r) = "key"
    <3>1. r.op \in PostsAtOnce
      BY <2>2, <2>5 DEF FirstStep
    <3>2. TxnOf(s, r).by = s
      BY <3>1 DEF TxnOf, Payload, PostsAtOnce
    <3>3. MadeFor(TxnOf(s, r), r)'
      BY <3>1, <3>2 DEF MadeFor
    <3>4. DOMAIN todo'[s] = {1} /\ todo'[s][1] = TxnOf(s, r)
      BY <2>3, <2>5, OneToDo
    <3> QED
      BY <2>3, <3>3, <3>4 DEF FromRequest
  <2> QED
    BY <2>4, <2>5
<1>4. CASE ResolveAccounts(s) /\ ~Drops(s)
  <2>r. PICK r : r = request[s]
    OBVIOUS
  <2>t. PICK t, u : t = SenderTxn(s, r) /\ u = ReceiverTxn(s, r)
    OBVIOUS
  <2>1. /\ pc[s] = "resolve" /\ todo' = [todo EXCEPT ![s] = <<t, u>>]
        /\ UNCHANGED <<journal, inserted, request>> /\ r.op = "transfer"
    BY <1>0, <1>4, <2>r, <2>t
       DEF ResolveAccounts, Fail, Drops, Goto, AskedFor, ShapeInv, TypeOK, others, tables
  <2>2. todo'[s] = <<t, u>>
    BY <1>0, <2>1 DEF ShapeInv, TypeOK
  <2>3. DOMAIN <<t, u>> = {1, 2} /\ <<t, u>>[1] = t /\ <<t, u>>[2] = u
    OBVIOUS
  <2>4. MadeFor(t, r) /\ MadeFor(u, r)
    BY <2>t, <2>1 DEF MadeFor, SenderTxn, ReceiverTxn, Payload
  <2>5. ASSUME NEW x \in {t, u} PROVE MadeFor(x, r)'
    BY <1>0, <2>4
  <2>6. \A i \in DOMAIN todo'[s] : todo'[s][i] \in {t, u}
    BY <2>2, <2>3
  <2> QED
    BY <1>0, <2>r, <2>1, <2>5, <2>6 DEF FromRequest
<1>5. CASE LoadOriginal(s) /\ ~Drops(s)
  <2>r. PICK r : r = request[s]
    OBVIOUS
  <2>t. PICK payload : payload = ReversalTxn(s, r, Original(r))
    OBVIOUS
  <2>1. /\ pc[s] = "original" /\ r.op = "reverse" /\ OriginalFound(r)
        /\ todo' = [todo EXCEPT ![s] = <<payload>>] /\ UNCHANGED <<journal, inserted, request>>
    BY <1>0, <1>5, <2>r, <2>t
       DEF LoadOriginal, Fail, Drops, Goto, others, tables, ShapeInv, TypeOK
  <2>2. DOMAIN todo'[s] = {1} /\ todo'[s][1] = payload
    <3>1. todo'[s] = <<payload>>
      BY <1>0, <2>1 DEF ShapeInv, TypeOK
    <3> QED
      BY <3>1, OneToDo
  <2>3. MadeFor(payload, r)
    <3>1. Original(r) \in journal /\ Original(r).key = r.txn /\ Original(r).entity = r.entity
      BY <2>1, KeyUsedTxn DEF OriginalFound, Original
    <3>2. payload.by = s
      BY <2>t DEF ReversalTxn, Payload
    <3> QED
      BY <2>1, <2>t, <3>1, <3>2 DEF MadeFor
  <2> QED
    BY <1>0, <2>r, <2>1, <2>2, <2>3 DEF FromRequest
<1>6. CASE Inserts(s)
  <2>1. /\ UNCHANGED <<request, todo>> /\ inserted'[s] = inserted[s] \cup {Current(s)}
        /\ pc[s] = "read"
    BY <1>0, <1>6 DEF Inserts, ShapeInv, TypeOK
  <2>2. 1 \in DOMAIN todo[s] /\ Current(s) = todo[s][1]
    BY <1>0, <2>1 DEF ShapeInv, TypeOK, ReadSoFar, Current
  <2> QED
    BY <1>0, <2>1, <2>2 DEF FromRequest
<1>7. CASE Commit(s) \/ Drops(s)
  <2>1. inserted'[s] = {} /\ todo'[s] = <<>>
    BY <1>0, <1>7, ReleaseKeeps DEF Commit, Drops, ShapeInv
  <2> QED
    BY <2>1 DEF FromRequest
<1> QED
  BY <1>0, <1>1, <1>2, <1>3, <1>4, <1>5, <1>6, <1>7, TodoKinds

(* Every step keeps the invariant.                                          *)
LEMMA OriginStep == OriginInv /\ [Next]_vars => OriginInv'
<1> SUFFICES ASSUME OriginInv, [Next]_vars PROVE OriginInv'
  OBVIOUS
<1>0. CoverInv'
  BY CoverStep DEF OriginInv
<1>1. CASE UNCHANGED ledgerVars
  BY <1>0, <1>1 DEF ledgerVars, tables, sessionVars, work, OriginInv, FromRequest, MadeFor
<1>2. ASSUME NEW s \in Sessions, SessionMove(s) PROVE OriginInv'
  <2>1. ShapeInv /\ journal \subseteq journal'
    BY <1>2, JournalGrows DEF OriginInv, CoverInv
  <2>2. \A t, r : MadeFor(t, r) => MadeFor(t, r)'
    BY <2>1, MadeForGrows
  <2>3. ASSUME NEW t \in journal' PROVE \E r \in Requests : MadeFor(t, r)'
    <3>1. CASE t \in journal
      BY <2>2, <3>1 DEF OriginInv
    <3>2. CASE t \notin journal
      <4>1. Commit(s)
        BY <1>2, <2>1, <2>3, <3>2, Kinds DEF KeepsWrites, Inserts, Drops, others, tables
      <4>2. t \in inserted[s] /\ pc[s] # "idle"
        BY <2>3, <3>2, <4>1 DEF Commit
      <4>3. request[s] \in Requests /\ MadeFor(t, request[s])
        BY <2>1, <4>2 DEF OriginInv, FromRequest, ShapeInv, AskedFor
      <4> QED
        BY <2>2, <4>3
    <3> QED
      BY <3>1, <3>2
  <2>4. ASSUME NEW u \in Sessions \ {s} PROVE FromRequest(u)'
    <3>1. pc'[u] = pc[u] /\ request'[u] = request[u] /\ todo'[u] = todo[u] /\ inserted'[u] = inserted[u]
      BY <1>2, <2>1, MoveKeeps DEF ShapeInv, OthersKeep
    <3> QED
      BY <2>2, <3>1 DEF OriginInv, FromRequest
  <2> QED
    BY <1>0, <1>2, <2>3, <2>4, MoverFromRequest DEF OriginInv
<1> QED
  BY <1>1, <1>2, StepCases

(* It holds at the start.                                                   *)
LEMMA OriginInit == Init => OriginInv
  BY CoverInit DEF Init, LedgerInit, OriginInv, FromRequest

-----------------------------------------------------------------------------
(* What a transaction says of the request it was made for.                  *)
LEMMA OriginSays ==
    ASSUME NEW r \in Requests, NEW t, MadeFor(t, r)
    PROVE  /\ t.key \in KeysOf(r) /\ r.op # "void"
           /\ t.type = "SETTLEMENT" /\ t.ref \in TxnKeys => r.op = "settle"
           /\ t.type = "REVERSAL" /\ t.ref \in TxnKeys => r.op = "reverse"
           /\ r.op = "settle" =>
                t.type = "SETTLEMENT" /\ t.ref = r.receivable /\ t.key = r.key /\ ~t.expects
           /\ r.op = "reverse" =>
                t.type = "REVERSAL" /\ t.ref = r.txn /\ t.key = r.key /\ ~t.expects
<1>0. NoRef \notin TxnKeys
  BY DEF NoRef, TxnKeys, SEND, RECV
<1>1. CASE r.op = "transfer"
  <2>1. PICK s : t = SenderTxn(s, r) \/ t = ReceiverTxn(s, r)
    BY <1>1 DEF MadeFor, PostsAtOnce
  <2>2. t.key \in {<<SEND, r.key>>, <<RECV, r.key>>} /\ t.type = "TRANSFER"
    BY <2>1 DEF SenderTxn, ReceiverTxn, Payload
  <2>3. KeysOf(r) = {<<SEND, r.key>>, <<RECV, r.key>>}
    BY <1>1 DEF KeysOf
  <2> QED
    BY <1>1, <2>2, <2>3
<1>2. CASE r.op = "reverse"
  <2>1. PICK s, o : t = ReversalTxn(s, r, o)
    BY <1>2 DEF MadeFor, PostsAtOnce
  <2>2. t.key = r.key /\ t.type = "REVERSAL" /\ t.ref = r.txn /\ ~t.expects
    BY <2>1 DEF ReversalTxn, Payload
  <2>3. KeysOf(r) = {r.key}
    BY <1>2 DEF KeysOf
  <2> QED
    BY <1>2, <2>2, <2>3
<1>3. CASE r.op \in PostsAtOnce
  <2>1. PICK s : t = TxnOf(s, r)
    BY <1>3 DEF MadeFor, PostsAtOnce
  <2>2. KeysOf(r) = {r.key} /\ r.op # "void" /\ r.op # "reverse"
    BY <1>3 DEF KeysOf, PostsAtOnce
  <2>3. CASE r.op = "settle"
    BY <2>1, <2>2, <2>3 DEF TxnOf, Payload
  <2>4. CASE r.op = "post"
    BY <1>0, <2>1, <2>2, <2>4 DEF TxnOf, Payload
  <2>5. CASE r.op \in {"deposit", "withdraw"}
    BY <2>1, <2>2, <2>5 DEF TxnOf, Payload
  <2>6. CASE r.op = "anticipate"
    BY <2>1, <2>2, <2>6 DEF TxnOf, Payload
  <2> QED
    BY <1>3, <2>3, <2>4, <2>5, <2>6 DEF PostsAtOnce
<1> QED
  BY <1>1, <1>2, <1>3 DEF MadeFor

(* With distinct keys the transaction under a request's key was made for    *)
(* that request.                                                            *)
LEMMA SameKeySameRequest ==
    ASSUME KeysDistinct, NEW r \in Requests, NEW q \in Requests, r.op \notin {"transfer", "void"},
           NEW t, MadeFor(t, q), t.key = r.key
    PROVE  q = r
<1>1. t.key \in KeysOf(q) /\ q.op # "void"
  BY OriginSays
<1>2. r.key[1] = ""
  BY DEF KeysDistinct, KeysNotReserved
<1>3. q.op # "transfer"
  <2>1. ASSUME q.op = "transfer" PROVE FALSE
    <3>1. t.key \in {<<SEND, q.key>>, <<RECV, q.key>>}
      BY <1>1, <2>1 DEF KeysOf
    <3>2. r.key[1] = SEND \/ r.key[1] = RECV
      BY <3>1
    <3> QED
      BY <1>2, <3>2 DEF SEND, RECV
  <2> QED
    BY <2>1
<1>4. t.key = q.key
  BY <1>1, <1>3 DEF KeysOf
<1> QED
  BY <1>1, <1>3, <1>4 DEF KeysDistinct

-----------------------------------------------------------------------------
(* A session settles or cancels the receivable its request names, as the    *)
(* last thing before it responds.                                           *)
ResolvesFor(s) ==
    \A k \in DOMAIN rcvWrites[s] :
        /\ pc[s] \notin {"respond", "commit"} => rcvWrites[s][k] = "PENDING"
        /\ rcvWrites[s][k] = "SETTLED" => request[s].op = "settle" /\ request[s].receivable = k
        /\ rcvWrites[s][k] = "CANCELLED" => request[s].op = "reverse" /\ request[s].txn = k

ResolvedInv == OriginInv /\ ResolvedByItsTxn /\ \A s \in Sessions : ResolvesFor(s)

KeepsRcv(s) ==
    /\ UNCHANGED <<receivable, rcvWrites>> /\ (request' = request \/ pc[s] = "idle")
    /\ pc[s] \in {"respond", "commit"} => pc'[s] = "commit"

LEMMA RcvKinds ==
    ASSUME ShapeInv, NEW s \in Sessions, SessionMove(s)
    PROVE  KeepsRcv(s) \/ Finishes(s) \/ Resolves(s) \/ Commit(s) \/ Drops(s)
<1> USE DEF others, tables, work, Goto
<1>1. ASSUME NEW code, Fail(s, code), pc[s] # "idle" PROVE Drops(s)
  BY <1>1 DEF Fail, Drops, ShapeInv, TypeOK
<1>2. CASE Begin(s) \/ LookupSendKey(s) \/ LookupRecvKey(s) \/ LockAndApply(s) \/ Respond(s)
  BY <1>2 DEF Begin, LookupSendKey, LookupRecvKey, LockAndApply, Respond, KeepsRcv, ShapeInv, TypeOK
<1>3. CASE LookupKey(s) \/ ResolveAccounts(s) \/ LoadOriginal(s) \/ VoidTransaction(s)
  BY <1>1, <1>3 DEF LookupKey, ResolveAccounts, LoadOriginal, VoidTransaction, KeepsRcv
<1>4. CASE CheckPeriod(s) \/ ReadAccount(s)
  BY <1>1, <1>4 DEF CheckPeriod, ReadAccount, KeepsRcv
<1>5. CASE InsertTransaction(s)
  BY <1>1, <1>5, InsertCases DEF Inserts, KeepsRcv
<1>6. CASE FinishPost(s)
  BY <1>1, <1>6, FinishCases
<1>7. CASE SettleReceivable(s) \/ CancelReceivable(s)
  BY <1>1, <1>7, ResolveCases
<1>8. CASE AbortDeadlocked(s) \/ Crash(s)
  BY <1>1, <1>8 DEF AbortDeadlocked, InDeadlock, BusySessions, Crash, Drops, ShapeInv, TypeOK
<1> QED
  BY <1>2, <1>3, <1>4, <1>5, <1>6, <1>7, <1>8 DEF SessionMove, SessionStep

(* A session changes a receivable only for the transaction its request      *)
(* posts.                                                                   *)
LEMMA MoverResolves ==
    ASSUME ResolvedInv, NEW s \in Sessions, SessionMove(s) PROVE ResolvesFor(s)'
<1>0. ShapeInv /\ ResolvesFor(s) /\ AskedFor(s)
  BY DEF ResolvedInv, OriginInv, CoverInv, ShapeInv
<1>1. CASE KeepsRcv(s)
  BY <1>0, <1>1 DEF KeepsRcv, ResolvesFor
<1>2. CASE Finishes(s)
  <2>1. pc[s] = "lock" /\ request' = request
        /\ rcvWrites'[s] = IF OpensReceivable(Current(s)) THEN Put(rcvWrites[s], Current(s).key, "PENDING")
                           ELSE rcvWrites[s]
    BY <1>0, <1>2 DEF Finishes, ShapeInv, TypeOK
  <2>2. \A k \in DOMAIN rcvWrites'[s] : rcvWrites'[s][k] = "PENDING"
    BY <1>0, <2>1 DEF ResolvesFor, Put
  <2> QED
    BY <2>2 DEF ResolvesFor
<1>3. CASE Resolves(s)
  <2>1. /\ pc[s] \in {"settle", "cancel"} /\ request' = request /\ pc'[s] = "respond"
        /\ \/ rcvWrites' = rcvWrites
           \/ pc[s] = "settle" /\ rcvWrites'[s] = Put(rcvWrites[s], request[s].receivable, "SETTLED")
           \/ pc[s] = "cancel" /\ rcvWrites'[s] = Put(rcvWrites[s], request[s].txn, "CANCELLED")
    BY <1>0, <1>3 DEF Resolves, ShapeInv, TypeOK
  <2>2. \A k \in DOMAIN rcvWrites[s] : rcvWrites[s][k] = "PENDING"
    BY <1>0, <2>1 DEF ResolvesFor
  <2> QED
    BY <1>0, <2>1, <2>2 DEF ResolvesFor, AskedFor, Put
<1>4. CASE Commit(s) \/ Drops(s)
  <2>1. rcvWrites'[s] = EmptyFcn
    BY <1>0, <1>4, ReleaseKeeps DEF Commit, Drops, ShapeInv
  <2> QED
    BY <2>1 DEF ResolvesFor, EmptyFcn
<1> QED
  BY <1>0, <1>1, <1>2, <1>3, <1>4, RcvKinds

(* At its commit a session's own transaction is in the journal, made by it  *)
(* or, when it was a replay, for the same request before.                   *)
LEMMA CommitHasItsTxn ==
    ASSUME OriginInv, KeysDistinct, NEW s \in Sessions, Commit(s),
           request[s].op \notin {"transfer", "void"}
    PROVE  \E t \in journal' : MadeFor(t, request[s])
<1>1. pc[s] = "commit" /\ journal' = journal \cup inserted[s]
  BY DEF Commit
<1>2. KeysOf(request[s]) = {request[s].key} /\ request[s] \in Requests
  BY <1>1 DEF KeysOf, OriginInv, CoverInv, ShapeInv, AskedFor
<1>3. KeyVisible(s, request[s].key)
  BY <1>1, <1>2 DEF OriginInv, CoverInv, Covered
<1>4. PICK t \in journal' : t.key = request[s].key
  BY <1>1, <1>3 DEF KeyVisible, KeyUsed
<1>5. PICK q \in Requests : MadeFor(t, q)
  BY <1>1, <1>2, <1>4 DEF OriginInv, FromRequest
<1> QED
  BY <1>2, <1>4, <1>5, SameKeySameRequest

(* Every step keeps the invariant.                                          *)
LEMMA ResolvedStep == ResolvedInv /\ [Next]_vars => ResolvedInv'
<1> SUFFICES ASSUME ResolvedInv, [Next]_vars PROVE ResolvedInv'
  OBVIOUS
<1>0. OriginInv' /\ (KeysDistinct' <=> KeysDistinct)
  BY OriginStep DEF ResolvedInv, KeysDistinct, KeysNotReserved
<1>1. CASE UNCHANGED ledgerVars
  BY <1>0, <1>1 DEF ledgerVars, tables, sessionVars, work, ResolvedInv, ResolvedByItsTxn,
     Settlements, Reversals, ResolvesFor
<1>2. ASSUME NEW s \in Sessions, SessionMove(s) PROVE ResolvedInv'
  <2>1. ShapeInv /\ journal \subseteq journal'
    BY <1>2, JournalGrows DEF ResolvedInv, OriginInv, CoverInv
  <2>2. ASSUME NEW u \in Sessions \ {s} PROVE ResolvesFor(u)'
    BY <1>2, <2>1, <2>2, MoveKeeps DEF ShapeInv, OthersKeep, ResolvedInv, ResolvesFor
  <2>3. ResolvedByItsTxn'
    <3> SUFFICES ASSUME KeysDistinct, NEW k \in TxnKeys
                 PROVE  /\ receivable'[k] = "SETTLED" => Settlements(k)' # {}
                        /\ receivable'[k] = "CANCELLED" => Reversals(k)' # {}
      BY <1>0 DEF ResolvedByItsTxn
    <3>1. CASE receivable'[k] = receivable[k]
      BY <2>1, <3>1 DEF ResolvedInv, ResolvedByItsTxn, Settlements, Reversals
    <3>2. CASE receivable'[k] # receivable[k]
      <4>1. Commit(s)
        BY <1>2, <2>1, <3>2, RcvKinds DEF KeepsRcv, Finishes, Resolves, Drops, others, tables
      <4>2. /\ k \in DOMAIN rcvWrites[s] /\ receivable'[k] = rcvWrites[s][k]
            /\ ResolvesFor(s) /\ request[s] \in Requests
        BY <2>1, <3>2, <4>1 DEF Commit, ResolvedInv, ShapeInv, AskedFor
      <4>3. ASSUME request[s].op \in {"settle", "reverse"}
            PROVE  \E t \in journal' : MadeFor(t, request[s])
        BY <4>1, <4>3, CommitHasItsTxn DEF ResolvedInv
      <4>4. ASSUME receivable'[k] = "SETTLED" PROVE Settlements(k)' # {}
        <5>1. request[s].op = "settle" /\ request[s].receivable = k
          BY <4>2, <4>4 DEF ResolvesFor
        <5>2. PICK t \in journal' : MadeFor(t, request[s])
          BY <4>3, <5>1
        <5> QED
          BY <4>2, <5>1, <5>2, OriginSays DEF Settlements
      <4>5. ASSUME receivable'[k] = "CANCELLED" PROVE Reversals(k)' # {}
        <5>1. request[s].op = "reverse" /\ request[s].txn = k
          BY <4>2, <4>5 DEF ResolvesFor
        <5>2. PICK t \in journal' : MadeFor(t, request[s])
          BY <4>3, <5>1
        <5> QED
          BY <4>2, <5>1, <5>2, OriginSays DEF Reversals
      <4> QED
        BY <4>4, <4>5
    <3> QED
      BY <3>1, <3>2
  <2> QED
    BY <1>0, <1>2, <2>2, <2>3, MoverResolves DEF ResolvedInv
<1> QED
  BY <1>1, <1>2, StepCases

(* It holds at the start.                                                   *)
LEMMA ResolvedInit == Init => ResolvedInv
  BY OriginInit DEF Init, LedgerInit, ResolvedInv, ResolvedByItsTxn, ResolvesFor, EmptyFcn

(* With distinct keys a receivable is settled or cancelled only together    *)
(* with the transaction that accounts for it.                               *)
THEOREM ResolvedByTransactions == Spec => []ResolvedByItsTxn
<1>1. ResolvedInv => ResolvedByItsTxn
  BY DEF ResolvedInv
<1> QED
  BY <1>1, ResolvedInit, ResolvedStep, PTL DEF Spec

-----------------------------------------------------------------------------
(* Reversals.  Line i of a reversal is line i of the original on the other  *)
(* side, so the sums of the two on an account are opposite.                 *)
LEMMA OppositeWeight ==
    ASSUME NEW a, NEW e \in Entry
    PROVE  /\ Opposite(e.type) # e.type
           /\ Delta(Chart[a].type, Opposite(e.type), e.amount) = -Delta(Chart[a].type, e.type, e.amount)
           /\ Delta(Chart[a].type, e.type, e.amount) \in Int
  BY DEF Entry, EntryTypes, Opposite, Delta

(* A reversal weighs on every account what its original does, with the      *)
(* opposite sign.                                                           *)
LEMMA MirroredLines ==
    ASSUME NEW t \in Txn, NEW u \in Txn, u.entity = t.entity, u.entries = Mirrored(t.entries), NEW a
    PROVE  /\ Signed(a, Contents({u}, a)) = -Signed(a, Contents({t}, a))
           /\ t = u => Contents({t}, a) = {}
           /\ Signed(a, Contents({t}, a)) \in Int
<1>1. /\ t.entries \in Seq(Entry) /\ DOMAIN t.entries = 1 .. Len(t.entries)
      /\ \A i \in DOMAIN t.entries : t.entries[i] \in Entry
  <2>1. t.entries \in Seq(Entry)
    BY DEF Txn
  <2> QED
    BY <2>1, LenProperties, ElementOfSeq
<1>2. ASSUME NEW i \in DOMAIN t.entries
      PROVE  /\ u.entries[i].code = t.entries[i].code /\ u.entries[i].amount = t.entries[i].amount
             /\ u.entries[i].type = Opposite(t.entries[i].type)
             /\ u.entries[i].type # t.entries[i].type
  <2>1. u.entries[i] = [t.entries[i] EXCEPT !.type = Opposite(@)]
    BY DEF Mirrored
  <2> QED
    BY <1>1, <2>1, OppositeWeight DEF Entry
<1>3. DOMAIN u.entries = DOMAIN t.entries
  BY DEF Mirrored
<1>4. \A i \in DOMAIN t.entries : AccountAt(u, i) = AccountAt(t, i)
  BY <1>2 DEF AccountAt
<1>s. PICK S : S = Contents({t}, a)
  OBVIOUS
<1>b. PICK b : b = [x \in S |-> <<u, x[2]>>]
  OBVIOUS
<1>g. PICK g : g = [x \in S |-> Weight(a, <<u, x[2]>>)]
  OBVIOUS
<1>5. IsFiniteSet(S) /\ S \subseteq Lines
  <2>1. IsFiniteSet({t}) /\ {t} \subseteq Txn
    BY FS_Singleton
  <2> QED
    BY <1>s, <2>1, ContentsFinite, ContentsAreLines
<1>6. \A x \in S : x[1] = t /\ x[2] \in DOMAIN t.entries /\ x = <<t, x[2]>>
  BY <1>s, ContentsOf
<1>7. \A x : x \in Contents({u}, a) <=> \E y \in S : x = b[y]
  <2>1. \A x : x \in Contents({u}, a) <=>
                 \E i \in DOMAIN t.entries : x = <<u, i>> /\ AccountAt(t, i) = a
    BY <1>3, <1>4, ContentsOf
  <2>2. \A y : y \in S <=> \E i \in DOMAIN t.entries : y = <<t, i>> /\ AccountAt(t, i) = a
    BY <1>s, ContentsOf
  <2>3. \A i : <<t, i>> \in S => b[<<t, i>>] = <<u, i>>
    BY <1>b
  <2>4. ASSUME NEW x \in Contents({u}, a) PROVE \E y \in S : x = b[y]
    <3>1. PICK i \in DOMAIN t.entries : x = <<u, i>> /\ AccountAt(t, i) = a
      BY <2>1
    <3>2. <<t, i>> \in S
      BY <2>2, <3>1
    <3>3. x = b[<<t, i>>]
      BY <2>3, <3>1, <3>2
    <3> QED
      BY <3>2, <3>3
  <2>5. ASSUME NEW y \in S PROVE b[y] \in Contents({u}, a)
    <3>1. y = <<t, y[2]>> /\ y[2] \in DOMAIN t.entries
      BY <1>6
    <3>2. AccountAt(t, y[2]) = a
      BY <1>s, ContentsOf
    <3>3. b[y] = <<u, y[2]>>
      BY <1>b
    <3> QED
      BY <2>1, <3>1, <3>2, <3>3
  <2> QED
    BY <2>4, <2>5
<1>8. Contents({u}, a) = {b[y] : y \in S}
  BY <1>7
<1>9. \A x, y \in S : b[x] = b[y] => x = y
  BY <1>b, <1>6
<1>10. ASSUME NEW x \in S PROVE /\ g[x] \in Int /\ g[x] = -Weighted(a, S)[x]
                                /\ Weight(a, b[x]) = g[x]
  <2>1. Weight(a, <<u, x[2]>>) = -Weight(a, x) /\ Weight(a, x) \in Int
    <3>1. t.entries[x[2]] \in Entry /\ x[1] = t /\ x[2] \in DOMAIN t.entries
      BY <1>1, <1>6
    <3>2. /\ u.entries[x[2]].type = Opposite(t.entries[x[2]].type)
          /\ u.entries[x[2]].amount = t.entries[x[2]].amount
      BY <1>2, <3>1
    <3> QED
      BY <3>1, <3>2, OppositeWeight DEF Weight
  <2> QED
    BY <1>b, <1>g, <2>1 DEF Weighted
<1>11. \A x \in S : Weighted(a, {b[y] : y \in S})[b[x]] = g[x] /\ g[x] \in Int
  BY <1>10 DEF Weighted
<1>12. Signed(a, {b[y] : y \in S}) = SumFunctionOnSet(g, S)
  BY <1>5, <1>9, <1>11, SumRenamed DEF Signed
<1>13. SumFunctionOnSet(g, S) = -Signed(a, S)
  <2>1. Summable(Weighted(a, S), S)
    BY <1>5, WeightedSummable
  <2> QED
    BY <1>10, <2>1, SumNegated DEF Signed
<1>14. t = u => Contents({t}, a) = {}
  BY <1>2, <1>6, <1>s
<1>15. Signed(a, S) \in Int
  BY <1>5, SignedType
<1> QED
  BY <1>8, <1>12, <1>13, <1>14, <1>15, <1>s

(* So the two of them weigh nothing.                                        *)
LEMMA MirrorsCancel ==
    ASSUME NEW t \in Txn, NEW u \in Txn, u.entity = t.entity, u.entries = Mirrored(t.entries), NEW a
    PROVE  Signed(a, Contents({t, u}, a)) = 0
<1>1. /\ IsFiniteSet(Contents({t}, a)) /\ Contents({t}, a) \subseteq Lines
      /\ IsFiniteSet(Contents({u}, a)) /\ Contents({u}, a) \subseteq Lines
  <2>1. IsFiniteSet({t}) /\ {t} \subseteq Txn /\ IsFiniteSet({u}) /\ {u} \subseteq Txn
    BY FS_Singleton
  <2> QED
    BY <2>1, ContentsFinite, ContentsAreLines
<1>2. Contents({t, u}, a) = Contents({t}, a) \cup Contents({u}, a)
  BY DEF Contents
<1>3. CASE t = u
  <2>1. Contents({t, u}, a) = {}
    BY <1>2, <1>3, MirroredLines
  <2> QED
    BY <2>1, SignedEmpty
<1>4. CASE t # u
  <2>c. PICK C, D : C = Contents({t}, a) /\ D = Contents({u}, a)
    OBVIOUS
  <2>1. C \cap D = {}
    BY <1>4, <2>c DEF Contents
  <2>2. Signed(a, C \cup D) = Signed(a, C) + Signed(a, D)
    BY <1>1, <2>c, <2>1, SignedUnion
  <2>3. Signed(a, D) = -Signed(a, C) /\ Signed(a, C) \in Int
    BY <2>c, MirroredLines
  <2>4. Signed(a, C \cup D) = 0
    BY <2>2, <2>3
  <2> QED
    BY <1>2, <2>c, <2>4
<1> QED
  BY <1>3, <1>4

(* A reversal mirrors its original and was asked for under its key.         *)
LEMMA ReversalOrigin ==
    ASSUME OriginInv, KeyInv, NEW t \in journal, NEW u \in Reversals(t.key)
    PROVE  /\ u.entity = t.entity /\ u.entries = Mirrored(t.entries)
           /\ \E r \in Requests : r.op = "reverse" /\ r.txn = t.key /\ r.key = u.key
<1>1. u \in journal /\ u.type = "REVERSAL" /\ u.ref = t.key /\ t.key \in TxnKeys
  BY DEF Reversals, KeyInv, ShapeInv, TypeOK, Txn
<1>2. PICK r \in Requests : MadeFor(u, r)
  BY <1>1 DEF OriginInv
<1>3. r.op = "reverse" /\ r.txn = t.key /\ r.key = u.key
  BY <1>1, <1>2, OriginSays
<1>4. PICK o \in journal : o.key = r.txn /\ o.entity = r.entity /\ u = ReversalTxn(u.by, r, o)
  BY <1>2, <1>3 DEF MadeFor, PostsAtOnce
<1>5. o = t
  BY <1>3, <1>4 DEF KeyInv, KeysApart
<1> QED
  BY <1>3, <1>4, <1>5 DEF ReversalTxn, Payload

(* The keys README recommends make all reversals of a transaction one.      *)
LEMMA ReversalsFollow ==
    ASSUME OriginInv, KeyInv PROVE ReversalsCancel
<1> SUFFICES ASSUME ReversalKeysRecommended, NEW t \in journal
             PROVE  /\ Cardinality(Reversals(t.key)) <= 1
                    /\ \A u \in Reversals(t.key), a \in Accounts :
                          LET both == {x \in EntriesOn(a) : x[1] \in {t, u}}
                              e(x) == x[1].entries[x[2]]
                          IN  SumFunctionOnSet([x \in both |->
                                Delta(Chart[a].type, e(x).type, e(x).amount)], both) = 0
  BY DEF ReversalsCancel
<1>1. \A u, v \in Reversals(t.key) : u = v
  <2> SUFFICES ASSUME NEW u \in Reversals(t.key), NEW v \in Reversals(t.key) PROVE u = v
    OBVIOUS
  <2>1. PICK r \in Requests : r.op = "reverse" /\ r.txn = t.key /\ r.key = u.key
    BY ReversalOrigin
  <2>2. PICK q \in Requests : q.op = "reverse" /\ q.txn = t.key /\ q.key = v.key
    BY ReversalOrigin
  <2>3. u.key = v.key
    BY <2>1, <2>2 DEF ReversalKeysRecommended
  <2> QED
    BY <2>3 DEF KeyInv, KeysApart, Reversals
<1>2. Cardinality(Reversals(t.key)) <= 1
  <2>1. CASE Reversals(t.key) = {}
    <3>1. Cardinality({}) = 0
      BY FS_EmptySet
    <3> QED
      BY <2>1, <3>1
  <2>2. ASSUME NEW u \in Reversals(t.key) PROVE Cardinality(Reversals(t.key)) <= 1
    <3>1. Reversals(t.key) = {u}
      BY <1>1, <2>2
    <3>2. Cardinality({u}) = 1
      BY FS_Singleton
    <3> QED
      BY <3>1, <3>2
  <2> QED
    BY <2>1, <2>2
<1>3. ASSUME NEW u \in Reversals(t.key), NEW a \in Accounts,
             NEW both, both = {x \in EntriesOn(a) : x[1] \in {t, u}}
      PROVE  Signed(a, both) = 0
  <2>1. t \in Txn /\ u \in Txn /\ t \in journal /\ u \in journal
    BY DEF Reversals, KeyInv, ShapeInv, TypeOK
  <2>2. \A x : x \in both <=> x \in Contents({t, u}, a)
    BY <1>3, <2>1, EntriesAsContents, ContentsOf
  <2>3. both = Contents({t, u}, a)
    BY <2>2
  <2> QED
    BY <2>1, <2>3, ReversalOrigin, MirrorsCancel
<1>4. ASSUME NEW u \in Reversals(t.key), NEW a \in Accounts
      PROVE  LET both == {x \in EntriesOn(a) : x[1] \in {t, u}}
                 e(x) == x[1].entries[x[2]]
             IN  SumFunctionOnSet([x \in both |-> Delta(Chart[a].type, e(x).type, e(x).amount)],
                                  both) = 0
  BY <1>3 DEF Signed, Weighted, Weight
<1> QED
  BY <1>2, <1>4

(* Under the recommended keys a transaction is reversed at most once, and   *)
(* the two move no account.                                                 *)
THEOREM ReversalsCancelOut == Spec => []ReversalsCancel
<1>1. OriginInv /\ KeyInv => ReversalsCancel
  BY ReversalsFollow
<1> QED
  BY <1>1, OriginInit, OriginStep, KeyInit, KeyStep, PTL DEF Spec

-----------------------------------------------------------------------------
(* Transfers.  The two legs under one key were made for one request, even   *)
(* when several transfers share the key: a request books both or none.      *)
LegsTogether ==
    \A t, u \in journal, k \in Keys : t.key = <<SEND, k>> /\ u.key = <<RECV, k>> =>
        \E r \in Requests : /\ r.op = "transfer"
                            /\ t = SenderTxn(t.by, r) /\ u = ReceiverTxn(u.by, r)

LegsInv == KeyInv /\ PairInv /\ OriginInv /\ (KeysNotReserved => LegsTogether)

LEMMA LegOf ==
    ASSUME NEW r, r.op = "transfer", NEW t, MadeFor(t, r)
    PROVE  /\ t.key[1] = SEND => t = SenderTxn(t.by, r)
           /\ t.key[1] = RECV => t = ReceiverTxn(t.by, r)
<1>1. t = SenderTxn(t.by, r) \/ t = ReceiverTxn(t.by, r)
  BY DEF MadeFor, PostsAtOnce
<1>2. SenderTxn(t.by, r).key[1] = SEND /\ ReceiverTxn(t.by, r).key[1] = RECV /\ SEND # RECV
  BY DEF SenderTxn, ReceiverTxn, Payload, SEND, RECV
<1> QED
  BY <1>1, <1>2

(* After a commit, two legs under one key are of one request.               *)
LEMMA CommitLegs ==
    ASSUME LegsInv, KeysNotReserved, NEW s \in Sessions, Commit(s) PROVE LegsTogether'
<1> SUFFICES ASSUME NEW t \in journal', NEW u \in journal', NEW k \in Keys,
                    t.key = <<SEND, k>>, u.key = <<RECV, k>>
             PROVE  \E r \in Requests : /\ r.op = "transfer"
                                        /\ t = SenderTxn(t.by, r) /\ u = ReceiverTxn(u.by, r)
  BY DEF LegsTogether
<1>1. journal' = journal \cup inserted[s] /\ pc[s] = "commit"
  BY DEF Commit
<1>2. CASE t \in journal /\ u \in journal
  BY <1>2 DEF LegsInv, LegsTogether
<1>3. CASE t \in inserted[s] /\ u \in inserted[s]
  <2>1. request[s].op = "transfer" /\ request[s] \in Requests
    BY <1>1, <1>3, OnlyTransfersPrefix DEF LegsInv, OriginInv, CoverInv, ShapeInv, AskedFor
  <2>2. MadeFor(t, request[s]) /\ MadeFor(u, request[s])
    BY <1>1, <1>3 DEF LegsInv, OriginInv, FromRequest
  <2> QED
    BY <2>1, <2>2, LegOf
<1>4. KeyUsed(journal, <<SEND, k>>) <=> KeyUsed(journal, <<RECV, k>>)
  BY DEF LegsInv, PairInv, TransferAllOrNothing
<1>5. \A v \in inserted[s] : ~KeyUsed(journal, v.key)
  BY DEF LegsInv, KeyInv, KeysApart
<1> QED
  BY <1>1, <1>2, <1>3, <1>4, <1>5 DEF KeyUsed

(* Every step keeps the invariant.                                          *)
LEMMA LegsStep == LegsInv /\ [Next]_vars => LegsInv'
<1> SUFFICES ASSUME LegsInv, [Next]_vars PROVE LegsInv'
  OBVIOUS
<1>0. KeyInv' /\ PairInv' /\ OriginInv' /\ (KeysNotReserved' <=> KeysNotReserved)
  BY KeyStep, PairStep, OriginStep DEF LegsInv, KeysNotReserved
<1>1. CASE journal' = journal
  BY <1>0, <1>1 DEF LegsInv, LegsTogether
<1>2. CASE journal' # journal
  <2>1. PICK s \in Sessions : Commit(s)
    BY <1>2, StepCases, Kinds
       DEF LegsInv, KeyInv, KeepsWrites, Inserts, Drops, others, tables, ledgerVars
  <2> QED
    BY <1>0, <2>1, CommitLegs DEF LegsInv
<1> QED
  BY <1>1, <1>2

(* It holds at the start.                                                   *)
LEMMA LegsInit == Init => LegsInv
  BY KeyInit, PairInit, OriginInit DEF Init, LedgerInit, LegsInv, LegsTogether

(* What a transaction books on the transfer account, debits less credits.   *)
OnTransfers(t, type) ==
    SumOver(t.entries, {i \in DOMAIN t.entries : /\ t.entries[i].code = ACC_TRANSFER
                                                 /\ t.entries[i].type = type})
LegNet(t) == OnTransfers(t, "DEBIT") - OnTransfers(t, "CREDIT")

LEMMA LegNets ==
    ASSUME NEW s, NEW r \in TransferRequest
    PROVE  /\ LegNet(SenderTxn(s, r)) = r.amount /\ LegNet(ReceiverTxn(s, r)) = -r.amount
           /\ r.amount \in Int
<1> DEFINE on(t, type) == {i \in DOMAIN t.entries : /\ t.entries[i].code = ACC_TRANSFER
                                                     /\ t.entries[i].type = type}
<1>0. r.amount \in Int
  BY DEF TransferRequest
<1>1. ASSUME NEW t, t.entries = SenderEntries(r) PROVE LegNet(t) = r.amount
  <2>1. /\ DOMAIN t.entries = {1, 2}
        /\ t.entries[1] = Debit(ACC_TRANSFER, r.amount, r.currency)
        /\ t.entries[2] = Credit(ACC_RECEIVABLES, r.amount, r.currency)
    BY <1>1 DEF SenderEntries
  <2>2. on(t, "DEBIT") = {1} /\ on(t, "CREDIT") = {}
    BY <2>1 DEF Debit, Credit, ACC_TRANSFER, ACC_RECEIVABLES
  <2>3. OnTransfers(t, "CREDIT") = 0
    BY <2>2, SumEmpty DEF OnTransfers, SumOver
  <2>f. PICK f : f = [i \in {1} |-> t.entries[i].amount]
    OBVIOUS
  <2>4. f[1] = r.amount
    BY <2>1, <2>f DEF Debit
  <2>5. SumFunctionOnSet(f, {1}) = r.amount
    BY <1>0, <2>4, SumOne
  <2>6. OnTransfers(t, "DEBIT") = r.amount
    BY <2>2, <2>f, <2>5 DEF OnTransfers, SumOver
  <2> QED
    BY <1>0, <2>3, <2>6 DEF LegNet
<1>2. ASSUME NEW t, t.entries = ReceiverEntries(r) PROVE LegNet(t) = -r.amount
  <2>1. /\ DOMAIN t.entries = {1, 2}
        /\ t.entries[1] = Debit(ACC_RECEIVABLES, r.amount, r.currency)
        /\ t.entries[2] = Credit(ACC_TRANSFER, r.amount, r.currency)
    BY <1>2 DEF ReceiverEntries
  <2>2. on(t, "DEBIT") = {} /\ on(t, "CREDIT") = {2}
    BY <2>1 DEF Debit, Credit, ACC_TRANSFER, ACC_RECEIVABLES
  <2>3. OnTransfers(t, "DEBIT") = 0
    BY <2>2, SumEmpty DEF OnTransfers, SumOver
  <2>f. PICK f : f = [i \in {2} |-> t.entries[i].amount]
    OBVIOUS
  <2>4. f[2] = r.amount
    BY <2>1, <2>f DEF Credit
  <2>5. SumFunctionOnSet(f, {2}) = r.amount
    BY <1>0, <2>4, SumOne
  <2>6. OnTransfers(t, "CREDIT") = r.amount
    BY <2>2, <2>f, <2>5 DEF OnTransfers, SumOver
  <2> QED
    BY <1>0, <2>3, <2>6 DEF LegNet
<1>3. SenderTxn(s, r).entries = SenderEntries(r) /\ ReceiverTxn(s, r).entries = ReceiverEntries(r)
  BY DEF SenderTxn, ReceiverTxn, Payload
<1> QED
  BY <1>0, <1>1, <1>2, <1>3

Legs == {t \in journal : t.key[1] \in {SEND, RECV}}

(* A pair is made of its parts.                                             *)
LEMMA PairParts ==
    ASSUME NEW A, NEW B, NEW p \in A \X B PROVE p = <<p[1], p[2]>> /\ p[1] \in A /\ p[2] \in B
  OBVIOUS

(* The parts of a key in the journal.                                       *)
LEMMA JournalKey ==
    ASSUME KeyInv, NEW t \in journal
    PROVE  t.key = <<t.key[1], t.key[2]>> /\ t.key[2] \in Keys
<1>1. t.key \in TxnKeys
  BY DEF KeyInv, ShapeInv, TypeOK, Txn
<1> QED
  BY <1>1, PairParts DEF TxnKeys

(* Two legs of one request, and no others, have one client key.             *)
LEMMA LegsOfKey ==
    ASSUME LegsInv, KeysNotReserved, NEW t \in journal, t.key[1] = SEND
    PROVE  \E u \in journal :
             /\ t # u /\ {v \in Legs : v.key[2] = t.key[2]} = {t, u}
             /\ LegNet(t) \in Int /\ LegNet(u) = -LegNet(t)
<1>1. \A v \in journal : v.key = <<v.key[1], v.key[2]>> /\ v.key[2] \in Keys
  BY JournalKey DEF LegsInv
<1>2. PICK u \in journal : u.key = <<RECV, t.key[2]>>
  BY <1>1 DEF LegsInv, PairInv, TransferAllOrNothing, KeyUsed
<1>3. PICK r \in Requests : r.op = "transfer" /\ t = SenderTxn(t.by, r) /\ u = ReceiverTxn(u.by, r)
  BY <1>1, <1>2 DEF LegsInv, LegsTogether
<1>4. r \in TransferRequest
  BY <1>3, SessionsAssumption DEF Request, PostRequest, CashRequest, AnticipateRequest,
     SettleRequest, TransferRequest, ReverseRequest, VoidRequest
<1>5. LegNet(t) = r.amount /\ LegNet(u) = -r.amount /\ r.amount \in Int
  BY <1>3, <1>4, LegNets
<1>6. SEND # RECV /\ u.key[1] = RECV /\ u.key[2] = t.key[2]
  BY <1>2 DEF SEND, RECV
<1>7. \A v \in Legs : v.key[2] = t.key[2] => v = t \/ v = u
  <2> SUFFICES ASSUME NEW v \in Legs, v.key[2] = t.key[2] PROVE v = t \/ v = u
    OBVIOUS
  <2>1. v \in journal /\ v.key = <<v.key[1], v.key[2]>> /\ v.key[1] \in {SEND, RECV}
    BY <1>1 DEF Legs
  <2>2. v.key = t.key \/ v.key = u.key
    BY <1>1, <1>2, <2>1
  <2> QED
    BY <2>1, <2>2 DEF LegsInv, KeyInv, KeysApart
<1>8. t \in Legs /\ u \in Legs /\ t # u
  BY <1>6 DEF Legs
<1> QED
  BY <1>5, <1>6, <1>7, <1>8

(* The legs of all transfers, taken in twos, net zero.                      *)
LEMMA LegsNetZero ==
    ASSUME LegsInv, FiniteInv, KeysNotReserved, NEW f, f = [t \in Legs |-> LegNet(t)]
    PROVE  SumFunctionOnSet(f, Legs) = 0
<1>i. PICK I : I = {t \in journal : t.key[1] = SEND}
  OBVIOUS
<1>f. PICK F : F = [t \in I |-> {v \in Legs : v.key[2] = t.key[2]}]
  OBVIOUS
<1>z. PICK z : z = [t \in I |-> 0]
  OBVIOUS
<1>1. IsFiniteSet(I)
  BY <1>i, FS_Subset DEF FiniteInv
<1>2. ASSUME NEW t \in I PROVE Summable(f, F[t]) /\ z[t] = SumFunctionOnSet(f, F[t])
  <2>1. PICK u \in journal :
           /\ t # u /\ {v \in Legs : v.key[2] = t.key[2]} = {t, u}
           /\ LegNet(t) \in Int /\ LegNet(u) = -LegNet(t)
    BY <1>i, LegsOfKey
  <2>2. F[t] = {t, u} /\ t \in Legs /\ u \in Legs
    BY <1>f, <2>1
  <2>3. f[t] = LegNet(t) /\ f[u] = -LegNet(t) /\ f[u] \in Int
    BY <2>1, <2>2
  <2>4. SumFunctionOnSet(f, {t, u}) = f[t] + f[u]
    BY <2>1, <2>3, SumTwo
  <2>5. IsFiniteSet({t, u})
    <3>1. IsFiniteSet({t} \cup {u}) /\ {t} \cup {u} = {t, u}
      BY FS_Singleton, FS_AddElement
    <3> QED
      BY <3>1
  <2>6. SumFunctionOnSet(f, {t, u}) = 0
    BY <2>1, <2>3, <2>4
  <2> QED
    BY <1>z, <2>1, <2>2, <2>3, <2>5, <2>6 DEF Summable
<1>3. ASSUME NEW x PROVE x \in Legs <=> \E t \in I : x \in F[t]
  <2>1. ASSUME x \in Legs PROVE \E t \in I : x \in F[t]
    <3>1. x \in journal /\ x.key[1] \in {SEND, RECV} /\ x.key = <<x.key[1], x.key[2]>>
          /\ x.key[2] \in Keys
      BY <2>1, JournalKey DEF Legs, LegsInv
    <3>2. KeyUsed(journal, <<SEND, x.key[2]>>)
      BY <3>1 DEF LegsInv, PairInv, TransferAllOrNothing, KeyUsed
    <3>3. PICK t \in journal : t.key = <<SEND, x.key[2]>>
      BY <3>2 DEF KeyUsed
    <3> QED
      BY <1>i, <1>f, <2>1, <3>3
  <2> QED
    BY <1>f, <2>1
<1>4. ASSUME NEW t \in I, NEW u \in I, t # u PROVE F[t] \cap F[u] = {}
  <2>1. t.key # u.key
    BY <1>i, <1>4 DEF LegsInv, KeyInv, KeysApart
  <2>2. t.key = <<SEND, t.key[2]>> /\ u.key = <<SEND, u.key[2]>>
    <3>1. t \in journal /\ u \in journal /\ t.key[1] = SEND /\ u.key[1] = SEND
      BY <1>i
    <3>2. t.key = <<t.key[1], t.key[2]>> /\ u.key = <<u.key[1], u.key[2]>>
      BY <3>1, JournalKey DEF LegsInv
    <3> QED
      BY <3>1, <3>2
  <2> QED
    BY <1>f, <2>1, <2>2
<1>5. Parts(f, F, I, Legs)
  BY <1>1, <1>2, <1>3, <1>4 DEF Parts
<1>6. SumFunctionOnSet(f, Legs) = SumFunctionOnSet(z, I)
  BY <1>2, <1>5, SumByParts
<1>7. SumFunctionOnSet(z, I) = 0
  BY <1>1, <1>z, SumZero
<1> QED
  BY <1>6, <1>7

(* What transfers book on the transfer accounts cancels across entities.    *)
THEOREM TransfersCancel == Spec => []TransfersNetZero
<1>1. LegsInv /\ BalanceInv => TransfersNetZero
  BY LegsNetZero DEF BalanceInv, TransfersNetZero, Legs, LegNet, OnTransfers
<1> QED
  BY <1>1, LegsInit, LegsStep, BalanceInit, BalanceStep, PTL DEF Spec

-----------------------------------------------------------------------------
(* The amounts of a receivable.  Each is a number of cents, half a cent off *)
(* at most.                                                                 *)
LEMMA ThreeRoundings ==
    ASSUME NEW gross \in Int, NEW fee \in Int, NEW g \in Int, NEW f \in Int, NEW n \in Int,
           g = RoundHalfUp(gross, Cent), f = RoundHalfUp(fee, Cent),
           n = RoundHalfUp(gross - fee, Cent)
    PROVE  /\ Abs(g - f - n) <= Cent
           /\ OnScale(fee, Cent) /\ gross >= 0 /\ fee <= gross => n = g - f
<1>0. Cent \in Nat \ {0}
  BY AmountsAssumption
<1>1. PICK i, j, k \in Int : g = i * Cent /\ f = j * Cent /\ n = k * Cent
  <2>1. gross - fee \in Int
    OBVIOUS
  <2>2. \A x \in Int : \E i \in Int : RoundHalfUp(x, Cent) = i * Cent
    BY <1>0, HalfUpNear
  <2> QED
    BY <2>1, <2>2
<1>2. 2 * Abs(gross - g) <= Cent /\ 2 * Abs(fee - f) <= Cent /\ 2 * Abs(gross - fee - n) <= Cent
  BY <1>0, HalfUpNear
<1>3. Abs(g - f - n) < 2 * Cent
  BY <1>0, <1>2 DEF Abs
<1>4. Abs(g - f - n) <= Cent
  <2>1. PICK m, d \in Int : m = i - j - k /\ d = m * Cent
    BY <1>0
  <2>2. g - f - n = d
    BY <1>0, <1>1, <2>1
  <2>3. /\ m >= 2 => d >= 2 * Cent
        /\ m = 1 => d = Cent
        /\ m = 0 => d = 0
        /\ m = -1 => d = -Cent
        /\ m <= -2 => d <= -(2 * Cent)
    BY <1>0, <2>1
  <2>4. m >= 2 \/ m = 1 \/ m = 0 \/ m = -1 \/ m <= -2
    BY <2>1
  <2> QED
    BY <1>0, <1>3, <2>1, <2>2, <2>3, <2>4 DEF Abs
<1>5. ASSUME OnScale(fee, Cent), gross >= 0, fee <= gross PROVE n = g - f
  <2>1. PICK c \in Int : fee = c * Cent
    BY <1>0, <1>5, OnScaleMultiple
  <2>2. f = fee
    BY <1>0, <2>1, HalfUpExact
  <2>3. PICK x \in Nat : x = gross - fee
    BY <1>5
  <2>4. gross = x + c * Cent
    BY <2>1, <2>3
  <2>5. RoundHalfUp(x + c * Cent, Cent) = RoundHalfUp(x, Cent) + c * Cent
    BY <1>0, <1>5, <2>4, HalfUpShift
  <2>6. g = n + fee
    BY <2>1, <2>3, <2>4, <2>5
  <2> QED
    BY <2>2, <2>6
<1> QED
  BY <1>4, <1>5

(* The amounts of some entries of a transaction have an integer sum.        *)
LEMMA EntriesSum ==
    ASSUME NEW t \in Txn, NEW I, I \subseteq DOMAIN t.entries PROVE SumOver(t.entries, I) \in Int
<1>1. t.entries \in Seq(Entry) /\ IsFiniteSet(1 .. Len(t.entries)) /\ DOMAIN t.entries = 1 .. Len(t.entries)
  BY LenProperties, FS_Interval DEF Txn
<1>2. PICK f : f = [i \in I |-> t.entries[i].amount]
  OBVIOUS
<1>3. Summable(f, I)
  <2>1. IsFiniteSet(I)
    BY <1>1, FS_Subset
  <2>2. \A i \in I : t.entries[i] \in Entry
    BY <1>1
  <2> QED
    BY <1>2, <2>1, <2>2 DEF Summable, Entry
<1> QED
  BY <1>2, <1>3, SumType DEF SumOver

(* The amounts of every receivable agree to the cent, for any amounts in    *)
(* the entries and any scale of the columns.                                *)
THEOREM ReceivablesAddUp == Spec => []ReceivableAddsUp
<1>1. ShapeInv => ReceivableAddsUp
  <2> SUFFICES ASSUME ShapeInv, NEW t \in journal
               PROVE  /\ Abs(AmountsOf(t).gross - AmountsOf(t).fee - AmountsOf(t).net) <= Cent
                      /\ /\ OnScale(InferredFee(t), Cent)
                         /\ InferredGross(t) >= 0 /\ InferredFee(t) <= InferredGross(t)
                         => AmountsOf(t).net = AmountsOf(t).gross - AmountsOf(t).fee
    BY DEF ReceivableAddsUp
  <2>1. InferredGross(t) \in Int /\ InferredFee(t) \in Int
    BY EntriesSum DEF ShapeInv, TypeOK, InferredGross, InferredFee
  <2>2. PICK gross, fee \in Int : gross = InferredGross(t) /\ fee = InferredFee(t)
    BY <2>1
  <2>3. PICK g, f, n : /\ g = RoundHalfUp(gross, Cent) /\ f = RoundHalfUp(fee, Cent)
                       /\ n = RoundHalfUp(gross - fee, Cent)
    OBVIOUS
  <2>4. g \in Int /\ f \in Int /\ n \in Int
    BY <2>3, HalfUpNear, AmountsAssumption
  <2>5. AmountsOf(t).gross = g /\ AmountsOf(t).fee = f /\ AmountsOf(t).net = n
    BY <2>2, <2>3 DEF AmountsOf, Created
  <2>6. /\ Abs(g - f - n) <= Cent
        /\ OnScale(fee, Cent) /\ gross >= 0 /\ fee <= gross => n = g - f
    BY <2>3, <2>4, ThreeRoundings
  <2> QED
    BY <2>2, <2>5, <2>6
<1> QED
  BY <1>1, ShapeInvariant, PTL
====
