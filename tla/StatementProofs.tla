---- MODULE StatementProofs ----
(***************************************************************************)
(* The safety properties of Statement hold for any accounts, commits,      *)
(* queries, readers and grains.  The shape invariant types the state and   *)
(* puts lines in order; sums over transactions are taken apart into sums   *)
(* over their entries, which partial reads and roundings are counted by.   *)
(***************************************************************************)
EXTENDS Statement, AmountTheorems, SequenceTheorems, TLAPS

(* The entries of some transactions on some accounts.                       *)
Places(t, A) == {<<t, i>> : i \in {j \in DOMAIN t.entries : t.entries[j].account \in A}}
On(A, T) == UNION {Places(t, A) : t \in T}

(* What SumOf and Position add up.                                          *)
Value(x) == AssetDelta(x[1].entries[x[2]])
Values(P) == [x \in P |-> Value(x)]

LEMMA GrainsType == EntryGrain \in Nat \ {0} /\ BalanceGrain \in Nat \ {0} /\ Cent \in Nat \ {0}
  BY AmountsAssumption

-----------------------------------------------------------------------------
(* Transactions.  A sent one has typed entries, finitely many.              *)
LEMMA EntriesType ==
    ASSUME NEW t \in Txn
    PROVE  /\ t.key \in Int /\ t.date \in Int
           /\ IsFiniteSet(DOMAIN t.entries) /\ Cardinality(DOMAIN t.entries) = Len(t.entries)
           /\ Len(t.entries) \in Nat
           /\ \A i \in DOMAIN t.entries :
                 /\ t.entries[i] \in Entry /\ t.entries[i].account \in Accounts
                 /\ t.entries[i].type \in {"DEBIT", "CREDIT"}
                 /\ t.entries[i].amount \in Int /\ AssetDelta(t.entries[i]) \in Int
<1>1. t.key \in Int /\ t.date \in Int /\ t.entries \in Seq(Entry)
  BY DEF Txn
<1>2. /\ Len(t.entries) \in Nat /\ DOMAIN t.entries = 1 .. Len(t.entries)
      /\ \A i \in DOMAIN t.entries : t.entries[i] \in Entry
  BY <1>1
<1>3. IsFiniteSet(DOMAIN t.entries) /\ Cardinality(DOMAIN t.entries) = Len(t.entries)
  BY <1>2, FS_Interval
<1>4. \A e \in Entry : /\ e.account \in Accounts /\ e.type \in {"DEBIT", "CREDIT"}
                       /\ e.amount \in Int /\ AssetDelta(e) \in Int
  BY DEF Entry, AssetDelta
<1> QED
  BY <1>1, <1>2, <1>3, <1>4

(* What is stored is a transaction as well; its keys tell it from others.   *)
LEMMA StoredTxnType ==
    ASSUME NEW t \in Txn
    PROVE  /\ StoredTxn(t) \in Txn
           /\ StoredTxn(t).key = t.key /\ StoredTxn(t).date = t.date
           /\ DOMAIN StoredTxn(t).entries = DOMAIN t.entries
           /\ Len(StoredTxn(t).entries) = Len(t.entries)
           /\ \A i \in DOMAIN t.entries :
                 StoredTxn(t).entries[i] = [t.entries[i] EXCEPT !.amount = Stored(t.entries[i].amount)]
<1> DEFINE new == [i \in DOMAIN t.entries |-> [t.entries[i] EXCEPT !.amount = Stored(@)]]
<1>1. t.key \in Int /\ t.date \in Int /\ t.entries \in Seq(Entry)
  BY DEF Txn
<1>2. \A e \in Entry : [e EXCEPT !.amount = Stored(@)] \in Entry
  <2>1. \A x \in Int : Stored(x) \in Int
    BY HalfUpNear, GrainsType DEF Stored
  <2> QED
    BY <2>1 DEF Entry
<1>3. /\ Len(t.entries) \in Nat /\ DOMAIN t.entries = 1 .. Len(t.entries)
      /\ \A i \in DOMAIN t.entries : t.entries[i] \in Entry
  BY <1>1
<1>4. new \in [1 .. Len(t.entries) -> Entry]
  BY <1>2, <1>3
<1>5. new \in Seq(Entry) /\ Len(new) = Len(t.entries)
  BY <1>3, <1>4
<1>6. StoredTxn(t) = [t EXCEPT !.entries = new]
  BY DEF StoredTxn
<1>7. StoredTxn(t) \in Txn /\ StoredTxn(t).entries = new
  <2> HIDE DEF new
  <2> QED
    BY <1>5, <1>6 DEF Txn
<1>8. StoredTxn(t).key = t.key /\ StoredTxn(t).date = t.date
  <2> HIDE DEF new
  <2> QED
    BY <1>6 DEF Txn
<1> QED
  BY <1>5, <1>7, <1>8

(* What clients send, and what is in Txns.                                  *)
LEMMA CommitType ==
    ASSUME NEW C \in Commits
    PROVE  /\ IsFiniteSet(C) /\ C \subseteq Txn
           /\ \A t, u \in C : t.key = u.key => t = u
           /\ \A t \in C : SideOf(t, "DEBIT") = SideOf(t, "CREDIT") /\ StoredTxn(t) \in Txns
  BY StatementAssumption DEF Txns

(* What the journal can hold has the type of a transaction.                 *)
LEMMA TxnsType == Txns \subseteq Txn
  BY StatementAssumption, StoredTxnType DEF Txns

-----------------------------------------------------------------------------
(* Sums.  The entries of transactions are finitely many, with integer       *)
(* values, and a position adds them up.                                     *)
LEMMA PlacesSum ==
    ASSUME NEW t \in Txn, NEW A, NEW P, Places(t, A) \subseteq P
    PROVE  /\ Summable(Values(P), Places(t, A))
           /\ Movement(t, A) = SumFunctionOnSet(Values(P), Places(t, A))
           /\ Movement(t, A) \in Int
<1> DEFINE I == {j \in DOMAIN t.entries : t.entries[j].account \in A}
           b == [i \in I |-> <<t, i>>]
           g == [i \in I |-> AssetDelta(t.entries[i])]
<1>1. IsFiniteSet(I)
  BY EntriesType, FS_Subset
<1>2. \A i \in I : Values(P)[b[i]] = g[i] /\ g[i] \in Int
  BY EntriesType DEF Values, Value, Places
<1>3. \A i, j \in I : b[i] = b[j] => i = j
  OBVIOUS
<1>4. Places(t, A) = {b[i] : i \in I}
  BY DEF Places
<1>5. Movement(t, A) = SumFunctionOnSet(g, I)
  BY DEF Movement
<1> HIDE DEF I, b, g
<1>6. SumFunctionOnSet(Values(P), {b[i] : i \in I}) = SumFunctionOnSet(g, I)
  BY <1>1, <1>2, <1>3, SumRenamed
<1>7. IsFiniteSet({b[i] : i \in I})
  BY <1>1, FiniteImage
<1>8. Summable(Values(P), Places(t, A))
  BY <1>2, <1>4, <1>7 DEF Summable
<1> QED
  BY <1>4, <1>5, <1>6, <1>8, SumType

(* A position of transactions is the sum of the values of their entries.    *)
LEMMA PositionSums ==
    ASSUME NEW T, T \subseteq Txn, IsFiniteSet(T), NEW A
    PROVE  /\ Summable(Values(On(A, T)), On(A, T))
           /\ Position(T, A) = SumOf(On(A, T))
           /\ Position(T, A) \in Int
<1> DEFINE F == [t \in T |-> Places(t, A)]
           g == [t \in T |-> Movement(t, A)]
           f == Values(On(A, T))
<1>1. \A t \in T : Summable(f, F[t]) /\ g[t] = SumFunctionOnSet(f, F[t]) /\ g[t] \in Int
  BY PlacesSum DEF On
<1>2. \A x : x \in On(A, T) <=> \E t \in T : x \in F[t]
  BY DEF On
<1>3. \A t, u \in T : t # u => F[t] \cap F[u] = {}
  BY DEF Places
<1>4. Parts(f, F, T, On(A, T))
  BY <1>1, <1>2, <1>3 DEF Parts
<1>5. SumOf(On(A, T)) = SumFunctionOnSet(f, On(A, T))
  BY DEF SumOf, Values, Value
<1>6. Position(T, A) = SumFunctionOnSet(g, T)
  BY DEF Position
<1>7. Summable(g, T)
  BY <1>1 DEF Summable
<1> HIDE DEF F, g, f
<1>8. Summable(f, On(A, T)) /\ SumFunctionOnSet(f, On(A, T)) = SumFunctionOnSet(g, T)
  BY <1>1, <1>4, SumByParts
<1> QED
  BY <1>5, <1>6, <1>7, <1>8, SumType DEF f

(* Entries that can be added up, and how they can be taken apart.           *)
Addable(P) == IsFiniteSet(P) /\ \A x \in P : Value(x) \in Int

LEMMA AddableOn ==
    ASSUME NEW T, T \subseteq Txn, IsFiniteSet(T), NEW A PROVE Addable(On(A, T))
  BY PositionSums DEF Addable, Summable, Values

(* A part of addable entries is addable, and its sum is an integer.         *)
LEMMA SumOfPart ==
    ASSUME NEW P, Addable(P), NEW Q, Q \subseteq P
    PROVE  Addable(Q) /\ SumOf(Q) = SumFunctionOnSet(Values(P), Q) /\ SumOf(Q) \in Int
<1>1. Addable(Q) /\ Summable(Values(P), Q) /\ Summable(Values(Q), Q)
  BY FS_Subset DEF Addable, Summable, Values
<1>2. SumOf(Q) = SumFunctionOnSet(Values(Q), Q)
  BY DEF SumOf, Values, Value
<1>3. \A x \in Q : Values(P)[x] = Values(Q)[x]
  BY DEF Values
<1> QED
  BY <1>1, <1>2, <1>3, SumSame, SumType

(* Disjoint sets of entries add up to what their union does.                *)
LEMMA SumOfTwo ==
    ASSUME NEW P, NEW Q, Addable(P \cup Q), P \cap Q = {}
    PROVE  SumOf(P \cup Q) = SumOf(P) + SumOf(Q)
<1>1. PICK f : f = Values(P \cup Q)
  OBVIOUS
<1>2. /\ SumOf(P \cup Q) = SumFunctionOnSet(f, P \cup Q)
      /\ SumOf(P) = SumFunctionOnSet(f, P) /\ SumOf(Q) = SumFunctionOnSet(f, Q)
  BY <1>1, SumOfPart
<1>3. Summable(f, P \cup Q)
  BY <1>1 DEF Addable, Summable, Values
<1> QED
  BY <1>2, <1>3, SumUnion

-----------------------------------------------------------------------------
(* Transactions whose keys differ can be put in order.                      *)
Distinct(T) ==
    /\ T \subseteq Txn /\ IsFiniteSet(T)
    /\ \A t, u \in T : t.key = u.key => t = u

LEMMA PrecedesOrders ==
    ASSUME NEW T, Distinct(T), NEW t \in T, NEW u \in T
    PROVE  /\ ~Precedes(t, t)
           /\ t # u => Precedes(t, u) \/ Precedes(u, t)
           /\ \A v \in T : Precedes(t, u) /\ Precedes(u, v) => Precedes(t, v)
<1>1. \A v \in T : v.key \in Int /\ v.date \in Int
  BY EntriesType DEF Distinct
<1>2. \A v \in T : t.key = v.key => t = v
  BY DEF Distinct
<1> QED
  BY <1>1, <1>2 DEF Precedes

(* Finitely many transactions have a latest one.                            *)
LEMMA LatestOne ==
    ASSUME NEW T, Distinct(T), T # {}
    PROVE  \E m \in T : \A u \in T : u # m => Precedes(u, m)
<1> DEFINE above == [t \in T |-> {u \in T : u = t \/ Precedes(t, u)}]
           B == {above[t] : t \in T}
<1>1. B \subseteq SUBSET T /\ B # {}
  OBVIOUS
<1>2. PICK U \in B : \A V \in B : V \subseteq U => V = U
  <2> HIDE DEF B
  <2> QED
    BY <1>1, MinimalSubset DEF Distinct
<1>3. PICK m \in T : U = above[m]
  BY <1>2
<1>4. ASSUME NEW u \in T, u # m, ~Precedes(u, m) PROVE FALSE
  <2>1. Precedes(m, u)
    BY <1>4, PrecedesOrders
  <2>2. above[u] \subseteq U
    BY <1>3, <2>1, PrecedesOrders
  <2>3. m \in U /\ m \notin above[u]
    BY <1>3, <1>4
  <2> QED
    BY <1>2, <2>2, <2>3
<1> QED
  BY <1>4

Sorted(q) == \A i, j \in DOMAIN q : i < j => Precedes(q[i], q[j])

(* Finitely many transactions with distinct keys can be sorted, so InOrder  *)
(* has a value: a smallest set that cannot would lose its latest one.       *)
LEMMA OrderExists ==
    ASSUME NEW T, Distinct(T)
    PROVE  \E q \in [1 .. Cardinality(T) -> T] : Sorted(q)
<1> DEFINE good(U) == \E q \in [1 .. Cardinality(U) -> U] : Sorted(q)
           B == {U \in SUBSET T : ~good(U)}
<1>1. ASSUME B # {} PROVE FALSE
  <2>0. B \subseteq SUBSET T
    OBVIOUS
  <2>1. PICK U \in B : \A V \in B : V \subseteq U => V = U
    <3> HIDE DEF B
    <3> QED
      BY <1>1, <2>0, MinimalSubset DEF Distinct
  <2>2. Distinct(U)
    BY <2>1, FS_Subset DEF Distinct
  <2>3. CASE U = {}
    <3>1. Cardinality(U) = 0
      BY <2>3, FS_EmptySet
    <3>2. 1 .. 0 = {}
      OBVIOUS
    <3>3. PICK q : q = [i \in {} |-> i]
      OBVIOUS
    <3>4. q \in [1 .. Cardinality(U) -> U] /\ Sorted(q)
      BY <3>1, <3>2, <3>3 DEF Sorted
    <3> QED
      BY <2>1, <3>4
  <2>4. CASE U # {}
    <3>1. PICK m \in U : \A u \in U : u # m => Precedes(u, m)
      BY <2>2, <2>4, LatestOne
    <3>2. PICK V : V = U \ {m}
      OBVIOUS
    <3>3. V \in SUBSET T /\ V # U /\ V \subseteq U
      BY <2>1, <3>1, <3>2
    <3>4. PICK p \in [1 .. Cardinality(V) -> V] : Sorted(p)
      BY <2>1, <3>3
    <3>5. IsFiniteSet(U) /\ IsFiniteSet(V) /\ Cardinality(V) = Cardinality(U) - 1
      BY <2>2, <3>2, FS_RemoveElement DEF Distinct
    <3>6. PICK n \in Nat : Cardinality(V) = n /\ Cardinality(U) = n + 1
      BY <3>5, FS_CardinalityType
    <3>7. PICK q : q = [i \in 1 .. n + 1 |-> IF i = n + 1 THEN m ELSE p[i]]
      OBVIOUS
    <3>8. \A i \in 1 .. n + 1 : i # n + 1 => i \in 1 .. n
      BY <3>6
    <3>9. q \in [1 .. Cardinality(U) -> U]
      BY <3>2, <3>3, <3>4, <3>6, <3>7, <3>8
    <3>10. ASSUME NEW i \in 1 .. n + 1, NEW j \in 1 .. n + 1, i < j PROVE Precedes(q[i], q[j])
      <4>1. i # n + 1 /\ i \in 1 .. n
        BY <3>6, <3>8, <3>10
      <4>2. q[i] = p[i] /\ p[i] \in V
        BY <3>4, <3>6, <3>7, <4>1
      <4>3. CASE j = n + 1
        BY <3>1, <3>2, <3>7, <4>2, <4>3
      <4>4. CASE j # n + 1
        BY <3>4, <3>6, <3>7, <3>8, <3>10, <4>1, <4>2, <4>4 DEF Sorted
      <4> QED
        BY <4>3, <4>4
    <3>11. Sorted(q)
      BY <3>6, <3>9, <3>10 DEF Sorted
    <3> QED
      BY <2>1, <3>9, <3>11
  <2> QED
    BY <2>3, <2>4
<1> QED
  BY <1>1

(* InOrder lists them all, in order.                                        *)
LEMMA InOrderLists ==
    ASSUME NEW T, Distinct(T)
    PROVE  /\ InOrder(T) \in [1 .. Cardinality(T) -> T]
           /\ {InOrder(T)[i] : i \in 1 .. Cardinality(T)} = T
<1>1. PICK q : q = InOrder(T)
  OBVIOUS
<1>2. q \in [1 .. Cardinality(T) -> T] /\ Sorted(q)
  BY <1>1, OrderExists DEF InOrder, Sorted
<1>3. PICK n \in Nat : n = Cardinality(T)
  BY FS_CardinalityType DEF Distinct
<1>4. IsFiniteSet(1 .. n) /\ Cardinality(1 .. n) = n
  BY FS_Interval
<1>5. \A i, j \in 1 .. n : i # j => q[i] # q[j]
  <2> SUFFICES ASSUME NEW i \in 1 .. n, NEW j \in 1 .. n, i < j PROVE q[i] # q[j]
    OBVIOUS
  <2> QED
    BY <1>2, <1>3, PrecedesOrders DEF Sorted
<1>6. q \in Injection(1 .. n, T)
  BY <1>2, <1>3, <1>5 DEF Injection, IsInjective
<1>7. q \in Surjection(1 .. n, T)
  BY <1>3, <1>4, <1>6, FS_Injection DEF Distinct
<1> QED
  BY <1>1, <1>2, <1>3, <1>7 DEF Surjection

-----------------------------------------------------------------------------
(* The shape of the states: what the type invariant leaves out.  Sets that  *)
(* are added up are finite, the journal's keys differ, and a reader that    *)
(* has not listed accounts has found nothing yet.                           *)
Reader(r) ==
    /\ pc[r] # "idle" => query[r] \in Queries
    /\ missed[r] # {} => pc[r] = "opening"
    /\ pc[r] = "opening" => query[r].start \in Int
    /\ pc[r] \in {"idle", "entity", "accounts"} =>
          pending[r] = {} /\ used[r] = {} /\ opening[r] = 0

ShapeInv ==
    /\ StatementTypeOK
    /\ Distinct(journal) /\ IsFiniteSet(snapshots)
    /\ \A r \in Readers : Reader(r)

LEMMA AccountsType ==
    ASSUME NEW A, A \subseteq Accounts
    PROVE  Assets(A) \subseteq A /\ Assets(A) \subseteq Assets(Accounts) /\ IsFiniteSet(Assets(A))
  BY StatementAssumption, FS_Subset DEF Assets

(* Nothing is stored, asked or answered at the start.                       *)
LEMMA ShapeInit == Init => ShapeInv
<1> SUFFICES ASSUME Init PROVE ShapeInv
  OBVIOUS
<1> USE DEF Init
<1>1. journal = {} /\ Distinct(journal) /\ IsFiniteSet(snapshots)
  BY FS_EmptySet DEF Ledger!Init, Distinct
<1>2. \A r \in Readers : Reader(r)
  BY DEF Reader
<1>3. StatementTypeOK
  BY <1>1, StatementAssumption DEF StatementTypeOK
<1> QED
  BY <1>1, <1>2, <1>3 DEF ShapeInv

(* What a reader computes of its state.                                     *)
LEMMA BalanceType ==
    ASSUME ShapeInv, NEW b \in Int PROVE Balance(b) \in Answers
<1>1. Reported(b) \in Int
  BY HalfEvenNear, GrainsType DEF Reported
<1>2. journal \in SUBSET Txns
  BY DEF ShapeInv, StatementTypeOK
<1> QED
  BY <1>1, <1>2 DEF Balance, Answers

(* The current balances of listed assets have an integer sum.               *)
LEMMA CurrentSum ==
    ASSUME ShapeInv, NEW A, A \subseteq Accounts
    PROVE  Summable(current, Assets(A)) /\ SumFunctionOnSet(current, Assets(A)) \in Int
<1>1. \A a \in Assets(A) : current[a] \in Int
  BY AccountsType DEF ShapeInv, StatementTypeOK
<1>2. Summable(current, Assets(A))
  BY <1>1, AccountsType DEF Summable
<1> QED
  BY <1>2, SumType

(* A part of the journal has positions that are integers.                   *)
LEMMA PartType ==
    ASSUME ShapeInv, NEW T, T \subseteq journal
    PROVE  Distinct(T) /\ T \subseteq Txns /\ \A A : Position(T, A) \in Int
<1>1. T \subseteq Txns /\ Distinct(T)
  BY FS_Subset DEF ShapeInv, StatementTypeOK, Distinct
<1> QED
  BY <1>1, PositionSums DEF Distinct

(* A statement has a line for each of its transactions, and what the lines  *)
(* carry is what Lines says.                                                *)
LEMMA LinesType ==
    ASSUME ShapeInv, NEW T, T \subseteq journal, NEW A, NEW start \in Int
    PROVE  /\ Lines(T, A, start) \in Seq(Line)
           /\ Len(Lines(T, A, start)) = Cardinality(T) /\ Cardinality(T) \in Nat
           /\ \A i \in 1 .. Cardinality(T) :
                 /\ Lines(T, A, start)[i].txn = InOrder(T)[i]
                 /\ Lines(T, A, start)[i].after =
                       start + Position({InOrder(T)[j] : j \in 1 .. i}, A)
<1>1. PICK n \in Nat : n = Cardinality(T)
  BY PartType, FS_CardinalityType DEF Distinct
<1>2. PICK q : q = InOrder(T)
  OBVIOUS
<1>3. q \in [1 .. n -> T]
  BY <1>1, <1>2, PartType, InOrderLists
<1> DEFINE at(i) == {q[j] : j \in 1 .. i}
           ls == [i \in 1 .. n |-> [txn |-> q[i], after |-> start + Position(at(i), A)]]
<1>4. Lines(T, A, start) = ls
  BY <1>2, <1>3 DEF Lines
<1>5. \A i \in 1 .. n : at(i) \subseteq journal
  BY <1>3
<1>6. \A i \in 1 .. n : Position(at(i), A) \in Int /\ q[i] \in Txns
  <2> HIDE DEF at
  <2> QED
    BY <1>3, <1>5, PartType
<1> HIDE DEF at
<1>7. \A i \in 1 .. n : [txn |-> q[i], after |-> start + Position(at(i), A)] \in Line
  BY <1>6 DEF Line
<1>8. ls \in [1 .. n -> Line]
  BY <1>7
<1>9. ls \in Seq(Line) /\ Len(ls) = n
  BY <1>8
<1> QED
  BY <1>1, <1>2, <1>4, <1>9 DEF at

-----------------------------------------------------------------------------
(* Every step keeps the shape.                                              *)
LEMMA BookShape == ASSUME ShapeInv, Book PROVE ShapeInv'
<1>1. PICK C \in Commits :
        /\ journal' = journal \cup {StoredTxn(t) : t \in C}
        /\ current' = [a \in DOMAIN current |-> BalanceAfter(current[a], Position(C, {a}))]
  BY DEF Book
<1>2. Ledger!Book /\ UNCHANGED <<accounts, snapshots, reading>>
  BY DEF Book
<1>3. journal' \subseteq Txns /\ Distinct(journal')
  <2>1. journal' \subseteq Txns
    BY <1>1, CommitType DEF ShapeInv, StatementTypeOK
  <2>2. IsFiniteSet(journal')
    <3>1. IsFiniteSet({StoredTxn(t) : t \in C})
      <4>1. PICK b : b = [t \in C |-> StoredTxn(t)]
        OBVIOUS
      <4>2. {StoredTxn(t) : t \in C} = {b[t] : t \in C}
        BY <4>1
      <4>3. IsFiniteSet({b[t] : t \in C})
        BY FiniteImage, CommitType
      <4> QED
        BY <4>2, <4>3
    <3> QED
      BY <1>1, <3>1, FS_Union DEF ShapeInv, Distinct
  <2>3. \A t, u \in journal' : t.key = u.key => t = u
    BY <1>2 DEF Ledger!Book, ShapeInv, Distinct
  <2> QED
    BY <2>1, <2>2, <2>3, TxnsType DEF Distinct
<1>4. current' \in [Assets(Accounts) -> Int]
  <2>1. current \in [Assets(Accounts) -> Int]
    BY DEF ShapeInv, StatementTypeOK
  <2>2. \A a \in Assets(Accounts) : Position(C, {a}) \in Int
    BY CommitType, PositionSums
  <2>3. \A x, d \in Int : BalanceAfter(x, d) \in Int
    BY HalfUpNear, GrainsType DEF BalanceAfter
  <2> QED
    BY <1>1, <2>1, <2>2, <2>3
<1>5. journal \subseteq journal'
  BY <1>1
<1>6. StatementTypeOK'
  BY <1>2, <1>3, <1>4, <1>5 DEF ShapeInv, StatementTypeOK, reading
<1>7. \A r \in Readers : Reader(r)'
  BY <1>2 DEF ShapeInv, Reader, reading
<1> QED
  BY <1>2, <1>3, <1>6, <1>7 DEF ShapeInv

(* An account or a snapshot added disturbs no reader.                       *)
LEMMA StoreShape == ASSUME ShapeInv, OpenAccount \/ TakeSnapshot PROVE ShapeInv'
<1>1. CASE OpenAccount
  <2>1. accounts \subseteq accounts' /\ accounts' \subseteq Accounts
    BY <1>1 DEF OpenAccount, ShapeInv, StatementTypeOK
  <2>2. StatementTypeOK'
    BY <1>1, <2>1 DEF OpenAccount, ShapeInv, StatementTypeOK, Assets, reading
  <2> QED
    BY <1>1, <2>2 DEF OpenAccount, ShapeInv, Reader, reading
<1>2. CASE TakeSnapshot
  <2>1. PICK d \in NightlyDates, a \in Assets(accounts) :
          snapshots' = snapshots \cup
             {[account |-> a, date |-> d,
               balance |-> RoundHalfUp(Position(Until(journal, d), {a}), BalanceGrain)]}
    BY <1>2 DEF TakeSnapshot
  <2>2. Position(Until(journal, d), {a}) \in Int
    BY PartType DEF Until
  <2>3. RoundHalfUp(Position(Until(journal, d), {a}), BalanceGrain) \in Int
    BY <2>2, HalfUpNear, GrainsType
  <2>4. IsFiniteSet(snapshots')
    BY <2>1, FS_AddElement DEF ShapeInv
  <2>5. \A s \in snapshots' : s.account \in Assets(accounts) /\ s.date \in NightlyDates /\ s.balance \in Int
    BY <2>1, <2>3 DEF ShapeInv, StatementTypeOK
  <2>6. StatementTypeOK'
    BY <1>2, <2>1, <2>5 DEF TakeSnapshot, ShapeInv, StatementTypeOK, reading, Assets
  <2> QED
    BY <1>2, <2>4, <2>6 DEF TakeSnapshot, ShapeInv, Reader, reading
<1> QED
  BY <1>1, <1>2

(* A step of one reader leaves the store and the other readers alone.       *)
Alone(r) ==
    /\ UNCHANGED store
    /\ \A q \in Readers \ {r} :
          /\ pc'[q] = pc[q] /\ query'[q] = query[q] /\ listed'[q] = listed[q]
          /\ pending'[q] = pending[q] /\ missed'[q] = missed[q] /\ opening'[q] = opening[q]
          /\ used'[q] = used[q] /\ answer'[q] = answer[q] /\ since'[q] = since[q]

(* Enough for such a step to keep the shape: what becomes of the reader.    *)
Fits(r) ==
    /\ pc' \in [Readers -> {"idle", "entity", "accounts", "opening", "answered"}]
    /\ query' \in [Readers -> Queries \cup {None}] /\ opening' \in [Readers -> Int]
    /\ listed' \in [Readers -> SUBSET accounts] /\ pending' \in [Readers -> SUBSET accounts]
    /\ missed' \in [Readers -> SUBSET accounts] /\ used' \in [Readers -> SUBSET snapshots]
    /\ since' \in [Readers -> SUBSET journal] /\ answer' \in [Readers -> Answers \cup {None}]
    /\ missed'[r] \subseteq pending'[r] /\ pending'[r] \subseteq Assets(listed'[r])
    /\ pc'[r] = "answered" <=> answer'[r] \in Answers
    /\ Reader(r)'

LEMMA FitsShape ==
    ASSUME ShapeInv, NEW r \in Readers, Alone(r), Fits(r) PROVE ShapeInv'
<1>1. UNCHANGED <<journal, accounts, current, snapshots>>
  BY DEF Alone, store
<1>2. ASSUME NEW q \in Readers
      PROVE  /\ missed'[q] \subseteq pending'[q] /\ pending'[q] \subseteq Assets(listed'[q])
             /\ pc'[q] = "answered" <=> answer'[q] \in Answers
             /\ Reader(q)'
  <2>1. CASE q = r
    BY <2>1 DEF Fits
  <2>2. CASE q # r
    BY <2>2 DEF Alone, ShapeInv, StatementTypeOK, Reader
  <2> QED
    BY <2>1, <2>2
<1>3. StatementTypeOK'
  BY <1>1, <1>2 DEF Fits, ShapeInv, StatementTypeOK, Assets
<1> QED
  BY <1>1, <1>2, <1>3 DEF ShapeInv, Distinct

(* A request starts a reader that has read nothing.                         *)
LEMMA AskShape == ASSUME ShapeInv, NEW r \in Readers, Ask(r) PROVE Alone(r) /\ Fits(r)
<1> USE DEF ShapeInv, StatementTypeOK
<1>1. PICK q \in Queries :
        /\ query' = [query EXCEPT ![r] = q]
        /\ IF q.kind = "balance" /\ q.start # None /\ q.start > Today
           THEN Refuse(r, "422")
           ELSE pc' = [pc EXCEPT ![r] = "entity"] /\ UNCHANGED answer
  BY DEF Ask
<1>2. /\ since' = [since EXCEPT ![r] = journal] /\ pc[r] = "idle"
      /\ UNCHANGED <<store, listed, pending, missed, opening, used>>
  BY DEF Ask
<1>3. [code |-> "422"] \in Answers
  BY DEF Answers
<1>4. Alone(r)
  BY <1>1, <1>2 DEF Alone, Refuse, Answer
<1>5. answer[r] \notin Answers /\ missed[r] = {} /\ Reader(r)
  BY <1>2 DEF Reader
<1>6. ASSUME Refuse(r, "422") PROVE Fits(r)
  BY <1>1, <1>2, <1>3, <1>5, <1>6 DEF Fits, Reader, Refuse, Answer
<1>7. ASSUME pc' = [pc EXCEPT ![r] = "entity"], UNCHANGED answer PROVE Fits(r)
  BY <1>1, <1>2, <1>5, <1>7 DEF Fits, Reader
<1> QED
  BY <1>1, <1>4, <1>6, <1>7

(* An unknown entity is answered 404.                                       *)
LEMMA RequireEntityShape ==
    ASSUME ShapeInv, NEW r \in Readers, RequireEntity(r) PROVE Alone(r) /\ Fits(r)
<1> USE DEF ShapeInv, StatementTypeOK
<1>1. [code |-> "404"] \in Answers
  BY DEF Answers
<1>2. answer[r] \notin Answers /\ missed[r] = {} /\ Reader(r)
  BY DEF RequireEntity, Reader
<1>3. CASE pc' = [pc EXCEPT ![r] = "accounts"] /\ UNCHANGED answer
  BY <1>2, <1>3 DEF RequireEntity, Alone, Fits, Reader
<1>4. CASE Refuse(r, "404")
  BY <1>1, <1>2, <1>4 DEF RequireEntity, Alone, Fits, Reader, Refuse, Answer
<1> QED
  BY <1>3, <1>4 DEF RequireEntity

(* The accounts listed exist, and only assets are left to ask for.          *)
LEMMA ReadAccountsShape ==
    ASSUME ShapeInv, NEW r \in Readers, ReadAccounts(r) PROVE Alone(r) /\ Fits(r)
<1>1. PICK A : A = {a \in accounts : a[1] = query[r].entity}
  OBVIOUS
<1>2. /\ listed' = [listed EXCEPT ![r] = A] /\ pending' = [pending EXCEPT ![r] = Assets(A)]
      /\ IF query[r].start = None
         THEN Answer(r, Balance(SumFunctionOnSet(current, Assets(A))))
         ELSE pc' = [pc EXCEPT ![r] = "opening"] /\ UNCHANGED answer
      /\ pc[r] = "accounts" /\ UNCHANGED <<store, query, missed, opening, used, since>>
  BY <1>1 DEF ReadAccounts
<1>3. A \subseteq accounts /\ Assets(A) \subseteq accounts /\ A \subseteq Accounts
  BY <1>1 DEF Assets, ShapeInv, StatementTypeOK
<1>4. Balance(SumFunctionOnSet(current, Assets(A))) \in Answers
  BY <1>3, CurrentSum, BalanceType
<1>5. query[r].start # None => query[r].start \in Int
  BY <1>2, StatementAssumption DEF ShapeInv, Reader
<1>6. answer[r] \notin Answers /\ missed[r] = {} /\ Reader(r) /\ query[r] \in Queries
  BY <1>2 DEF Reader, ShapeInv, StatementTypeOK
<1> USE DEF ShapeInv, StatementTypeOK
<1>7. CASE query[r].start = None
  BY <1>2, <1>3, <1>4, <1>6, <1>7 DEF Alone, Fits, Reader, Answer
<1>8. CASE query[r].start # None
  BY <1>2, <1>3, <1>5, <1>6, <1>8 DEF Alone, Fits, Reader
<1> QED
  BY <1>7, <1>8

(* A snapshot, none, or the entries before the start: what ReadSnapshot,    *)
(* MissSnapshot and ReadEntriesBefore do to the opening of a reader.        *)
LEMMA OpeningShape ==
    ASSUME ShapeInv, NEW r \in Readers,
           ReadEntriesBefore(r) \/ \E a \in Accounts : ReadSnapshot(r, a) \/ MissSnapshot(r, a)
    PROVE  Alone(r) /\ Fits(r)
<1>1. pc[r] = "opening" /\ Reader(r) /\ answer[r] \notin Answers
  BY DEF ShapeInv, Reader, ReadEntriesBefore, ReadSnapshot, MissSnapshot, StatementTypeOK
<1>2. ASSUME NEW a \in Accounts, ReadSnapshot(r, a) PROVE Alone(r) /\ Fits(r)
  <2>1. PICK s \in LatestBefore(a, query[r].start) :
          /\ opening' = [opening EXCEPT ![r] = @ + s.balance]
          /\ used' = [used EXCEPT ![r] = @ \cup {s}]
    BY <1>2 DEF ReadSnapshot
  <2>2. s \in snapshots /\ s.balance \in Int
    BY DEF LatestBefore, ShapeInv, StatementTypeOK
  <2> QED
    BY <1>1, <1>2, <2>1, <2>2 DEF ReadSnapshot, Alone, Fits, Reader, ShapeInv, StatementTypeOK
<1>3. ASSUME NEW a \in Accounts, MissSnapshot(r, a) PROVE Alone(r) /\ Fits(r)
  BY <1>1, <1>3 DEF MissSnapshot, Alone, Fits, Reader, ShapeInv, StatementTypeOK
<1>4. ASSUME ReadEntriesBefore(r) PROVE Alone(r) /\ Fits(r)
  <2>1. Position(Before(journal, query[r].start), missed[r]) \in Int
    BY PartType DEF Before
  <2> QED
    BY <1>1, <1>4, <2>1 DEF ReadEntriesBefore, Alone, Fits, Reader, ShapeInv, StatementTypeOK
<1> QED
  BY <1>2, <1>3, <1>4

(* The rows of a statement, and what is made of them.                       *)
Rows(r) ==
    LET found == InPeriod(journal, query[r].start, query[r].end)
    IN  {t \in found : \E i \in DOMAIN t.entries : t.entries[i].account \in listed[r]}
StatementOf(r) ==
    LET lines == Lines(Rows(r), listed[r], opening[r])
    IN  [code |-> "200", upto |-> journal, opening |-> opening[r], lines |-> lines,
         in |-> TotalIn(Rows(r), listed[r]), out |-> TotalOut(Rows(r), listed[r]),
         closing |-> IF lines = <<>> THEN opening[r] ELSE lines[Len(lines)].after]

LEMMA RowsPart == \A r : Rows(r) \subseteq journal
  BY DEF Rows, InPeriod

(* A statement has the type of an answer.                                   *)
LEMMA StatementType ==
    ASSUME ShapeInv, NEW r \in Readers PROVE StatementOf(r) \in Answers
<1>1. PICK T : T = Rows(r)
  OBVIOUS
<1>2. PICK ls : ls = Lines(T, listed[r], opening[r])
  OBVIOUS
<1>3. opening[r] \in Int /\ journal \in SUBSET Txns
  BY DEF ShapeInv, StatementTypeOK
<1>4. ls \in Seq(Line)
  BY <1>1, <1>2, <1>3, RowsPart, LinesType
<1>5. ls # <<>> => ls[Len(ls)].after \in Int
  <2>1. ls # <<>> => Len(ls) \in Nat \ {0}
    BY <1>4, EmptySeq
  <2>2. ls # <<>> => ls[Len(ls)] \in Line
    BY <1>4, <2>1
  <2> QED
    BY <2>2 DEF Line
<1>6. TotalIn(T, listed[r]) \in Int /\ TotalOut(T, listed[r]) \in Int
  <2>1. \A U : U \subseteq T => Position(U, listed[r]) \in Int
    BY <1>1, RowsPart, PartType
  <2> QED
    BY <2>1 DEF TotalIn, TotalOut
<1> QED
  BY <1>1, <1>2, <1>3, <1>4, <1>5, <1>6 DEF StatementOf, Answers

(* Both ways to answer leave the reader answered.                           *)
LEMMA AnswerShape ==
    ASSUME ShapeInv, NEW r \in Readers, AnswerBalance(r) \/ ReadRows(r)
    PROVE  Alone(r) /\ Fits(r)
<1>1. ReadRows(r) => Answer(r, StatementOf(r))
  BY DEF ReadRows, StatementOf, Rows
<1>2. AnswerBalance(r) => Answer(r, Balance(opening[r]))
  BY DEF AnswerBalance
<1>3. Balance(opening[r]) \in Answers /\ StatementOf(r) \in Answers
  BY BalanceType, StatementType DEF ShapeInv, StatementTypeOK
<1>4. PICK a \in Answers : Answer(r, a)
  BY <1>1, <1>2, <1>3
<1>5. /\ pc[r] = "opening" /\ missed[r] = {} /\ Reader(r)
      /\ UNCHANGED <<store, query, listed, pending, missed, opening, used, since>>
  BY DEF AnswerBalance, ReadRows, ShapeInv, StatementTypeOK
<1> QED
  BY <1>4, <1>5 DEF Answer, Alone, Fits, Reader, ShapeInv, StatementTypeOK

(* Every step of a reader changes only what is its own, and fits.           *)
LEMMA ReaderShape ==
    ASSUME ShapeInv, NEW r \in Readers, Ask(r) \/ Read(r) PROVE Alone(r) /\ Fits(r)
  BY AskShape, RequireEntityShape, ReadAccountsShape, OpeningShape, AnswerShape DEF Read

(* Every step keeps the types.                                              *)
LEMMA ShapeStep == ShapeInv /\ [Next]_vars => ShapeInv'
<1> SUFFICES ASSUME ShapeInv, [Next]_vars PROVE ShapeInv'
  OBVIOUS
<1>1. ASSUME UNCHANGED vars PROVE ShapeInv'
  <2>1. /\ UNCHANGED <<journal, accounts, current, snapshots>>
        /\ UNCHANGED <<pc, query, listed, pending, missed, opening, used, answer, since>>
    BY <1>1 DEF vars, store, reading
  <2>2. StatementTypeOK'
    BY <2>1 DEF ShapeInv, StatementTypeOK, Assets
  <2> QED
    BY <2>1, <2>2 DEF ShapeInv, Distinct, Reader
<1>2. ASSUME NEW r \in Readers, Ask(r) \/ Read(r) PROVE ShapeInv'
  BY <1>2, ReaderShape, FitsShape
<1> QED
  BY <1>1, <1>2, BookShape, StoreShape DEF Next, Quiet

(* Every state of Statement has its shape.                                  *)
LEMMA Shape == Spec => []ShapeInv
  BY ShapeInit, ShapeStep, PTL DEF Spec

(* Whatever commits while a statement is put together, the journal holds    *)
(* stored transactions, every reader has found accounts that exist and      *)
(* snapshots that were written, and what it answers is an answer.           *)
THEOREM StatementTypeCorrect == Spec => []StatementTypeOK
  BY Shape, PTL DEF ShapeInv

-----------------------------------------------------------------------------
(* What is stored of an amount is within half a digit of its column.        *)
LEMMA StoredNear ==
    ASSUME NEW x \in Int PROVE Stored(x) \in Int /\ 2 * Abs(x - Stored(x)) <= EntryGrain
  BY HalfUpNear, GrainsType DEF Stored

(* One side of a transaction, as sent and as stored.                        *)
Side(t, type) == {i \in DOMAIN t.entries : t.entries[i].type = type}

LEMMA SideNear ==
    ASSUME NEW t \in Txn, NEW type
    PROVE  /\ SideOf(t, type) \in Int /\ SideOf(StoredTxn(t), type) \in Int
           /\ 2 * Abs(SideOf(t, type) - SideOf(StoredTxn(t), type))
                 <= Cardinality(Side(t, type)) * EntryGrain
<1>1. PICK u : u = StoredTxn(t)
  OBVIOUS
<1>2. PICK I : I = Side(t, type)
  OBVIOUS
<1>3. IsFiniteSet(I) /\ I \subseteq DOMAIN t.entries
  BY <1>2, EntriesType, FS_Subset DEF Side
<1>4. \A i \in DOMAIN t.entries :
         u.entries[i].type = t.entries[i].type /\ u.entries[i].amount = Stored(t.entries[i].amount)
  <2> SUFFICES ASSUME NEW i \in DOMAIN t.entries
               PROVE  /\ u.entries[i].type = t.entries[i].type
                      /\ u.entries[i].amount = Stored(t.entries[i].amount)
    OBVIOUS
  <2>1. PICK e \in Entry : e = t.entries[i]
    BY EntriesType
  <2>2. u.entries[i] = [e EXCEPT !.amount = Stored(e.amount)]
    BY <1>1, <2>1, StoredTxnType
  <2> QED
    BY <2>1, <2>2 DEF Entry
<1>5. I = {i \in DOMAIN u.entries : u.entries[i].type = type}
  BY <1>1, <1>2, <1>4, StoredTxnType DEF Side
<1>6. PICK f, g : /\ f = [i \in I |-> t.entries[i].amount]
                  /\ g = [i \in I |-> u.entries[i].amount]
  OBVIOUS
<1>7. SideOf(t, type) = SumFunctionOnSet(f, I) /\ SideOf(u, type) = SumFunctionOnSet(g, I)
  BY <1>2, <1>5, <1>6 DEF SideOf, Side
<1>8. \A i \in I : /\ f[i] \in Int /\ g[i] \in Int
                   /\ 2 * Abs(f[i] - g[i]) <= EntryGrain
  <2> SUFFICES ASSUME NEW i \in I
               PROVE  f[i] \in Int /\ g[i] \in Int /\ 2 * Abs(f[i] - g[i]) <= EntryGrain
    OBVIOUS
  <2>1. f[i] \in Int /\ g[i] = Stored(f[i])
    BY <1>3, <1>4, <1>6, EntriesType
  <2> QED
    BY <2>1, StoredNear
<1>9. Summable(f, I) /\ Summable(g, I)
  BY <1>3, <1>8 DEF Summable
<1> QED
  BY <1>1, <1>2, <1>7, <1>8, <1>9, SumType, SumApart, GrainsType

(* The debits of every stored transaction are within half a digit per entry *)
(* of its credits, which were equal when post validated them.               *)
THEOREM StoredSidesBalance == Spec => []StoredEntriesBalance
<1>1. ASSUME ShapeInv, NEW t \in journal
      PROVE  2 * Abs(SideOf(t, "DEBIT") - SideOf(t, "CREDIT")) <= Len(t.entries) * EntryGrain
  <2>1. PICK C \in Commits : \E u \in C : t = StoredTxn(u)
    BY <1>1 DEF ShapeInv, StatementTypeOK, Txns
  <2>11. PICK u \in C : t = StoredTxn(u)
    BY <2>1
  <2>2. u \in Txn /\ SideOf(u, "DEBIT") = SideOf(u, "CREDIT")
    BY CommitType
  <2>3. PICK D, E : D = Side(u, "DEBIT") /\ E = Side(u, "CREDIT")
    OBVIOUS
  <2>4. IsFiniteSet(D) /\ IsFiniteSet(E) /\ Cardinality(D) + Cardinality(E) = Len(t.entries)
    <3>1. /\ D \cup E = DOMAIN u.entries /\ D \cap E = {}
          /\ IsFiniteSet(D) /\ IsFiniteSet(E)
      BY <2>2, <2>3, EntriesType, FS_Subset DEF Side
    <3>2. Cardinality(D \cup E) = Cardinality(D) + Cardinality(E)
      <4>1. Cardinality(D \cap E) = 0
        BY <3>1, FS_EmptySet
      <4>2. Cardinality(D) \in Nat /\ Cardinality(E) \in Nat
        BY <3>1, FS_CardinalityType
      <4>3. Cardinality(D \cup E) = Cardinality(D) + Cardinality(E) - Cardinality(D \cap E)
        BY <3>1, FS_Union
      <4> QED
        BY <4>1, <4>2, <4>3
    <3> QED
      BY <2>11, <2>2, <3>1, <3>2, EntriesType, StoredTxnType
  <2>5. PICK d, e \in Nat : d = Cardinality(D) /\ e = Cardinality(E)
    BY <2>4, FS_CardinalityType
  <2>6. PICK v, w \in Nat : v = d * EntryGrain /\ w = e * EntryGrain
    BY GrainsType
  <2>7. Len(t.entries) * EntryGrain = v + w
    <3>1. Len(t.entries) = d + e
      BY <2>4, <2>5
    <3>2. \A g \in Nat : (d + e) * g = d * g + e * g
      OBVIOUS
    <3> QED
      BY <2>6, <3>1, <3>2, GrainsType
  <2>8. PICK x, y, z \in Int : /\ x = SideOf(u, "DEBIT")
                              /\ y = SideOf(t, "DEBIT") /\ z = SideOf(t, "CREDIT")
    BY <2>11, <2>2, SideNear
  <2>9. 2 * Abs(x - y) <= v /\ 2 * Abs(x - z) <= w
    BY <2>11, <2>2, <2>3, <2>5, <2>6, <2>8, SideNear
  <2>10. 2 * Abs(y - z) <= v + w
    BY <2>9 DEF Abs
  <2> QED
    BY <2>7, <2>8, <2>10
<1>2. ShapeInv => StoredEntriesBalance
  BY <1>1 DEF StoredEntriesBalance
<1> QED
  BY <1>2, Shape, PTL

-----------------------------------------------------------------------------
(* A statement.  What comes in and goes out adds up to what it moves.       *)
LEMMA InAndOut ==
    ASSUME NEW T, Distinct(T), NEW A
    PROVE  /\ TotalIn(T, A) \in Int /\ TotalIn(T, A) >= 0
           /\ TotalOut(T, A) \in Int /\ TotalOut(T, A) >= 0
           /\ TotalIn(T, A) - TotalOut(T, A) = Position(T, A)
<1>1. PICK g : g = [t \in T |-> Movement(t, A)]
  OBVIOUS
<1>2. Summable(g, T)
  BY <1>1, PlacesSum DEF Distinct, Summable
<1>3. PICK I, O, Z : /\ I = {t \in T : Movement(t, A) > 0}
                     /\ O = {t \in T : Movement(t, A) < 0}
                     /\ Z = T \ (I \cup O)
  OBVIOUS
<1>4. ASSUME NEW U, U \subseteq T
      PROVE  Summable(g, U) /\ Position(U, A) = SumFunctionOnSet(g, U)
             /\ SumFunctionOnSet(g, U) \in Int
  <2>1. PICK h : h = [t \in U |-> Movement(t, A)]
    OBVIOUS
  <2>2. Summable(g, U) /\ Summable(h, U) /\ \A t \in U : h[t] = g[t]
    BY <1>1, <1>2, <1>4, <2>1, SummablePart DEF Summable
  <2>3. SumFunctionOnSet(h, U) = SumFunctionOnSet(g, U)
    BY <2>2, SumSame
  <2> QED
    BY <2>1, <2>2, <2>3, SumType DEF Position
<1>5. PICK p, q, z \in Int : /\ p = SumFunctionOnSet(g, I) /\ q = SumFunctionOnSet(g, O)
                            /\ z = SumFunctionOnSet(g, Z)
  BY <1>3, <1>4
<1>6. Position(T, A) = p + q + z
  <2>1. /\ T = (I \cup O) \cup Z /\ (I \cup O) \cap Z = {}
        /\ I \cap O = {} /\ I \cup O \subseteq T
    <3>1. \A t \in T : ~(Movement(t, A) > 0 /\ Movement(t, A) < 0)
      BY PlacesSum DEF Distinct
    <3> QED
      BY <1>3, <3>1
  <2>2. SumFunctionOnSet(g, I \cup O) = p + q
    BY <1>4, <1>5, <2>1, SumUnion
  <2>3. SumFunctionOnSet(g, T) = SumFunctionOnSet(g, I \cup O) + z
    BY <1>2, <1>5, <2>1, SumUnion
  <2> QED
    BY <1>4, <2>2, <2>3
<1>7. z = 0
  <2>1. \A t \in Z : g[t] = 0
    BY <1>1, <1>3, PlacesSum DEF Distinct
  <2> QED
    BY <1>3, <1>4, <1>5, <2>1, SumZero DEF Summable
<1>8. p >= 0
  <2>1. \A t \in I : g[t] >= 0
    BY <1>1, <1>3, PlacesSum DEF Distinct
  <2> QED
    BY <1>3, <1>4, <1>5, <2>1, SumNat
<1>9. -q >= 0
  <2>1. PICK m : m = [t \in O |-> -g[t]]
    OBVIOUS
  <2>2. \A t \in O : g[t] \in Int /\ g[t] < 0
    BY <1>1, <1>3, PlacesSum DEF Distinct
  <2>3. Summable(g, O)
    BY <1>3, <1>4
  <2>4. Summable(m, O) /\ \A t \in O : m[t] = -g[t] /\ m[t] >= 0
    BY <2>1, <2>2, <2>3 DEF Summable
  <2>5. SumFunctionOnSet(m, O) = -q
    BY <1>5, <2>3, <2>4, SumNegated
  <2>6. SumFunctionOnSet(m, O) >= 0
    BY <2>4, SumNat
  <2> QED
    BY <2>5, <2>6
<1>10. TotalIn(T, A) = p /\ TotalOut(T, A) = -q
  BY <1>3, <1>4, <1>5 DEF TotalIn, TotalOut
<1> QED
  BY <1>6, <1>7, <1>8, <1>9, <1>10

(* Once answered, nothing of a reader's request changes.                    *)
LEMMA AnsweredStays ==
    ASSUME ShapeInv, [Next]_vars, NEW r \in Readers
    PROVE  \/ pc'[r] # "answered"
           \/ pc[r] # "answered" /\ (Ask(r) \/ Read(r))
           \/ /\ pc[r] = "answered" /\ answer'[r] = answer[r] /\ query'[r] = query[r]
              /\ listed'[r] = listed[r] /\ opening'[r] = opening[r]
              /\ used'[r] = used[r] /\ since'[r] = since[r]
<1>1. ASSUME UNCHANGED reading PROVE pc'[r] = pc[r] /\ answer'[r] = answer[r] /\ query'[r] = query[r]
              /\ listed'[r] = listed[r] /\ opening'[r] = opening[r]
              /\ used'[r] = used[r] /\ since'[r] = since[r]
  BY <1>1 DEF reading
<1>2. Book \/ OpenAccount \/ TakeSnapshot \/ UNCHANGED vars => UNCHANGED reading
  BY DEF Book, OpenAccount, TakeSnapshot, vars, reading
<1>3. ASSUME NEW q \in Readers, q # r, Ask(q) \/ Read(q)
      PROVE  /\ pc'[r] = pc[r] /\ answer'[r] = answer[r] /\ query'[r] = query[r]
             /\ listed'[r] = listed[r] /\ opening'[r] = opening[r]
             /\ used'[r] = used[r] /\ since'[r] = since[r]
  BY <1>3, ReaderShape DEF Alone
<1>4. Ask(r) \/ Read(r) => pc[r] # "answered"
  BY DEF Ask, Read, RequireEntity, ReadAccounts, ReadSnapshot, MissSnapshot, ReadEntriesBefore,
         AnswerBalance, ReadRows, ShapeInv, Reader
<1> QED
  BY <1>1, <1>2, <1>3, <1>4 DEF Next, Quiet

(* The steps that give an answer with code 200.                             *)
LEMMA WaysToAnswer ==
    ASSUME ShapeInv, NEW r \in Readers, Ask(r) \/ Read(r), Answered(r)'
    PROVE  \/ /\ ReadRows(r) /\ answer'[r] = StatementOf(r)
              /\ query[r].kind = "statement" /\ query[r].start \in Int /\ query[r].end \in Int
           \/ /\ AnswerBalance(r) /\ answer'[r] = Balance(opening[r])
              /\ query[r].kind = "balance" /\ query[r].start \in Int
           \/ /\ ReadAccounts(r) /\ query[r].start = None /\ query[r].kind = "balance"
              /\ answer'[r] = Balance(SumFunctionOnSet(current, Assets(listed'[r])))
<1> USE DEF ShapeInv, StatementTypeOK
<1>1. pc'[r] = "answered" /\ answer'[r].code = "200"
  BY DEF Answered
<1>2. ASSUME NEW code, Refuse(r, code), code # "200" PROVE FALSE
  BY <1>1, <1>2 DEF Refuse, Answer
<1>3. ~Ask(r) /\ ~RequireEntity(r)
  BY <1>1, <1>2 DEF Ask, RequireEntity
<1>4. ~ReadEntriesBefore(r) /\ \A a \in Accounts : ~ReadSnapshot(r, a) /\ ~MissSnapshot(r, a)
  BY <1>1 DEF ReadEntriesBefore, ReadSnapshot, MissSnapshot, Reader
<1>5. Reader(r)
  OBVIOUS
<1>6. ASSUME ReadRows(r)
      PROVE  /\ answer'[r] = StatementOf(r)
             /\ query[r].kind = "statement" /\ query[r].start \in Int /\ query[r].end \in Int
  <2>1. Answer(r, StatementOf(r)) /\ pc[r] = "opening" /\ query[r].kind = "statement"
    BY <1>6 DEF ReadRows, StatementOf, Rows
  <2> QED
    BY <1>5, <2>1, StatementAssumption DEF Answer, Reader
<1>7. ASSUME AnswerBalance(r)
      PROVE  /\ answer'[r] = Balance(opening[r])
             /\ query[r].kind = "balance" /\ query[r].start \in Int
  BY <1>5, <1>7 DEF AnswerBalance, Answer, Reader
<1>8. ASSUME ReadAccounts(r)
      PROVE  /\ query[r].start = None /\ query[r].kind = "balance"
             /\ answer'[r] = Balance(SumFunctionOnSet(current, Assets(listed'[r])))
  <2>1. pc[r] = "accounts" /\ query[r].start = None
    BY <1>1, <1>8 DEF ReadAccounts
  <2>2. query[r] \in Queries /\ (query[r].kind = "statement" => query[r].start \in Int)
        /\ query[r].kind \in {"statement", "balance"} /\ None \notin Int
    BY <1>5, <2>1, StatementAssumption DEF Reader
  <2> QED
    BY <1>8, <2>1, <2>2 DEF ReadAccounts, Answer
<1> QED
  BY <1>3, <1>4, <1>6, <1>7, <1>8 DEF Read

(* The figures of a statement over the accounts A.                          *)
Consistent(a, A) ==
    /\ a.opening + a.in - a.out = a.closing
    /\ a.in >= 0 /\ a.out >= 0
    /\ \A i \in DOMAIN a.lines :
          a.lines[i].after = a.opening + Position({a.lines[j].txn : j \in 1..i}, A)

(* What a statement is when it is put together.                             *)
LEMMA StatementFigures ==
    ASSUME ShapeInv, NEW r \in Readers, NEW a, a = StatementOf(r)
    PROVE  /\ a.opening = opening[r] /\ a.upto = journal
           /\ a.closing = opening[r] + Position(Rows(r), listed[r])
           /\ Consistent(a, listed[r])
<1>1. PICK T, A, o : T = Rows(r) /\ A = listed[r] /\ o = opening[r]
  OBVIOUS
<1>2. T \subseteq journal /\ o \in Int /\ Distinct(T) /\ Position(T, A) \in Int
  BY <1>1, RowsPart, PartType DEF ShapeInv, StatementTypeOK
<1>3. PICK ls : ls = Lines(T, A, o)
  OBVIOUS
<1>4. PICK n \in Nat : n = Cardinality(T)
  BY <1>2, LinesType
<1>5. /\ ls \in Seq(Line) /\ Len(ls) = n
      /\ \A i \in 1 .. n : /\ ls[i].txn = InOrder(T)[i]
                           /\ ls[i].after = o + Position({InOrder(T)[j] : j \in 1 .. i}, A)
  <2>1. /\ Lines(T, A, o) \in Seq(Line) /\ Len(Lines(T, A, o)) = Cardinality(T)
        /\ \A i \in 1 .. Cardinality(T) :
              /\ Lines(T, A, o)[i].txn = InOrder(T)[i]
              /\ Lines(T, A, o)[i].after = o + Position({InOrder(T)[j] : j \in 1 .. i}, A)
    BY <1>2, LinesType
  <2> QED
    BY <1>3, <1>4, <2>1
<1>6. /\ a.opening = o /\ a.upto = journal /\ a.lines = ls
      /\ a.in = TotalIn(T, A) /\ a.out = TotalOut(T, A)
      /\ a.closing = IF ls = <<>> THEN o ELSE ls[Len(ls)].after
  BY <1>1, <1>3 DEF StatementOf
<1>7. a.closing = o + Position(T, A)
  <2>1. CASE ls = <<>>
    <3>1. n = 0
      BY <1>5, <2>1
    <3>2. T = {}
      BY <1>2, <1>4, <3>1, FS_EmptySet DEF Distinct
    <3>3. Position(T, A) = 0
      BY <3>2, SumEmpty DEF Position
    <3> QED
      BY <1>2, <1>6, <2>1, <3>3
  <2>2. CASE ls # <<>>
    <3>1. n \in 1 .. n
      BY <1>5, <2>2, EmptySeq
    <3>2. {InOrder(T)[j] : j \in 1 .. n} = T
      BY <1>2, <1>4, InOrderLists
    <3> QED
      BY <1>5, <1>6, <2>2, <3>1, <3>2
  <2> QED
    BY <2>1, <2>2
<1>8. ASSUME NEW i \in DOMAIN ls
      PROVE  ls[i].after = o + Position({ls[j].txn : j \in 1..i}, A)
  <2>1. i \in 1 .. n
    BY <1>5
  <2>2. \A j \in 1 .. i : ls[j].txn = InOrder(T)[j]
    <3>1. \A j \in 1 .. i : j \in 1 .. n
      BY <2>1
    <3> QED
      BY <1>5, <3>1
  <2>3. {ls[j].txn : j \in 1..i} = {InOrder(T)[j] : j \in 1 .. i}
    BY <2>2
  <2> QED
    BY <1>5, <2>1, <2>3
<1>9. a.in >= 0 /\ a.out >= 0 /\ a.opening + a.in - a.out = a.closing
  BY <1>2, <1>6, <1>7, InAndOut
<1> QED
  BY <1>1, <1>6, <1>7, <1>8, <1>9 DEF Consistent

(* The lines and totals of a statement add up to its closing balance,       *)
(* whatever was committed between the reads it is put together from.        *)
THEOREM StatementSums == Spec => []StatementAddsUp
<1>1. Init => StatementAddsUp
  BY DEF Init, StatementAddsUp, AnsweredStatement, Answered
<1>2. StatementAddsUp <=> \A r \in Readers : AnsweredStatement(r) => Consistent(answer[r], listed[r])
  BY DEF StatementAddsUp, Consistent
<1>3. ShapeInv /\ StatementAddsUp /\ [Next]_vars => StatementAddsUp'
  <2> SUFFICES ASSUME ShapeInv, StatementAddsUp, [Next]_vars,
                      NEW r \in Readers, AnsweredStatement(r)'
               PROVE  Consistent(answer[r], listed[r])'
    BY DEF StatementAddsUp, Consistent
  <2>1. pc'[r] = "answered" /\ Answered(r)' /\ query'[r].kind = "statement"
    BY DEF AnsweredStatement, Answered
  <2>2. CASE pc[r] = "answered" /\ answer'[r] = answer[r] /\ query'[r] = query[r] /\ listed'[r] = listed[r]
    BY <1>2, <2>1, <2>2 DEF AnsweredStatement, Answered
  <2>3. CASE pc[r] # "answered" /\ (Ask(r) \/ Read(r))
    <3>1. query'[r] = query[r]
      BY <2>1, <2>3, WaysToAnswer DEF ReadRows, AnswerBalance, ReadAccounts
    <3>2. ReadRows(r) /\ answer'[r] = StatementOf(r)
      BY <2>1, <2>3, <3>1, WaysToAnswer
    <3>3. listed'[r] = listed[r]
      BY <3>2 DEF ReadRows
    <3>4. Consistent(StatementOf(r), listed[r])
      BY StatementFigures
    <3> QED
      BY <3>2, <3>3, <3>4
  <2> QED
    BY <2>1, <2>2, <2>3, AnsweredStays
<1> QED
  BY <1>1, <1>3, Shape, PTL DEF Spec

-----------------------------------------------------------------------------
(* A commit.  What it stores are its entries with other amounts, one for    *)
(* one, each within half a digit of what was sent.                          *)
StoredOf(C) == {StoredTxn(t) : t \in C}

LEMMA StoredOfType ==
    ASSUME NEW C \in Commits PROVE StoredOf(C) \subseteq Txn /\ IsFiniteSet(StoredOf(C))
<1>1. PICK b : b = [t \in C |-> StoredTxn(t)]
  OBVIOUS
<1>2. StoredOf(C) = {b[t] : t \in C}
  BY <1>1 DEF StoredOf
<1>3. IsFiniteSet({b[t] : t \in C})
  BY FiniteImage, CommitType
<1>4. StoredOf(C) \subseteq Txn
  BY CommitType, StoredTxnType DEF StoredOf
<1> QED
  BY <1>2, <1>3, <1>4

(* Storing an entry moves its value by half a digit of the column at most,  *)
(* and not at all if it has no more digits than a balance.                  *)
LEMMA StoredValue ==
    ASSUME NEW t \in Txn, NEW i \in DOMAIN t.entries
    PROVE  /\ StoredTxn(t).entries[i].account = t.entries[i].account
           /\ Value(<<t, i>>) \in Int /\ Value(<<StoredTxn(t), i>>) \in Int
           /\ 2 * Abs(Value(<<t, i>>) - Value(<<StoredTxn(t), i>>)) <= EntryGrain
           /\ OnScale(t.entries[i].amount, BalanceGrain) =>
                 /\ Value(<<StoredTxn(t), i>>) = Value(<<t, i>>)
                 /\ \E k \in Int : Value(<<t, i>>) = k * BalanceGrain
<1>1. PICK e, d : e = t.entries[i] /\ d = StoredTxn(t).entries[i]
  OBVIOUS
<1>2. e \in Entry /\ d = [e EXCEPT !.amount = Stored(e.amount)]
  BY <1>1, EntriesType, StoredTxnType
<1>3. PICK x, y \in Int : x = e.amount /\ y = Stored(x)
  BY <1>2, StoredNear DEF Entry
<1>4. d.account = e.account /\ d.type = e.type /\ d.amount = y
  BY <1>2, <1>3 DEF Entry
<1>5. 2 * Abs(x - y) <= EntryGrain
  BY <1>3, StoredNear
<1>6. /\ Value(<<t, i>>) = AssetDelta(e) /\ Value(<<StoredTxn(t), i>>) = AssetDelta(d)
  BY <1>1 DEF Value
<1>7. AssetDelta(e) \in Int /\ AssetDelta(d) \in Int /\ 2 * Abs(AssetDelta(e) - AssetDelta(d)) <= EntryGrain
  BY <1>3, <1>4, <1>5, GrainsType DEF AssetDelta, Abs
<1>8. ASSUME OnScale(x, BalanceGrain)
      PROVE  AssetDelta(d) = AssetDelta(e) /\ \E k \in Int : AssetDelta(e) = k * BalanceGrain
  <2>1. PICK k \in Int : x = k * BalanceGrain
    BY <1>8, OnScaleMultiple, GrainsType
  <2>2. PICK j \in Int : BalanceGrain = j * EntryGrain
    BY OnScaleMultiple, GrainsType, AmountsAssumption DEF OnScale
  <2>3. x = (k * j) * EntryGrain /\ k * j \in Int
    BY <2>1, <2>2, GrainsType
  <2>4. y = x
    BY <1>3, <2>3, HalfUpExact, GrainsType DEF Stored
  <2>5. 0 = 0 * BalanceGrain /\ -x = (-k) * BalanceGrain /\ -k \in Int
    BY <2>1, GrainsType
  <2> QED
    BY <1>3, <1>4, <2>1, <2>4, <2>5 DEF AssetDelta
<1> QED
  BY <1>1, <1>3, <1>4, <1>6, <1>7, <1>8

(* Storing the entries of a request moves a position by half a digit for    *)
(* each of them at most, and not at all if none has more digits than a      *)
(* balance.                                                                 *)
LEMMA StoredPosition ==
    ASSUME NEW C \in Commits, NEW A
    PROVE  /\ Cardinality(On(A, StoredOf(C))) = Cardinality(On(A, C))
           /\ 2 * Abs(Position(C, A) - Position(StoredOf(C), A)) <= Cardinality(On(A, C)) * EntryGrain
           /\ (\A x \in On(A, C) : OnScale(x[1].entries[x[2]].amount, BalanceGrain))
              => /\ Position(StoredOf(C), A) = Position(C, A)
                 /\ \E k \in Int : Position(C, A) = k * BalanceGrain
<1>1. PICK P, Q : P = On(A, C) /\ Q = On(A, StoredOf(C))
  OBVIOUS
<1>2. PICK b : b = [x \in P |-> <<StoredTxn(x[1]), x[2]>>]
  OBVIOUS
<1>3. \A x \in P : /\ x = <<x[1], x[2]>> /\ x[1] \in C /\ x[2] \in DOMAIN x[1].entries
                   /\ x[1].entries[x[2]].account \in A
  BY <1>1 DEF On, Places
<1>4. \A x, y \in P : b[x] = b[y] => x = y
  <2> SUFFICES ASSUME NEW x \in P, NEW y \in P, b[x] = b[y] PROVE x = y
    OBVIOUS
  <2>1. StoredTxn(x[1]) = StoredTxn(y[1]) /\ x[2] = y[2]
    BY <1>2
  <2>2. x[1] \in Txn /\ y[1] \in Txn
    BY <1>3, CommitType
  <2>3. x[1].key = y[1].key
    BY <2>1, <2>2, StoredTxnType
  <2> QED
    BY <1>3, <2>1, <2>3, CommitType
<1>5. Q = {b[x] : x \in P}
  <2>1. ASSUME NEW x \in P PROVE b[x] \in Q
    <3>1. x[1] \in Txn /\ x[2] \in DOMAIN StoredTxn(x[1]).entries
      BY <1>3, CommitType, StoredTxnType
    <3>2. StoredTxn(x[1]).entries[x[2]].account \in A
      BY <1>3, <3>1, StoredValue
    <3> QED
      BY <1>1, <1>2, <1>3, <3>1, <3>2 DEF On, Places, StoredOf
  <2>2. ASSUME NEW y \in Q PROVE \E x \in P : y = b[x]
    <3>1. PICK t \in C : y \in Places(StoredTxn(t), A)
      BY <1>1 DEF On, StoredOf
    <3>2. PICK i \in DOMAIN StoredTxn(t).entries : /\ y = <<StoredTxn(t), i>>
                                                  /\ StoredTxn(t).entries[i].account \in A
      BY <3>1 DEF Places
    <3>3. t \in Txn /\ i \in DOMAIN t.entries /\ t.entries[i].account \in A
      BY <3>2, CommitType, StoredTxnType, StoredValue
    <3>4. <<t, i>> \in P
      BY <1>1, <3>3 DEF On, Places
    <3> QED
      BY <1>2, <3>2, <3>4
  <2> QED
    BY <2>1, <2>2
<1>6. Addable(P) /\ Addable(Q)
  BY <1>1, AddableOn, CommitType, StoredOfType
<1>7. PICK f, g : f = Values(P) /\ g = [x \in P |-> Value(b[x])]
  OBVIOUS
<1>8. ASSUME NEW x \in P
      PROVE  /\ f[x] \in Int /\ g[x] \in Int /\ 2 * Abs(f[x] - g[x]) <= EntryGrain
             /\ OnScale(x[1].entries[x[2]].amount, BalanceGrain) =>
                   g[x] = f[x] /\ \E k \in Int : f[x] = k * BalanceGrain
  <2>1. PICK t, i : t \in Txn /\ t = x[1] /\ i = x[2] /\ x = <<t, i>> /\ i \in DOMAIN t.entries
    BY <1>3, CommitType
  <2>2. f[x] = Value(<<t, i>>) /\ g[x] = Value(<<StoredTxn(t), i>>)
    BY <1>2, <1>7, <2>1 DEF Values
  <2> QED
    BY <2>1, <2>2, StoredValue
<1>9. Summable(f, P) /\ Summable(g, P) /\ IsFiniteSet(P)
  BY <1>6, <1>8 DEF Summable, Addable
<1>10. Position(C, A) = SumFunctionOnSet(f, P)
  BY <1>1, <1>6, <1>7, PositionSums, SumOfPart, CommitType
<1>11. Position(StoredOf(C), A) = SumFunctionOnSet(g, P)
  <2>1. PICK h : h = Values(Q)
    OBVIOUS
  <2>2. \A x \in P : h[b[x]] = g[x] /\ g[x] \in Int
    BY <1>5, <1>7, <1>8, <2>1 DEF Values
  <2>3. SumFunctionOnSet(h, {b[x] : x \in P}) = SumFunctionOnSet(g, P)
    BY <1>4, <1>9, <2>2, SumRenamed
  <2>4. Position(StoredOf(C), A) = SumFunctionOnSet(h, Q)
    BY <1>1, <1>6, <2>1, PositionSums, SumOfPart, StoredOfType
  <2> QED
    BY <1>5, <2>3, <2>4
<1>12. Cardinality(Q) = Cardinality(P)
  <2>1. b \in Bijection(P, Q)
    BY <1>2, <1>4, <1>5 DEF Bijection, Injection, IsInjective, Surjection
  <2>2. ExistsBijection(P, Q)
    BY <2>1 DEF ExistsBijection
  <2> QED
    BY <1>9, <2>2, FS_Bijection
<1>13. 2 * Abs(SumFunctionOnSet(f, P) - SumFunctionOnSet(g, P)) <= Cardinality(P) * EntryGrain
  BY <1>8, <1>9, SumApart, GrainsType
<1>14. ASSUME \A x \in P : OnScale(x[1].entries[x[2]].amount, BalanceGrain)
       PROVE  /\ SumFunctionOnSet(g, P) = SumFunctionOnSet(f, P)
              /\ \E k \in Int : SumFunctionOnSet(f, P) = k * BalanceGrain
  <2>1. \A x \in P : f[x] = g[x] /\ \E k \in Int : f[x] = k * BalanceGrain
    BY <1>8, <1>14
  <2>2. SumFunctionOnSet(f, P) = SumFunctionOnSet(g, P)
    BY <1>9, <2>1, SumSame
  <2>3. \E k \in Int : SumFunctionOnSet(f, P) = k * BalanceGrain
    <3>1. IsFiniteSet(P) /\ BalanceGrain \in Int
      BY <1>9, GrainsType
    <3>2. \A x \in P : \E k \in Int : f[x] = k * BalanceGrain
      BY <2>1
    <3> QED
      BY <3>1, <3>2, SumMultiple
  <2> QED
    BY <2>2, <2>3
<1> QED
  BY <1>1, <1>10, <1>11, <1>12, <1>13, <1>14

-----------------------------------------------------------------------------
(* A balance and the entries behind it.  It is a multiple of its grain, and *)
(* each commit adds what it rounds away to the drift.                       *)
Scaled(a) == \E k \in Int : current[a] = k * BalanceGrain

Near(a) ==
    2 * Abs(current[a] - Position(journal, {a}))
       <= Cardinality(On({a}, journal)) * (BalanceGrain + EntryGrain)

Exact(a) ==
    (\A x \in EntriesOn(a, Sent) : OnScale(x[1].entries[x[2]].amount, BalanceGrain))
    => current[a] = Position(journal, {a})

DriftInv == \A a \in Assets(Accounts) : Scaled(a) /\ Near(a) /\ Exact(a)

LEMMA EntriesOnIsOn == \A a, T : EntriesOn(a, T) = On({a}, T)
  BY DEF EntriesOn, On, Places

(* No balance has drifted at the start.                                     *)
LEMMA DriftInit == Init => DriftInv
<1> SUFFICES ASSUME Init, NEW a \in Assets(Accounts) PROVE Scaled(a) /\ Near(a) /\ Exact(a)
  BY DEF DriftInv
<1>1. current[a] = 0 /\ journal = {}
  BY DEF Init, Ledger!Init
<1>2. Position({}, {a}) = 0
  BY SumEmpty DEF Position
<1>3. On({a}, {}) = {} /\ Cardinality({}) = 0
  BY FS_EmptySet DEF On
<1>4. 0 * BalanceGrain = 0 /\ 0 * (BalanceGrain + EntryGrain) = 0
  BY GrainsType
<1> QED
  BY <1>1, <1>2, <1>3, <1>4 DEF Scaled, Near, Exact, Abs

(* A set of transactions cut in two, and the entries of the parts.          *)
Cut(V, T, U) == Distinct(V) /\ V = T \cup U /\ T \cap U = {}

LEMMA OnCut ==
    ASSUME NEW V, NEW T, NEW U, Cut(V, T, U), NEW A
    PROVE  /\ On(A, V) = On(A, T) \cup On(A, U) /\ On(A, T) \cap On(A, U) = {}
           /\ Position(V, A) = Position(T, A) + Position(U, A)
           /\ Position(T, A) \in Int /\ Position(U, A) \in Int
           /\ Cardinality(On(A, V)) = Cardinality(On(A, T)) + Cardinality(On(A, U))
           /\ Cardinality(On(A, T)) \in Nat /\ Cardinality(On(A, U)) \in Nat
<1>1. PICK P, Q, R : P = On(A, T) /\ Q = On(A, U) /\ R = On(A, V)
  OBVIOUS
<1>2. R = P \cup Q /\ P \cap Q = {}
  BY <1>1 DEF Cut, On, Places
<1>3. /\ T \subseteq Txn /\ IsFiniteSet(T) /\ U \subseteq Txn /\ IsFiniteSet(U)
      /\ V \subseteq Txn /\ IsFiniteSet(V)
  BY FS_Subset DEF Cut, Distinct
<1>4. Addable(P) /\ Addable(Q) /\ Addable(P \cup Q)
  BY <1>1, <1>2, <1>3, AddableOn
<1>5. SumOf(R) = SumOf(P) + SumOf(Q)
  BY <1>2, <1>4, SumOfTwo
<1>6. /\ Position(T, A) = SumOf(P) /\ Position(U, A) = SumOf(Q) /\ Position(V, A) = SumOf(R)
      /\ Position(T, A) \in Int /\ Position(U, A) \in Int
  BY <1>1, <1>3, PositionSums
<1>7. Cardinality(P) \in Nat /\ Cardinality(Q) \in Nat /\ Cardinality(P \cap Q) = 0
  BY <1>2, <1>4, FS_CardinalityType, FS_EmptySet DEF Addable
<1>8. Cardinality(P \cup Q) = Cardinality(P) + Cardinality(Q) - Cardinality(P \cap Q)
  BY <1>4, FS_Union DEF Addable
<1>9. Cardinality(R) = Cardinality(P) + Cardinality(Q)
  BY <1>2, <1>7, <1>8
<1> QED
  BY <1>1, <1>2, <1>5, <1>6, <1>7, <1>9

(* A commit adds half a digit of a balance and half a digit per entry to    *)
(* the drift at most, and adds nothing if all amounts fit.                  *)
LEMMA BookDrift == ASSUME ShapeInv, ShapeInv', DriftInv, Book PROVE DriftInv'
<1>1. PICK C \in Commits :
        /\ \A t \in C : ~Ledger!Used(journal, t.key)
        /\ journal' = journal \cup StoredOf(C)
        /\ current' = [a \in DOMAIN current |-> BalanceAfter(current[a], Position(C, {a}))]
  BY DEF Book, StoredOf
<1> SUFFICES ASSUME NEW a \in Assets(Accounts) PROVE Scaled(a)' /\ Near(a)' /\ Exact(a)'
  BY DEF DriftInv
<1>2. PICK S : S = StoredOf(C)
  OBVIOUS
<1>3. Cut(journal', journal, S)
  <2>1. \A t \in C : StoredTxn(t).key = t.key
    BY CommitType, StoredTxnType
  <2>2. \A t \in S : \A u \in journal : t # u
    BY <1>1, <1>2, <2>1 DEF StoredOf, Ledger!Used
  <2> QED
    BY <1>1, <1>2, <2>2 DEF ShapeInv, Cut
<1>4. PICK k \in Int : current[a] = k * BalanceGrain
  BY DEF DriftInv, Scaled
<1>5. PICK c, p, q, s \in Int : /\ c = current[a] /\ p = Position(C, {a})
                               /\ q = Position(journal, {a}) /\ s = Position(S, {a})
  BY <1>3, CommitType, PositionSums, OnCut DEF ShapeInv, StatementTypeOK
<1>6. current'[a] = RoundHalfUp(c + p, BalanceGrain)
  BY <1>1, <1>5 DEF BalanceAfter, ShapeInv, StatementTypeOK
<1>7. PICK d \in Int : /\ d = current'[a] /\ 2 * Abs((c + p) - d) <= BalanceGrain
                      /\ \E i \in Int : d = i * BalanceGrain
  <2>1. PICK x \in Int : x = c + p
    OBVIOUS
  <2>2. /\ RoundHalfUp(x, BalanceGrain) \in Int /\ 2 * Abs(x - RoundHalfUp(x, BalanceGrain)) <= BalanceGrain
        /\ \E i \in Int : RoundHalfUp(x, BalanceGrain) = i * BalanceGrain
    BY HalfUpNear, GrainsType
  <2> QED
    BY <1>6, <2>1, <2>2
<1>8. PICK m, n \in Nat : m = Cardinality(On({a}, journal)) /\ n = Cardinality(On({a}, S))
  BY <1>3, OnCut
<1>9. Position(journal', {a}) = q + s /\ Cardinality(On({a}, journal')) = m + n
  BY <1>3, <1>5, <1>8, OnCut
<1>10. PICK v, w, g \in Int : /\ v = m * (BalanceGrain + EntryGrain) /\ w = n * EntryGrain
                             /\ g = n * BalanceGrain
  BY GrainsType
<1>11. 2 * Abs(c - q) <= v /\ 2 * Abs(p - s) <= w
  <2>1. Near(a)
    BY DEF DriftInv
  <2>2. 2 * Abs(p - s) <= w
    BY <1>2, <1>5, <1>8, <1>10, StoredPosition
  <2> QED
    BY <1>5, <1>8, <1>10, <2>1, <2>2 DEF Near
<1>12. (m + n) * (BalanceGrain + EntryGrain) = v + w + g
  BY <1>10, GrainsType
<1>13. n = 0 => d = c /\ p = 0 /\ s = 0
  <2> SUFFICES ASSUME n = 0 PROVE d = c /\ p = 0 /\ s = 0
    OBVIOUS
  <2>1. w = 0
    BY <1>10, GrainsType
  <2>2. On({a}, S) = {}
    BY <1>2, <1>8, AddableOn, StoredOfType, FS_EmptySet DEF Addable
  <2>3. s = SumOf({})
    BY <1>2, <1>5, <2>2, PositionSums, StoredOfType
  <2>4. s = 0
    BY <2>3, SumEmpty DEF SumOf
  <2>5. p = 0
    BY <1>11, <2>1, <2>4 DEF Abs
  <2>6. d = RoundHalfUp(c, BalanceGrain)
    BY <1>5, <1>6, <1>7, <2>5
  <2> QED
    BY <1>4, <1>5, <2>4, <2>5, <2>6, HalfUpExact, GrainsType
<1>14. n > 0 => g >= BalanceGrain
  BY <1>10, GrainsType
<1>15. 2 * Abs(d - (q + s)) <= v + w + g
  <2>1. CASE n = 0
    <3>1. w = 0 /\ g = 0
      BY <1>10, <2>1, GrainsType
    <3> QED
      BY <1>11, <1>13, <2>1, <3>1 DEF Abs
  <2>2. CASE n > 0
    <3>1. PICK G \in Nat : G = BalanceGrain
      BY GrainsType
    <3>2. 2 * Abs((c + p) - d) <= G /\ G <= g
      BY <1>7, <1>14, <2>2, <3>1
    <3> QED
      BY <1>11, <3>2 DEF Abs
  <2> QED
    BY <2>1, <2>2
<1>16. Scaled(a)' /\ Near(a)'
  BY <1>7, <1>9, <1>12, <1>15 DEF Scaled, Near
<1>17. Exact(a)'
  <2> SUFFICES ASSUME \A x \in EntriesOn(a, Sent') : OnScale(x[1].entries[x[2]].amount, BalanceGrain)
               PROVE  d = q + s
    BY <1>7, <1>9 DEF Exact
  <2>1. Sent \subseteq Sent' /\ C \subseteq Sent'
    BY <1>1 DEF Sent, StoredOf
  <2>2. EntriesOn(a, Sent) \subseteq EntriesOn(a, Sent') /\ On({a}, C) \subseteq EntriesOn(a, Sent')
    BY <2>1 DEF EntriesOn, On, Places
  <2>3. c = q
    BY <1>5, <2>2 DEF DriftInv, Exact
  <2>4. s = p /\ \E i \in Int : p = i * BalanceGrain
    BY <1>2, <1>5, <2>2, StoredPosition
  <2>5. PICK i \in Int : p = i * BalanceGrain
    BY <2>4
  <2>6. c + p = (k + i) * BalanceGrain /\ k + i \in Int
    BY <1>4, <1>5, <2>5, GrainsType
  <2>7. d = c + p
    BY <1>6, <1>7, <2>6, HalfUpExact, GrainsType
  <2> QED
    BY <2>3, <2>4, <2>7
<1> QED
  BY <1>16, <1>17

(* Only a commit touches balances and entries.                              *)
LEMMA DriftStep == ShapeInv /\ ShapeInv' /\ DriftInv /\ [Next]_vars => DriftInv'
<1>1. ASSUME UNCHANGED <<journal, current>>, DriftInv PROVE DriftInv'
  BY <1>1 DEF DriftInv, Scaled, Near, Exact, Sent
<1>2. OpenAccount \/ TakeSnapshot \/ UNCHANGED vars => UNCHANGED <<journal, current>>
  BY DEF OpenAccount, TakeSnapshot, vars, store
<1>3. ASSUME ShapeInv, NEW r \in Readers, Ask(r) \/ Read(r) PROVE UNCHANGED <<journal, current>>
  BY <1>3, ReaderShape DEF Alone, store
<1> QED
  BY <1>1, <1>2, <1>3, BookDrift DEF Next, Quiet

(* The drift is bounded in every reachable state.                           *)
LEMMA Drift == Spec => []DriftInv
  BY DriftInit, DriftStep, Shape, PTL DEF Spec

(* A balance stays within half a digit of its own column and half a digit   *)
(* of the entries' column for each entry, however many commits rounded it,  *)
(* and equals the sum of its entries while no sent amount has more digits   *)
(* than a balance.                                                          *)
THEOREM DriftIsBounded == Spec => []DriftBounded
<1>1. ShapeInv /\ DriftInv => DriftBounded
  <2> SUFFICES ASSUME ShapeInv, DriftInv, NEW a \in Assets(Accounts)
               PROVE  LET E == EntriesOn(a, journal)
                          drift == Abs(current[a] - Position(journal, {a}))
                      IN  /\ 2 * drift <= Cardinality(E) * (BalanceGrain + EntryGrain)
                          /\ drift # 0 =>
                               \E x \in EntriesOn(a, Sent) :
                                  ~OnScale(x[1].entries[x[2]].amount, BalanceGrain)
    BY DEF DriftBounded
  <2>1. Near(a) /\ Exact(a)
    BY DEF DriftInv
  <2>2. current[a] \in Int
    BY DEF ShapeInv, StatementTypeOK
  <2>3. Abs(current[a] - current[a]) = 0
    BY <2>2 DEF Abs
  <2> QED
    BY <2>1, <2>3, EntriesOnIsOn DEF Near, Exact
<1> QED
  BY <1>1, Shape, Drift, PTL

-----------------------------------------------------------------------------
(* A balance for a client.  A set of accounts cut in two, and the entries   *)
(* on the parts.                                                            *)
Split(A, B, C) == A = B \cup C /\ B \cap C = {}

LEMMA OnSplit ==
    ASSUME NEW A, NEW B, NEW C, Split(A, B, C), NEW T, Distinct(T)
    PROVE  /\ Position(T, A) = Position(T, B) + Position(T, C)
           /\ Position(T, B) \in Int /\ Position(T, C) \in Int
           /\ Cardinality(On(A, T)) = Cardinality(On(B, T)) + Cardinality(On(C, T))
           /\ Cardinality(On(B, T)) \in Nat /\ Cardinality(On(C, T)) \in Nat
<1>1. PICK P, Q, R : P = On(B, T) /\ Q = On(C, T) /\ R = On(A, T)
  OBVIOUS
<1>2. R = P \cup Q /\ P \cap Q = {}
  BY <1>1 DEF Split, On, Places
<1>3. T \subseteq Txn /\ IsFiniteSet(T)
  BY DEF Distinct
<1>4. Addable(P) /\ Addable(Q) /\ Addable(P \cup Q)
  BY <1>1, <1>2, <1>3, AddableOn
<1>5. SumOf(R) = SumOf(P) + SumOf(Q)
  BY <1>2, <1>4, SumOfTwo
<1>6. /\ Position(T, B) = SumOf(P) /\ Position(T, C) = SumOf(Q) /\ Position(T, A) = SumOf(R)
      /\ Position(T, B) \in Int /\ Position(T, C) \in Int
  BY <1>1, <1>3, PositionSums
<1>7. Cardinality(P) \in Nat /\ Cardinality(Q) \in Nat /\ Cardinality(P \cap Q) = 0
  BY <1>2, <1>4, FS_CardinalityType, FS_EmptySet DEF Addable
<1>8. Cardinality(P \cup Q) = Cardinality(P) + Cardinality(Q) - Cardinality(P \cap Q)
  BY <1>4, FS_Union DEF Addable
<1>9. Cardinality(R) = Cardinality(P) + Cardinality(Q)
  BY <1>2, <1>7, <1>8
<1> QED
  BY <1>1, <1>5, <1>6, <1>7, <1>9

(* Entries on other accounts than assets move nothing.                      *)
LEMMA OnlyAssetsCount ==
    ASSUME NEW A, NEW T, Distinct(T)
    PROVE  Position(T, A) = Position(T, Assets(A)) /\ Position(T, A) \in Int
<1>1. PICK B, C : B = Assets(A) /\ C = A \ B
  OBVIOUS
<1>2. Split(A, B, C)
  BY <1>1 DEF Split, Assets
<1>3. Position(T, A) = Position(T, B) + Position(T, C) /\ Position(T, B) \in Int
  BY <1>2, OnSplit
<1>4. Position(T, C) = 0
  <2>1. PICK P : P = On(C, T)
    OBVIOUS
  <2>2. \A x \in P : Values(P)[x] = 0
    BY <1>1, <2>1 DEF On, Places, Values, Value, AssetDelta, Assets
  <2>3. Addable(P) /\ Position(T, C) = SumOf(P)
    BY <2>1, AddableOn, PositionSums DEF Distinct
  <2>4. SumOf(P) = SumFunctionOnSet(Values(P), P)
    BY <2>3, SumOfPart
  <2> QED
    BY <2>2, <2>3, <2>4, SumZero DEF Addable
<1> QED
  BY <1>1, <1>3, <1>4

(* The drifts of several balances add up.                                   *)
LEMMA BalancesNear ==
    ASSUME ShapeInv, DriftInv, NEW B, B \subseteq Assets(Accounts)
    PROVE  2 * Abs(SumFunctionOnSet(current, B) - Position(journal, B))
              <= Cardinality(On(B, journal)) * (BalanceGrain + EntryGrain)
<1>1. PICK h \in Int : h = BalanceGrain + EntryGrain
  BY GrainsType
<1> DEFINE near(U) == 2 * Abs(SumFunctionOnSet(current, U) - Position(journal, U))
                        <= Cardinality(On(U, journal)) * h
           bad == {U \in SUBSET B : ~near(U)}
<1>2. IsFiniteSet(B) /\ Distinct(journal) /\ \A a \in B : current[a] \in Int
  <2>1. IsFiniteSet(Assets(Accounts))
    BY AccountsType
  <2> QED
    BY <2>1, FS_Subset DEF ShapeInv, StatementTypeOK
<1>3. ASSUME bad # {} PROVE FALSE
  <2>0. bad \subseteq SUBSET B
    OBVIOUS
  <2>1. PICK U \in bad : \A V \in bad : V \subseteq U => V = U
    <3> HIDE DEF bad
    <3> QED
      BY <1>2, <1>3, <2>0, MinimalSubset
  <2>2. CASE U = {}
    <3>1. SumFunctionOnSet(current, {}) = 0
      BY SumEmpty
    <3>2. On({}, journal) = {} /\ Cardinality({}) = 0
      BY FS_EmptySet DEF On, Places
    <3>3. Position(journal, {}) = SumOf({})
      BY <1>2, <3>2, PositionSums DEF Distinct
    <3>4. Position(journal, {}) = 0
      BY <3>3, SumEmpty DEF SumOf
    <3>5. 0 * h = 0
      OBVIOUS
    <3>6. Abs(0 - 0) = 0
      BY DEF Abs
    <3>7. near({})
      <4>1. PICK x, y, z \in Int : /\ x = SumFunctionOnSet(current, {}) /\ y = Position(journal, {})
                                  /\ z = Cardinality(On({}, journal)) /\ x = 0 /\ y = 0 /\ z = 0
        BY <3>1, <3>2, <3>4
      <4>2. 2 * Abs(x - y) <= z * h
        BY <3>5, <3>6, <4>1
      <4> QED
        BY <4>1, <4>2
    <3> HIDE DEF near
    <3> QED
      BY <2>1, <2>2, <3>7
  <2> SUFFICES ASSUME U # {} PROVE FALSE
    BY <2>2
  <2>3. PICK a, R : a = Pick(U) /\ R = U \ {a}
    OBVIOUS
  <2>4. a \in U /\ R \in SUBSET B /\ R # U /\ IsFiniteSet(U) /\ IsFiniteSet(R)
    BY <1>2, <2>1, <2>3, PickOne, FS_Subset
  <2>5. near(R)
    BY <2>1, <2>3, <2>4
  <2>6. SumFunctionOnSet(current, U) = current[a] + SumFunctionOnSet(current, R)
    BY <2>3, <2>4, SumRecursion
  <2>7. Split(U, {a}, R)
    BY <2>3, <2>4 DEF Split
  <2>8. PICK c, d, p, q \in Int : /\ c = current[a] /\ d = SumFunctionOnSet(current, R)
                                 /\ p = Position(journal, {a}) /\ q = Position(journal, R)
    <3>1. Summable(current, R)
      BY <1>2, <2>4 DEF Summable
    <3>2. SumFunctionOnSet(current, R) \in Int
      BY <3>1, SumType
    <3>3. Position(journal, {a}) \in Int /\ Position(journal, R) \in Int
      BY <1>2, <2>7, OnSplit
    <3> QED
      BY <1>2, <2>1, <2>4, <3>2, <3>3
  <2>9. PICK m, n \in Nat : m = Cardinality(On({a}, journal)) /\ n = Cardinality(On(R, journal))
    BY <1>2, <2>7, OnSplit
  <2>10. Position(journal, U) = p + q /\ Cardinality(On(U, journal)) = m + n
    BY <1>2, <2>7, <2>8, <2>9, OnSplit
  <2>11. PICK v, w \in Int : v = m * h /\ w = n * h
    OBVIOUS
  <2>12. 2 * Abs(c - p) <= v
    <3>1. Near(a)
      BY <2>1, <2>4 DEF DriftInv
    <3> QED
      BY <1>1, <2>8, <2>9, <2>11, <3>1 DEF Near
  <2>13. 2 * Abs(d - q) <= w
    BY <2>5, <2>8, <2>9, <2>11
  <2>14. (m + n) * h = v + w
    BY <2>11
  <2>15. 2 * Abs((c + d) - (p + q)) <= v + w
    BY <2>12, <2>13 DEF Abs
  <2>16. near(U)
    BY <2>6, <2>8, <2>10, <2>14, <2>15
  <2> QED
    BY <2>1, <2>16
<1> QED
  BY <1>1, <1>3

(* What a client gets without as_of.                                        *)
ReportedNear(r) ==
    2 * Abs(answer[r].rounded - Position(answer[r].upto, listed[r]))
       <= Cent + Cardinality(On(Assets(listed[r]), answer[r].upto)) * (BalanceGrain + EntryGrain)

LEMMA EntriesOnUnion == \A A, T : UNION {EntriesOn(a, T) : a \in A} = On(A, T)
  BY DEF EntriesOn, On, Places

(* The rounded balance a client gets is within half a cent, and the drift   *)
(* of the balances it adds up, of the entries booked at that moment.        *)
THEOREM ReportedIsNear == Spec => []ReportedNearBooks
<1>1. Init => ReportedNearBooks
  BY DEF Init, ReportedNearBooks, Answered
<1>2. ShapeInv /\ ShapeInv' /\ DriftInv /\ ReportedNearBooks /\ [Next]_vars => ReportedNearBooks'
  <2> SUFFICES ASSUME ShapeInv, ShapeInv', DriftInv, ReportedNearBooks, [Next]_vars,
                      NEW r \in Readers, Answered(r)', query'[r].start = None
               PROVE  ReportedNear(r)'
    BY EntriesOnUnion DEF ReportedNearBooks, ReportedNear
  <2>1. pc'[r] = "answered"
    BY DEF Answered
  <2>2. CASE pc[r] = "answered" /\ answer'[r] = answer[r] /\ query'[r] = query[r] /\ listed'[r] = listed[r]
    BY <2>1, <2>2, EntriesOnUnion DEF ReportedNearBooks, Answered, ReportedNear
  <2>3. CASE pc[r] # "answered" /\ (Ask(r) \/ Read(r))
    <3>1. query'[r] = query[r]
      BY <2>1, <2>3, WaysToAnswer DEF ReadRows, AnswerBalance, ReadAccounts
    <3>2. None \notin Int
      BY StatementAssumption
    <3>3. answer'[r] = Balance(SumFunctionOnSet(current, Assets(listed'[r])))
      BY <2>3, <3>1, <3>2, WaysToAnswer
    <3>4. PICK A, B, b : A = listed'[r] /\ B = Assets(A) /\ b = SumFunctionOnSet(current, B)
      OBVIOUS
    <3>5. A \subseteq Accounts /\ B \subseteq Assets(Accounts) /\ b \in Int
      BY <3>4, AccountsType, CurrentSum DEF ShapeInv, StatementTypeOK
    <3>6. answer'[r].rounded = Reported(b) /\ answer'[r].upto = journal
      BY <3>3, <3>4 DEF Balance
    <3>7. PICK d, p \in Int : /\ d = Reported(b) /\ 2 * Abs(b - d) <= Cent
                            /\ p = Position(journal, A) /\ p = Position(journal, B)
      <4>1. Distinct(journal)
        BY DEF ShapeInv
      <4>2. Position(journal, A) = Position(journal, B) /\ Position(journal, A) \in Int
        BY <3>4, <4>1, OnlyAssetsCount
      <4> QED
        BY <3>5, <4>2, HalfEvenNear, GrainsType DEF Reported
    <3>8. PICK w : w = Cardinality(On(B, journal)) * (BalanceGrain + EntryGrain)
      OBVIOUS
    <3>9. w \in Int
      <4>1. IsFiniteSet(On(B, journal))
        BY AddableOn DEF ShapeInv, Distinct, Addable
      <4> QED
        BY <3>8, <4>1, FS_CardinalityType, GrainsType
    <3>10. 2 * Abs(b - p) <= w
      BY <3>4, <3>5, <3>7, <3>8, BalancesNear
    <3>11. 2 * Abs(d - p) <= Cent + w
      BY <3>5, <3>7, <3>9, <3>10, GrainsType DEF Abs
    <3> QED
      BY <3>4, <3>6, <3>7, <3>8, <3>11 DEF ReportedNear
  <2> QED
    BY <2>1, <2>2, <2>3, AnsweredStays
<1> QED
  BY <1>1, <1>2, Shape, Drift, PTL DEF Spec

-----------------------------------------------------------------------------
(* What an opening balance has counted.  Settled are the accounts whose     *)
(* entries a reader has added up; for the others it has found, a snapshot   *)
(* stands.                                                                  *)
Settled(r) == (Assets(listed[r]) \ pending[r]) \ {s.account : s \in used[r]}

Sure(r) == On(Settled(r), Before(since[r], query[r].start))
Late(r) == On(Settled(r), Before(journal, query[r].start)) \ Sure(r)

Counted(r) ==
    /\ \A s \in used[r] : s.account \in Assets(listed[r]) \ pending[r]
    /\ \E X \in SUBSET Late(r) : opening[r] = BaseOf(r) + SumOf(Sure(r)) + SumOf(X)

CountInv == \A r \in Readers : pc[r] = "opening" => Counted(r)

(* Counting more, Mj, on top of what is sure and X: what of it is sure, Ms, *)
(* makes the sure ones more, and the others make Y of X.                    *)
Extends(W, sure, X, Ms, Mj, more, Y) ==
    /\ Addable(W) /\ sure \cup X \cup Mj \subseteq W /\ Ms \subseteq Mj
    /\ sure \cap X = {} /\ sure \cap Mj = {} /\ X \cap Mj = {}
    /\ more = sure \cup Ms /\ Y = X \cup (Mj \ Ms)

LEMMA CountMore ==
    ASSUME NEW W, NEW sure, NEW X, NEW Ms, NEW Mj, NEW more, NEW Y,
           Extends(W, sure, X, Ms, Mj, more, Y)
    PROVE  /\ SumOf(more) + SumOf(Y) = SumOf(sure) + SumOf(X) + SumOf(Mj)
           /\ SumOf(sure) \in Int /\ SumOf(X) \in Int /\ SumOf(Mj) \in Int
           /\ SumOf(more) \in Int /\ SumOf(Y) \in Int
<1>1. ASSUME NEW P, P \subseteq W PROVE Addable(P) /\ SumOf(P) \in Int
  BY <1>1, SumOfPart DEF Extends
<1>2. ASSUME NEW P, NEW Q, P \cup Q \subseteq W, P \cap Q = {}
      PROVE  SumOf(P \cup Q) = SumOf(P) + SumOf(Q)
  BY <1>1, <1>2, SumOfTwo
<1>3. SumOf(sure \cup Ms) = SumOf(sure) + SumOf(Ms)
  BY <1>2 DEF Extends
<1>4. PICK D : D = Mj \ Ms
  OBVIOUS
<1>5. SumOf(X \cup D) = SumOf(X) + SumOf(D)
  BY <1>2, <1>4 DEF Extends
<1>6. SumOf(Mj) = SumOf(Ms) + SumOf(D)
  <2>1. Mj = Ms \cup D /\ Ms \cap D = {} /\ Ms \cup D \subseteq W
    BY <1>4 DEF Extends
  <2> QED
    BY <1>2, <2>1
<1>7. /\ SumOf(sure) \in Int /\ SumOf(X) \in Int /\ SumOf(Mj) \in Int
      /\ SumOf(Ms) \in Int /\ SumOf(D) \in Int
      /\ SumOf(sure \cup Ms) \in Int /\ SumOf(X \cup D) \in Int
  BY <1>1, <1>4 DEF Extends
<1>8. more = sure \cup Ms /\ Y = X \cup D
  BY <1>4 DEF Extends
<1> QED
  BY <1>3, <1>5, <1>6, <1>7, <1>8

(* The snapshots taken add up.                                              *)
BaseSum(U) == SumFunctionOnSet([s \in U |-> s.balance], U)

LEMMA BaseAdd ==
    ASSUME ShapeInv, NEW U, U \subseteq snapshots
    PROVE  /\ BaseSum(U) \in Int
           /\ \A s \in snapshots \ U : BaseSum(U \cup {s}) = BaseSum(U) + s.balance
<1>1. IsFiniteSet(U) /\ \A s \in snapshots : s.balance \in Int
  BY FS_Subset DEF ShapeInv, StatementTypeOK
<1>2. PICK f : f = [s \in U |-> s.balance]
  OBVIOUS
<1>3. Summable(f, U) /\ BaseSum(U) = SumFunctionOnSet(f, U)
  BY <1>1, <1>2 DEF Summable, BaseSum
<1>4. ASSUME NEW s \in snapshots \ U PROVE BaseSum(U \cup {s}) = BaseSum(U) + s.balance
  <2>1. PICK g : g = [x \in U \cup {s} |-> x.balance]
    OBVIOUS
  <2>2. IsFiniteSet(U \cup {s})
    BY <1>1, FS_AddElement
  <2>3. Summable(g, U \cup {s}) /\ Summable(g, U) /\ g[s] = s.balance /\ \A x \in U : g[x] = f[x]
    BY <1>1, <1>2, <2>1, <2>2 DEF Summable
  <2>4. SumFunctionOnSet(g, U \cup {s}) = SumFunctionOnSet(g, U) + g[s]
    BY <2>3, SumAdd
  <2>5. SumFunctionOnSet(g, U) = SumFunctionOnSet(f, U)
    BY <2>3, SumSame
  <2> QED
    BY <1>3, <2>1, <2>3, <2>4, <2>5 DEF BaseSum
<1> QED
  BY <1>3, <1>4, SumType

(* The journal's entries can be added up, and those with an earlier date    *)
(* are not among those of a period.                                         *)
LEMMA JournalAdds ==
    ASSUME ShapeInv PROVE \A A, T : T \subseteq journal => Addable(On(A, T)) /\ Position(T, A) = SumOf(On(A, T))
  BY PartType, AddableOn, PositionSums DEF Distinct

(* What a reader has counted is in the journal.                             *)
LEMMA CountedBooked ==
    ASSUME ShapeInv, NEW r \in Readers
    PROVE  Sure(r) \subseteq On(Settled(r), journal) /\ Late(r) \subseteq On(Settled(r), journal)
<1>1. since[r] \subseteq journal
  BY DEF ShapeInv, StatementTypeOK
<1>2. \A T, d : T \subseteq journal => Before(T, d) \subseteq journal
  BY DEF Before
<1>3. \A A, T : T \subseteq journal => On(A, T) \subseteq On(A, journal)
  BY DEF On
<1> QED
  BY <1>1, <1>2, <1>3 DEF Sure, Late

(* No reader has counted anything at the start.                             *)
LEMMA CountInit == Init => CountInv
  BY DEF Init, CountInv

(* Counting goes on while others commit.                                    *)
LEMMA CountWhile ==
    ASSUME ShapeInv, NEW r \in Readers, Counted(r), journal \subseteq journal',
           /\ query'[r] = query[r] /\ listed'[r] = listed[r] /\ pending'[r] = pending[r]
           /\ opening'[r] = opening[r] /\ used'[r] = used[r] /\ since'[r] = since[r]
    PROVE  Counted(r)'
<1>1. Settled(r)' = Settled(r) /\ Sure(r)' = Sure(r) /\ BaseOf(r)' = BaseOf(r)
  BY DEF Settled, Sure, Assets, BaseOf
<1>2. Late(r) \subseteq Late(r)'
  BY <1>1 DEF Late, On, Before
<1> QED
  BY <1>1, <1>2 DEF Counted, Assets

(* A reader that has just listed its accounts has counted nothing.          *)
LEMMA ListsNothingYet ==
    ASSUME ShapeInv, NEW r \in Readers, ReadAccounts(r), pc'[r] = "opening" PROVE Counted(r)'
<1>1. /\ used'[r] = {} /\ opening'[r] = 0 /\ pending'[r] = Assets(listed'[r])
  BY DEF ReadAccounts, ShapeInv, Reader, StatementTypeOK
<1>2. Settled(r)' = {}
  BY <1>1 DEF Settled, Assets
<1>3. Sure(r)' = {}
  BY <1>2 DEF Sure, On, Places
<1>4. SumOf({}) = 0 /\ BaseOf(r)' = 0
  BY <1>1, SumEmpty DEF SumOf, BaseOf
<1> QED
  BY <1>1, <1>3, <1>4 DEF Counted

(* A snapshot taken settles its account without an entry.                   *)
LEMMA CountsSnapshot ==
    ASSUME ShapeInv, NEW r \in Readers, Counted(r), NEW a \in Accounts, ReadSnapshot(r, a)
    PROVE  Counted(r)'
<1>1. PICK s \in LatestBefore(a, query[r].start) :
        /\ opening' = [opening EXCEPT ![r] = @ + s.balance]
        /\ used' = [used EXCEPT ![r] = @ \cup {s}]
  BY DEF ReadSnapshot
<1>2. /\ a \in pending[r] /\ pending' = [pending EXCEPT ![r] = @ \ {a}]
      /\ UNCHANGED <<store, pc, query, listed, missed, answer, since>>
  BY DEF ReadSnapshot
<1>3. s \in snapshots /\ s.account = a /\ s.balance \in Int
  BY <1>1 DEF LatestBefore, ShapeInv, StatementTypeOK
<1>4. /\ opening'[r] = opening[r] + s.balance /\ used'[r] = used[r] \cup {s}
      /\ pending'[r] = pending[r] \ {a} /\ listed'[r] = listed[r] /\ query'[r] = query[r]
      /\ since'[r] = since[r] /\ journal' = journal /\ a \in Assets(listed[r])
  BY <1>1, <1>2 DEF store, ShapeInv, StatementTypeOK
<1>5. s \notin used[r] /\ used[r] \subseteq snapshots
  BY <1>2, <1>3 DEF Counted, ShapeInv, StatementTypeOK
<1>6. Settled(r)' = Settled(r)
  BY <1>2, <1>3, <1>4 DEF Settled, Assets
<1>7. Sure(r)' = Sure(r) /\ Late(r)' = Late(r)
  BY <1>4, <1>6 DEF Sure, Late
<1>8. BaseOf(r)' = BaseOf(r) + s.balance /\ BaseOf(r) \in Int
  <2>1. BaseOf(r) = BaseSum(used[r]) /\ BaseOf(r)' = BaseSum(used'[r])
    BY DEF BaseOf, BaseSum
  <2> QED
    BY <1>3, <1>4, <1>5, <2>1, BaseAdd
<1>9. PICK X \in SUBSET Late(r) : opening[r] = BaseOf(r) + SumOf(Sure(r)) + SumOf(X)
  BY DEF Counted
<1>10. SumOf(Sure(r)) \in Int /\ SumOf(X) \in Int
  <2>1. PICK P : P = On(Settled(r), journal)
    OBVIOUS
  <2>2. Addable(P)
    BY <2>1, JournalAdds
  <2>3. Sure(r) \subseteq P /\ Late(r) \subseteq P
    BY <2>1, CountedBooked
  <2> QED
    BY <1>9, <2>2, <2>3, SumOfPart
<1>11. opening'[r] = BaseOf(r)' + SumOf(Sure(r)') + SumOf(X)
  BY <1>3, <1>4, <1>7, <1>8, <1>9, <1>10
<1>12. \A x \in used'[r] : x.account \in Assets(listed'[r]) \ pending'[r]
  BY <1>3, <1>4 DEF Counted
<1> QED
  BY <1>4, <1>7, <1>11, <1>12 DEF Counted, Assets

(* The entries read for an account without a snapshot count, those booked   *)
(* since the request among them.                                            *)
LEMMA CountsEntries ==
    ASSUME ShapeInv, NEW r \in Readers, pc[r] = "opening", Counted(r), ReadEntriesBefore(r)
    PROVE  Counted(r)'
<1>1. PICK M, J, S, d : /\ M = missed[r] /\ J = Before(journal, query[r].start)
                        /\ S = Before(since[r], query[r].start) /\ d = Position(J, M)
  OBVIOUS
<1>2. /\ opening'[r] = opening[r] + d /\ used'[r] = used[r] /\ pending'[r] = pending[r] \ M
      /\ listed'[r] = listed[r] /\ query'[r] = query[r] /\ since'[r] = since[r]
      /\ journal' = journal /\ M \subseteq pending[r] /\ pending[r] \subseteq Assets(listed[r])
  BY <1>1 DEF ReadEntriesBefore, store, ShapeInv, StatementTypeOK
<1>3. J \subseteq journal /\ S \subseteq J
  BY <1>1 DEF Before, ShapeInv, StatementTypeOK
<1>4. PICK A, B : A = Settled(r) /\ B = A \cup M
  OBVIOUS
<1>5. A \cap M = {} /\ Settled(r)' = B
  BY <1>2, <1>4 DEF Settled, Assets, Counted
<1>6. PICK Ms, Mj, W : Ms = On(M, S) /\ Mj = On(M, J) /\ W = On(B, journal)
  OBVIOUS
<1>7. PICK X \in SUBSET Late(r) : opening[r] = BaseOf(r) + SumOf(Sure(r)) + SumOf(X)
  BY DEF Counted
<1>8. Sure(r) = On(A, S) /\ Late(r) = On(A, J) \ On(A, S)
  BY <1>1, <1>4 DEF Sure, Late
<1>9. /\ Sure(r)' = Sure(r) \cup Ms
      /\ Late(r)' = (On(A, J) \cup Mj) \ (Sure(r) \cup Ms)
  <2>1. \A T : On(B, T) = On(A, T) \cup On(M, T)
    BY <1>4 DEF On, Places
  <2>2. Sure(r)' = On(B, S) /\ Late(r)' = On(B, J) \ On(B, S)
    BY <1>1, <1>2, <1>5 DEF Sure, Late
  <2> QED
    BY <1>6, <1>8, <2>1, <2>2
<1>10. \A T, U : On(A, T) \cap On(M, U) = {}
  BY <1>5 DEF On, Places
<1>11. PICK more, Y : more = Sure(r) \cup Ms /\ Y = X \cup (Mj \ Ms)
  OBVIOUS
<1>12. Extends(W, Sure(r), X, Ms, Mj, more, Y)
  <2>1. Addable(W)
    BY <1>6, JournalAdds
  <2>2. \A T : T \subseteq journal => On(A, T) \subseteq W /\ On(M, T) \subseteq W
    BY <1>4, <1>6 DEF On, Places
  <2>3. Ms \subseteq Mj /\ Mj \subseteq W /\ On(A, J) \subseteq W /\ On(A, S) \subseteq W
    BY <1>3, <1>6, <2>2 DEF On
  <2>4. Sure(r) \cap Mj = {} /\ On(A, J) \cap Mj = {}
    BY <1>6, <1>8, <1>10
  <2> QED
    BY <1>7, <1>8, <1>11, <2>1, <2>3, <2>4 DEF Extends
<1>13. Y \subseteq Late(r)'
  <2>1. X \cap Ms = {} /\ Sure(r) \cap (Mj \ Ms) = {}
    BY <1>12 DEF Extends
  <2> QED
    BY <1>7, <1>8, <1>9, <1>11, <2>1
<1>14. d = SumOf(Mj)
  BY <1>1, <1>3, <1>6, JournalAdds
<1>15. BaseOf(r)' = BaseOf(r) /\ BaseOf(r) \in Int
  <2>1. BaseOf(r) = BaseSum(used[r]) /\ BaseOf(r)' = BaseSum(used'[r]) /\ used[r] \subseteq snapshots
    BY DEF BaseOf, BaseSum, ShapeInv, StatementTypeOK
  <2> QED
    BY <1>2, <2>1, BaseAdd
<1>16. /\ SumOf(more) + SumOf(Y) = SumOf(Sure(r)) + SumOf(X) + SumOf(Mj)
       /\ SumOf(Sure(r)) \in Int /\ SumOf(X) \in Int /\ SumOf(Mj) \in Int
       /\ SumOf(more) \in Int /\ SumOf(Y) \in Int
  BY <1>12, CountMore
<1>17. opening'[r] = BaseOf(r)' + SumOf(Sure(r)') + SumOf(Y)
  BY <1>2, <1>7, <1>9, <1>11, <1>14, <1>15, <1>16
<1>18. \A s \in used'[r] : s.account \in Assets(listed'[r]) \ pending'[r]
  BY <1>2 DEF Counted
<1> QED
  BY <1>13, <1>17, <1>18 DEF Counted, Assets

(* Every step keeps the count.                                              *)
LEMMA CountStep == ShapeInv /\ ShapeInv' /\ CountInv /\ [Next]_vars => CountInv'
<1> SUFFICES ASSUME ShapeInv, ShapeInv', CountInv, [Next]_vars,
                    NEW r \in Readers, pc'[r] = "opening"
             PROVE  Counted(r)'
  BY DEF CountInv
<1>1. ASSUME pc[r] = "opening", journal \subseteq journal',
             query'[r] = query[r], listed'[r] = listed[r], pending'[r] = pending[r],
             opening'[r] = opening[r], used'[r] = used[r], since'[r] = since[r]
      PROVE  Counted(r)'
  BY <1>1, CountWhile DEF CountInv
<1>2. CASE Book \/ OpenAccount \/ TakeSnapshot \/ UNCHANGED vars
  <2>1. journal \subseteq journal' /\ UNCHANGED reading
    BY <1>2 DEF Book, OpenAccount, TakeSnapshot, vars, store
  <2> QED
    BY <1>1, <2>1 DEF reading
<1>3. ASSUME NEW q \in Readers, q # r, Ask(q) \/ Read(q) PROVE Counted(r)'
  <2>1. Alone(q)
    BY <1>3, ReaderShape
  <2> QED
    BY <1>1, <1>3, <2>1 DEF Alone, store
<1>4. CASE Ask(r) \/ RequireEntity(r) \/ AnswerBalance(r) \/ ReadRows(r)
  BY <1>4 DEF Ask, RequireEntity, AnswerBalance, ReadRows, Refuse, Answer, ShapeInv, StatementTypeOK
<1>5. CASE ReadAccounts(r)
  BY <1>5, ListsNothingYet
<1>6. CASE ReadEntriesBefore(r)
  <2>1. pc[r] = "opening"
    BY <1>6 DEF ReadEntriesBefore, ShapeInv, Reader
  <2> QED
    BY <1>6, <2>1, CountsEntries DEF CountInv
<1>7. ASSUME NEW a \in Accounts, ReadSnapshot(r, a) PROVE Counted(r)'
  BY <1>7, CountsSnapshot DEF CountInv, ReadSnapshot
<1>8. ASSUME NEW a \in Accounts, MissSnapshot(r, a) PROVE Counted(r)'
  BY <1>1, <1>8 DEF MissSnapshot, store
<1> QED
  BY <1>2, <1>3, <1>4, <1>5, <1>6, <1>7, <1>8 DEF Next, Quiet, Read

(* The count is right in every reachable state.                             *)
LEMMA Counting == Spec => []CountInv
  BY CountInit, CountStep, Shape, PTL DEF Spec

(* When nothing is pending, a query is about the entries before its start   *)
(* that no snapshot stands for, and those of its period.                    *)
LEMMA SubjectIs ==
    ASSUME ShapeInv, NEW r \in Readers, pending[r] = {}, query[r].start \in Int,
           NEW T, T \subseteq journal
    PROVE  /\ query[r].kind = "balance" => Subject(r, T) = On(Settled(r), Before(T, query[r].start))
           /\ query[r].kind = "statement" /\ query[r].end \in Int =>
                Subject(r, T) = On(Settled(r), Before(T, query[r].start))
                                \cup On(Assets(listed[r]), InPeriod(T, query[r].start, query[r].end))
<1>1. PICK L, U, s, e : /\ L = Assets(listed[r]) /\ U = {x.account : x \in used[r]}
                        /\ s = query[r].start /\ e = query[r].end
  OBVIOUS
<1>2. Settled(r) = L \ U
  BY <1>1 DEF Settled
<1>3. \A t \in T : t.date \in Int
  BY PartType, EntriesType DEF Distinct
<1>4. \A y : y \in Subject(r, T) <=>
         \E t \in T : \E i \in DOMAIN t.entries :
            /\ y = <<t, i>> /\ (t.date < s \/ (query[r].kind = "statement" /\ t.date <= e))
            /\ t.entries[i].account \in L /\ ~(t.date < s /\ t.entries[i].account \in U)
  BY <1>1 DEF Subject
<1>5. \A y : y \in On(L \ U, Before(T, s)) <=>
         \E t \in T : \E i \in DOMAIN t.entries :
            /\ y = <<t, i>> /\ t.date < s /\ t.entries[i].account \in L
            /\ t.entries[i].account \notin U
  BY DEF On, Places, Before
<1>6. \A y : y \in On(L, InPeriod(T, s, e)) <=>
         \E t \in T : \E i \in DOMAIN t.entries :
            y = <<t, i>> /\ t.date >= s /\ t.date <= e /\ t.entries[i].account \in L
  BY DEF On, Places, InPeriod
<1>7. query[r].kind = "balance" => Subject(r, T) = On(L \ U, Before(T, s))
  BY <1>4, <1>5
<1>8. ASSUME query[r].kind = "statement", e \in Int, s \in Int
      PROVE  Subject(r, T) = On(L \ U, Before(T, s)) \cup On(L, InPeriod(T, s, e))
  BY <1>3, <1>4, <1>5, <1>6, <1>8
<1> QED
  BY <1>1, <1>2, <1>7, <1>8

(* The property for one reader.                                             *)
Once(r) ==
    \E X \in SUBSET (Subject(r, answer[r].upto) \ Subject(r, since[r])) :
        answer[r].closing = BaseOf(r) + SumOf(Subject(r, since[r])) + SumOf(X)

LEMMA OnceForBalance ==
    ASSUME ShapeInv, CountInv, NEW r \in Readers, AnswerBalance(r), query[r].kind = "balance",
           query[r].start \in Int, answer'[r] = Balance(opening[r])
    PROVE  Once(r)'
<1>1. Counted(r) /\ pending[r] = {} /\ since[r] \subseteq journal
  BY DEF AnswerBalance, CountInv, ShapeInv, StatementTypeOK
<1>2. Sure(r) = Subject(r, since[r]) /\ Late(r) = Subject(r, journal) \ Subject(r, since[r])
  BY <1>1, SubjectIs DEF Sure, Late
<1>3. /\ UNCHANGED <<query, listed, used, since>>
      /\ answer'[r].upto = journal /\ answer'[r].closing = opening[r]
  BY DEF AnswerBalance, Balance
<1>4. BaseOf(r)' = BaseOf(r) /\ \A T : Subject(r, T)' = Subject(r, T)
  BY <1>3 DEF BaseOf, Subject, Assets
<1> QED
  BY <1>1, <1>2, <1>3, <1>4 DEF Counted, Once

(* A statement adds the entries of its period to an opening that has none   *)
(* of them.                                                                 *)
LEMMA OnceForStatement ==
    ASSUME ShapeInv, CountInv, NEW r \in Readers, ReadRows(r), query[r].kind = "statement",
           query[r].start \in Int, query[r].end \in Int, answer'[r] = StatementOf(r)
    PROVE  Once(r)'
<1>1. Counted(r) /\ pending[r] = {} /\ since[r] \subseteq journal
  BY DEF ReadRows, CountInv, ShapeInv, StatementTypeOK
<1>2. PICK A, L, s, e : /\ A = Settled(r) /\ L = Assets(listed[r])
                        /\ s = query[r].start /\ e = query[r].end
  OBVIOUS
<1>3. PICK W, Ms, Mj : /\ W = On(L, journal) /\ Ms = On(L, InPeriod(since[r], s, e))
                       /\ Mj = On(L, InPeriod(journal, s, e))
  OBVIOUS
<1>4. PICK X \in SUBSET Late(r) : opening[r] = BaseOf(r) + SumOf(Sure(r)) + SumOf(X)
  BY <1>1 DEF Counted
<1>5. PICK more, Y : more = Sure(r) \cup Ms /\ Y = X \cup (Mj \ Ms)
  OBVIOUS
<1>6. /\ Sure(r) = On(A, Before(since[r], s)) /\ Late(r) = On(A, Before(journal, s)) \ Sure(r)
      /\ Subject(r, since[r]) = more
      /\ Subject(r, journal) = On(A, Before(journal, s)) \cup Mj
  BY <1>1, <1>2, <1>3, <1>5, SubjectIs DEF Sure, Late
<1>7. \A T, U : T \subseteq journal /\ U \subseteq journal
                 => On(A, Before(T, s)) \cap On(L, InPeriod(U, s, e)) = {}
  <2>1. \A t \in journal : t.date \in Int
    BY PartType, EntriesType DEF Distinct
  <2>2. s \in Int
    BY <1>2
  <2> QED
    BY <2>1, <2>2 DEF On, Places, Before, InPeriod
<1>8. Extends(W, Sure(r), X, Ms, Mj, more, Y)
  <2>1. Addable(W)
    BY <1>3, JournalAdds
  <2>2. A \subseteq L
    BY <1>2 DEF Settled
  <2>3. \A T : T \subseteq journal => /\ On(A, Before(T, s)) \subseteq W
                                    /\ On(L, InPeriod(T, s, e)) \subseteq W
    BY <1>3, <2>2 DEF On, Places, Before, InPeriod
  <2>4. Ms \subseteq Mj
    BY <1>1, <1>3 DEF On, InPeriod
  <2>5. Mj \subseteq W /\ Sure(r) \subseteq W /\ On(A, Before(journal, s)) \subseteq W
    BY <1>1, <1>3, <1>6, <2>3
  <2>6. Sure(r) \cap Mj = {} /\ On(A, Before(journal, s)) \cap Mj = {}
    BY <1>1, <1>3, <1>6, <1>7
  <2>7. X \subseteq On(A, Before(journal, s)) /\ X \cap Sure(r) = {}
    BY <1>4, <1>6
  <2> QED
    BY <1>5, <2>1, <2>4, <2>5, <2>6, <2>7 DEF Extends
<1>9. Y \subseteq Subject(r, journal) \ more
  <2>1. X \cap Ms = {} /\ Sure(r) \cap Mj = {}
    BY <1>8 DEF Extends
  <2> QED
    BY <1>4, <1>5, <1>6, <2>1
<1>10. Position(Rows(r), listed[r]) = SumOf(Mj)
  <2>1. PICK T, R : T = InPeriod(journal, s, e) /\ R = Rows(r)
    OBVIOUS
  <2>2. T \subseteq journal /\ R \subseteq journal
    BY <2>1, RowsPart DEF InPeriod
  <2>3. On(listed[r], R) = On(listed[r], T)
    BY <1>2, <2>1 DEF Rows, On, Places
  <2>4. Position(R, listed[r]) = Position(T, listed[r])
    BY <2>2, <2>3, JournalAdds
  <2>5. Position(T, listed[r]) = Position(T, L)
    BY <1>2, <2>2, PartType, OnlyAssetsCount
  <2> QED
    BY <1>3, <2>1, <2>2, <2>4, <2>5, JournalAdds
<1>11. /\ answer'[r].upto = journal
       /\ answer'[r].closing = opening[r] + SumOf(Mj)
  BY <1>10, StatementFigures
<1>12. BaseOf(r) \in Int
  <2>1. BaseOf(r) = BaseSum(used[r]) /\ used[r] \subseteq snapshots
    BY DEF BaseOf, BaseSum, ShapeInv, StatementTypeOK
  <2> QED
    BY <2>1, BaseAdd
<1>13. /\ SumOf(more) + SumOf(Y) = SumOf(Sure(r)) + SumOf(X) + SumOf(Mj)
       /\ SumOf(Sure(r)) \in Int /\ SumOf(X) \in Int /\ SumOf(Mj) \in Int
       /\ SumOf(more) \in Int /\ SumOf(Y) \in Int
  BY <1>8, CountMore
<1>14. answer'[r].closing = BaseOf(r) + SumOf(more) + SumOf(Y)
  BY <1>4, <1>11, <1>12, <1>13
<1>15. UNCHANGED <<query, listed, used, since>>
  BY DEF ReadRows
<1>16. BaseOf(r)' = BaseOf(r) /\ \A T : Subject(r, T)' = Subject(r, T)
  BY <1>15 DEF BaseOf, Subject, Assets
<1> QED
  BY <1>6, <1>9, <1>11, <1>14, <1>15, <1>16 DEF Once

(* A statement, or a balance as of a date, counts every entry booked before *)
(* it was asked for exactly once and no entry twice, whatever commits and   *)
(* whichever snapshots are written between the reads it is made of.         *)
THEOREM EachEntryCountsOnce == Spec => []CountsEachEntryOnce
<1>1. Init => CountsEachEntryOnce
  BY DEF Init, CountsEachEntryOnce, AnsweredAsOf, Answered
<1>2. ShapeInv /\ CountInv /\ CountsEachEntryOnce /\ [Next]_vars => CountsEachEntryOnce'
  <2> SUFFICES ASSUME ShapeInv, CountInv, CountsEachEntryOnce, [Next]_vars,
                      NEW r \in Readers, AnsweredAsOf(r)'
               PROVE  Once(r)'
    BY DEF CountsEachEntryOnce, Once
  <2>1. pc'[r] = "answered" /\ Answered(r)' /\ query'[r].start # None
    BY DEF AnsweredAsOf, Answered
  <2>2. CASE /\ pc[r] = "answered" /\ answer'[r] = answer[r] /\ query'[r] = query[r]
             /\ listed'[r] = listed[r] /\ used'[r] = used[r] /\ since'[r] = since[r]
    <3>1. Once(r)
      BY <2>1, <2>2 DEF CountsEachEntryOnce, Once, AnsweredAsOf, Answered
    <3>2. BaseOf(r)' = BaseOf(r) /\ \A T : Subject(r, T)' = Subject(r, T)
      BY <2>2 DEF BaseOf, Subject, Assets
    <3> QED
      BY <2>2, <3>1, <3>2 DEF Once
  <2>3. CASE pc[r] # "answered" /\ (Ask(r) \/ Read(r))
    <3>1. query'[r] = query[r]
      BY <2>1, <2>3, WaysToAnswer DEF ReadRows, AnswerBalance, ReadAccounts
    <3> QED
      BY <2>1, <2>3, <3>1, WaysToAnswer, OnceForBalance, OnceForStatement
  <2> QED
    BY <2>1, <2>2, <2>3, AnsweredStays
<1> QED
  BY <1>1, <1>2, Shape, Counting, PTL DEF Spec
====
