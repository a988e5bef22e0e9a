------------------------ MODULE JournalStore_proofs ------------------------
(***************************************************************************)
(* Proofs about JournalStore for every set of threads, keys and records,   *)
(* every compaction threshold and factor, and any length of the file.  The *)
(* short writes and the failed reopen that the runs show to be harmful are *)
(* named as hypotheses where a theorem needs their absence.                *)
(***************************************************************************)
EXTENDS JournalStore, FiniteSetTheorems, FunctionTheorems, SequenceTheorems,
        WellFoundedInduction, TLAPS

Lines == Seq(Rows \cup {Junk})

-----------------------------------------------------------------------------
(* What replaying a list of rows yields *)

\* A nonempty set of positions has a last one, and Max is it.
LEMMA LastExists ==
  ASSUME NEW n \in Nat, NEW S \in SUBSET (1..n), S # {}
  PROVE  Max(S) \in S /\ \A i \in S : i <= Max(S)
<1> DEFINE T == {n - i : i \in S}
<1>1. T \subseteq Nat /\ T # {}
  <2>1. \A i \in S : n - i \in Nat /\ n - i \in T
    <3>1. \A i \in 1..n : n - i \in Nat
      OBVIOUS
    <3> QED BY <3>1
  <2> QED BY <2>1
<1>2. PICK x \in T : \A y \in T : <<y, x>> \notin OpToRel(<, Nat)
  <2> HIDE DEF T
  <2> QED BY <1>1, WFMin, NatLessThanWellFounded, Zenon
<1>3. \A y \in T : ~(y < x)
  BY <1>1, <1>2 DEF OpToRel
<1>4. PICK m \in S : x = n - m
  OBVIOUS
<1>5. ASSUME NEW i \in S
      PROVE  m >= i
  <2>1. n - i \in T /\ ~(n - i < n - m)
    BY <1>3, <1>4
  <2>2. i \in Nat /\ m \in Nat
    OBVIOUS
  <2> HIDE DEF T
  <2> QED BY <2>1, <2>2
<1> QED
  BY <1>5 DEF Max

\* A line that parses is a row.
LEMMA RowsOfType ==
  ASSUME NEW s \in Lines, NEW k, NEW i \in RowsOf(s, k)
  PROVE  i \in 1..Len(s) /\ s[i] \in Rows /\ s[i].key = k
BY DEF Lines, RowsOf

\* The replayed value of a key is a record or Absent.
LEMMA ValueOfType ==
  ASSUME NEW s \in Lines, NEW k
  PROVE  ValueOf(s, k) \in Values \cup {Absent}
<1>1. CASE RowsOf(s, k) = {}
  BY <1>1 DEF ValueOf
<1>2. CASE RowsOf(s, k) # {}
  <2>1. Len(s) \in Nat /\ RowsOf(s, k) \in SUBSET (1..Len(s))
    BY DEF Lines, RowsOf
  <2>2. Max(RowsOf(s, k)) \in RowsOf(s, k)
    BY <1>2, <2>1, LastExists
  <2>3. s[Max(RowsOf(s, k))] \in Rows
    BY <2>2, RowsOfType
  <2> QED BY <1>2, <2>3 DEF ValueOf, Rows
<1> QED BY <1>1, <1>2

\* One more row changes the value of its key and of no other.
LEMMA ValueOfAppend ==
  ASSUME NEW s \in Lines, NEW r \in Rows, NEW k, Junk \notin Rows
  PROVE  ValueOf(Append(s, r), k) = IF r.key = k THEN r.val ELSE ValueOf(s, k)
<1> DEFINE t == Append(s, r)
           n == Len(s)
<1>1. n \in Nat /\ DOMAIN s = 1..n /\ DOMAIN t = 1..(n + 1)
  BY DEF Lines
<1>2. t[n + 1] = r /\ r # Junk /\ \A i \in 1..n : t[i] = s[i]
  BY DEF Lines
<1>3. CASE r.key = k
  <2>1. RowsOf(t, k) \in SUBSET (1..(n + 1)) /\ n + 1 \in RowsOf(t, k)
    BY <1>1, <1>2, <1>3 DEF RowsOf
  <2>2. Max(RowsOf(t, k)) \in RowsOf(t, k) /\ n + 1 <= Max(RowsOf(t, k))
    <3>1. n + 1 \in Nat /\ RowsOf(t, k) # {}
      BY <1>1, <2>1
    <3> HIDE DEF t, n
    <3> QED BY <2>1, <3>1, LastExists
  <2>3. Max(RowsOf(t, k)) = n + 1
    BY <1>1, <2>1, <2>2
  <2> QED BY <1>2, <1>3, <2>1, <2>3 DEF ValueOf
<1>4. CASE r.key # k
  <2>1. RowsOf(t, k) = RowsOf(s, k)
    BY <1>1, <1>2, <1>4 DEF RowsOf
  <2>2. CASE RowsOf(s, k) = {}
    BY <1>4, <2>1, <2>2 DEF ValueOf
  <2>3. CASE RowsOf(s, k) # {}
    <3>1. RowsOf(s, k) \in SUBSET (1..n)
      BY <1>1 DEF RowsOf
    <3>2. Max(RowsOf(s, k)) \in 1..n
      BY <1>1, <2>3, <3>1, LastExists
    <3>3. t[Max(RowsOf(s, k))] = s[Max(RowsOf(s, k))]
      BY <1>2, <3>2
    <3> QED BY <1>4, <2>1, <2>3, <3>3 DEF ValueOf
  <2> QED BY <2>2, <2>3
<1> QED BY <1>3, <1>4

\* The keys that have a value are finitely many: each has a row of its own.
LEMMA LiveFinite ==
  ASSUME NEW s \in Lines
  PROVE  IsFiniteSet(LiveIn(s))
<1> DEFINE f == [k \in LiveIn(s) |-> Max(RowsOf(s, k))]
<1>1. Len(s) \in Nat
  BY DEF Lines
<1>2. ASSUME NEW k \in LiveIn(s)
      PROVE  f[k] \in 1..Len(s) /\ s[f[k]].key = k
  <2>1. RowsOf(s, k) # {} /\ RowsOf(s, k) \in SUBSET (1..Len(s))
    BY DEF LiveIn, ValueOf, RowsOf, Lines
  <2>2. Max(RowsOf(s, k)) \in RowsOf(s, k)
    BY <1>1, <2>1, LastExists
  <2> QED BY <2>1, <2>2, RowsOfType
<1>3. f \in Injection(LiveIn(s), 1..Len(s))
  <2>1. f \in [LiveIn(s) -> 1..Len(s)]
    BY <1>2
  <2>2. \A a, b \in LiveIn(s) : f[a] = f[b] => a = b
    BY <1>2
  <2> HIDE DEF f
  <2> QED BY <2>1, <2>2, Fun_IsInj
<1>4. IsFiniteSet(1..Len(s))
  BY <1>1, FS_Interval
<1> HIDE DEF f
<1> QED BY <1>3, <1>4, FS_Injection

\* The elements of a finite set, each once.
LEMMA SetToSeqProperties ==
  ASSUME NEW S, IsFiniteSet(S)
  PROVE  /\ SetToSeq(S) \in Seq(S)
         /\ \A i, j \in 1..Len(SetToSeq(S)) :
              SetToSeq(S)[i] = SetToSeq(S)[j] => i = j
         /\ \A x \in S : \E i \in 1..Len(SetToSeq(S)) : SetToSeq(S)[i] = x
<1> DEFINE n == Cardinality(S)
<1>1. n \in Nat /\ ExistsBijection(1..n, S)
  BY FS_CardinalityType
<1>2. PICK g : g \in Bijection(1..n, S)
  BY <1>1 DEF ExistsBijection
<1>3. g \in [1..n -> S] /\ IsInjective(g)
  BY <1>2 DEF Bijection, Injection
<1>4. SetToSeq(S) \in [1..n -> S] /\ IsInjective(SetToSeq(S))
  BY <1>3 DEF SetToSeq
<1> DEFINE q == SetToSeq(S)
<1> HIDE DEF q
<1>5. q \in Injection(1..n, S) /\ IsFiniteSet(1..n) /\ Cardinality(1..n) = n
  BY <1>1, <1>4, FS_Interval DEF Injection, q
<1>6. q \in Surjection(1..n, S)
  BY <1>5, FS_Injection
<1>7. q \in Seq(S) /\ Len(q) = n
  BY <1>1, <1>4 DEF q
<1>8. \A i, j \in 1..n : q[i] = q[j] => i = j
  BY <1>4 DEF IsInjective, q
<1>9. \A x \in S : \E i \in 1..n : q[i] = x
  BY <1>6 DEF Surjection
<1> QED BY <1>7, <1>8, <1>9 DEF q

\* Compaction keeps every value: replaying what it writes gives the same map.
LEMMA KeptOfProperties ==
  ASSUME NEW s \in Lines, Junk \notin Rows
  PROVE  /\ KeptOf(s) \in Seq(Rows)
         /\ \A k \in Keys : ValueOf(KeptOf(s), k) = ValueOf(s, k)
<1> DEFINE S == {[key |-> k, val |-> ValueOf(s, k)] : k \in LiveIn(s)}
           f == [k \in LiveIn(s) |-> [key |-> k, val |-> ValueOf(s, k)]]
<1>1. S \subseteq Rows
  BY ValueOfType DEF LiveIn, Rows
<1>2. IsFiniteSet(S)
  <2>1. f \in Surjection(LiveIn(s), S)
    <3>1. f \in [LiveIn(s) -> S] /\ \A x \in S : \E k \in LiveIn(s) : f[k] = x
      OBVIOUS
    <3> HIDE DEF f, S
    <3> QED BY <3>1, Fun_IsSurj
  <2> HIDE DEF f, S
  <2> QED BY <2>1, LiveFinite, FS_Surjection
<1> DEFINE q == KeptOf(s)
<1>3. q = SetToSeq(S)
  BY DEF KeptOf
<1> HIDE DEF q
<1>4. /\ q \in Seq(S)
      /\ \A i, j \in 1..Len(q) : q[i] = q[j] => i = j
      /\ \A x \in S : \E i \in 1..Len(q) : q[i] = x
  <2> HIDE DEF S
  <2> QED BY <1>2, <1>3, SetToSeqProperties
<1>5. Len(q) \in Nat /\ DOMAIN q = 1..Len(q) /\ \A i \in 1..Len(q) : q[i] \in S
  <2> HIDE DEF S
  <2> QED BY <1>4, LenProperties, ElementOfSeq
<1>6. q \in Seq(Rows)
  <2> HIDE DEF S
  <2> QED BY <1>1, <1>4, SeqMonotonic
<1>7. ASSUME NEW k \in Keys
      PROVE  ValueOf(q, k) = ValueOf(s, k)
  <2>1. \A i \in RowsOf(q, k) : /\ i \in 1..Len(q)
                                /\ q[i] = [key |-> k, val |-> ValueOf(s, k)]
                                /\ k \in LiveIn(s)
    BY <1>5 DEF RowsOf
  <2>2. CASE k \in LiveIn(s)
    <3>1. PICK i \in 1..Len(q) : q[i] = [key |-> k, val |-> ValueOf(s, k)]
      BY <1>4, <2>2
    <3>2. q[i] \in Rows
      BY <1>1, <1>5
    <3>3. i \in RowsOf(q, k)
      BY <1>5, <3>1, <3>2 DEF RowsOf
    <3>4. RowsOf(q, k) \in SUBSET (1..Len(q))
      BY <2>1
    <3>5. Max(RowsOf(q, k)) \in RowsOf(q, k)
      BY <1>5, <3>3, <3>4, LastExists
    <3>6. q[Max(RowsOf(q, k))].val = ValueOf(s, k)
      BY <2>1, <3>5
    <3> QED BY <3>3, <3>6 DEF ValueOf
  <2>3. CASE k \notin LiveIn(s)
    <3>1. ValueOf(s, k) = Absent
      BY <2>3 DEF LiveIn
    <3>2. RowsOf(q, k) = {}
      BY <2>1, <2>3
    <3> QED BY <3>1, <3>2 DEF ValueOf
  <2> QED BY <2>2, <2>3
<1> QED BY <1>6, <1>7 DEF q

-----------------------------------------------------------------------------
(* The inductive invariant *)

Critical == {"write", "swap", "reopen"}
PCs      == Critical \cup {"idle", "append", "count", "decide", "compact"}

CallRecords == [pc : PCs, todo : SUBSET Rows, row : Rows \cup {None},
                rows : Nat, kept : Seq(Rows)]

\* What a call holds; only a call that still appends has rows to append.
CallInv ==
  /\ call \in [Callers -> CallRecords]
  /\ \A c \in Callers : call[c].pc \notin {"append", "write"} => call[c].todo = {}

TypeInv == TypeOK /\ CallInv

\* The lines of the file stay typed, whatever is written at its end.
LEMMA WriteType ==
  ASSUME TypeInv, StoreAssumption, NEW r \in Rows,
         \/ WriteAll(r) \/ WritePart(r) \/ Write(r) \/ UNCHANGED file
  PROVE  lines' \in Lines /\ tail' \in Rows \cup {Clean, Fragment}
<1>1. lines \in Lines /\ tail \in Rows \cup {Clean, Fragment}
  BY DEF TypeInv, TypeOK, Lines
<1>2. CASE WriteAll(r)
  <2>1. (IF tail = Clean THEN r ELSE Junk) \in Rows \cup {Junk}
    OBVIOUS
  <2> QED BY <1>1, <1>2, <2>1 DEF WriteAll, Lines
<1>3. CASE WritePart(r)
  BY <1>1, <1>3 DEF WritePart
<1>4. CASE UNCHANGED file
  BY <1>1, <1>4 DEF file
<1> QED BY <1>2, <1>3, <1>4 DEF Write

LEMMA EntriesType ==
  ASSUME TypeInv
  PROVE  Entries \in Lines
BY DEF TypeInv, TypeOK, Entries, Lines

LEMMA IdleType ==
  ASSUME NEW pc \in PCs, NEW todo \in SUBSET Rows
  PROVE  Call(pc, todo) \in CallRecords /\ Call(pc, todo).pc = pc /\ Call(pc, todo).todo = todo
BY EmptySeq DEF Call, CallRecords

\* A step of c outside the critical sections.
LEMMA QuietStep ==
  ASSUME TypeInv, NEW c \in Callers, NEW r \in CallRecords,
         call[c].pc \notin Critical, r.pc \notin Critical,
         r.pc # "append" => r.todo = {},
         handle # "closed",
         Become(c, r), UNCHANGED <<file, handle, holder, owed>>
  PROVE  TypeInv'
<1>1. call' \in [Callers -> CallRecords] /\ \A d \in Callers : call'[d] = IF d = c THEN r ELSE call[d]
  BY DEF TypeInv, CallInv, Become
<1>2. CallInv'
  BY <1>1 DEF TypeInv, CallInv
<1>3. TypeOK'
  <2>1. \A d \in Callers :
          /\ call'[d].todo \subseteq Rows
          /\ holder' = d <=> call'[d].pc \in {"write", "swap", "reopen"}
          /\ call'[d].pc = "write" => call'[d].row \in call'[d].todo
    BY <1>1 DEF TypeInv, TypeOK, CallRecords, Critical
  <2>2. handle' = "unlinked" => "reopen" \in Faults \/ \E d \in Callers : At(d, "reopen")'
    BY <1>1 DEF TypeInv, TypeOK, At, Critical
  <2> QED BY <2>1, <2>2 DEF TypeInv, TypeOK, file
<1> QED BY <1>2, <1>3 DEF TypeInv

\* c takes the mutex.
LEMMA AcquireStep ==
  ASSUME TypeInv, StoreAssumption, NEW c \in Callers, NEW r \in CallRecords,
         Free, r.pc \in {"write", "swap"},
         r.pc = "write" => r.row \in r.todo,
         r.pc = "swap" => r.todo = {},
         Become(c, r), holder' = c, UNCHANGED <<file, handle, owed>>
  PROVE  TypeInv'
<1>1. call' \in [Callers -> CallRecords] /\ \A d \in Callers : call'[d] = IF d = c THEN r ELSE call[d]
  BY DEF TypeInv, CallInv, Become
<1>2. CallInv'
  BY <1>1 DEF TypeInv, CallInv
<1>3. \A d \in Callers : call[d].pc \notin Critical
  BY DEF TypeInv, TypeOK, Free, Critical, StoreAssumption
<1>4. TypeOK'
  <2>1. \A d \in Callers :
          /\ call'[d].todo \subseteq Rows
          /\ holder' = d <=> call'[d].pc \in {"write", "swap", "reopen"}
          /\ call'[d].pc = "write" => call'[d].row \in call'[d].todo
    BY <1>1, <1>3 DEF TypeInv, TypeOK, CallRecords, Critical
  <2>2. handle' = "unlinked" => "reopen" \in Faults
    BY <1>3 DEF TypeInv, TypeOK, At, Critical
  <2> QED BY <2>1, <2>2 DEF TypeInv, TypeOK, file, Free
<1> QED BY <1>2, <1>4 DEF TypeInv

\* c leaves its critical section.
LEMMA ReleaseStep ==
  ASSUME TypeInv, StoreAssumption, NEW c \in Callers, NEW r \in CallRecords,
         call[c].pc \in Critical, r.pc \notin Critical,
         r.pc # "append" => r.todo = {},
         Become(c, r), Release, owed' \in BOOLEAN,
         lines' \in Lines, tail' \in Rows \cup {Clean, Fragment},
         \/ handle' = "live"
         \/ handle' = "unlinked" /\ "reopen" \in Faults
         \/ UNCHANGED handle /\ call[c].pc # "reopen"
  PROVE  TypeInv'
<1>1. call' \in [Callers -> CallRecords] /\ \A d \in Callers : call'[d] = IF d = c THEN r ELSE call[d]
  BY DEF TypeInv, CallInv, Become
<1>2. CallInv'
  BY <1>1 DEF TypeInv, CallInv
<1>3. /\ holder = c /\ handle # "closed"
      /\ \A d \in Callers : d # c => call[d].pc \notin Critical
  <2>1. holder = c /\ \A d \in Callers : d # c => call[d].pc \notin Critical
    BY DEF TypeInv, TypeOK, Critical
  <2>2. call[c] # Idle
    BY DEF Idle, Call, Critical
  <2> QED BY <2>1, <2>2 DEF TypeInv, TypeOK
<1>4. TypeOK'
  <2>1. \A d \in Callers :
          /\ call'[d].todo \subseteq Rows
          /\ holder' = d <=> call'[d].pc \in {"write", "swap", "reopen"}
          /\ call'[d].pc = "write" => call'[d].row \in call'[d].todo
    BY <1>1, <1>3 DEF TypeInv, TypeOK, CallRecords, Critical, Release, StoreAssumption
  <2>2. handle' = "unlinked" => "reopen" \in Faults
    BY <1>3 DEF TypeInv, TypeOK, At, Critical
  <2>3. handle' \in {"live", "unlinked"}
    BY <1>3 DEF TypeInv, TypeOK
  <2> QED BY <2>1, <2>2, <2>3 DEF TypeInv, TypeOK, Release, Lines
<1> QED BY <1>2, <1>4 DEF TypeInv

LEMMA TypeInit == Init => TypeInv
<1> SUFFICES ASSUME Init PROVE TypeInv
  OBVIOUS
<1>1. Idle \in CallRecords /\ Idle.pc = "idle" /\ Idle.todo = {}
  BY IdleType DEF Idle, PCs
<1> QED BY <1>1, EmptySeq, StoreAssumption
        DEF Init, TypeInv, TypeOK, CallInv, StoreAssumption, Critical

\* The type invariant, action by action.
LEMMA TypeNext ==
  ASSUME StoreAssumption, TypeInv, Next
  PROVE  TypeInv'
<1> USE DEF PCs, Critical
<1>0. /\ CallInv /\ holder \in Callers \cup {None} /\ owed \in BOOLEAN
      /\ \A c \in Callers : call[c] \in CallRecords /\ call[c].todo \subseteq Rows
      /\ \A c \in Callers : handle = "closed" => call[c].pc = "idle"
  BY DEF TypeInv, TypeOK, CallInv, Idle, Call
<1>1. ASSUME NEW c \in Callers, NEW k \in Keys, NEW v \in Values, Put(c, k, v)
      PROVE  TypeInv'
  <2> DEFINE r == Call("append", {[key |-> k, val |-> v]})
  <2>1. {[key |-> k, val |-> v]} \in SUBSET Rows
    BY DEF Rows
  <2>2. r \in CallRecords /\ r.pc = "append"
    BY <2>1, IdleType
  <2> QED BY <1>1, <2>2, QuietStep DEF Put, At, Free
<1>2. ASSUME NEW c \in Callers, NEW ks \in SUBSET Keys, Delete(c, ks)
      PROVE  TypeInv'
  <2> DEFINE r == Call("append", [key : ks, val : {Absent}])
  <2>1. [key : ks, val : {Absent}] \in SUBSET Rows
    BY DEF Rows
  <2>2. r \in CallRecords /\ r.pc = "append"
    BY <2>1, IdleType
  <2> QED BY <1>2, <2>2, QuietStep DEF Delete, At, Free
<1>3. ASSUME NEW c \in Callers, AppendLock(c)
      PROVE  TypeInv'
  <2>1. PICK x \in call[c].todo : Become(c, [call[c] EXCEPT !.pc = "write", !.row = x])
    BY <1>3 DEF AppendLock
  <2> DEFINE r == [call[c] EXCEPT !.pc = "write", !.row = x]
  <2>2. r \in CallRecords /\ r.pc = "write" /\ r.row = x /\ r.todo = call[c].todo
    BY <1>0 DEF CallRecords
  <2> HIDE DEF r
  <2>3. Become(c, r)
    BY <2>1 DEF r
  <2> QED BY <1>3, <2>2, <2>3, AcquireStep DEF AppendLock
<1>4. ASSUME NEW c \in Callers, AppendOk(c)
      PROVE  TypeInv'
  <2> DEFINE left == call[c].todo \ {call[c].row}
             r == Call(IF left # {} THEN "append" ELSE "count", left)
  <2>1. left \in SUBSET Rows
    BY <1>0
  <2>2. r \in CallRecords /\ r.pc \in {"append", "count"} /\ (r.pc # "append" => r.todo = {})
    <3> HIDE DEF left
    <3> QED BY <2>1, IdleType
  <2>3. Become(c, r)
    BY <1>4 DEF AppendOk, Appended
  <2>4. call[c].row \in Rows
    BY <1>0, <1>4 DEF AppendOk, At, TypeInv, TypeOK
  <2>5. lines' \in Lines /\ tail' \in Rows \cup {Clean, Fragment}
    BY <1>4, <2>4, WriteType DEF AppendOk
  <2> HIDE DEF r
  <2> QED BY <1>0, <1>4, <2>2, <2>3, <2>5, ReleaseStep DEF AppendOk, At
<1>5. ASSUME NEW c \in Callers, AppendError(c)
      PROVE  TypeInv'
  <2>1. Idle \in CallRecords /\ Idle.pc = "idle" /\ Idle.todo = {}
    BY IdleType DEF Idle
  <2>2. call[c].row \in Rows
    BY <1>0, <1>5 DEF AppendError, At, TypeInv, TypeOK
  <2>3. lines' \in Lines /\ tail' \in Rows \cup {Clean, Fragment}
    BY <1>5, <2>2, WriteType DEF AppendError
  <2> QED BY <1>5, <2>1, <2>3, ReleaseStep DEF AppendError, At, Return
<1>6. ASSUME NEW c \in Callers, CountRows(c) \/ Decide(c) \/ Compact(c)
      PROVE  TypeInv'
  <2>1. Len(Entries) \in Nat
    BY EntriesType, LenProperties DEF Lines
  <2>2. /\ Idle \in CallRecords /\ Idle.pc = "idle" /\ Idle.todo = {}
        /\ Call("compact", {}) \in CallRecords /\ Call("compact", {}).pc = "compact"
        /\ Call("compact", {}).todo = {}
    BY IdleType DEF Idle
  <2>3. /\ [call[c] EXCEPT !.pc = "decide", !.rows = Len(Entries)] \in CallRecords
        /\ [call[c] EXCEPT !.pc = "decide", !.rows = Len(Entries)].pc = "decide"
        /\ [call[c] EXCEPT !.pc = "decide", !.rows = Len(Entries)].todo = call[c].todo
        /\ [call[c] EXCEPT !.pc = "compact"] \in CallRecords
        /\ [call[c] EXCEPT !.pc = "compact"].pc = "compact"
        /\ [call[c] EXCEPT !.pc = "compact"].todo = call[c].todo
    BY <1>0, <2>1 DEF CallRecords
  <2>4. Goto(c, "compact") => Become(c, [call[c] EXCEPT !.pc = "compact"])
    BY DEF Goto, Become
  <2>5. call[c].pc \in {"count", "decide"} => call[c].todo = {}
    BY <1>0 DEF CallInv
  <2>6. CASE CountRows(c)
    BY <2>2, <2>3, <2>5, <2>6, QuietStep DEF CountRows, At, Free, Return
  <2>7. CASE Decide(c)
    BY <2>2, <2>3, <2>4, <2>5, <2>7, QuietStep DEF Decide, At, Free, Return
  <2>8. CASE Compact(c)
    BY <2>2, <2>8, QuietStep DEF Compact, At, Free
  <2> QED BY <1>6, <2>6, <2>7, <2>8
<1>7. ASSUME NEW c \in Callers, CompactRead(c)
      PROVE  TypeInv'
  <2> DEFINE r == [call[c] EXCEPT !.pc = "swap", !.kept = KeptOf(Entries)]
  <2>1. KeptOf(Entries) \in Seq(Rows)
    BY EntriesType, KeptOfProperties DEF StoreAssumption
  <2>2. r \in CallRecords /\ r.pc = "swap" /\ r.todo = {}
    BY <1>0, <1>7, <2>1 DEF CallRecords, CompactRead, At, CallInv
  <2>3. Idle \in CallRecords /\ Idle.pc = "idle" /\ Idle.todo = {}
    BY IdleType DEF Idle
  <2>4. CASE Readable
    <3>1. Become(c, r) /\ holder' = c
      BY <1>7, <2>4 DEF CompactRead
    <3> HIDE DEF r
    <3> QED BY <1>7, <2>2, <3>1, AcquireStep DEF CompactRead
  <2>5. CASE ~Readable
    BY <1>7, <2>3, <2>5, QuietStep DEF CompactRead, Return, At, Free
  <2> QED BY <2>4, <2>5
<1>8. ASSUME NEW c \in Callers, CompactRename(c)
      PROVE  TypeInv'
  <2>1. /\ call' \in [Callers -> CallRecords]
        /\ \A d \in Callers : d # c => call'[d] = call[d]
        /\ call'[c].pc = "reopen" /\ call'[c].todo = call[c].todo
    BY <1>0, <1>8, ZenonT(60) DEF CompactRename, Goto, CallInv, CallRecords
  <2>2. CallInv'
    BY <1>0, <1>8, <2>1 DEF CallInv, CompactRename, At
  <2>3. lines' \in Lines /\ tail' = Clean
    <3>1. call[c].kept \in Seq(Rows)
      BY <1>0 DEF CallRecords
    <3> QED BY <1>8, <3>1, SeqMonotonic DEF CompactRename, Lines
  <2>4. holder = c /\ holder' = holder
    BY <1>8 DEF TypeInv, TypeOK, CompactRename, At
  <2>5. \A d \in Callers :
          /\ call'[d].todo \subseteq Rows
          /\ holder' = d <=> call'[d].pc \in {"write", "swap", "reopen"}
          /\ call'[d].pc = "write" => call'[d].row \in call'[d].todo
    BY <1>8, <2>1, <2>4 DEF TypeInv, TypeOK, CallRecords
  <2> QED BY <1>0, <1>8, <2>1, <2>2, <2>3, <2>4, <2>5 DEF TypeInv, TypeOK, CompactRename, At, Lines
<1>9. ASSUME NEW c \in Callers, CompactError(c) \/ CompactReopen(c)
      PROVE  TypeInv'
  <2>1. Idle \in CallRecords /\ Idle.pc = "idle" /\ Idle.todo = {}
    BY IdleType DEF Idle
  <2>2. lines' \in Lines /\ tail' \in Rows \cup {Clean, Fragment}
    BY <1>9 DEF CompactError, CompactReopen, file, TypeInv, TypeOK, Lines
  <2>3. handle' = "live" \/ (handle' = "unlinked" /\ "reopen" \in Faults)
          \/ (UNCHANGED handle /\ call[c].pc # "reopen")
    BY <1>9 DEF CompactError, CompactReopen, At
  <2> QED BY <1>0, <1>9, <2>1, <2>2, <2>3, ReleaseStep
          DEF CompactError, CompactReopen, At, Return
<1>10. CASE Crash
  <2>1. Idle \in CallRecords /\ Idle.pc = "idle" /\ Idle.todo = {}
    BY IdleType DEF Idle
  <2>2. lines' \in Lines /\ tail' \in Rows \cup {Clean, Fragment}
    <3>1. CASE holder # None /\ handle = "live" /\ call[holder].pc = "write"
      <4>1. call[holder].row \in Rows
        BY <1>0, <3>1 DEF TypeInv, TypeOK
      <4> QED BY <1>10, <3>1, <4>1, WriteType DEF Crash
    <3>2. CASE ~(holder # None /\ handle = "live" /\ call[holder].pc = "write")
      BY <1>10, <3>2 DEF Crash, file, TypeInv, TypeOK, Lines
    <3> QED BY <3>1, <3>2
  <2>3. owed' \in BOOLEAN
    BY <1>0, <1>10 DEF Crash
  <2>4. CallInv'
    BY <1>10, <2>1 DEF Crash, CallInv
  <2> QED BY <1>10, <2>1, <2>2, <2>3, <2>4 DEF Crash, TypeInv, TypeOK, Release, Lines, StoreAssumption
<1>11. CASE Open
  <2>1. Entries \in Lines
    BY EntriesType
  <2>2. CallInv'
    BY <1>11 DEF Open, TypeInv, CallInv
  <2> QED BY <1>11, <2>1, <2>2 DEF Open, TypeInv, TypeOK, Lines, At
<1> QED BY <1>1, <1>2, <1>3, <1>4, <1>5, <1>6, <1>7, <1>8, <1>9, <1>10, <1>11 DEF Next

-----------------------------------------------------------------------------
(* What the file is like between the steps *)

\* While the journal is open the file ends with a line break, and no line is
\* damaged: what a fragment would need to do harm.
FileInv == Readable /\ (handle # "closed" => tail = Clean)

\* Between the read and the rename nobody changes the file.
SwapInv == \A c \in Callers : At(c, "swap") => call[c].kept = KeptOf(Entries)

IInv == TypeInv /\ SwapInv /\ ("short" \notin Faults => FileInv)

\* Whoever is in a critical section is alone in it, in an open journal.
LEMMA Exclusive ==
  ASSUME StoreAssumption, TypeInv, NEW c \in Callers, call[c].pc \in Critical
  PROVE  /\ holder = c /\ c # None /\ handle # "closed"
         /\ \A d \in Callers : d # c => call[d].pc \notin Critical
         /\ call[c].pc # "reopen" /\ "reopen" \notin Faults => handle = "live"
<1>1. call[c] # Idle
  BY DEF Idle, Call, Critical
<1>2. holder = c
  BY DEF TypeInv, TypeOK, Critical
<1>3. \A d \in Callers : d # c => call[d].pc \notin Critical
  BY <1>2 DEF TypeInv, TypeOK, Critical
<1>4. handle \in {"live", "unlinked"}
  BY <1>1 DEF TypeInv, TypeOK
<1>5. call[c].pc # "reopen" => \A d \in Callers : ~At(d, "reopen")
  BY <1>3 DEF At, Critical
<1> QED BY <1>2, <1>3, <1>4, <1>5 DEF TypeInv, TypeOK, StoreAssumption

\* An append to a file that ends with a line break.
LEMMA CleanWrite ==
  ASSUME StoreAssumption, TypeInv, FileInv, handle # "closed", NEW r \in Rows, WriteAll(r)
  PROVE  /\ lines' = Append(lines, r) /\ tail' = Clean
         /\ Readable' /\ Entries' = Append(Entries, r) /\ Entries = lines
<1>1. lines' = Append(lines, r) /\ tail' = Clean /\ tail = Clean
  BY DEF WriteAll, FileInv
<1>2. \A i \in DOMAIN lines' : lines'[i] # Junk
  <2>1. lines \in Lines /\ r # Junk
    BY DEF TypeInv, TypeOK, Lines, StoreAssumption
  <2>2. Len(lines) \in Nat /\ DOMAIN lines = 1..Len(lines)
    BY <2>1, LenProperties DEF Lines
  <2>3. /\ DOMAIN lines' = 1..(Len(lines) + 1)
        /\ lines'[Len(lines) + 1] = r /\ \A i \in 1..Len(lines) : lines'[i] = lines[i]
    BY <1>1, <2>1 DEF Lines
  <2>4. \A i \in 1..Len(lines) : lines[i] # Junk
    BY <2>2 DEF FileInv, Readable
  <2> QED BY <2>1, <2>2, <2>3, <2>4
<1> QED BY <1>1, <1>2 DEF Readable, Entries, StoreAssumption

\* The rest of a row at the end of a file that had none: the file reads as
\* before, or with that row.
LEMMA PartWrite ==
  ASSUME StoreAssumption, TypeInv, FileInv, handle # "closed", NEW r \in Rows, WritePart(r)
  PROVE  /\ Readable' /\ Entries = lines
         /\ Entries' = Entries \/ Entries' = Append(Entries, r)
BY DEF WritePart, FileInv, Readable, Entries, StoreAssumption

LEMMA FileNext ==
  ASSUME StoreAssumption, "short" \notin Faults, TypeInv, FileInv, Next
  PROVE  FileInv'
<1>0. ASSUME UNCHANGED <<file, handle>>
      PROVE  FileInv'
  BY <1>0 DEF FileInv, file, Readable
<1>1. ASSUME NEW c \in Callers, AppendOk(c) \/ AppendError(c)
      PROVE  FileInv'
  <2>1. call[c].pc \in Critical /\ call[c].pc = "write"
    BY <1>1 DEF AppendOk, AppendError, At, Critical
  <2>2. handle # "closed"
    BY <2>1, Exclusive
  <2>3. call[c].row \in Rows
    BY <2>1 DEF TypeInv, TypeOK
  <2>4. UNCHANGED handle /\ (UNCHANGED file \/ WriteAll(call[c].row))
    BY <1>1 DEF AppendOk, AppendError, Write
  <2>5. CASE UNCHANGED file
    BY <1>0, <2>4, <2>5
  <2>6. CASE WriteAll(call[c].row)
    BY <2>2, <2>3, <2>6, CleanWrite DEF FileInv
  <2> QED BY <2>4, <2>5, <2>6
<1>2. ASSUME NEW c \in Callers, CompactRename(c)
      PROVE  FileInv'
  <2>1. call[c].kept \in Seq(Rows)
    BY DEF TypeInv, CallInv, CallRecords
  <2>2. lines' = call[c].kept /\ tail' = Clean
    BY <1>2 DEF CompactRename
  <2>3. \A i \in DOMAIN lines' : lines'[i] \in Rows
    BY <2>1, <2>2, LenProperties, ElementOfSeq
  <2> QED BY <2>2, <2>3 DEF FileInv, Readable, StoreAssumption
<1>3. ASSUME NEW c \in Callers, CompactReopen(c)
      PROVE  FileInv'
  <2>1. handle # "closed"
    BY <1>3, Exclusive DEF CompactReopen, At, Critical
  <2> QED BY <1>3, <2>1 DEF CompactReopen, FileInv, file, Readable
<1>4. CASE Crash
  <2>1. CASE holder # None /\ handle = "live" /\ call[holder].pc = "write"
    <3>1. call[holder].row \in Rows
      BY <2>1 DEF TypeInv, TypeOK
    <3>2. UNCHANGED file \/ WritePart(call[holder].row) \/ WriteAll(call[holder].row)
      BY <1>4, <2>1 DEF Crash
    <3>3. Readable'
      <4>1. CASE UNCHANGED file
        BY <4>1 DEF FileInv, file, Readable
      <4>2. CASE WritePart(call[holder].row)
        BY <2>1, <3>1, <4>2, PartWrite
      <4>3. CASE WriteAll(call[holder].row)
        BY <2>1, <3>1, <4>3, CleanWrite
      <4> QED BY <3>2, <4>1, <4>2, <4>3
    <3> QED BY <1>4, <3>3 DEF Crash, FileInv
  <2>2. CASE ~(holder # None /\ handle = "live" /\ call[holder].pc = "write")
    BY <1>4, <2>2 DEF Crash, FileInv, file, Readable
  <2> QED BY <2>1, <2>2
<1>5. CASE Open
  <2>1. lines' = Entries /\ tail' = Clean
    BY <1>5 DEF Open
  <2>2. \A i \in DOMAIN Entries : Entries[i] # Junk
    <3>1. lines \in Lines
      BY DEF TypeInv, TypeOK, Lines
    <3>2. CASE tail \in Rows
      <4>1. Entries = Append(lines, tail) /\ tail # Junk
        BY <3>2 DEF Entries, StoreAssumption
      <4> QED BY <3>1, <4>1 DEF FileInv, Readable, Lines
    <3>3. CASE tail \notin Rows
      BY <3>3 DEF Entries, FileInv, Readable
    <3> QED BY <3>2, <3>3
  <2> QED BY <2>1, <2>2 DEF FileInv, Readable
<1>6. ASSUME NEW c \in Callers,
             \/ \E k \in Keys, v \in Values : Put(c, k, v)
             \/ \E ks \in SUBSET Keys : Delete(c, ks)
             \/ AppendLock(c) \/ CountRows(c) \/ Decide(c) \/ Compact(c)
             \/ CompactRead(c) \/ CompactError(c)
      PROVE  FileInv'
  <2>1. UNCHANGED <<file, handle>>
    BY <1>6 DEF Put, Delete, AppendLock, CountRows, Decide, Compact, CompactRead, CompactError
  <2> QED BY <1>0, <2>1
<1> QED BY <1>1, <1>2, <1>3, <1>4, <1>5, <1>6 DEF Next

LEMMA SwapNext ==
  ASSUME StoreAssumption, TypeInv, SwapInv, Next
  PROVE  SwapInv'
<1>0. call \in [Callers -> CallRecords]
  BY DEF TypeInv, CallInv
<1>1. ASSUME NEW c \in Callers, NEW r, Become(c, r), r.pc # "swap", UNCHANGED file
      PROVE  SwapInv'
  <2>1. Entries' = Entries
    BY <1>1 DEF Entries, file
  <2>2. \A d \in Callers : call'[d] = IF d = c THEN r ELSE call[d]
    BY <1>0, <1>1 DEF Become
  <2> QED BY <1>1, <2>1, <2>2 DEF SwapInv, At
<1>2. ASSUME NEW c \in Callers, call[c].pc \in Critical, NEW r, Become(c, r), r.pc # "swap"
      PROVE  SwapInv'
  <2>1. \A d \in Callers : call'[d] = IF d = c THEN r ELSE call[d]
    BY <1>0, <1>2 DEF Become
  <2>2. \A d \in Callers : call'[d].pc # "swap"
    BY <1>2, <2>1, Exclusive DEF Critical
  <2> QED BY <2>2 DEF SwapInv, At
<1>3. Idle.pc = "idle" /\ \A pc, todo : Call(pc, todo).pc = pc
  BY DEF Idle, Call
<1>4. ASSUME NEW c \in Callers,
             \/ \E k \in Keys, v \in Values : Put(c, k, v)
             \/ \E ks \in SUBSET Keys : Delete(c, ks)
             \/ Compact(c)
      PROVE  SwapInv'
  <2>1. PICK pc \in {"append", "compact"} :
          (\E todo : Become(c, Call(pc, todo))) /\ UNCHANGED file
    BY <1>4 DEF Put, Delete, Compact
  <2> QED BY <1>1, <1>3, <2>1
<1>5. ASSUME NEW c \in Callers, AppendLock(c)
      PROVE  SwapInv'
  <2>1. PICK x \in call[c].todo : Become(c, [call[c] EXCEPT !.pc = "write", !.row = x])
    BY <1>5 DEF AppendLock
  <2>2. [call[c] EXCEPT !.pc = "write", !.row = x].pc = "write"
    BY <1>0 DEF CallRecords
  <2> QED BY <1>1, <1>5, <2>1, <2>2 DEF AppendLock
<1>6. ASSUME NEW c \in Callers, CountRows(c) \/ Decide(c)
      PROVE  SwapInv'
  <2>1. /\ [call[c] EXCEPT !.pc = "decide", !.rows = Len(Entries)].pc = "decide"
        /\ [call[c] EXCEPT !.pc = "compact"].pc = "compact"
    BY <1>0 DEF CallRecords
  <2>2. Goto(c, "compact") => Become(c, [call[c] EXCEPT !.pc = "compact"])
    BY DEF Goto, Become
  <2> QED BY <1>1, <1>3, <1>6, <2>1, <2>2 DEF CountRows, Decide, Return
<1>7. ASSUME NEW c \in Callers, AppendOk(c)
      PROVE  SwapInv'
  <2>1. PICK pc \in {"append", "count"} : \E todo : Become(c, Call(pc, todo))
    BY <1>7 DEF AppendOk, Appended
  <2>2. call[c].pc \in Critical
    BY <1>7 DEF AppendOk, At, Critical
  <2> QED BY <1>2, <1>3, <2>1, <2>2
<1>8. ASSUME NEW c \in Callers, AppendError(c) \/ CompactError(c) \/ CompactReopen(c)
      PROVE  SwapInv'
  <2>1. Become(c, Idle) /\ call[c].pc \in Critical
    BY <1>8 DEF AppendError, CompactError, CompactReopen, Return, At, Critical
  <2> QED BY <1>2, <1>3, <2>1
<1>9. ASSUME NEW c \in Callers, CompactRead(c)
      PROVE  SwapInv'
  <2>1. Entries' = Entries /\ UNCHANGED file
    BY <1>9 DEF CompactRead, Entries, file
  <2>2. CASE Readable
    <3>1. call' = [call EXCEPT ![c] = [call[c] EXCEPT !.pc = "swap", !.kept = KeptOf(Entries)]]
      BY <1>9, <2>2 DEF CompactRead, Become
    <3>2. call'[c].kept = KeptOf(Entries) /\ \A d \in Callers : d # c => call'[d] = call[d]
      BY <1>0, <3>1 DEF CallRecords
    <3> QED BY <2>1, <3>2 DEF SwapInv, At
  <2>3. CASE ~Readable
    BY <1>1, <1>3, <1>9, <2>1, <2>3 DEF CompactRead, Return
  <2> QED BY <2>2, <2>3
<1>10. ASSUME NEW c \in Callers, CompactRename(c)
       PROVE  SwapInv'
  <2>1. /\ call[c].pc \in Critical /\ Become(c, [call[c] EXCEPT !.pc = "reopen"])
        /\ [call[c] EXCEPT !.pc = "reopen"].pc = "reopen"
    BY <1>0, <1>10 DEF CompactRename, At, Critical, Goto, Become, CallRecords
  <2> QED BY <1>2, <2>1
<1>11. CASE Crash
  BY <1>3, <1>11 DEF Crash, SwapInv, At
<1>12. CASE Open
  BY <1>3, <1>12 DEF Open, SwapInv, At, TypeInv, TypeOK
<1> QED BY <1>4, <1>5, <1>6, <1>7, <1>8, <1>9, <1>10, <1>11, <1>12 DEF Next

\* IInv is inductive.
LEMMA Inductive == Spec => []IInv
<1>1. Init => IInv
  <2> SUFFICES ASSUME Init PROVE IInv
    OBVIOUS
  <2>1. TypeInv
    BY TypeInit
  <2>2. SwapInv /\ FileInv
    BY DEF Init, SwapInv, FileInv, Readable, At, Idle, Call
  <2> QED BY <2>1, <2>2 DEF IInv
<1>2. IInv /\ [Next]_vars => IInv'
  <2> SUFFICES ASSUME IInv, [Next]_vars PROVE IInv'
    OBVIOUS
  <2>1. CASE Next
    BY <2>1, StoreAssumption, TypeNext, SwapNext, FileNext DEF IInv
  <2>2. CASE UNCHANGED vars
    BY <2>2 DEF vars, file, IInv, TypeInv, TypeOK, CallInv, SwapInv, FileInv, At, Entries, Readable
  <2> QED BY <2>1, <2>2
<1> QED BY <1>1, <1>2, PTL DEF Spec

-----------------------------------------------------------------------------
(* The theorems *)

\* Every variable has its type and the mutex its meaning: whoever is in a
\* critical section of FileJournal holds it, and the write handle is on the
\* file except in a swap, or after one that could not open the new file.
THEOREM TypeCorrect == Spec => []TypeOK
BY Inductive, PTL DEF IInv, TypeInv

\* heal_torn_trailing_fragment is enough: if no write of a running process stops
\* half-way, no crash at any byte ever makes the journal unreadable.
THEOREM AlwaysReadable == "short" \notin Faults => (Spec => []ReadsSucceed)
<1> SUFFICES ASSUME "short" \notin Faults
             PROVE  Spec => []ReadsSucceed
  OBVIOUS
<1>1. IInv => ReadsSucceed
  BY DEF IInv, FileInv, ReadsSucceed
<1> QED BY <1>1, Inductive, PTL

\* FileJournal::append: a row reported as written is the last row that reads
\* see, if no write stops half-way and every compaction can open its file.
THEOREM AppendsLast ==
  "short" \notin Faults /\ "reopen" \notin Faults => (Spec => AppendIsDurable)
<1> SUFFICES ASSUME "short" \notin Faults, "reopen" \notin Faults
             PROVE  Spec => AppendIsDurable
  OBVIOUS
<1>1. IInv /\ [Next]_vars
        => [\A c \in Callers :
              (At(c, "write") /\ call'[c].pc \in {"append", "count"})
                => /\ Len(Entries') > 0
                   /\ Entries'[Len(Entries')] = call[c].row]_vars
  <2> SUFFICES ASSUME IInv, [Next]_vars, NEW c \in Callers,
                      At(c, "write"), call'[c].pc \in {"append", "count"}
               PROVE  Len(Entries') > 0 /\ Entries'[Len(Entries')] = call[c].row
    OBVIOUS
  <2>1. TypeInv /\ FileInv /\ call \in [Callers -> CallRecords] /\ call[c].row \in Rows
    BY DEF IInv, TypeInv, CallInv, TypeOK, At
  <2>2. handle = "live" /\ \A d \in Callers : d # c => call[d].pc \notin Critical
    BY <2>1, StoreAssumption, Exclusive DEF At, Critical
  <2>3. AppendOk(c)
    <3>1. \A r : Idle.pc = "idle" /\ (Become(c, r) => call'[c] = r)
      BY <2>1 DEF Idle, Call, Become
    <3>2. \A d \in Callers : \A r : Become(d, r) /\ d # c => call'[c] = call[c]
      BY DEF Become
    <3>3. Next
      BY DEF vars, At
    <3>4. ~Crash /\ ~Open
      BY <2>2, <3>1 DEF Crash, Open
    <3>5. PICK d \in Callers :
            \/ \E k \in Keys, v \in Values : Put(d, k, v)
            \/ \E ks \in SUBSET Keys : Delete(d, ks)
            \/ AppendLock(d) \/ AppendOk(d) \/ AppendError(d)
            \/ CountRows(d) \/ Decide(d) \/ Compact(d)
            \/ CompactRead(d) \/ CompactRename(d) \/ CompactError(d) \/ CompactReopen(d)
      BY <3>3, <3>4 DEF Next
    <3>6. \E r : Become(d, r)
      BY <3>5 DEF Put, Delete, AppendLock, AppendOk, Appended, AppendError, CountRows, Decide,
                  Compact, CompactRead, CompactRename, CompactError, CompactReopen, Goto,
                  Become, Return
    <3>7. d = c
      BY <3>2, <3>6 DEF At
    <3> QED BY <3>1, <3>5, <3>7
            DEF Put, Delete, AppendLock, AppendError, CountRows, Decide, Compact,
                CompactRead, CompactRename, CompactError, CompactReopen, Return, At
  <2>4. Entries' = Append(Entries, call[c].row)
    BY <2>1, <2>2, <2>3, StoreAssumption, CleanWrite DEF AppendOk, Write
  <2>5. Entries \in Lines /\ Len(Entries) \in Nat
    BY <2>1, EntriesType, LenProperties DEF Lines
  <2> QED BY <2>4, <2>5 DEF Lines
<1> QED BY <1>1, Inductive, PTL DEF Spec, AppendIsDurable

-----------------------------------------------------------------------------
(* JournalStore implements DurableMap *)

\* The refinement mapping.
PMap == [k \in Keys |-> ValueOf(Entries, k)]
PDue == [c \in Callers |-> IF At(c, "idle") THEN None ELSE call[c].todo]

\* A step of c shows in the map's view as a change of its own calls only.
LEMMA DueStep ==
  ASSUME TypeInv, NEW c \in Callers, NEW r, Become(c, r)
  PROVE  PDue' = [PDue EXCEPT ![c] = IF r.pc = "idle" THEN None ELSE r.todo]
<1>1. \A d \in Callers : call'[d] = IF d = c THEN r ELSE call[d]
  BY DEF TypeInv, CallInv, Become
<1> QED BY <1>1 DEF PDue, At

LEMMA SameMap ==
  ASSUME UNCHANGED file
  PROVE  PMap' = PMap
BY DEF PMap, Entries, file

\* A row at the end of the file is one update of the map.
LEMMA MapStep ==
  ASSUME StoreAssumption, TypeInv, NEW r \in Rows, Entries' = Append(Entries, r)
  PROVE  Promise!Make(r)
<1>1. \A k \in Keys : ValueOf(Append(Entries, r), k) = IF r.key = k THEN r.val ELSE ValueOf(Entries, k)
  BY EntriesType, ValueOfAppend DEF StoreAssumption
<1>2. PMap' = [PMap EXCEPT ![r.key] = r.val]
  BY <1>1 DEF PMap
<1> QED BY <1>2 DEF Promise!Make, PMap

\* A call that has begun is a set of updates, never None.
LEMMA DueType ==
  ASSUME StoreAssumption, TypeInv, NEW c \in Callers
  PROVE  /\ call[c].pc = "idle" => PDue[c] = None
         /\ call[c].pc # "idle" => PDue[c] = call[c].todo /\ PDue[c] # None
BY DEF PDue, At, TypeInv, CallInv, CallRecords, StoreAssumption

LEMMA RefineInit == Init => Promise!Init
<1> SUFFICES ASSUME Init PROVE Promise!Init
  OBVIOUS
<1>1. Entries = << >>
  BY StoreAssumption DEF Init, Entries, StoreAssumption
<1>2. \A k \in Keys : ValueOf(Entries, k) = Absent
  BY <1>1 DEF ValueOf, RowsOf
<1>3. \A c \in Callers : At(c, "idle")
  BY DEF Init, At, Idle, Call
<1> QED BY <1>2, <1>3 DEF Promise!Init

LEMMA RefineNext ==
  ASSUME StoreAssumption, "short" \notin Faults, "reopen" \notin Faults, IInv, [Next]_vars
  PROVE  [Promise!Next]_(Promise!vars)
<1>0. TypeInv /\ FileInv /\ SwapInv /\ \A c \in Callers : call[c] \in CallRecords
  BY DEF IInv, TypeInv, CallInv
<1>a. /\ Idle.pc = "idle"
      /\ \A pc, todo : Call(pc, todo).pc = pc /\ Call(pc, todo).todo = todo
  BY DEF Idle, Call
<1>b. ASSUME PMap' = PMap, PDue' = PDue
      PROVE  [Promise!Next]_(Promise!vars)
  BY <1>b DEF Promise!vars, PMap, PDue
<1>c. ASSUME NEW c \in Callers, NEW us \in SUBSET Rows, NEW pc \in {"append", "compact"},
             At(c, "idle"), Become(c, Call(pc, us)), UNCHANGED file
      PROVE  Promise!Begin(c, us)
  <2>1. PDue' = [PDue EXCEPT ![c] = us]
    BY <1>0, <1>a, <1>c, DueStep
  <2>2. PDue[c] = None
    BY <1>0, <1>c, StoreAssumption, DueType DEF At
  <2>3. PMap' = PMap
    BY <1>c, SameMap
  <2> QED BY <2>1, <2>2, <2>3 DEF Promise!Begin, PMap, PDue
<1>d. ASSUME NEW c \in Callers, call[c].pc \notin {"idle", "append", "write"},
             Return(c), UNCHANGED file
      PROVE  Promise!Return(c)
  <2>1. PDue' = [PDue EXCEPT ![c] = None]
    BY <1>0, <1>a, <1>d, DueStep DEF Return
  <2>2. PDue[c] = {}
    BY <1>0, <1>d, StoreAssumption, DueType DEF TypeInv, CallInv
  <2>3. PMap' = PMap
    BY <1>d, SameMap
  <2> QED BY <2>1, <2>2, <2>3 DEF Promise!Return, PMap, PDue
<1>e. ASSUME NEW c \in Callers, NEW r, call[c].pc # "idle", r.pc # "idle",
             r.todo = call[c].todo, Become(c, r)
      PROVE  PDue' = PDue
  <2>1. PDue' = [PDue EXCEPT ![c] = call[c].todo]
    BY <1>0, <1>e, DueStep
  <2>2. PDue[c] = call[c].todo
    BY <1>0, <1>e, StoreAssumption, DueType
  <2> QED BY <2>1, <2>2 DEF PDue
<1>1. ASSUME NEW c \in Callers, NEW k \in Keys, NEW v \in Values, Put(c, k, v)
      PROVE  Promise!Next
  <2>1. {[key |-> k, val |-> v]} \in SUBSET Rows
    BY DEF Rows
  <2>2. Promise!Begin(c, {[key |-> k, val |-> v]})
    BY <1>1, <1>c, <2>1 DEF Put
  <2> QED BY <2>1, <2>2 DEF Promise!Next, Promise!Updates, Rows
<1>2. ASSUME NEW c \in Callers, NEW ks \in SUBSET Keys, Delete(c, ks)
      PROVE  Promise!Next
  <2>1. [key : ks, val : {Absent}] \in SUBSET Rows
    BY DEF Rows
  <2>2. Promise!Begin(c, [key : ks, val : {Absent}])
    BY <1>2, <1>c, <2>1 DEF Delete
  <2> QED BY <2>1, <2>2 DEF Promise!Next, Promise!Updates, Rows
<1>3. ASSUME NEW c \in Callers, AppendLock(c)
      PROVE  [Promise!Next]_(Promise!vars)
  <2>1. PICK x \in call[c].todo : Become(c, [call[c] EXCEPT !.pc = "write", !.row = x])
    BY <1>3 DEF AppendLock
  <2> DEFINE r == [call[c] EXCEPT !.pc = "write", !.row = x]
  <2>2. r.pc = "write" /\ r.todo = call[c].todo
    BY <1>0 DEF CallRecords
  <2> HIDE DEF r
  <2>3. Become(c, r)
    BY <2>1 DEF r
  <2>4. PDue' = PDue
    BY <1>3, <1>e, <2>2, <2>3 DEF AppendLock, At
  <2>5. PMap' = PMap
    BY <1>3, SameMap DEF AppendLock
  <2> QED BY <1>b, <2>4, <2>5
<1>4. ASSUME NEW c \in Callers, AppendOk(c)
      PROVE  Promise!Next
  <2> DEFINE u == call[c].row
  <2>1. u \in call[c].todo /\ u \in Rows
    BY <1>0, <1>4 DEF AppendOk, At, TypeInv, TypeOK
  <2>2. handle = "live"
    BY <1>0, <1>4, StoreAssumption, Exclusive DEF AppendOk, At, Critical
  <2>3. Promise!Make(u)
    <3>1. Entries' = Append(Entries, u)
      BY <1>0, <1>4, <2>1, <2>2, StoreAssumption, CleanWrite DEF AppendOk, Write
    <3> QED BY <1>0, <2>1, <3>1, StoreAssumption, MapStep
  <2>4. PDue' = [PDue EXCEPT ![c] = call[c].todo \ {u}]
    <3>1. PICK pc \in {"append", "count"} : Become(c, Call(pc, call[c].todo \ {u}))
      BY <1>4 DEF AppendOk, Appended
    <3> QED BY <1>0, <1>a, <3>1, DueStep
  <2>5. PDue[c] = call[c].todo /\ PDue[c] # None
    BY <1>0, <1>4, StoreAssumption, DueType DEF AppendOk, At
  <2>6. PDue' = [PDue EXCEPT ![c] = PDue[c] \ {u}]
    BY <2>4, <2>5
  <2>7. Promise!Apply(c)
    BY <2>1, <2>3, <2>5, <2>6 DEF Promise!Apply, PDue
  <2> QED BY <2>7 DEF Promise!Next
<1>5. ASSUME NEW c \in Callers, AppendError(c)
      PROVE  Promise!Next
  <2> DEFINE u == call[c].row
  <2>1. u \in call[c].todo /\ u \in Rows
    BY <1>0, <1>5 DEF AppendError, At, TypeInv, TypeOK
  <2>2. handle = "live"
    BY <1>0, <1>5, StoreAssumption, Exclusive DEF AppendError, At, Critical
  <2>3. UNCHANGED file \/ WriteAll(u)
    BY <1>5, <2>2 DEF AppendError, Write
  <2>4. PMap' = PMap \/ Promise!Make(u)
    <3>1. CASE UNCHANGED file
      BY <3>1, SameMap
    <3>2. CASE WriteAll(u)
      <4>1. Entries' = Append(Entries, u)
        BY <1>0, <2>1, <2>2, <3>2, StoreAssumption, CleanWrite
      <4> QED BY <1>0, <2>1, <4>1, StoreAssumption, MapStep
    <3> QED BY <2>3, <3>1, <3>2
  <2>5. PDue' = [PDue EXCEPT ![c] = None]
    BY <1>0, <1>5, <1>a, DueStep DEF AppendError, Return
  <2>6. PDue[c] = call[c].todo /\ PDue[c] # None
    BY <1>0, <1>5, StoreAssumption, DueType DEF AppendError, At
  <2>7. Promise!Fail(c)
    BY <2>1, <2>4, <2>5, <2>6 DEF Promise!Fail, PMap, PDue
  <2> QED BY <2>7 DEF Promise!Next
<1>6. ASSUME NEW c \in Callers, CountRows(c) \/ Decide(c)
      PROVE  [Promise!Next]_(Promise!vars)
  <2>1. UNCHANGED file /\ call[c].pc \in {"count", "decide"}
    BY <1>6 DEF CountRows, Decide, At
  <2>2. CASE Return(c)
    BY <1>d, <2>1, <2>2 DEF Promise!Next
  <2>3. CASE ~Return(c)
    <3>1. \/ Become(c, [call[c] EXCEPT !.pc = "decide", !.rows = Len(Entries)])
          \/ Become(c, [call[c] EXCEPT !.pc = "compact"])
      BY <1>6, <2>3 DEF CountRows, Decide, Goto, Become
    <3>2. /\ [call[c] EXCEPT !.pc = "decide", !.rows = Len(Entries)].pc = "decide"
          /\ [call[c] EXCEPT !.pc = "decide", !.rows = Len(Entries)].todo = call[c].todo
          /\ [call[c] EXCEPT !.pc = "compact"].pc = "compact"
          /\ [call[c] EXCEPT !.pc = "compact"].todo = call[c].todo
      BY <1>0 DEF CallRecords
    <3>3. PDue' = PDue
      BY <1>e, <2>1, <3>1, <3>2
    <3> QED BY <1>b, <2>1, <3>3, SameMap
  <2> QED BY <2>2, <2>3
<1>7. ASSUME NEW c \in Callers, Compact(c)
      PROVE  Promise!Next
  <2>1. Promise!Begin(c, {})
    BY <1>7, <1>c DEF Compact
  <2> QED BY <2>1 DEF Promise!Next
<1>8. ASSUME NEW c \in Callers, CompactRead(c)
      PROVE  [Promise!Next]_(Promise!vars)
  <2>1. UNCHANGED file /\ call[c].pc = "compact"
    BY <1>8 DEF CompactRead, At
  <2> DEFINE r == [call[c] EXCEPT !.pc = "swap", !.kept = KeptOf(Entries)]
  <2>2. r.pc = "swap" /\ r.todo = call[c].todo
    BY <1>0 DEF CallRecords
  <2>3. CASE Readable
    <3>1. Become(c, r)
      BY <1>8, <2>3 DEF CompactRead
    <3> HIDE DEF r
    <3>2. PDue' = PDue
      BY <1>e, <2>1, <2>2, <3>1
    <3> QED BY <1>b, <2>1, <3>2, SameMap
  <2>4. CASE ~Readable
    BY <1>8, <1>d, <2>1, <2>4 DEF CompactRead, Promise!Next
  <2> QED BY <2>3, <2>4
<1>9. ASSUME NEW c \in Callers, CompactRename(c)
      PROVE  [Promise!Next]_(Promise!vars)
  <2>1. Entries' = KeptOf(Entries)
    <3>1. lines' = KeptOf(Entries) /\ tail' = Clean
      BY <1>0, <1>9 DEF CompactRename, SwapInv, At
    <3> QED BY <3>1, StoreAssumption DEF Entries, StoreAssumption
  <2>2. \A k \in Keys : ValueOf(KeptOf(Entries), k) = ValueOf(Entries, k)
    BY <1>0, StoreAssumption, EntriesType, KeptOfProperties DEF StoreAssumption
  <2>3. PMap' = PMap
    BY <2>1, <2>2 DEF PMap
  <2>4. /\ Become(c, [call[c] EXCEPT !.pc = "reopen"]) /\ call[c].pc = "swap"
        /\ [call[c] EXCEPT !.pc = "reopen"].pc = "reopen"
        /\ [call[c] EXCEPT !.pc = "reopen"].todo = call[c].todo
    BY <1>0, <1>9 DEF CompactRename, Goto, Become, At, CallRecords
  <2>5. PDue' = PDue
    BY <1>e, <2>4
  <2> QED BY <1>b, <2>3, <2>5
<1>10. ASSUME NEW c \in Callers, CompactError(c) \/ CompactReopen(c)
       PROVE  Promise!Next
  <2>1. Return(c) /\ UNCHANGED file /\ call[c].pc \in {"swap", "reopen"}
    BY <1>10 DEF CompactError, CompactReopen, At
  <2> QED BY <1>d, <2>1 DEF Promise!Next
<1>11. CASE Crash
  <2>1. PDue' = [c \in Callers |-> None]
    BY <1>11, <1>a DEF Crash, PDue, At
  <2>2. CASE UNCHANGED file
    BY <2>1, <2>2, SameMap DEF Promise!Next, Promise!Crash, PMap, PDue
  <2>3. CASE ~UNCHANGED file
    <3> DEFINE u == call[holder].row
    <3>1. /\ holder # None /\ handle = "live" /\ call[holder].pc = "write"
          /\ WritePart(u) \/ WriteAll(u)
      BY <1>11, <2>3 DEF Crash
    <3>2. holder \in Callers /\ u \in call[holder].todo /\ u \in Rows
      BY <1>0, <3>1 DEF TypeInv, TypeOK
    <3>3. Entries' = Entries \/ Entries' = Append(Entries, u)
      BY <1>0, <3>1, <3>2, StoreAssumption, CleanWrite, PartWrite
    <3>4. PMap' = PMap \/ Promise!Make(u)
      <4>1. CASE Entries' = Entries
        BY <4>1 DEF PMap
      <4>2. CASE Entries' = Append(Entries, u)
        BY <1>0, <3>2, <4>2, StoreAssumption, MapStep
      <4> QED BY <3>3, <4>1, <4>2
    <3>5. PDue[holder] = call[holder].todo /\ PDue[holder] # None
      BY <1>0, <3>1, <3>2, StoreAssumption, DueType
    <3>6. Promise!Crash
      BY <2>1, <3>2, <3>4, <3>5 DEF Promise!Crash, PMap, PDue
    <3> QED BY <3>6 DEF Promise!Next
  <2> QED BY <2>2, <2>3
<1>12. CASE Open
  <2>1. Entries' = Entries
    BY <1>12, StoreAssumption DEF Open, Entries, StoreAssumption
  <2>2. PDue' = PDue
    BY <1>12 DEF Open, PDue, At
  <2>3. PMap' = PMap
    BY <2>1 DEF PMap
  <2> QED BY <1>b, <2>2, <2>3
<1>13. CASE UNCHANGED vars
  <2>1. PMap' = PMap /\ PDue' = PDue
    BY <1>13, SameMap DEF vars, file, PDue, At
  <2> QED BY <1>b, <2>1
<1> QED BY <1>1, <1>2, <1>3, <1>4, <1>5, <1>6, <1>7, <1>8, <1>9, <1>10, <1>11, <1>12, <1>13
        DEF Next

\* A store on the journal is a map that survives crashes: every update that was
\* reported is made, once and at one instant, and neither a crash nor a restart
\* nor a compaction by another thread changes the map; provided that no write
\* stops half-way in a running process and compactions can open their file.
THEOREM ImplementsMap ==
  "short" \notin Faults /\ "reopen" \notin Faults => (Spec => ImplementsDurableMap)
<1> SUFFICES ASSUME "short" \notin Faults, "reopen" \notin Faults
             PROVE  Spec => ImplementsDurableMap
  OBVIOUS
<1>1. Init => Promise!Init
  BY RefineInit
<1>2. IInv /\ [Next]_vars => [Promise!Next]_(Promise!vars)
  BY StoreAssumption, RefineNext
<1> QED BY <1>1, <1>2, Inductive, PTL DEF Spec, ImplementsDurableMap, Promise!Spec


-----------------------------------------------------------------------------
(* The length of the log *)

Bounded == Len(Entries) < MinRows \/ Len(Entries) <= Factor * Cardinality(Live)

\* A call that will still look at the length of the log, or at a length that is
\* not smaller.
Watches(c) == \/ call[c].pc \in {"append", "write", "count", "compact", "swap"}
              \/ call[c].pc = "decide" /\ call[c].rows >= Len(Entries)

\* Unless a call was cut off, somebody watches a log that is too long.
BoundInv ==
  ~owed => /\ Readable /\ tail = Clean
           /\ Factor # 0 => Bounded \/ \E c \in Callers : Watches(c)

LEMMA FactorGrows ==
  ASSUME NEW n \in Nat, NEW f \in Nat \ {0} PROVE n <= f * n
OBVIOUS

\* What a compaction writes has a row per live record and no other.
LEMMA KeptOfShort ==
  ASSUME NEW s \in Lines, Junk \notin Rows
  PROVE  Len(KeptOf(s)) = Cardinality(LiveIn(KeptOf(s))) /\ Cardinality(LiveIn(KeptOf(s))) \in Nat
<1> DEFINE S == {[key |-> k, val |-> ValueOf(s, k)] : k \in LiveIn(s)}
           f == [k \in LiveIn(s) |-> [key |-> k, val |-> ValueOf(s, k)]]
<1>1. LiveIn(KeptOf(s)) = LiveIn(s)
  BY KeptOfProperties DEF LiveIn
<1>2. f \in Bijection(LiveIn(s), S)
  <2>1. /\ f \in [LiveIn(s) -> S] /\ \A x \in S : \E k \in LiveIn(s) : f[k] = x
        /\ \A k, l \in LiveIn(s) : f[k] = f[l] => k = l
    OBVIOUS
  <2> HIDE DEF f, S
  <2> QED BY <2>1, Fun_IsBij
<1>3. IsFiniteSet(S) /\ Cardinality(S) = Cardinality(LiveIn(s)) /\ Cardinality(S) \in Nat
  <2> HIDE DEF f, S
  <2>1. ExistsBijection(LiveIn(s), S)
    BY <1>2 DEF ExistsBijection
  <2> QED BY <2>1, LiveFinite, FS_Bijection, FS_CardinalityType
<1> DEFINE q == KeptOf(s)
<1>4. q = SetToSeq(S)
  BY DEF KeptOf
<1> HIDE DEF q, f, S
<1>5. /\ q \in Seq(S) /\ Len(q) \in Nat /\ DOMAIN q = 1..Len(q)
      /\ \A i, j \in 1..Len(q) : q[i] = q[j] => i = j
      /\ \A x \in S : \E i \in 1..Len(q) : q[i] = x
  BY <1>3, <1>4, SetToSeqProperties, LenProperties
<1>6. q \in [1..Len(q) -> S]
  BY <1>5
<1>7. q \in Bijection(1..Len(q), S)
  BY <1>5, <1>6, Fun_IsBij
<1>8. ExistsBijection(1..Len(q), S)
  BY <1>7 DEF ExistsBijection
<1>9. Cardinality(S) = Len(q)
  BY <1>3, <1>5, <1>8, FS_CountingElements
<1> QED BY <1>1, <1>3, <1>9 DEF q

\* A log that is watched by a call that goes on watching, or by another one.
LEMMA WatchStep ==
  ASSUME StoreAssumption, TypeInv, BoundInv, NEW c \in Callers, NEW r \in CallRecords,
         Become(c, r), UNCHANGED <<file, owed>>,
         ~owed /\ Factor # 0 /\ Watches(c) =>
           \/ Bounded
           \/ r.pc \in {"append", "write", "count", "compact", "swap"}
           \/ r.pc = "decide" /\ r.rows >= Len(Entries)
  PROVE  BoundInv'
<1>1. \A d \in Callers : call'[d] = IF d = c THEN r ELSE call[d]
  BY DEF TypeInv, CallInv, Become
<1>2. Entries' = Entries /\ Readable' = Readable /\ Live' = Live /\ tail' = tail
  BY DEF Entries, Readable, Live, file
<1>3. Bounded' = Bounded
  BY <1>2 DEF Bounded
<1>4. SUFFICES ASSUME ~owed', Factor # 0, ~Bounded PROVE \E d \in Callers : Watches(d)'
  BY <1>2, <1>3 DEF BoundInv
<1>5. PICK d \in Callers : Watches(d)
  BY <1>4 DEF BoundInv
<1>6. CASE d = c
  BY <1>1, <1>2, <1>4, <1>5, <1>6 DEF Watches
<1>7. CASE d # c
  BY <1>1, <1>2, <1>5, <1>7 DEF Watches
<1> QED BY <1>6, <1>7

LEMMA BoundNext ==
  ASSUME StoreAssumption, IInv, BoundInv, Next
  PROVE  BoundInv'
<1>0. /\ TypeInv /\ SwapInv /\ Entries \in Lines /\ Len(Entries) \in Nat
      /\ call \in [Callers -> CallRecords] /\ Junk \notin Rows
      /\ Factor \in Nat /\ MinRows \in Nat
  BY EntriesType, StoreAssumption DEF IInv, TypeInv, CallInv, Lines
<1>i. Idle.pc = "idle" /\ Idle \in CallRecords
  BY IdleType DEF Idle, PCs
<1>1. ASSUME NEW c \in Callers,
             \/ \E k \in Keys, v \in Values : Put(c, k, v)
             \/ \E ks \in SUBSET Keys : Delete(c, ks)
             \/ Compact(c)
      PROVE  BoundInv'
  <2>1. PICK pc \in {"append", "compact"}, todo \in SUBSET Rows :
          Become(c, Call(pc, todo)) /\ UNCHANGED <<file, owed>>
    <3>1. CASE \E k \in Keys, v \in Values : Put(c, k, v)
      <4>1. PICK k \in Keys, v \in Values : Put(c, k, v)
        BY <3>1
      <4>2. {[key |-> k, val |-> v]} \subseteq Rows
        BY DEF Rows
      <4> QED BY <4>1, <4>2 DEF Put
    <3>2. CASE \E ks \in SUBSET Keys : Delete(c, ks)
      <4>1. PICK ks \in SUBSET Keys : Delete(c, ks)
        BY <3>2
      <4>2. [key : ks, val : {Absent}] \subseteq Rows
        BY DEF Rows
      <4> QED BY <4>1, <4>2 DEF Delete
    <3>3. CASE Compact(c)
      BY <3>3 DEF Compact
    <3> QED BY <1>1, <3>1, <3>2, <3>3
  <2>2. Call(pc, todo) \in CallRecords /\ Call(pc, todo).pc = pc
    BY IdleType DEF PCs
  <2> QED BY <1>0, <2>1, <2>2, WatchStep
<1>2. ASSUME NEW c \in Callers, AppendLock(c) PROVE BoundInv'
  <2>1. PICK x \in call[c].todo : Become(c, [call[c] EXCEPT !.pc = "write", !.row = x])
    BY <1>2 DEF AppendLock
  <2>2. [call[c] EXCEPT !.pc = "write", !.row = x] \in CallRecords
    BY <1>0 DEF CallRecords, PCs, Critical
  <2>3. [call[c] EXCEPT !.pc = "write", !.row = x].pc = "write"
    BY <1>0 DEF CallRecords
  <2> QED BY <1>0, <1>2, <2>1, <2>2, <2>3, WatchStep DEF AppendLock
<1>3. ASSUME NEW c \in Callers, AppendOk(c) PROVE BoundInv'
  <2>1. PICK pc \in {"append", "count"}, todo \in SUBSET Rows : Become(c, Call(pc, todo))
    BY <1>0, <1>3 DEF AppendOk, Appended, CallRecords
  <2>2. call'[c] = Call(pc, todo) /\ Call(pc, todo).pc = pc
    BY <1>0, <2>1 DEF Become, Call
  <2>3. Watches(c)'
    BY <2>2 DEF Watches
  <2>4. ~owed' => Readable' /\ tail' = Clean
    <3>1. call[c].row \in Rows
      BY <1>0, <1>3 DEF AppendOk, At, TypeInv, TypeOK, CallRecords
    <3>2. CASE handle = "live"
      <4>1. WriteAll(call[c].row) /\ owed' = owed
        BY <1>3, <3>2 DEF AppendOk, Write
      <4>2. ~owed => lines' = Append(lines, call[c].row) /\ tail' = Clean
        BY <4>1 DEF WriteAll, BoundInv
      <4>3. lines \in Lines /\ call[c].row # Junk
        BY <1>0, <3>1 DEF TypeInv, TypeOK, Lines
      <4> QED BY <4>1, <4>2, <4>3 DEF BoundInv, Readable, Lines
    <3>3. CASE handle # "live"
      BY <1>3, <3>3 DEF AppendOk, Write, file, BoundInv, Readable
    <3> QED BY <3>2, <3>3
  <2> QED BY <2>3, <2>4 DEF BoundInv
<1>4. ASSUME NEW c \in Callers, AppendError(c) \/ CompactError(c) PROVE BoundInv'
  BY <1>4 DEF AppendError, CompactError, BoundInv
<1>5. ASSUME NEW c \in Callers, CountRows(c) PROVE BoundInv'
  <2>1. CASE Factor # 0 /\ Readable /\ Len(Entries) >= MinRows
    <3>1. Become(c, [call[c] EXCEPT !.pc = "decide", !.rows = Len(Entries)])
      BY <1>5, <2>1 DEF CountRows
    <3>2. PICK r \in CallRecords : r = [call[c] EXCEPT !.pc = "decide", !.rows = Len(Entries)]
      BY <1>0 DEF CallRecords, PCs
    <3>3. r.pc = "decide" /\ r.rows = Len(Entries)
      BY <1>0, <3>2 DEF CallRecords
    <3>4. r.rows >= Len(Entries) /\ Become(c, r)
      BY <1>0, <3>1, <3>2, <3>3
    <3>5. UNCHANGED <<file, owed>>
      BY <1>5 DEF CountRows, file
    <3> QED BY <1>0, <1>5, <3>3, <3>4, <3>5, WatchStep
  <2>2. CASE ~(Factor # 0 /\ Readable /\ Len(Entries) >= MinRows)
    <3>1. Become(c, Idle) /\ UNCHANGED <<file, owed>>
      BY <1>5, <2>2 DEF CountRows, Return
    <3>2. ~owed /\ Factor # 0 => Bounded
      BY <1>0, <2>2 DEF BoundInv, Bounded
    <3> QED BY <1>0, <1>i, <3>1, <3>2, WatchStep
  <2> QED BY <2>1, <2>2
<1>6. ASSUME NEW c \in Callers, Decide(c) PROVE BoundInv'
  <2>1. CASE Readable /\ call[c].rows > Factor * Cardinality(Live)
    <3>1. Become(c, [call[c] EXCEPT !.pc = "compact"])
      BY <1>6, <2>1 DEF Decide, Goto, Become
    <3>2. PICK r \in CallRecords : r = [call[c] EXCEPT !.pc = "compact"]
      BY <1>0 DEF CallRecords, PCs
    <3>3. r.pc = "compact"
      BY <1>0, <3>2 DEF CallRecords
    <3> QED BY <1>0, <1>6, <3>1, <3>2, <3>3, WatchStep DEF Decide
  <2>2. CASE ~(Readable /\ call[c].rows > Factor * Cardinality(Live))
    <3>1. Become(c, Idle) /\ UNCHANGED <<file, owed>>
      BY <1>6, <2>2 DEF Decide, Return
    <3>2. ASSUME ~owed, Watches(c) PROVE Bounded
      <4>1. call[c].rows >= Len(Entries)
        BY <1>6, <3>2 DEF Watches, Decide, At
      <4>2. call[c].rows <= Factor * Cardinality(Live)
        <5>1. Cardinality(Live) \in Nat /\ call[c].rows \in Nat
          BY <1>0, LiveFinite, FS_CardinalityType DEF Live, CallRecords
        <5>2. Factor * Cardinality(Live) \in Nat
          BY <1>0, <5>1
        <5> QED BY <2>2, <3>2, <5>1, <5>2 DEF BoundInv
      <4>3. Factor * Cardinality(Live) \in Nat /\ call[c].rows \in Nat
        BY <1>0, LiveFinite, FS_CardinalityType DEF Live, CallRecords
      <4> QED BY <1>0, <4>1, <4>2, <4>3 DEF Bounded
    <3> QED BY <1>0, <1>i, <3>1, <3>2, WatchStep
  <2> QED BY <2>1, <2>2
<1>7. ASSUME NEW c \in Callers, CompactRead(c) PROVE BoundInv'
  <2>1. CASE Readable
    <3>1. Become(c, [call[c] EXCEPT !.pc = "swap", !.kept = KeptOf(Entries)])
      BY <1>7, <2>1 DEF CompactRead
    <3>2. PICK r \in CallRecords : r = [call[c] EXCEPT !.pc = "swap", !.kept = KeptOf(Entries)]
      BY <1>0, KeptOfProperties DEF CallRecords, PCs, Critical
    <3>3. r.pc = "swap"
      BY <1>0, <3>2 DEF CallRecords
    <3> QED BY <1>0, <1>7, <3>1, <3>2, <3>3, WatchStep DEF CompactRead
  <2>2. CASE ~Readable
    BY <1>0, <1>i, <1>7, <2>2, WatchStep DEF CompactRead, Return, BoundInv
  <2> QED BY <2>1, <2>2
<1>8. ASSUME NEW c \in Callers, CompactRename(c) PROVE BoundInv'
  <2>1. lines' = KeptOf(Entries) /\ tail' = Clean
    BY <1>0, <1>8 DEF CompactRename, SwapInv, At
  <2>2. KeptOf(Entries) \in Seq(Rows)
    BY <1>0, KeptOfProperties
  <2>3. Readable'
    BY <1>0, <2>1, <2>2 DEF Readable
  <2>4. Entries' = KeptOf(Entries)
    BY <2>1, StoreAssumption DEF Entries
  <2>5. Len(Entries') = Cardinality(Live') /\ Cardinality(Live') \in Nat
    BY <1>0, <2>4, KeptOfShort DEF Live
  <2>6. Factor # 0 => Bounded'
    BY <1>0, <2>5, FactorGrows DEF Bounded
  <2> QED BY <2>1, <2>3, <2>6 DEF BoundInv
<1>9. ASSUME NEW c \in Callers, CompactReopen(c) PROVE BoundInv'
  <2>1. Become(c, Idle) /\ UNCHANGED <<file, owed>> /\ ~Watches(c)
    BY <1>9 DEF CompactReopen, Return, At, Watches
  <2> QED BY <1>0, <1>i, <2>1, WatchStep
<1>10. CASE Crash
  <2> SUFFICES ASSUME ~owed' PROVE BoundInv'
    BY DEF BoundInv
  <2>1. ~owed /\ \A c \in Callers : call[c].pc \in {"idle", "reopen"}
    BY <1>0, <1>10 DEF Crash, TypeInv, TypeOK
  <2>2. holder # None => holder \in Callers
    BY <1>0 DEF TypeInv, TypeOK
  <2>3. UNCHANGED file
    BY <1>10, <2>1, <2>2 DEF Crash
  <2>4. Readable /\ tail = Clean /\ (Factor # 0 => Bounded)
    BY <2>1 DEF BoundInv, Watches
  <2> QED BY <2>3, <2>4 DEF BoundInv, Bounded, Readable, Entries, Live, file
<1>11. CASE Open
  <2> SUFFICES ASSUME ~owed' PROVE BoundInv'
    BY DEF BoundInv
  <2>1. ~owed /\ tail = Clean /\ tail' = Clean /\ lines' = Entries /\ Readable /\ UNCHANGED call
    BY <1>11 DEF Open, BoundInv
  <2>2. lines' = lines /\ Entries' = Entries /\ Readable'
    BY <2>1, StoreAssumption DEF Entries, Readable
  <2> QED BY <2>1, <2>2 DEF BoundInv, Bounded, Watches, Live
<1> QED BY <1>1, <1>2, <1>3, <1>4, <1>5, <1>6, <1>7, <1>8, <1>9, <1>10, <1>11 DEF Next

\* Compaction keeps the log from growing whatever threads do between the reads
\* of each other's checks, and whatever writes fail: when all calls have ended,
\* the log is short or at most Factor times the live records, unless a call was
\* cut off since the last compaction.
THEOREM LogStaysBounded == Spec => []LogBounded
<1>1. Init => BoundInv
  <2> SUFFICES ASSUME Init PROVE BoundInv
    OBVIOUS
  <2>1. TypeInv /\ lines = <<>> /\ tail = Clean
    BY TypeInit DEF Init
  <2>2. Entries = <<>> /\ Readable
    BY <2>1, StoreAssumption DEF Entries, Readable
  <2>3. Cardinality(Live) \in Nat
    BY <2>1, EntriesType, LiveFinite, FS_CardinalityType DEF Live
  <2>4. Factor * Cardinality(Live) >= 0
    BY <2>3, StoreAssumption
  <2>5. Bounded
    BY <2>2, <2>4 DEF Bounded
  <2> QED BY <2>1, <2>2, <2>5 DEF BoundInv
<1>2. IInv /\ BoundInv /\ [Next]_vars => BoundInv'
  <2> SUFFICES ASSUME IInv, BoundInv, [Next]_vars PROVE BoundInv'
    OBVIOUS
  <2>1. CASE Next
    BY <2>1, StoreAssumption, BoundNext
  <2>2. CASE UNCHANGED vars
    BY <2>2 DEF vars, file, BoundInv, Bounded, Watches, Readable, Entries, Live
  <2> QED BY <2>1, <2>2
<1>3. BoundInv => LogBounded
  BY DEF BoundInv, Bounded, Watches, LogBounded, At
<1> QED BY <1>1, <1>2, <1>3, Inductive, PTL DEF Spec
=============================================================================
