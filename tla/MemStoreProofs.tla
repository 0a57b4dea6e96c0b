--------------------------- MODULE MemStoreProofs ---------------------------
(***************************************************************************)
(* Proofs that the store's invariants hold for every set of streams and    *)
(* ingesters, every budget and every retention window, and that with its   *)
(* mutex, its loops and its processes it keeps the promise of SampleStore. *)
(***************************************************************************)
EXTENDS MemStore, FiniteSetTheorems, SequenceTheorems, TLAPS

USE DEF Times

-----------------------------------------------------------------------------
(* The two ways a stream is rebuilt.                                       *)

\* Insert makes a sequence that is one longer: s behind the first i elements,
\* the others in their order (Append's append, copy and assignment).
LEMMA InsertProperties ==
    ASSUME NEW S, NEW ss \in Seq(S), NEW s \in S, NEW i \in 0 .. Len(ss)
    PROVE  /\ Insert(ss, i, s) \in Seq(S)
           /\ Len(Insert(ss, i, s)) = Len(ss) + 1
           /\ \A j \in 1 .. Len(ss) + 1 :
                 Insert(ss, i, s)[j] = IF j <= i THEN ss[j]
                                       ELSE IF j = i + 1 THEN s
                                       ELSE ss[j - 1]
<1>1. /\ Len(ss) \in Nat
      /\ \A j \in 1 .. Len(ss) : ss[j] \in S
    BY LenProperties, ElementOfSeq
<1>2. Insert(ss, i, s) \in [1 .. Len(ss) + 1 -> S]
    BY <1>1 DEF Insert
<1>3. Insert(ss, i, s) \in Seq(S)
    BY <1>1, <1>2, SeqDef
<1>4. Len(Insert(ss, i, s)) = Len(ss) + 1
    BY <1>1, <1>2, <1>3, LenProperties
<1> QED
    BY <1>3, <1>4 DEF Insert

\* Suffix drops the first i elements and keeps the rest in order (the reslices
\* of DropOldest and DropBefore).
LEMMA SuffixProperties ==
    ASSUME NEW S, NEW ss \in Seq(S), NEW i \in 0 .. Len(ss)
    PROVE  /\ Suffix(ss, i) \in Seq(S)
           /\ Len(Suffix(ss, i)) = Len(ss) - i
           /\ \A j \in 1 .. Len(ss) - i : Suffix(ss, i)[j] = ss[i + j]
<1>1. /\ Len(ss) \in Nat
      /\ \A j \in 1 .. Len(ss) : ss[j] \in S
    BY LenProperties, ElementOfSeq
<1>2. Suffix(ss, i) \in [1 .. Len(ss) - i -> S]
    BY <1>1 DEF Suffix
<1>3. Suffix(ss, i) \in Seq(S)
    BY <1>1, <1>2, SeqDef
<1>4. Len(Suffix(ss, i)) = Len(ss) - i
    BY <1>1, <1>2, <1>3, LenProperties
<1> QED
    BY <1>3, <1>4 DEF Suffix

\* The excess is a natural number, positive only over budget (Budget.Excess).
LEMMA ExcessType ==
    ASSUME NEW c \in Int
    PROVE  /\ Excess(c) \in Nat
           /\ MaxSamples > 0 /\ Excess(c) > 0 => c = MaxSamples + Excess(c)
           /\ MaxSamples > 0 /\ ~ (Excess(c) > 0) => c <= MaxSamples
    BY BoundAssumption DEF Excess

-----------------------------------------------------------------------------
(* Types, the mutex and non-empty entries, which hold together.            *)

Base == TypeOK /\ LockInv /\ NoEmptyEntry

\* The entry of a stream, present or not, is a sequence of samples.
LEMMA EntryType ==
    ASSUME TypeOK, NEW id
    PROVE  /\ Entry(id) \in Seq(Sample)
           /\ Len(Entry(id)) \in Nat
    BY EmptySeq, LenProperties DEF TypeOK, Entry

\* A stored stream is a sequence with at least one sample.
LEMMA StreamType ==
    ASSUME TypeOK, NoEmptyEntry, NEW id \in DOMAIN streams
    PROVE  /\ id \in StreamIDs
           /\ streams[id] \in Seq(Sample)
           /\ Len(streams[id]) \in Nat \ {0}
           /\ \A i \in 1 .. Len(streams[id]) :
                 /\ streams[id][i].time \in Int
                 /\ streams[id][i].arrival \in Int
<1>1. streams[id] \in Seq(Sample) /\ id \in StreamIDs
    BY DEF TypeOK
<1>2. Len(streams[id]) \in Nat \ {0}
    BY <1>1, EmptySeq DEF NoEmptyEntry
<1>3. ASSUME NEW i \in 1 .. Len(streams[id])
      PROVE  streams[id][i].time \in Int /\ streams[id][i].arrival \in Int
  <2>1. streams[id][i] \in Sample
      BY <1>1, ElementOfSeq
  <2> QED
      BY <2>1, BoundAssumption DEF Sample
<1> QED
    BY <1>1, <1>2, <1>3

\* What Append does to the map: one stream gets one sample, at a place its scan
\* can stop at.
LEMMA AppendEffect ==
    ASSUME TypeOK, NoEmptyEntry, NEW p, StoreAppend(p)
    PROVE  \E id \in StreamIDs, t \in Times : \E i \in ScanResult(Entry(id), t) :
              /\ DOMAIN streams' = DOMAIN streams \cup {id}
              /\ streams' = [x \in DOMAIN streams' |-> streams'[x]]
              /\ \A x \in DOMAIN streams : x # id => streams'[x] = streams[x]
              /\ streams'[id] \in Seq(Sample)
              /\ Len(streams'[id]) = Len(Entry(id)) + 1
              /\ \A j \in 1 .. Len(Entry(id)) + 1 :
                   streams'[id][j] =
                       IF j <= i THEN Entry(id)[j]
                       ELSE IF j = i + 1
                            THEN [time |-> t, arrival |-> arrivals + 1]
                            ELSE Entry(id)[j - 1]
<1> PICK id \in StreamIDs, t \in Times : \E i \in ScanResult(Entry(id), t) :
         streams' = Put(id, Insert(Entry(id), i,
                                   [time |-> t, arrival |-> arrivals + 1]))
    BY DEF StoreAppend
<1> PICK i \in ScanResult(Entry(id), t) :
         streams' = Put(id, Insert(Entry(id), i,
                                   [time |-> t, arrival |-> arrivals + 1]))
    OBVIOUS
<1>s. PICK s : s = [time |-> t, arrival |-> arrivals + 1]
    OBVIOUS
<1>1. Entry(id) \in Seq(Sample) /\ i \in 0 .. Len(Entry(id))
    BY EntryType DEF ScanResult
<1>2. s \in Sample
    BY <1>s, BoundAssumption DEF Sample, StoreAppend, TypeOK
<1>3. /\ Insert(Entry(id), i, s) \in Seq(Sample)
      /\ Len(Insert(Entry(id), i, s)) = Len(Entry(id)) + 1
      /\ \A j \in 1 .. Len(Entry(id)) + 1 :
            Insert(Entry(id), i, s)[j] = IF j <= i THEN Entry(id)[j]
                                         ELSE IF j = i + 1 THEN s
                                         ELSE Entry(id)[j - 1]
  <2>1. PICK ss : ss = Entry(id)
      OBVIOUS
  <2>2. /\ Insert(ss, i, s) \in Seq(Sample)
        /\ Len(Insert(ss, i, s)) = Len(ss) + 1
        /\ \A j \in 1 .. Len(ss) + 1 :
              Insert(ss, i, s)[j] = IF j <= i THEN ss[j]
                                    ELSE IF j = i + 1 THEN s
                                    ELSE ss[j - 1]
    <3>1. ss \in Seq(Sample) /\ i \in 0 .. Len(ss)
        BY <1>1, <2>1
    <3> QED
        BY <3>1, <1>2, InsertProperties
  <2> QED
      BY <2>1, <2>2
<1>4. /\ DOMAIN streams' = DOMAIN streams \cup {id}
      /\ streams' = [x \in DOMAIN streams' |-> streams'[x]]
      /\ \A x \in DOMAIN streams : x # id => streams'[x] = streams[x]
      /\ streams'[id] = Insert(Entry(id), i, s)
    BY <1>s DEF Put
<1>5. \A j \in 1 .. Len(Entry(id)) + 1 :
         streams'[id][j] = IF j <= i THEN Entry(id)[j]
                           ELSE IF j = i + 1
                                THEN [time |-> t, arrival |-> arrivals + 1]
                                ELSE Entry(id)[j - 1]
    BY <1>s, <1>3, <1>4
<1>6. streams'[id] \in Seq(Sample) /\ Len(streams'[id]) = Len(Entry(id)) + 1
    BY <1>3, <1>4
<1> WITNESS id \in StreamIDs, t \in Times
<1> WITNESS i \in ScanResult(Entry(id), t)
<1> QED
    BY <1>4, <1>5, <1>6

\* What dropping the first i samples of a stream does to the map.
LEMMA DropFirstEffect ==
    ASSUME TypeOK, NoEmptyEntry, NEW id \in DOMAIN streams,
           NEW i \in 1 .. Len(streams[id]), streams' = DropFirst(id, i)
    PROVE  /\ DOMAIN streams' =
                 IF i = Len(streams[id]) THEN DOMAIN streams \ {id}
                                         ELSE DOMAIN streams
           /\ streams' = [x \in DOMAIN streams' |-> streams'[x]]
           /\ \A x \in DOMAIN streams' : x # id => streams'[x] = streams[x]
           /\ id \in DOMAIN streams' =>
                 /\ streams'[id] \in Seq(Sample)
                 /\ Len(streams'[id]) = Len(streams[id]) - i
                 /\ \A j \in 1 .. Len(streams[id]) - i :
                       streams'[id][j] = streams[id][i + j]
<1>1. streams[id] \in Seq(Sample) /\ Len(streams[id]) \in Nat \ {0}
    BY StreamType
<1>2. CASE i = Len(streams[id])
    BY <1>2 DEF DropFirst, Delete
<1>3. CASE i # Len(streams[id])
  <2>1. /\ Suffix(streams[id], i) \in Seq(Sample)
        /\ Len(Suffix(streams[id], i)) = Len(streams[id]) - i
        /\ \A j \in 1 .. Len(streams[id]) - i :
              Suffix(streams[id], i)[j] = streams[id][i + j]
      BY <1>1, SuffixProperties
  <2>2. /\ DOMAIN streams' = DOMAIN streams
        /\ streams' = [x \in DOMAIN streams' |-> streams'[x]]
        /\ \A x \in DOMAIN streams' : x # id => streams'[x] = streams[x]
        /\ streams'[id] = Suffix(streams[id], i)
      BY <1>3 DEF DropFirst, Put
  <2> QED
      BY <1>3, <2>1, <2>2
<1> QED
    BY <1>2, <1>3

\* It leaves the map well formed.
LEMMA DropFirstType ==
    ASSUME TypeOK, NoEmptyEntry, NEW id \in DOMAIN streams,
           NEW i \in 1 .. Len(streams[id]), streams' = DropFirst(id, i)
    PROVE  /\ DOMAIN streams \ {id} \subseteq DOMAIN streams'
           /\ DOMAIN streams' \subseteq StreamIDs
           /\ streams' = [x \in DOMAIN streams' |-> streams'[x]]
           /\ \A x \in DOMAIN streams' : streams'[x] \in Seq(Sample)
           /\ NoEmptyEntry'
<1>1. Len(streams[id]) \in Nat
    BY StreamType
<1>2. \A x \in DOMAIN streams' : x # id => streams'[x] = streams[x]
    BY DropFirstEffect
<1>3. id \in DOMAIN streams' =>
         /\ streams'[id] \in Seq(Sample)
         /\ Len(streams'[id]) = Len(streams[id]) - i
         /\ i # Len(streams[id])
    BY DropFirstEffect
<1>4. id \in DOMAIN streams' => streams'[id] # << >>
    BY <1>1, <1>3, EmptySeq
<1>5. /\ DOMAIN streams' \subseteq DOMAIN streams
      /\ DOMAIN streams \ {id} \subseteq DOMAIN streams'
      /\ streams' = [x \in DOMAIN streams' |-> streams'[x]]
    BY DropFirstEffect
<1> QED
    BY <1>2, <1>3, <1>4, <1>5 DEF TypeOK, NoEmptyEntry

\* The empty store with a free mutex satisfies Base.
LEMMA BaseInit == Init => Base
<1> SUFFICES ASSUME Init PROVE Base
    OBVIOUS
<1>1. DOMAIN streams = {}
    BY DEF Init
<1> QED
    BY <1>1, ProcessAssumption, BoundAssumption
    DEF Init, Base, TypeOK, LockInv, NoEmptyEntry

\* Every step keeps the types, the mutex and the entries as they should be.
LEMMA BaseStep == Base /\ [Next]_vars => Base'
<1> SUFFICES ASSUME Base, [Next]_vars PROVE Base'
    OBVIOUS
<1> USE ProcessAssumption, BoundAssumption
<1>0. TypeOK /\ LockInv /\ NoEmptyEntry
    BY DEF Base
<1>1. ASSUME NEW p \in Ingesters, StoreAppend(p) PROVE Base'
  <2> PICK id \in StreamIDs :
           /\ DOMAIN streams' = DOMAIN streams \cup {id}
           /\ streams' = [x \in DOMAIN streams' |-> streams'[x]]
           /\ \A x \in DOMAIN streams : x # id => streams'[x] = streams[x]
           /\ streams'[id] \in Seq(Sample)
           /\ Len(streams'[id]) = Len(Entry(id)) + 1
      BY <1>0, <1>1, AppendEffect
  <2>1. Len(Entry(id)) \in Nat
      BY <1>0, EntryType
  <2>2. streams'[id] # << >>
      BY <2>1, EmptySeq
  <2>6. /\ DOMAIN streams' \subseteq StreamIDs
        /\ \A x \in DOMAIN streams' : streams'[x] \in Seq(Sample)
        /\ NoEmptyEntry'
      BY <1>0, <2>2 DEF TypeOK, NoEmptyEntry
  <2>7. TypeOK'
    <3>1. /\ count' \in Int
          /\ arrivals' \in 0 .. MaxArrivals
          /\ pc' \in [Ingesters \cup {Evictor} ->
                        {"idle", "count", "drop", "dropping"}]
          /\ UNCHANGED <<lock, n, cutoff, todo, clock>>
        BY <1>0, <1>1 DEF TypeOK, StoreAppend
    <3> QED
        BY <1>0, <2>6, <3>1 DEF TypeOK
  <2>8. LockInv'
      BY <1>0, <1>1, <2>6 DEF LockInv, StoreAppend, TypeOK
  <2> QED
      BY <2>6, <2>7, <2>8 DEF Base
<1>2. ASSUME NEW p \in Ingesters, StoreCount(p) PROVE Base'
  <2>1. Excess(count) \in Nat
      BY <1>0, ExcessType DEF TypeOK
  <2>2. TypeOK'
      BY <1>0, <1>2, <2>1 DEF TypeOK, StoreCount
  <2>3. LockInv'
      BY <1>0, <1>2, <2>1 DEF LockInv, StoreCount, TypeOK
  <2> QED
      BY <1>0, <1>2, <2>2, <2>3 DEF Base, NoEmptyEntry, StoreCount
<1>3. ASSUME NEW p \in Ingesters, DropOldestLock(p) PROVE Base'
  <2>1. TypeOK'
      BY <1>0, <1>3 DEF TypeOK, DropOldestLock
  <2>2. LockInv'
      BY <1>0, <1>3 DEF LockInv, DropOldestLock, TypeOK
  <2> QED
      BY <1>0, <1>3, <2>1, <2>2 DEF Base, NoEmptyEntry, DropOldestLock
<1>4. ASSUME NEW p \in Ingesters, DropOldestStep(p) PROVE Base'
  <2> PICK id \in DOMAIN streams : streams' = DropFirst(id, 1)
      BY <1>4 DEF DropOldestStep
  <2>1. 1 \in 1 .. Len(streams[id])
      BY <1>0, StreamType
  <2>2. /\ DOMAIN streams' \subseteq StreamIDs
        /\ streams' = [x \in DOMAIN streams' |-> streams'[x]]
        /\ \A x \in DOMAIN streams' : streams'[x] \in Seq(Sample)
        /\ NoEmptyEntry'
      BY <1>0, <2>1, DropFirstType
  <2>3. TypeOK'
      BY SMTT(30), <1>0, <1>4, <2>2 DEF TypeOK, DropOldestStep
  <2>4. LockInv'
      BY <1>0, <1>4 DEF LockInv, DropOldestStep, TypeOK
  <2> QED
      BY <2>2, <2>3, <2>4 DEF Base
<1>5. ASSUME NEW p \in Ingesters, DropOldestReturn(p) PROVE Base'
  <2>1. TypeOK'
      BY <1>0, <1>5 DEF TypeOK, DropOldestReturn
  <2>2. LockInv'
      BY <1>0, <1>5 DEF LockInv, DropOldestReturn, TypeOK
  <2> QED
      BY <1>0, <1>5, <2>1, <2>2 DEF Base, NoEmptyEntry, DropOldestReturn
<1>6. ASSUME EvictorRun PROVE Base'
  <2>1. TypeOK'
      BY <1>0, <1>6 DEF TypeOK, EvictorRun
  <2>2. LockInv'
      BY <1>0, <1>6 DEF LockInv, EvictorRun, TypeOK
  <2> QED
      BY <1>0, <1>6, <2>1, <2>2 DEF Base, NoEmptyEntry, EvictorRun
<1>7. ASSUME DropBeforeLock PROVE Base'
  <2>1. TypeOK'
      BY <1>0, <1>7 DEF TypeOK, DropBeforeLock
  <2>2. LockInv'
      BY <1>0, <1>7 DEF LockInv, DropBeforeLock, TypeOK
  <2> QED
      BY <1>0, <1>7, <2>1, <2>2 DEF Base, NoEmptyEntry, DropBeforeLock
<1>8. ASSUME DropBeforeStep PROVE Base'
  <2> PICK id \in todo : \E i \in SearchResult(streams[id], cutoff) :
           /\ streams' = IF i = 0 THEN streams ELSE DropFirst(id, i)
           /\ count' = count - i
           /\ todo' = todo \ {id}
      BY <1>8 DEF DropBeforeStep
  <2> PICK i \in SearchResult(streams[id], cutoff) :
           /\ streams' = IF i = 0 THEN streams ELSE DropFirst(id, i)
           /\ count' = count - i
           /\ todo' = todo \ {id}
      OBVIOUS
  <2>1. id \in DOMAIN streams
      BY <1>0, <1>8 DEF LockInv, DropBeforeStep
  <2>2. Len(streams[id]) \in Nat /\ i \in 0 .. Len(streams[id])
      BY <1>0, <2>1, StreamType DEF SearchResult
  <2>4. /\ DOMAIN streams \ {id} \subseteq DOMAIN streams'
        /\ DOMAIN streams' \subseteq StreamIDs
        /\ streams' = [x \in DOMAIN streams' |-> streams'[x]]
        /\ \A x \in DOMAIN streams' : streams'[x] \in Seq(Sample)
        /\ NoEmptyEntry'
    <3>1. CASE i = 0
        BY <1>0, <3>1 DEF TypeOK, NoEmptyEntry
    <3>2. CASE i # 0
      <4>1. i \in 1 .. Len(streams[id])
          BY <2>2, <3>2
      <4> QED
          BY <1>0, <2>1, <3>2, <4>1, DropFirstType
    <3> QED
        BY <3>1, <3>2
  <2>5. TypeOK'
      BY <1>0, <1>8, <2>2, <2>4 DEF TypeOK, DropBeforeStep
  <2>6. LockInv'
      BY <1>0, <1>8, <2>4 DEF LockInv, DropBeforeStep, TypeOK
  <2> QED
      BY <2>4, <2>5, <2>6 DEF Base
<1>9. ASSUME DropBeforeReturn PROVE Base'
  <2>1. TypeOK'
      BY <1>0, <1>9 DEF TypeOK, DropBeforeReturn
  <2>2. LockInv'
      BY <1>0, <1>9 DEF LockInv, DropBeforeReturn, TypeOK
  <2> QED
      BY <1>0, <1>9, <2>1, <2>2 DEF Base, NoEmptyEntry, DropBeforeReturn
<1>10. ASSUME Tick PROVE Base'
    BY <1>0, <1>10 DEF Base, TypeOK, LockInv, NoEmptyEntry, Tick
<1>11. ASSUME UNCHANGED vars PROVE Base'
    BY <1>0, <1>11 DEF Base, TypeOK, LockInv, NoEmptyEntry, vars
<1> QED
    BY <1>1, <1>2, <1>3, <1>4, <1>5, <1>6, <1>7, <1>8, <1>9, <1>10, <1>11
    DEF Next

\* Base holds always.
LEMMA BaseInvariant == Spec => []Base
    BY BaseInit, BaseStep, PTL DEF Spec

\* Type correctness of the store, its ingesters and its evictor.
THEOREM TypeCorrect == Spec => []TypeOK
<1>1. Base => TypeOK
    BY DEF Base
<1> QED
    BY <1>1, BaseInvariant, PTL

\* The map never holds an empty entry, so that ss[0] in DropOldest exists
\* (memstore.go, DropOldest).
THEOREM NeverEmptyEntry == Spec => []NoEmptyEntry
<1>1. Base => NoEmptyEntry
    BY DEF Base
<1> QED
    BY <1>1, BaseInvariant, PTL

-----------------------------------------------------------------------------
(* The counter.                                                            *)

\* A slot is a stream of the map and an index into it.
LEMMA SlotMembership ==
    \A x : x \in Slots <=> \E id \in DOMAIN streams :
                             \E k \in 1 .. Len(streams[id]) : x = <<id, k>>
    BY DEF Slots

\* Appending a sample takes up one more slot.
LEMMA AppendSlots ==
    ASSUME Base, CountExact, NEW p, StoreAppend(p)
    PROVE  CountExact'
<1>0. TypeOK /\ NoEmptyEntry
    BY DEF Base
<1>1. PICK id \in StreamIDs :
           /\ DOMAIN streams' = DOMAIN streams \cup {id}
           /\ \A x \in DOMAIN streams : x # id => streams'[x] = streams[x]
           /\ Len(streams'[id]) = Len(Entry(id)) + 1
    BY <1>0, AppendEffect
<1>2. /\ Len(Entry(id)) \in Nat
      /\ id \in DOMAIN streams => Len(Entry(id)) = Len(streams[id])
      /\ id \notin DOMAIN streams => Len(Entry(id)) = 0
    BY <1>0, EntryType, EmptySeq DEF Entry
<1> DEFINE new == <<id, Len(Entry(id)) + 1>>
<1>3. new \notin Slots
    BY <1>2, SlotMembership
<1>4. Slots' = Slots \cup {new}
  <2>1. ASSUME NEW x \in Slots' PROVE x \in Slots \cup {new}
    <3>1. PICK y \in DOMAIN streams' : \E k \in 1 .. Len(streams'[y]) : x = <<y, k>>
        BY DEF Slots
    <3>2. PICK k \in 1 .. Len(streams'[y]) : x = <<y, k>>
        BY <3>1
    <3>3. CASE y # id
        BY <1>1, <3>2, <3>3, SlotMembership
    <3>4. CASE y = id /\ k = Len(Entry(id)) + 1
        BY <3>2, <3>4
    <3>5. CASE y = id /\ k # Len(Entry(id)) + 1
      <4>1. k \in 1 .. Len(Entry(id))
          BY <1>1, <1>2, <3>2, <3>5
      <4>2. id \in DOMAIN streams /\ k \in 1 .. Len(streams[id])
          BY <1>2, <4>1
      <4> QED
          BY <3>2, <3>5, <4>2, SlotMembership
    <3> QED
        BY <3>3, <3>4, <3>5
  <2>2. ASSUME NEW x \in Slots PROVE x \in Slots'
    <3>1. PICK y \in DOMAIN streams : \E k \in 1 .. Len(streams[y]) : x = <<y, k>>
        BY SlotMembership
    <3>2. PICK k \in 1 .. Len(streams[y]) : x = <<y, k>>
        BY <3>1
    <3>3. y \in DOMAIN streams' /\ k \in 1 .. Len(streams'[y])
      <4>1. CASE y # id
          BY <1>1, <4>1
      <4>2. CASE y = id
          BY <1>1, <1>2, <4>2
      <4> QED
          BY <4>1, <4>2
    <3> QED
        BY <3>2, <3>3 DEF Slots
  <2>3. new \in Slots'
    <3>1. id \in DOMAIN streams' /\ Len(Entry(id)) + 1 \in 1 .. Len(streams'[id])
        BY <1>1, <1>2
    <3> QED
        BY <3>1 DEF Slots
  <2> QED
      BY <2>1, <2>2, <2>3
<1>5. /\ IsFiniteSet(Slots \cup {new})
      /\ Cardinality(Slots \cup {new}) = Cardinality(Slots) + 1
  <2> HIDE DEF new
  <2> QED
      BY <1>3, FS_AddElement DEF CountExact
<1> QED
    BY <1>4, <1>5 DEF CountExact, StoreAppend

\* Dropping the first i samples of a stream frees i slots: its last i, since the
\* samples that stay move to the front.
LEMMA DropSlots ==
    ASSUME Base, CountExact, NEW id \in DOMAIN streams,
           NEW i \in 1 .. Len(streams[id]), streams' = DropFirst(id, i),
           count' = count - i
    PROVE  CountExact'
<1>0. TypeOK /\ NoEmptyEntry
    BY DEF Base
<1> DEFINE len == Len(streams[id])
           cut == {id} \X (len - i + 1 .. len)
<1>1. len \in Nat \ {0}
    BY <1>0, StreamType
<1>2. /\ DOMAIN streams' = IF i = len THEN DOMAIN streams \ {id} ELSE DOMAIN streams
      /\ \A x \in DOMAIN streams' : x # id => streams'[x] = streams[x]
      /\ id \in DOMAIN streams' => Len(streams'[id]) = len - i
    BY <1>0, DropFirstEffect
<1>3. cut \subseteq Slots
    BY <1>1, SlotMembership
<1>4. Slots' = Slots \ cut
  <2>1. ASSUME NEW x \in Slots' PROVE x \in Slots \ cut
    <3>1. PICK y \in DOMAIN streams' : \E k \in 1 .. Len(streams'[y]) : x = <<y, k>>
        BY DEF Slots
    <3>2. PICK k \in 1 .. Len(streams'[y]) : x = <<y, k>>
        BY <3>1
    <3>3. y \in DOMAIN streams
        BY <1>2
    <3>4. CASE y # id
        BY <1>2, <3>2, <3>3, <3>4, SlotMembership
    <3>5. CASE y = id
        BY <1>1, <1>2, <3>2, <3>3, <3>5, SlotMembership
    <3> QED
        BY <3>4, <3>5
  <2>2. ASSUME NEW x \in Slots \ cut PROVE x \in Slots'
    <3>1. PICK y \in DOMAIN streams : \E k \in 1 .. Len(streams[y]) : x = <<y, k>>
        BY SlotMembership
    <3>2. PICK k \in 1 .. Len(streams[y]) : x = <<y, k>>
        BY <3>1
    <3>3. y \in DOMAIN streams' /\ k \in 1 .. Len(streams'[y])
      <4>1. CASE y # id
          BY <1>2, <4>1
      <4>2. CASE y = id
        <5>1. k \in 1 .. len - i
            BY <1>1, <3>2, <4>2
        <5> QED
            BY <1>1, <1>2, <4>2, <5>1
      <4> QED
          BY <4>1, <4>2
    <3> QED
        BY <3>2, <3>3 DEF Slots
  <2> QED
      BY <2>1, <2>2
<1>5. IsFiniteSet(cut) /\ Cardinality(cut) = i
  <2>1. /\ IsFiniteSet(len - i + 1 .. len)
        /\ Cardinality(len - i + 1 .. len) = i
      BY <1>1, FS_Interval
  <2>2. IsFiniteSet({id}) /\ Cardinality({id}) = 1
      BY FS_Singleton
  <2>3. /\ IsFiniteSet(cut)
        /\ Cardinality(cut) = Cardinality({id}) * Cardinality(len - i + 1 .. len)
      BY <2>1, <2>2, FS_Product
  <2> QED
      BY <2>1, <2>2, <2>3
<1>6. /\ IsFiniteSet(Slots \ cut)
      /\ Cardinality(Slots \ cut) = Cardinality(Slots) - i
  <2>1. Slots \cap cut = cut
      BY <1>3
  <2> HIDE DEF cut
  <2> QED
      BY ZenonT(30), <1>5, <2>1, FS_Difference DEF CountExact
<1> QED
    BY <1>4, <1>6 DEF CountExact

\* The empty store's count is zero.
LEMMA CountInit == Init => CountExact
<1> SUFFICES ASSUME Init PROVE CountExact
    OBVIOUS
<1>1. Slots = {}
    BY DEF Init, Slots
<1> QED
    BY <1>1, FS_EmptySet DEF Init, CountExact

\* Every step changes count by as many samples as it adds or drops.
LEMMA CountStep == Base /\ CountExact /\ [Next]_vars => CountExact'
<1> SUFFICES ASSUME Base, CountExact, [Next]_vars PROVE CountExact'
    OBVIOUS
<1>0. TypeOK /\ LockInv /\ NoEmptyEntry
    BY DEF Base
<1>1. ASSUME NEW p \in Ingesters, StoreAppend(p) PROVE CountExact'
    BY <1>1, AppendSlots
<1>2. ASSUME NEW p \in Ingesters, DropOldestStep(p) PROVE CountExact'
  <2>1. PICK id \in DOMAIN streams : streams' = DropFirst(id, 1)
      BY <1>2 DEF DropOldestStep
  <2>2. 1 \in 1 .. Len(streams[id])
      BY <1>0, StreamType
  <2>3. count' = count - 1
      BY <1>2 DEF DropOldestStep
  <2> QED
      BY <2>1, <2>2, <2>3, DropSlots
<1>3. ASSUME DropBeforeStep PROVE CountExact'
  <2>1. PICK id \in todo : \E i \in SearchResult(streams[id], cutoff) :
           /\ streams' = IF i = 0 THEN streams ELSE DropFirst(id, i)
           /\ count' = count - i
      BY <1>3 DEF DropBeforeStep
  <2>2. PICK i \in SearchResult(streams[id], cutoff) :
           /\ streams' = IF i = 0 THEN streams ELSE DropFirst(id, i)
           /\ count' = count - i
      BY <2>1
  <2>3. id \in DOMAIN streams
      BY <1>0, <1>3, ProcessAssumption DEF LockInv, DropBeforeStep
  <2>4. Len(streams[id]) \in Nat /\ i \in 0 .. Len(streams[id])
      BY <1>0, <2>3, StreamType DEF SearchResult
  <2>5. CASE i = 0
    <3>1. streams' = streams /\ count' = count
        BY <1>0, <2>2, <2>5 DEF TypeOK
    <3> QED
        BY <3>1 DEF CountExact, Slots
  <2>6. CASE i # 0
    <3>1. i \in 1 .. Len(streams[id]) /\ streams' = DropFirst(id, i)
        BY <2>2, <2>4, <2>6
    <3> QED
        BY <2>2, <2>3, <3>1, DropSlots
  <2> QED
      BY <2>5, <2>6
<1>4. ASSUME UNCHANGED <<streams, count>> PROVE CountExact'
    BY <1>4 DEF CountExact, Slots
<1> QED
    BY <1>1, <1>2, <1>3, <1>4
    DEF Next, vars, StoreCount, DropOldestLock, DropOldestReturn, EvictorRun,
        DropBeforeLock, DropBeforeReturn, Tick

\* Store.count is the number of samples stored, at every step of every method.
THEOREM CountCorrect == Spec => []CountExact
    BY BaseInvariant, CountInit, CountStep, PTL DEF Spec

-----------------------------------------------------------------------------
(* The budget.                                                             *)

\* An empty map counts nothing, so that DropOldest may give up early.
LEMMA EmptyCount ==
    ASSUME CountExact, DOMAIN streams = {}
    PROVE  count = 0
<1>1. Slots = {}
    BY DEF Slots
<1> QED
    BY <1>1, FS_EmptySet DEF CountExact

\* The empty store is within its budget.
LEMMA BudgetInit == Init => BudgetInv
<1> SUFFICES ASSUME Init, MaxSamples > 0 PROVE BudgetInv
    BY DEF BudgetInv
<1>1. Busy = {}
    BY DEF Init, Busy
<1> QED
    BY <1>1, FS_EmptySet, BoundAssumption DEF Init, BudgetInv

\* The processes inside Ingest are finitely many, before and after a step.
LEMMA BusyFinite ==
    /\ IsFiniteSet(Busy) /\ Cardinality(Busy) \in Nat
    /\ IsFiniteSet(Busy') /\ Cardinality(Busy') \in Nat
<1>1. Busy \in SUBSET Ingesters /\ Busy' \in SUBSET Ingesters
    BY DEF Busy
<1> QED
    BY <1>1, ProcessAssumption, FS_Subset, FS_CardinalityType

\* Each step keeps the bound.  The interesting one is a DropOldest that returns:
\* it has dropped what it counted, so what is still over budget was appended by
\* calls that have not returned.
LEMMA BudgetStep ==
    Base /\ CountExact /\ BudgetInv /\ [Next]_vars /\ Base' => BudgetInv'
<1> SUFFICES ASSUME Base, CountExact, BudgetInv, [Next]_vars, Base',
                    MaxSamples > 0
             PROVE  BudgetInv'
    BY DEF BudgetInv
<1> USE ProcessAssumption, BoundAssumption
<1>0. /\ TypeOK /\ LockInv
      /\ MaxSamples \in Int /\ count \in Int /\ Cardinality(Busy) \in Nat
      /\ n \in [Ingesters -> Nat]
      /\ count <= MaxSamples + Cardinality(Busy)
      /\ \A p \in Ingesters :
            pc[p] \in {"drop", "dropping"} =>
                count <= MaxSamples + n[p] + Cardinality(Busy) - 1
    BY BusyFinite DEF Base, BudgetInv, TypeOK
<1>1. ASSUME NEW p \in Ingesters, StoreAppend(p) PROVE BudgetInv'
  <2>1. /\ pc[p] = "idle"
        /\ pc' = [pc EXCEPT ![p] = "count"]
        /\ n' = n
        /\ count' = count + 1
      BY <1>1 DEF StoreAppend
  <2>2. Busy' = Busy \cup {p} /\ p \notin Busy
      BY <1>0, <2>1 DEF Busy, TypeOK
  <2>3. Cardinality(Busy') = Cardinality(Busy) + 1
      BY <2>2, BusyFinite, FS_AddElement
  <2>4. \A q \in Ingesters :
           pc'[q] \in {"drop", "dropping"} => pc[q] \in {"drop", "dropping"}
      BY <1>0, <2>1 DEF TypeOK
  <2> QED
      BY <1>0, <2>1, <2>3, <2>4 DEF BudgetInv
<1>2. ASSUME NEW p \in Ingesters, StoreCount(p) PROVE BudgetInv'
  <2>1. /\ pc[p] = "count"
        /\ n' = [n EXCEPT ![p] = Excess(count)]
        /\ pc' = [pc EXCEPT ![p] = IF Excess(count) > 0 THEN "drop" ELSE "idle"]
        /\ count' = count
      BY <1>2 DEF StoreCount
  <2>2. /\ Excess(count) \in Nat
        /\ Excess(count) > 0 => count = MaxSamples + Excess(count)
        /\ ~ (Excess(count) > 0) => count <= MaxSamples
      BY <1>0, ExcessType
  <2>3. p \in Busy
      BY <2>1 DEF Busy
  <2>4. Cardinality(Busy) >= 1
      BY <2>3, BusyFinite, FS_EmptySet
  <2>5. CASE Excess(count) > 0
    <3>1. Busy' = Busy
        BY <1>0, <2>1, <2>5 DEF Busy, TypeOK
    <3>2. \A q \in Ingesters :
             pc'[q] \in {"drop", "dropping"} =>
                \/ q = p /\ n'[q] = Excess(count)
                \/ pc[q] \in {"drop", "dropping"} /\ n'[q] = n[q]
        BY <1>0, <2>1 DEF TypeOK
    <3>3. \A q \in Ingesters :
             pc'[q] \in {"drop", "dropping"} =>
                 count <= MaxSamples + n'[q] + Cardinality(Busy) - 1
        BY <1>0, <2>2, <2>4, <2>5, <3>2
    <3> QED
        BY <1>0, <2>1, <3>1, <3>3 DEF BudgetInv
  <2>6. CASE ~ (Excess(count) > 0)
    <3>1. Cardinality(Busy') \in Nat
        BY BusyFinite
    <3>2. \A q \in Ingesters :
             pc'[q] \in {"drop", "dropping"} =>
                 q \in Busy' /\ n'[q] \in Nat
        BY <1>0, <2>1, <2>2 DEF TypeOK, Busy
    <3>3. \A q \in Busy' : Cardinality(Busy') >= 1
        BY <3>1, BusyFinite, FS_EmptySet
    <3> QED
        BY <1>0, <2>1, <2>2, <2>6, <3>1, <3>2, <3>3 DEF BudgetInv
  <2> QED
      BY <2>5, <2>6
<1>3. ASSUME NEW p \in Ingesters, DropOldestLock(p) PROVE BudgetInv'
  <2>1. Busy' = Busy
      BY <1>0, <1>3 DEF DropOldestLock, Busy, TypeOK
  <2>2. \A q \in Ingesters :
           pc'[q] \in {"drop", "dropping"} => pc[q] \in {"drop", "dropping"}
      BY <1>0, <1>3 DEF DropOldestLock, TypeOK
  <2> QED
      BY <1>0, <1>3, <2>1, <2>2 DEF BudgetInv, DropOldestLock
<1>4. ASSUME NEW p \in Ingesters, DropOldestStep(p) PROVE BudgetInv'
  <2>1. /\ count' = count - 1
        /\ n' = [n EXCEPT ![p] = @ - 1]
        /\ n[p] > 0
        /\ pc' = pc
      BY <1>4 DEF DropOldestStep
  <2>2. Busy' = Busy
      BY <2>1 DEF Busy
  <2>3. \A q \in Ingesters : n'[q] >= n[q] - 1 /\ n'[q] \in Int /\ n[q] \in Int
      BY <1>0, <2>1
  <2> QED
      BY <1>0, <2>1, <2>2, <2>3 DEF BudgetInv
<1>5. ASSUME NEW p \in Ingesters, DropOldestReturn(p) PROVE BudgetInv'
  <2>1. /\ pc[p] = "dropping"
        /\ n[p] = 0 \/ DOMAIN streams = {}
        /\ n' = [n EXCEPT ![p] = 0]
        /\ pc' = [pc EXCEPT ![p] = "idle"]
        /\ count' = count
        /\ lock = p
      BY <1>0, <1>5 DEF DropOldestReturn, LockInv
  <2>2. Busy' = Busy \ {p} /\ p \in Busy
      BY <1>0, <2>1 DEF Busy, TypeOK
  <2>3. Cardinality(Busy') = Cardinality(Busy) - 1
      BY <2>2, BusyFinite, FS_RemoveElement
  <2>4. Cardinality(Busy') \in Nat
      BY BusyFinite
  <2>5. count' <= MaxSamples + Cardinality(Busy')
    <3>1. CASE n[p] = 0
        BY <1>0, <2>1, <2>3, <3>1
    <3>2. CASE DOMAIN streams = {}
        BY <1>0, <2>1, <2>4, <3>2, EmptyCount
    <3> QED
        BY <2>1, <3>1, <3>2
  <2>6. \A q \in Ingesters :
           pc'[q] \in {"drop", "dropping"} => n'[q] \in Nat /\ n'[q] >= 1
    <3>1. \A q \in Ingesters :
             pc'[q] \in {"drop", "dropping"} =>
                 /\ q # p
                 /\ n'[q] = n[q]
                 /\ pc[q] = "drop" \/ lock = q
        BY <1>0, <2>1 DEF TypeOK, LockInv
    <3> QED
        BY <1>0, <2>1, <3>1 DEF LockInv
  <2> QED
      BY SMTT(30), <1>0, <2>1, <2>4, <2>5, <2>6 DEF BudgetInv
<1>6. ASSUME DropBeforeStep PROVE BudgetInv'
  <2>1. /\ pc' = pc
        /\ n' = n
        /\ \E i \in Nat : count' = count - i
    <3>1. PICK id \in todo : \E i \in SearchResult(streams[id], cutoff) :
                                 count' = count - i
        BY <1>6 DEF DropBeforeStep
    <3>2. id \in DOMAIN streams
        BY <1>0, <1>6 DEF LockInv, DropBeforeStep
    <3>3. Len(streams[id]) \in Nat
        BY <3>2, StreamType DEF Base
    <3> QED
        BY <1>6, <3>1, <3>3 DEF SearchResult, DropBeforeStep
  <2>2. Busy' = Busy
      BY <2>1 DEF Busy
  <2> QED
      BY <1>0, <2>1, <2>2 DEF BudgetInv
<1>7. ASSUME EvictorRun \/ DropBeforeLock \/ DropBeforeReturn PROVE BudgetInv'
  <2>1. /\ count' = count
        /\ n' = n
        /\ \A q \in Ingesters : pc'[q] = pc[q]
      BY <1>0, <1>7 DEF EvictorRun, DropBeforeLock, DropBeforeReturn, TypeOK
  <2>2. Busy' = Busy
      BY <2>1 DEF Busy
  <2> QED
      BY <1>0, <2>1, <2>2 DEF BudgetInv
<1>8. ASSUME UNCHANGED <<count, n, pc>> PROVE BudgetInv'
    BY <1>0, <1>8 DEF BudgetInv, Busy
<1> QED
    BY <1>1, <1>2, <1>3, <1>4, <1>5, <1>6, <1>7, <1>8 DEF Next, vars, Tick

\* The store exceeds its budget by at most the Ingest calls under way, whatever
\* the number of concurrent handlers and whatever the evictor does meanwhile.
THEOREM BudgetKept == Spec => []BudgetBound
<1>1. BudgetInv => BudgetBound
    BY DEF BudgetInv, BudgetBound
<1>2. Spec => []BudgetInv
    BY BaseInvariant, CountCorrect, BudgetInit, BudgetStep, PTL DEF Spec
<1> QED
    BY <1>1, <1>2, PTL

-----------------------------------------------------------------------------
(* The order of the streams.                                               *)

OrderInv == Ordered /\ ArrivalsKnown

\* Append keeps the stream ordered: what stays in front is not later than the
\* new sample and arrived before it, and what moves behind it is later.
LEMMA AppendOrder ==
    ASSUME Base, OrderInv, NEW p, StoreAppend(p)
    PROVE  OrderInv'
<1>0. /\ TypeOK /\ NoEmptyEntry /\ Ordered /\ ArrivalsKnown
      /\ arrivals \in Int /\ arrivals' = arrivals + 1
    BY DEF Base, OrderInv, TypeOK, StoreAppend
<1>1. PICK id \in StreamIDs, t \in Times : \E i \in ScanResult(Entry(id), t) :
           /\ DOMAIN streams' = DOMAIN streams \cup {id}
           /\ \A x \in DOMAIN streams : x # id => streams'[x] = streams[x]
           /\ Len(streams'[id]) = Len(Entry(id)) + 1
           /\ \A j \in 1 .. Len(Entry(id)) + 1 :
                streams'[id][j] =
                    IF j <= i THEN Entry(id)[j]
                    ELSE IF j = i + 1
                         THEN [time |-> t, arrival |-> arrivals + 1]
                         ELSE Entry(id)[j - 1]
    BY <1>0, AppendEffect
<1>2. PICK i \in ScanResult(Entry(id), t) :
           /\ DOMAIN streams' = DOMAIN streams \cup {id}
           /\ \A x \in DOMAIN streams : x # id => streams'[x] = streams[x]
           /\ Len(streams'[id]) = Len(Entry(id)) + 1
           /\ \A j \in 1 .. Len(Entry(id)) + 1 :
                streams'[id][j] =
                    IF j <= i THEN Entry(id)[j]
                    ELSE IF j = i + 1
                         THEN [time |-> t, arrival |-> arrivals + 1]
                         ELSE Entry(id)[j - 1]
    BY <1>1
<1>3. PICK e : e = Entry(id)
    OBVIOUS
<1>4. PICK new : new = streams'[id]
    OBVIOUS
<1>5. /\ t \in Int
      /\ Len(e) \in Nat
      /\ i \in 0 .. Len(e)
      /\ i = 0 \/ ~ (t < e[i].time)
      /\ \A j \in i + 1 .. Len(e) : t < e[j].time
    BY <1>0, <1>2, <1>3, EntryType, BoundAssumption DEF ScanResult
<1>6. \A j \in 1 .. Len(e) :
         /\ e[j].time \in Int
         /\ e[j].arrival \in Int
         /\ e[j].arrival <= arrivals
  <2>1. CASE id \in DOMAIN streams
      BY <1>0, <1>3, <2>1, StreamType DEF Entry, ArrivalsKnown
  <2>2. CASE id \notin DOMAIN streams
      BY <1>3, <2>2, EmptySeq DEF Entry
  <2> QED
      BY <2>1, <2>2
<1>7. \A j, k \in 1 .. Len(e) :
         j < k => \/ e[j].time < e[k].time
                  \/ e[j].time = e[k].time /\ e[j].arrival < e[k].arrival
  <2>1. CASE id \in DOMAIN streams
      BY <1>0, <1>3, <2>1 DEF Entry, Ordered, Precedes
  <2>2. CASE id \notin DOMAIN streams
      BY <1>3, <2>2, EmptySeq DEF Entry
  <2> QED
      BY <2>1, <2>2
<1>8. /\ Len(new) = Len(e) + 1
      /\ \A j \in 1 .. Len(e) + 1 :
            /\ j <= i => new[j] = e[j]
            /\ j = i + 1 => new[j].time = t /\ new[j].arrival = arrivals + 1
            /\ j > i + 1 => new[j] = e[j - 1]
    BY <1>2, <1>3, <1>4, <1>5
<1>9. \A j \in 1 .. i : e[j].time <= t
  <2> SUFFICES ASSUME NEW j \in 1 .. i PROVE e[j].time <= t
      OBVIOUS
  <2>1. /\ j \in 1 .. Len(e) /\ i \in 1 .. Len(e)
        /\ e[j].time \in Int /\ e[i].time \in Int /\ e[i].time <= t
      BY <1>5, <1>6
  <2>2. CASE j = i
      BY <2>1, <2>2
  <2>3. CASE j < i
    <3>1. e[j].time <= e[i].time
        BY <1>7, <2>1, <2>3
    <3> QED
        BY <1>5, <2>1, <3>1
  <2> QED
      BY <1>5, <2>2, <2>3
<1>10. \A j, k \in 1 .. Len(new) : j < k => Precedes(new[j], new[k])
  <2> SUFFICES ASSUME NEW j \in 1 .. Len(new), NEW k \in 1 .. Len(new), j < k
               PROVE  \/ new[j].time < new[k].time
                      \/ /\ new[j].time = new[k].time
                         /\ new[j].arrival < new[k].arrival
      BY DEF Precedes
  <2>1. CASE k <= i
    <3>1. j \in 1 .. Len(e) /\ k \in 1 .. Len(e) /\ new[j] = e[j] /\ new[k] = e[k]
        BY <1>5, <1>8, <2>1
    <3> QED
        BY <1>7, <3>1
  <2>2. CASE k = i + 1
      BY <1>0, <1>5, <1>6, <1>8, <1>9, <2>2
  <2>3. CASE k > i + 1 /\ j <= i
    <3>1. /\ new[j] = e[j] /\ new[k] = e[k - 1]
          /\ j \in 1 .. Len(e) /\ k - 1 \in 1 .. Len(e) /\ j < k - 1
        BY <1>5, <1>8, <2>3
    <3> QED
        BY <1>7, <3>1
  <2>4. CASE k > i + 1 /\ j = i + 1
    <3>1. new[k] = e[k - 1] /\ new[j].time = t
        BY <1>5, <1>8, <2>4
    <3> QED
        BY <1>5, <1>8, <2>4, <3>1
  <2>5. CASE k > i + 1 /\ j > i + 1
    <3>1. /\ new[j] = e[j - 1] /\ new[k] = e[k - 1]
          /\ j - 1 \in 1 .. Len(e) /\ k - 1 \in 1 .. Len(e) /\ j - 1 < k - 1
        BY <1>5, <1>8, <2>5
    <3> QED
        BY <1>7, <3>1
  <2> QED
      BY <1>5, <1>8, <2>1, <2>2, <2>3, <2>4, <2>5
<1>11. \A j \in 1 .. Len(new) : new[j].arrival <= arrivals'
  <2> SUFFICES ASSUME NEW j \in 1 .. Len(new)
               PROVE  new[j].arrival <= arrivals + 1
      BY <1>0
  <2>1. CASE j <= i
      BY <1>0, <1>5, <1>6, <1>8, <2>1
  <2>2. CASE j = i + 1
      BY <1>0, <1>5, <1>8, <2>2
  <2>3. CASE j > i + 1
    <3>1. new[j] = e[j - 1] /\ j - 1 \in 1 .. Len(e)
        BY <1>5, <1>8, <2>3
    <3> QED
        BY <1>0, <1>6, <3>1
  <2> QED
      BY <1>5, <1>8, <2>1, <2>2, <2>3
<1>12. ASSUME NEW x \in DOMAIN streams', x # id
       PROVE  /\ \A j, k \in 1 .. Len(streams'[x]) :
                    j < k => Precedes(streams'[x][j], streams'[x][k])
              /\ \A j \in 1 .. Len(streams'[x]) : streams'[x][j].arrival <= arrivals'
  <2>1. x \in DOMAIN streams /\ streams'[x] = streams[x]
      BY <1>2, <1>12
  <2>2. \A j \in 1 .. Len(streams[x]) :
           streams[x][j].arrival \in Int /\ streams[x][j].arrival <= arrivals
      BY <1>0, <2>1, StreamType DEF ArrivalsKnown
  <2>3. \A j \in 1 .. Len(streams[x]) : streams[x][j].arrival <= arrivals'
      BY <1>0, <2>2
  <2> QED
      BY <1>0, <2>1, <2>3 DEF Ordered
<1> QED
    BY <1>4, <1>10, <1>11, <1>12 DEF OrderInv, Ordered, ArrivalsKnown

\* Dropping from the front keeps the order of what stays.
LEMMA DropOrder ==
    ASSUME Base, OrderInv, NEW id \in DOMAIN streams,
           NEW i \in 1 .. Len(streams[id]), streams' = DropFirst(id, i),
           arrivals' = arrivals
    PROVE  OrderInv'
<1>0. TypeOK /\ NoEmptyEntry /\ Ordered /\ ArrivalsKnown
    BY DEF Base, OrderInv
<1>1. Len(streams[id]) \in Nat
    BY <1>0, StreamType
<1>2. /\ DOMAIN streams' \subseteq DOMAIN streams
      /\ \A x \in DOMAIN streams' : x # id => streams'[x] = streams[x]
    BY <1>0, DropFirstEffect
<1>3. id \in DOMAIN streams' =>
         /\ Len(streams'[id]) = Len(streams[id]) - i
         /\ \A j \in 1 .. Len(streams[id]) - i :
               streams'[id][j] = streams[id][i + j]
    BY <1>0, DropFirstEffect
<1>4. ASSUME NEW x \in DOMAIN streams'
      PROVE  /\ \A j, k \in 1 .. Len(streams'[x]) :
                   j < k => Precedes(streams'[x][j], streams'[x][k])
             /\ \A j \in 1 .. Len(streams'[x]) : streams'[x][j].arrival <= arrivals
  <2>1. CASE x # id
      BY <1>0, <1>2, <2>1 DEF Ordered, ArrivalsKnown
  <2>2. CASE x = id
    <3>1. \A j \in 1 .. Len(streams[id]) - i : i + j \in 1 .. Len(streams[id])
        BY <1>1
    <3>2. \A j, k \in 1 .. Len(streams[id]) - i :
             j < k => Precedes(streams[id][i + j], streams[id][i + k])
        BY <1>0, <1>1, <3>1 DEF Ordered
    <3>3. \A j \in 1 .. Len(streams[id]) - i : streams[id][i + j].arrival <= arrivals
        BY <1>0, <3>1 DEF ArrivalsKnown
    <3> QED
        BY SMTT(30), <1>3, <1>4, <2>2, <3>2, <3>3
  <2> QED
      BY <2>1, <2>2
<1> QED
    BY <1>4 DEF OrderInv, Ordered, ArrivalsKnown

\* Every step keeps the streams in order and the next arrival number new.
LEMMA OrderStep == Base /\ OrderInv /\ [Next]_vars => OrderInv'
<1> SUFFICES ASSUME Base, OrderInv, [Next]_vars PROVE OrderInv'
    OBVIOUS
<1>0. TypeOK /\ LockInv /\ NoEmptyEntry
    BY DEF Base
<1>1. ASSUME NEW p \in Ingesters, StoreAppend(p) PROVE OrderInv'
    BY <1>1, AppendOrder
<1>2. ASSUME NEW p \in Ingesters, DropOldestStep(p) PROVE OrderInv'
  <2>1. PICK id \in DOMAIN streams : streams' = DropFirst(id, 1)
      BY <1>2 DEF DropOldestStep
  <2>2. 1 \in 1 .. Len(streams[id])
      BY <1>0, StreamType
  <2>3. arrivals' = arrivals
      BY <1>2 DEF DropOldestStep
  <2> QED
      BY <2>1, <2>2, <2>3, DropOrder
<1>3. ASSUME DropBeforeStep PROVE OrderInv'
  <2>1. PICK id \in todo : \E i \in SearchResult(streams[id], cutoff) :
           streams' = IF i = 0 THEN streams ELSE DropFirst(id, i)
      BY <1>3 DEF DropBeforeStep
  <2>2. PICK i \in SearchResult(streams[id], cutoff) :
           streams' = IF i = 0 THEN streams ELSE DropFirst(id, i)
      BY <2>1
  <2>3. id \in DOMAIN streams /\ arrivals' = arrivals
      BY <1>0, <1>3, ProcessAssumption DEF LockInv, DropBeforeStep
  <2>4. Len(streams[id]) \in Nat /\ i \in 0 .. Len(streams[id])
      BY <1>0, <2>3, StreamType DEF SearchResult
  <2>5. CASE i = 0
      BY <2>2, <2>3, <2>5 DEF OrderInv, Ordered, ArrivalsKnown
  <2>6. CASE i # 0
    <3>1. i \in 1 .. Len(streams[id]) /\ streams' = DropFirst(id, i)
        BY <2>2, <2>4, <2>6
    <3> QED
        BY <2>3, <3>1, DropOrder
  <2> QED
      BY <2>5, <2>6
<1>4. ASSUME UNCHANGED <<streams, arrivals>> PROVE OrderInv'
    BY <1>4 DEF OrderInv, Ordered, ArrivalsKnown
<1> QED
    BY <1>1, <1>2, <1>3, <1>4
    DEF Next, vars, StoreCount, DropOldestLock, DropOldestReturn, EvictorRun,
        DropBeforeLock, DropBeforeReturn, Tick

\* The streams are always in order.
LEMMA OrderInvariant == Spec => []OrderInv
<1>1. Init => OrderInv
    BY DEF Init, OrderInv, Ordered, ArrivalsKnown
<1> QED
    BY <1>1, BaseInvariant, OrderStep, PTL DEF Spec

\* Every stream is ordered by time, ties in order of arrival.
THEOREM StreamsOrdered == Spec => []Ordered
<1>1. OrderInv => Ordered
    BY DEF OrderInv
<1> QED
    BY <1>1, OrderInvariant, PTL

-----------------------------------------------------------------------------
(* What is dropped.                                                        *)

\* In an ordered stream the times never decrease.
LEMMA TimesIncrease ==
    ASSUME TypeOK, NoEmptyEntry, Ordered, NEW id \in DOMAIN streams,
           NEW j \in 1 .. Len(streams[id]), NEW k \in 1 .. Len(streams[id]), j <= k
    PROVE  /\ streams[id][j].time \in Int
           /\ streams[id][k].time \in Int
           /\ streams[id][j].time <= streams[id][k].time
<1>1. /\ streams[id][j].time \in Int /\ streams[id][k].time \in Int
      /\ Len(streams[id]) \in Nat
    BY StreamType
<1>2. CASE j = k
    BY <1>1, <1>2
<1>3. CASE j < k
  <2>1. Precedes(streams[id][j], streams[id][k])
      BY <1>3 DEF Ordered
  <2> QED
      BY <1>1, <2>1 DEF Precedes
<1> QED
    BY <1>1, <1>2, <1>3

\* The index that sort.Search finds in an ordered stream splits it: everything
\* up to it is older than the cutoff, everything behind it is not.
LEMMA SearchSplits ==
    ASSUME TypeOK, NoEmptyEntry, Ordered, NEW id \in DOMAIN streams,
           NEW i \in SearchResult(streams[id], cutoff)
    PROVE  /\ \A j \in 1 .. Len(streams[id]) : j <= i => streams[id][j].time < cutoff
           /\ \A j \in 1 .. Len(streams[id]) : j > i => streams[id][j].time >= cutoff
<1>1. /\ i \in 0 .. Len(streams[id])
      /\ i = 0 \/ streams[id][i].time < cutoff
      /\ i = Len(streams[id]) \/ ~ (streams[id][i + 1].time < cutoff)
      /\ Len(streams[id]) \in Nat
      /\ cutoff \in Int
    BY StreamType DEF SearchResult, TypeOK
<1>2. ASSUME NEW j \in 1 .. Len(streams[id]), j <= i
      PROVE  streams[id][j].time < cutoff
  <2>1. i \in 1 .. Len(streams[id])
      BY <1>1, <1>2
  <2>2. /\ streams[id][j].time \in Int /\ streams[id][i].time \in Int
        /\ streams[id][j].time <= streams[id][i].time
      BY <1>2, <2>1, TimesIncrease
  <2> QED
      BY <1>1, <1>2, <2>2
<1>3. ASSUME NEW j \in 1 .. Len(streams[id]), j > i
      PROVE  streams[id][j].time >= cutoff
  <2>1. i + 1 \in 1 .. Len(streams[id]) /\ i + 1 <= j
      BY <1>1, <1>3
  <2>2. /\ streams[id][i + 1].time \in Int /\ streams[id][j].time \in Int
        /\ streams[id][i + 1].time <= streams[id][j].time
      BY <2>1, TimesIncrease
  <2> QED
      BY <1>1, <1>3, <2>1, <2>2
<1> QED
    BY <1>2, <1>3

SweepInv == SweptClean /\ CutoffPast

\* Every step keeps the swept streams clean and the cutoff behind the window.
LEMMA SweepStep ==
    Base /\ OrderInv /\ SweepInv /\ [Next]_vars => SweepInv'
<1> SUFFICES ASSUME Base, OrderInv, SweepInv, [Next]_vars PROVE SweepInv'
    OBVIOUS
<1> USE ProcessAssumption, BoundAssumption
<1>0. /\ TypeOK /\ LockInv /\ NoEmptyEntry /\ Ordered /\ SweptClean /\ CutoffPast
      /\ clock \in Int /\ cutoff \in Int /\ Retention \in Int
    BY DEF Base, OrderInv, SweepInv, TypeOK
<1>1. ASSUME NEW p \in Ingesters,
             \/ StoreAppend(p) \/ StoreCount(p) \/ DropOldestLock(p)
             \/ DropOldestStep(p) \/ DropOldestReturn(p)
      PROVE  SweepInv'
  <2>1. pc[Evictor] # "dropping"
      BY <1>0, <1>1
      DEF LockInv, StoreAppend, StoreCount, DropOldestLock, DropOldestStep,
          DropOldestReturn
  <2>2. pc'[Evictor] = pc[Evictor] /\ UNCHANGED <<cutoff, clock>>
      BY <1>0, <1>1
      DEF TypeOK, StoreAppend, StoreCount, DropOldestLock, DropOldestStep,
          DropOldestReturn
  <2> QED
      BY <1>0, <2>1, <2>2 DEF SweepInv, SweptClean, CutoffPast
<1>2. ASSUME EvictorRun PROVE SweepInv'
  <2>1. pc'[Evictor] = "drop" /\ cutoff' = clock - Retention /\ clock' = clock
      BY <1>0, <1>2 DEF TypeOK, EvictorRun
  <2> QED
      BY <1>0, <2>1 DEF SweepInv, SweptClean, CutoffPast
<1>3. ASSUME DropBeforeLock PROVE SweepInv'
  <2>1. /\ pc[Evictor] = "drop" /\ todo' = DOMAIN streams
        /\ UNCHANGED <<streams, cutoff, clock>>
      BY <1>3 DEF DropBeforeLock
  <2> QED
      BY <1>0, <2>1 DEF SweepInv, SweptClean, CutoffPast
<1>4. ASSUME DropBeforeStep PROVE SweepInv'
  <2>1. PICK id \in todo : \E i \in SearchResult(streams[id], cutoff) :
           /\ streams' = IF i = 0 THEN streams ELSE DropFirst(id, i)
           /\ todo' = todo \ {id}
      BY <1>4 DEF DropBeforeStep
  <2>2. PICK i \in SearchResult(streams[id], cutoff) :
           /\ streams' = IF i = 0 THEN streams ELSE DropFirst(id, i)
           /\ todo' = todo \ {id}
      BY <2>1
  <2>3. /\ id \in DOMAIN streams
        /\ pc[Evictor] = "dropping"
        /\ UNCHANGED <<pc, cutoff, clock>>
      BY <1>0, <1>4 DEF LockInv, DropBeforeStep
  <2>4. Len(streams[id]) \in Nat /\ i \in 0 .. Len(streams[id])
      BY <1>0, <2>3, StreamType DEF SearchResult
  <2>5. \A j \in 1 .. Len(streams[id]) : j > i => streams[id][j].time >= cutoff
      BY <1>0, <2>3, SearchSplits
  <2>6. /\ DOMAIN streams' \subseteq DOMAIN streams
        /\ \A x \in DOMAIN streams' : x # id => streams'[x] = streams[x]
        /\ id \in DOMAIN streams' =>
              \A j \in 1 .. Len(streams'[id]) : streams'[id][j].time >= cutoff
    <3>1. CASE i = 0
        BY <2>2, <2>4, <2>5, <3>1
    <3>2. CASE i # 0
      <4>1. i \in 1 .. Len(streams[id]) /\ streams' = DropFirst(id, i)
          BY <2>2, <2>4, <3>2
      <4>2. /\ DOMAIN streams' \subseteq DOMAIN streams
            /\ \A x \in DOMAIN streams' : x # id => streams'[x] = streams[x]
          BY <1>0, <2>3, <4>1, DropFirstEffect
      <4>3. id \in DOMAIN streams' =>
               /\ Len(streams'[id]) = Len(streams[id]) - i
               /\ \A j \in 1 .. Len(streams[id]) - i :
                     streams'[id][j] = streams[id][i + j]
          BY <1>0, <2>3, <4>1, DropFirstEffect
      <4>4. \A j \in 1 .. Len(streams[id]) - i :
               i + j \in 1 .. Len(streams[id]) /\ i + j > i
          BY <2>4, <4>1
      <4> QED
          BY <2>5, <4>2, <4>3, <4>4
    <3> QED
        BY <3>1, <3>2
  <2>7. \A x \in DOMAIN streams \ todo : \A j \in 1 .. Len(streams[x]) :
           streams[x][j].time >= cutoff
      BY <1>0, <2>3 DEF SweptClean
  <2> QED
      BY <1>0, <2>2, <2>3, <2>6, <2>7 DEF SweepInv, SweptClean, CutoffPast
<1>5. ASSUME DropBeforeReturn PROVE SweepInv'
    BY <1>0, <1>5 DEF TypeOK, DropBeforeReturn, SweepInv, SweptClean, CutoffPast
<1>6. ASSUME Tick PROVE SweepInv'
    BY <1>0, <1>6 DEF Tick, SweepInv, SweptClean, CutoffPast
<1>7. ASSUME UNCHANGED vars PROVE SweepInv'
    BY <1>0, <1>7 DEF vars, SweepInv, SweptClean, CutoffPast
<1> QED
    BY <1>1, <1>2, <1>3, <1>4, <1>5, <1>6, <1>7 DEF Next

\* The streams a sweep has been to are always clean.
LEMMA SweepInvariant == Spec => []SweepInv
<1>1. Init => SweepInv
    BY ProcessAssumption DEF Init, SweepInv, SweptClean, CutoffPast
<1> QED
    BY <1>1, BaseInvariant, OrderInvariant, SweepStep, PTL DEF Spec

\* The sweep leaves nothing older than its cutoff in the streams it has been to.
THEOREM SweepComplete == Spec => []SweptClean
<1>1. SweepInv => SweptClean
    BY DEF SweepInv
<1> QED
    BY <1>1, SweepInvariant, PTL

\* A sample is stored when some index of some stream holds it.
LEMMA StoredMembership ==
    \A s : s \in Stored <=> \E id \in DOMAIN streams :
                              \E k \in 1 .. Len(streams[id]) : s = streams[id][k]
    BY DEF Stored

\* What dropping the first i samples of a stream loses is among those.
LEMMA DroppedByDropFirst ==
    ASSUME TypeOK, NoEmptyEntry, NEW id \in DOMAIN streams,
           NEW i \in 1 .. Len(streams[id]), streams' = DropFirst(id, i),
           NEW s \in Dropped
    PROVE  \E k \in 1 .. i : s = streams[id][k]
<1>1. s \in Stored /\ s \notin Stored'
    BY DEF Dropped
<1>2. PICK x \in DOMAIN streams : \E k \in 1 .. Len(streams[x]) : s = streams[x][k]
    BY <1>1, StoredMembership
<1>3. PICK k \in 1 .. Len(streams[x]) : s = streams[x][k]
    BY <1>2
<1>4. Len(streams[id]) \in Nat
    BY StreamType
<1>5. x = id
  <2> SUFFICES ASSUME x # id PROVE FALSE
      OBVIOUS
  <2>1. x \in DOMAIN streams' /\ streams'[x] = streams[x]
      BY DropFirstEffect
  <2>2. s \in Stored'
      BY <1>3, <2>1 DEF Stored
  <2> QED
      BY <1>1, <2>2
<1>6. k <= i
  <2> SUFFICES ASSUME k > i PROVE FALSE
      BY <1>3, <1>4, <1>5
  <2>1. i # Len(streams[id]) /\ k - i \in 1 .. Len(streams[id]) - i /\ i + (k - i) = k
      BY <1>4, <1>5
  <2>2. id \in DOMAIN streams'
      BY <2>1, DropFirstEffect
  <2>3. /\ Len(streams'[id]) = Len(streams[id]) - i
        /\ \A j \in 1 .. Len(streams[id]) - i : streams'[id][j] = streams[id][i + j]
      BY <2>2, DropFirstEffect
  <2>4. k - i \in 1 .. Len(streams'[id]) /\ streams'[id][k - i] = s
      BY <1>3, <1>5, <2>1, <2>3
  <2>5. s \in Stored'
      BY <2>2, <2>4 DEF Stored
  <2> QED
      BY <1>1, <2>5
<1> QED
    BY <1>3, <1>4, <1>5, <1>6

\* Append loses nothing: every sample that was stored still is.
LEMMA AppendDropsNothing ==
    ASSUME TypeOK, NoEmptyEntry, NEW p, StoreAppend(p), NEW s \in Stored
    PROVE  s \in Stored'
<1>1. PICK id \in StreamIDs, t \in Times : \E i \in ScanResult(Entry(id), t) :
           /\ DOMAIN streams' = DOMAIN streams \cup {id}
           /\ \A x \in DOMAIN streams : x # id => streams'[x] = streams[x]
           /\ Len(streams'[id]) = Len(Entry(id)) + 1
           /\ \A j \in 1 .. Len(Entry(id)) + 1 :
                streams'[id][j] =
                    IF j <= i THEN Entry(id)[j]
                    ELSE IF j = i + 1
                         THEN [time |-> t, arrival |-> arrivals + 1]
                         ELSE Entry(id)[j - 1]
    BY AppendEffect
<1>2. PICK i \in ScanResult(Entry(id), t) :
           /\ DOMAIN streams' = DOMAIN streams \cup {id}
           /\ \A x \in DOMAIN streams : x # id => streams'[x] = streams[x]
           /\ Len(streams'[id]) = Len(Entry(id)) + 1
           /\ \A j \in 1 .. Len(Entry(id)) + 1 :
                streams'[id][j] =
                    IF j <= i THEN Entry(id)[j]
                    ELSE IF j = i + 1
                         THEN [time |-> t, arrival |-> arrivals + 1]
                         ELSE Entry(id)[j - 1]
    BY <1>1
<1>3. PICK x \in DOMAIN streams : \E k \in 1 .. Len(streams[x]) : s = streams[x][k]
    BY StoredMembership
<1>4. PICK k \in 1 .. Len(streams[x]) : s = streams[x][k]
    BY <1>3
<1>5. CASE x # id
  <2>1. x \in DOMAIN streams' /\ streams'[x] = streams[x]
      BY <1>2, <1>5
  <2> QED
      BY <1>4, <2>1 DEF Stored
<1>6. CASE x = id
  <2>1. Entry(id) = streams[id] /\ Len(streams[id]) \in Nat /\ id \in DOMAIN streams'
      BY <1>2, <1>6, StreamType DEF Entry
  <2>2. i \in 0 .. Len(streams[id])
      BY <1>2, <2>1 DEF ScanResult
  <2>3. CASE k <= i
    <3>1. k \in 1 .. Len(streams'[id]) /\ streams'[id][k] = s
        BY <1>2, <1>4, <1>6, <2>1, <2>2, <2>3
    <3> QED
        BY <2>1, <3>1 DEF Stored
  <2>4. CASE k > i
    <3>1. k + 1 \in 1 .. Len(streams'[id]) /\ streams'[id][k + 1] = s
      <4>1. /\ k + 1 \in 1 .. Len(streams[id]) + 1
            /\ ~ (k + 1 <= i) /\ k + 1 # i + 1 /\ (k + 1) - 1 = k
          BY <1>4, <1>6, <2>1, <2>2, <2>4
      <4> QED
          BY <1>2, <1>4, <1>6, <2>1, <4>1
    <3> QED
        BY <2>1, <3>1 DEF Stored
  <2> QED
      BY <1>6, <2>1, <2>2, <2>3, <2>4
<1> QED
    BY <1>5, <1>6

\* Every step drops only the oldest sample or samples out of the window.
LEMMA DropStep ==
    Base /\ OrderInv /\ SweepInv /\ [Next]_vars => [DropJustified]_vars
<1> SUFFICES ASSUME Base, OrderInv, SweepInv, Next, NEW s \in Dropped
             PROVE  \/ \A r \in Stored : s.time <= r.time
                    \/ s.time < clock - Retention
    BY DEF DropJustified
<1>0. /\ TypeOK /\ LockInv /\ NoEmptyEntry /\ Ordered /\ CutoffPast
      /\ clock \in Int /\ cutoff \in Int /\ Retention \in Int
    BY BoundAssumption DEF Base, OrderInv, SweepInv, TypeOK
<1>1. s \in Stored /\ s \notin Stored'
    BY DEF Dropped
<1>2. ASSUME NEW p \in Ingesters, StoreAppend(p) PROVE FALSE
    BY <1>0, <1>1, <1>2, AppendDropsNothing
<1>3. ASSUME NEW p \in Ingesters, DropOldestStep(p), NEW r \in Stored
      PROVE  s.time <= r.time
  <2>1. PICK id \in DOMAIN streams : HasOldestHead(id) /\ streams' = DropFirst(id, 1)
      BY <1>3 DEF DropOldestStep
  <2>2. 1 \in 1 .. Len(streams[id])
      BY <1>0, StreamType
  <2>3. s = streams[id][1]
    <3>1. \E k \in 1 .. 1 : s = streams[id][k]
        BY <1>0, <2>1, <2>2, DroppedByDropFirst
    <3> QED
        BY <3>1
  <2>4. PICK x \in DOMAIN streams : \E k \in 1 .. Len(streams[x]) : r = streams[x][k]
      BY <1>3, StoredMembership
  <2>5. PICK k \in 1 .. Len(streams[x]) : r = streams[x][k]
      BY <2>4
  <2>6. 1 \in 1 .. Len(streams[x]) /\ 1 <= k
      BY <1>0, StreamType
  <2>7. /\ streams[x][1].time \in Int /\ streams[x][k].time \in Int
        /\ streams[x][1].time <= streams[x][k].time
      BY <1>0, <2>6, TimesIncrease
  <2>8. streams[id][1].time <= streams[x][1].time /\ streams[id][1].time \in Int
      BY <1>0, <2>1, <2>2, StreamType DEF HasOldestHead
  <2> QED
      BY <2>3, <2>5, <2>7, <2>8
<1>4. ASSUME DropBeforeStep PROVE s.time < clock - Retention
  <2>1. PICK id \in todo : \E i \in SearchResult(streams[id], cutoff) :
           streams' = IF i = 0 THEN streams ELSE DropFirst(id, i)
      BY <1>4 DEF DropBeforeStep
  <2>2. PICK i \in SearchResult(streams[id], cutoff) :
           streams' = IF i = 0 THEN streams ELSE DropFirst(id, i)
      BY <2>1
  <2>3. id \in DOMAIN streams /\ pc[Evictor] = "dropping"
      BY <1>0, <1>4 DEF LockInv, DropBeforeStep
  <2>4. Len(streams[id]) \in Nat /\ i \in 0 .. Len(streams[id])
      BY <1>0, <2>3, StreamType DEF SearchResult
  <2>5. i # 0
      BY <1>1, <2>2 DEF Stored
  <2>6. i \in 1 .. Len(streams[id]) /\ streams' = DropFirst(id, i)
      BY <2>2, <2>4, <2>5
  <2>7. PICK k \in 1 .. i : s = streams[id][k]
      BY <1>0, <2>3, <2>6, DroppedByDropFirst
  <2>8. k \in 1 .. Len(streams[id]) /\ k <= i
      BY <2>4
  <2>9. s.time < cutoff /\ s.time \in Int
      BY <1>0, <2>3, <2>7, <2>8, SearchSplits, StreamType
  <2> QED
      BY <1>0, <2>3, <2>9 DEF CutoffPast
<1>5. ASSUME UNCHANGED streams PROVE FALSE
    BY <1>1, <1>5 DEF Stored
<1> QED
    BY <1>2, <1>3, <1>4, <1>5
    DEF Next, StoreCount, DropOldestLock, DropOldestReturn, EvictorRun,
        DropBeforeLock, DropBeforeReturn, Tick

\* Only the oldest sample of the store or an expired one is ever dropped, by
\* whichever process and however stale what it read before.
THEOREM DropsJustified == Spec => DropsOnlyOldest
    BY BaseInvariant, OrderInvariant, SweepInvariant, DropStep, PTL
    DEF Spec, DropsOnlyOldest

-----------------------------------------------------------------------------
(* What a change of the map means for the set of samples kept.             *)

\* A sample is kept when some index of some stream holds it.
LEMMA KeptMembership ==
    \A x : x \in Kept <=> \E id \in DOMAIN streams :
                            \E k \in 1 .. Len(streams[id]) : x = In(id, streams[id][k])
    BY DEF Kept

\* The same after a step.
LEMMA KeptMembershipNext ==
    \A x : x \in Kept' <=> \E id \in DOMAIN streams' :
                             \E k \in 1 .. Len(streams'[id]) : x = In(id, streams'[id][k])
    BY DEF Kept

\* Two places of an ordered stream hold different samples.
LEMMA PlacesDiffer ==
    ASSUME TypeOK, NoEmptyEntry, Ordered, NEW id \in DOMAIN streams,
           NEW j \in 1 .. Len(streams[id]), NEW k \in 1 .. Len(streams[id]), j # k
    PROVE  In(id, streams[id][j]) # In(id, streams[id][k])
<1>1. /\ streams[id][j].time \in Int /\ streams[id][k].time \in Int
      /\ streams[id][j].arrival \in Int /\ streams[id][k].arrival \in Int
      /\ Len(streams[id]) \in Nat
    BY StreamType
<1>2. Precedes(streams[id][j], streams[id][k]) \/ Precedes(streams[id][k], streams[id][j])
    BY <1>1 DEF Ordered
<1>3. \/ streams[id][j].time # streams[id][k].time
      \/ streams[id][j].arrival # streams[id][k].arrival
    BY <1>1, <1>2 DEF Precedes
<1> QED
    BY <1>3 DEF In

\* Append adds its sample to what is kept, and nothing else changes.
LEMMA KeptByAppend ==
    ASSUME TypeOK, NoEmptyEntry, NEW p, StoreAppend(p)
    PROVE  \E id \in StreamIDs, t \in 1 .. MaxTime :
              Kept' = Kept \cup {[stream |-> id, time |-> t, arrival |-> arrivals + 1]}
<1>1. PICK id \in StreamIDs, t \in Times : \E i \in ScanResult(Entry(id), t) :
           /\ DOMAIN streams' = DOMAIN streams \cup {id}
           /\ \A x \in DOMAIN streams : x # id => streams'[x] = streams[x]
           /\ Len(streams'[id]) = Len(Entry(id)) + 1
           /\ \A j \in 1 .. Len(Entry(id)) + 1 :
                streams'[id][j] =
                    IF j <= i THEN Entry(id)[j]
                    ELSE IF j = i + 1
                         THEN [time |-> t, arrival |-> arrivals + 1]
                         ELSE Entry(id)[j - 1]
    BY AppendEffect
<1>2. PICK i \in ScanResult(Entry(id), t) :
           /\ DOMAIN streams' = DOMAIN streams \cup {id}
           /\ \A x \in DOMAIN streams : x # id => streams'[x] = streams[x]
           /\ Len(streams'[id]) = Len(Entry(id)) + 1
           /\ \A j \in 1 .. Len(Entry(id)) + 1 :
                streams'[id][j] =
                    IF j <= i THEN Entry(id)[j]
                    ELSE IF j = i + 1
                         THEN [time |-> t, arrival |-> arrivals + 1]
                         ELSE Entry(id)[j - 1]
    BY <1>1
<1>3. Len(Entry(id)) \in Nat /\ i \in 0 .. Len(Entry(id))
    BY EntryType DEF ScanResult
<1>4. PICK new : new = [stream |-> id, time |-> t, arrival |-> arrivals + 1]
    OBVIOUS
<1>5. new \in Kept'
  <2>1. i + 1 \in 1 .. Len(streams'[id]) /\ i + 1 \in 1 .. Len(Entry(id)) + 1
      BY <1>2, <1>3
  <2>2. streams'[id][i + 1] = [time |-> t, arrival |-> arrivals + 1]
      BY <1>2, <1>3, <2>1
  <2>3. new = In(id, streams'[id][i + 1])
      BY <1>4, <2>2 DEF In
  <2> QED
      BY <1>2, <2>1, <2>3, KeptMembershipNext
<1>6. ASSUME NEW x \in Kept PROVE x \in Kept'
  <2>1. PICK y \in DOMAIN streams : \E k \in 1 .. Len(streams[y]) : x = In(y, streams[y][k])
      BY KeptMembership
  <2>2. PICK k \in 1 .. Len(streams[y]) : x = In(y, streams[y][k])
      BY <2>1
  <2>3. CASE y # id
    <3>1. y \in DOMAIN streams' /\ streams'[y] = streams[y]
        BY <1>2, <2>3
    <3> QED
        BY <2>2, <3>1, KeptMembershipNext
  <2>4. CASE y = id
    <3>1. Entry(id) = streams[id] /\ id \in DOMAIN streams'
        BY <1>2, <2>4 DEF Entry
    <3>2. CASE k <= i
      <4>1. k \in 1 .. Len(streams'[id]) /\ streams'[id][k] = streams[id][k]
          BY <1>2, <1>3, <2>2, <2>4, <3>1, <3>2
      <4> QED
          BY <2>2, <2>4, <3>1, <4>1, KeptMembershipNext
    <3>3. CASE k > i
      <4>1. /\ k + 1 \in 1 .. Len(Entry(id)) + 1
            /\ ~ (k + 1 <= i) /\ k + 1 # i + 1 /\ (k + 1) - 1 = k
          BY <1>3, <2>2, <2>4, <3>1, <3>3
      <4>2. k + 1 \in 1 .. Len(streams'[id]) /\ streams'[id][k + 1] = streams[id][k]
          BY <1>2, <3>1, <4>1
      <4> QED
          BY <2>2, <2>4, <3>1, <4>2, KeptMembershipNext
    <3> QED
        BY <1>3, <2>2, <2>4, <3>1, <3>2, <3>3
  <2> QED
      BY <2>3, <2>4
<1>7. ASSUME NEW x \in Kept' PROVE x \in Kept \/ x = new
  <2>1. PICK y \in DOMAIN streams' :
             \E k \in 1 .. Len(streams'[y]) : x = In(y, streams'[y][k])
      BY KeptMembershipNext
  <2>2. PICK k \in 1 .. Len(streams'[y]) : x = In(y, streams'[y][k])
      BY <2>1
  <2>3. CASE y # id
    <3>1. y \in DOMAIN streams /\ streams'[y] = streams[y]
        BY <1>2, <2>1, <2>3
    <3> QED
        BY <2>2, <3>1, KeptMembership
  <2>4. CASE y = id
    <3>1. k \in 1 .. Len(Entry(id)) + 1
        BY <1>2, <2>2, <2>4
    <3>2. CASE k = i + 1
      <4>1. streams'[id][k] = [time |-> t, arrival |-> arrivals + 1]
          BY <1>2, <1>3, <3>1, <3>2
      <4> QED
          BY <1>4, <2>2, <2>4, <4>1 DEF In
    <3>3. ASSUME k # i + 1 PROVE x \in Kept
      <4>1. \E j \in 1 .. Len(Entry(id)) : streams'[id][k] = Entry(id)[j]
        <5>1. CASE k <= i
            BY <1>2, <1>3, <3>1, <5>1
        <5>2. CASE k > i
          <6>1. k - 1 \in 1 .. Len(Entry(id)) /\ ~ (k <= i)
              BY <1>3, <3>1, <3>3, <5>2
          <6> QED
              BY <1>2, <3>1, <3>3, <6>1
        <5> QED
            BY <1>3, <3>1, <5>1, <5>2
      <4>2. PICK j \in 1 .. Len(Entry(id)) : streams'[id][k] = Entry(id)[j]
          BY <4>1
      <4>3. id \in DOMAIN streams /\ Entry(id) = streams[id]
          BY <1>3, <4>2, EmptySeq DEF Entry
      <4> QED
          BY <2>2, <2>4, <4>2, <4>3, KeptMembership
    <3> QED
        BY <3>2, <3>3
  <2> QED
      BY <2>3, <2>4
<1>8. Kept' = Kept \cup {new}
    BY <1>5, <1>6, <1>7
<1> QED
    BY <1>4, <1>8 DEF Times

\* Dropping the first i samples of a stream takes these, and no other, from what
\* is kept.
LEMMA KeptByDropFirst ==
    ASSUME TypeOK, NoEmptyEntry, Ordered, NEW id \in DOMAIN streams,
           NEW i \in 1 .. Len(streams[id]), streams' = DropFirst(id, i)
    PROVE  \A x : x \in Kept' <=>
              x \in Kept /\ \A k \in 1 .. i : x # In(id, streams[id][k])
<1>1. Len(streams[id]) \in Nat
    BY StreamType
<1>2. /\ DOMAIN streams' = IF i = Len(streams[id]) THEN DOMAIN streams \ {id}
                                                  ELSE DOMAIN streams
      /\ \A x \in DOMAIN streams' : x # id => streams'[x] = streams[x]
      /\ id \in DOMAIN streams' =>
            /\ Len(streams'[id]) = Len(streams[id]) - i
            /\ \A j \in 1 .. Len(streams[id]) - i :
                  streams'[id][j] = streams[id][i + j]
    BY DropFirstEffect
<1>3. ASSUME NEW x \in Kept'
      PROVE  x \in Kept /\ \A k \in 1 .. i : x # In(id, streams[id][k])
  <2>1. PICK y \in DOMAIN streams' :
             \E k \in 1 .. Len(streams'[y]) : x = In(y, streams'[y][k])
      BY KeptMembershipNext
  <2>2. PICK k \in 1 .. Len(streams'[y]) : x = In(y, streams'[y][k])
      BY <2>1
  <2>3. CASE y # id
    <3>1. y \in DOMAIN streams /\ streams'[y] = streams[y]
        BY <1>2, <2>1, <2>3
    <3>2. x \in Kept
        BY <2>2, <3>1, KeptMembership
    <3> QED
        BY <2>2, <2>3, <3>2 DEF In
  <2>4. CASE y = id
    <3>1. /\ k \in 1 .. Len(streams[id]) - i
          /\ streams'[id][k] = streams[id][i + k]
          /\ i + k \in 1 .. Len(streams[id])
        BY <1>1, <1>2, <2>1, <2>2, <2>4
    <3>2. x = In(id, streams[id][i + k])
        BY <2>2, <2>4, <3>1
    <3>3. x \in Kept
        BY <3>1, <3>2, KeptMembership
    <3>4. ASSUME NEW j \in 1 .. i PROVE x # In(id, streams[id][j])
      <4>1. j \in 1 .. Len(streams[id]) /\ j # i + k
          BY <1>1, <3>1
      <4> QED
          BY <3>1, <3>2, <4>1, PlacesDiffer
    <3> QED
        BY <3>3, <3>4
  <2> QED
      BY <2>3, <2>4
<1>4. ASSUME NEW x \in Kept, \A k \in 1 .. i : x # In(id, streams[id][k])
      PROVE  x \in Kept'
  <2>1. PICK y \in DOMAIN streams : \E k \in 1 .. Len(streams[y]) : x = In(y, streams[y][k])
      BY KeptMembership
  <2>2. PICK k \in 1 .. Len(streams[y]) : x = In(y, streams[y][k])
      BY <2>1
  <2>3. CASE y # id
    <3>1. y \in DOMAIN streams' /\ streams'[y] = streams[y]
        BY <1>2, <2>3
    <3> QED
        BY <2>2, <3>1, KeptMembershipNext
  <2>4. CASE y = id
    <3>1. ~ (k \in 1 .. i)
        BY <1>4, <2>2, <2>4
    <3>2. /\ k - i \in 1 .. Len(streams[id]) - i /\ i + (k - i) = k
          /\ i # Len(streams[id])
        BY <1>1, <2>2, <2>4, <3>1
    <3>3. id \in DOMAIN streams'
        BY <1>2, <3>2
    <3>4. k - i \in 1 .. Len(streams'[id]) /\ streams'[id][k - i] = streams[id][k]
        BY <1>2, <3>2, <3>3
    <3> QED
        BY <2>2, <2>4, <3>3, <3>4, KeptMembershipNext
  <2> QED
      BY <2>3, <2>4
<1> QED
    BY <1>3, <1>4

-----------------------------------------------------------------------------
(* Every step keeps the promise.                                           *)

\* DropOldest forgets the oldest of all, and of equal times in the stream it
\* chose the first that came.
LEMMA DropOldestForgets ==
    ASSUME Base, OrderInv, NEW p \in Ingesters, DropOldestStep(p)
    PROVE  Promise!ForgetOldest
<1>0. TypeOK /\ NoEmptyEntry /\ Ordered
    BY DEF Base, OrderInv
<1>1. PICK id \in DOMAIN streams : HasOldestHead(id) /\ streams' = DropFirst(id, 1)
    BY DEF DropOldestStep
<1>2. 1 \in 1 .. Len(streams[id])
    BY <1>0, StreamType
<1>3. PICK s : s = In(id, streams[id][1])
    OBVIOUS
<1>4. s \in Kept
    BY <1>2, <1>3, KeptMembership
<1>5. ASSUME NEW r \in Kept
      PROVE  /\ s.time <= r.time
             /\ r.stream = s.stream /\ r.time = s.time => s.arrival <= r.arrival
  <2>1. PICK x \in DOMAIN streams : \E k \in 1 .. Len(streams[x]) : r = In(x, streams[x][k])
      BY KeptMembership
  <2>2. PICK k \in 1 .. Len(streams[x]) : r = In(x, streams[x][k])
      BY <2>1
  <2>3. 1 \in 1 .. Len(streams[x]) /\ 1 <= k /\ k \in Int
      BY <1>0, StreamType
  <2>4. /\ streams[x][1].time \in Int /\ streams[x][k].time \in Int
        /\ streams[x][1].time <= streams[x][k].time
      BY <1>0, <2>3, TimesIncrease
  <2>5. /\ streams[id][1].time <= streams[x][1].time /\ streams[id][1].time \in Int
        /\ streams[id][1].arrival \in Int
      BY <1>0, <1>1, <1>2, StreamType DEF HasOldestHead
  <2>6. /\ s.time = streams[id][1].time /\ s.stream = id
        /\ s.arrival = streams[id][1].arrival
        /\ r.time = streams[x][k].time /\ r.stream = x
        /\ r.arrival = streams[x][k].arrival
      BY <1>3, <2>2 DEF In
  <2>7. ASSUME x = id, r.time = s.time PROVE s.arrival <= r.arrival
    <3>1. CASE k = 1
        BY <2>5, <2>6, <2>7, <3>1
    <3>2. CASE 1 < k
      <4>1. Precedes(streams[id][1], streams[id][k])
          BY <1>0, <1>2, <2>2, <2>7, <3>2 DEF Ordered
      <4>2. streams[id][k].arrival \in Int
          BY <1>0, <2>2, <2>7, StreamType
      <4> QED
          BY <2>4, <2>5, <2>6, <2>7, <4>1, <4>2 DEF Precedes
    <3> QED
        BY <2>3, <3>1, <3>2
  <2> QED
      BY <2>4, <2>5, <2>6, <2>7
<1>6. Kept' = Kept \ {s}
  <2>1. \A x : x \in Kept' <=>
            x \in Kept /\ \A k \in 1 .. 1 : x # In(id, streams[id][k])
      BY <1>0, <1>1, <1>2, KeptByDropFirst
  <2>2. \A x : (\A k \in 1 .. 1 : x # In(id, streams[id][k])) <=> x # s
      BY <1>3
  <2> QED
      BY <2>1, <2>2
<1>7. UNCHANGED <<arrivals, clock>>
    BY DEF DropOldestStep
<1> QED
    BY <1>4, <1>5, <1>6, <1>7 DEF Promise!ForgetOldest

\* An iteration of DropBefore lets one stream forget what it has from before the
\* cutoff, or changes nothing.
LEMMA DropBeforeExpires ==
    ASSUME Base, OrderInv, SweepInv, DropBeforeStep
    PROVE  Promise!Expire \/ UNCHANGED <<Kept, arrivals, clock>>
<1>0. /\ TypeOK /\ LockInv /\ NoEmptyEntry /\ Ordered /\ CutoffPast
      /\ clock \in Int /\ cutoff \in Int /\ Retention \in Int
    BY BoundAssumption DEF Base, OrderInv, SweepInv, TypeOK, Times
<1>1. PICK id \in todo : \E i \in SearchResult(streams[id], cutoff) :
         streams' = IF i = 0 THEN streams ELSE DropFirst(id, i)
    BY DEF DropBeforeStep
<1>2. PICK i \in SearchResult(streams[id], cutoff) :
         streams' = IF i = 0 THEN streams ELSE DropFirst(id, i)
    BY <1>1
<1>3. id \in DOMAIN streams /\ pc[Evictor] = "dropping" /\ UNCHANGED <<arrivals, clock>>
    BY <1>0 DEF LockInv, DropBeforeStep
<1>4. Len(streams[id]) \in Nat /\ i \in 0 .. Len(streams[id]) /\ id \in StreamIDs
    BY <1>0, <1>3, StreamType DEF SearchResult
<1>5. CASE i = 0
    BY <1>2, <1>3, <1>5 DEF Kept
<1>6. CASE i # 0
  <2>1. i \in 1 .. Len(streams[id]) /\ streams' = DropFirst(id, i)
      BY <1>2, <1>4, <1>6
  <2>2. /\ \A j \in 1 .. Len(streams[id]) : j <= i => streams[id][j].time < cutoff
        /\ \A j \in 1 .. Len(streams[id]) : j > i => streams[id][j].time >= cutoff
      BY <1>0, <1>3, SearchSplits
  <2>3. cutoff \in 1 .. clock - Retention
    <3>1. streams[id][1] \in Sample /\ 1 \in 1 .. Len(streams[id]) /\ 1 <= i
        BY <1>0, <1>3, <2>1, StreamType, ElementOfSeq
    <3>2. streams[id][1].time \in 1 .. MaxTime /\ streams[id][1].time < cutoff
        BY <2>2, <3>1 DEF Sample, Times
    <3> QED
        BY <1>0, <1>3, <3>2, BoundAssumption DEF CutoffPast
  <2>4. \A x : x \in Kept' <=>
            x \in Kept /\ \A k \in 1 .. i : x # In(id, streams[id][k])
      BY <1>0, <1>3, <2>1, KeptByDropFirst
  <2>5. ASSUME NEW x \in Kept
        PROVE  (\A k \in 1 .. i : x # In(id, streams[id][k]))
                 <=> (x.stream = id => x.time >= cutoff)
    <3>1. PICK y \in DOMAIN streams :
               \E k \in 1 .. Len(streams[y]) : x = In(y, streams[y][k])
        BY KeptMembership
    <3>2. PICK k \in 1 .. Len(streams[y]) : x = In(y, streams[y][k])
        BY <3>1
    <3>3. x.stream = y /\ x.time = streams[y][k].time /\ x.time \in Int
        BY <1>0, <3>2, StreamType DEF In
    <3>4. CASE y # id
      <4>1. \A j \in 1 .. i : x # In(id, streams[id][j])
          BY <3>3, <3>4 DEF In
      <4> QED
          BY <3>3, <3>4, <4>1
    <3>5. CASE y = id /\ k <= i
      <4>1. k \in 1 .. i /\ streams[id][k].time < cutoff
          BY <1>4, <2>2, <3>2, <3>5
      <4> QED
          BY <1>0, <3>2, <3>3, <3>5, <4>1
    <3>6. CASE y = id /\ k > i
      <4>1. streams[id][k].time >= cutoff
          BY <2>2, <3>2, <3>6
      <4>2. ASSUME NEW j \in 1 .. i PROVE x # In(id, streams[id][j])
        <5>1. j \in 1 .. Len(streams[id]) /\ j # k
            BY <1>4, <3>6
        <5> QED
            BY <1>0, <1>3, <3>2, <3>6, <5>1, PlacesDiffer
      <4> QED
          BY <3>3, <3>6, <4>1, <4>2
    <3> QED
        BY <1>4, <3>2, <3>4, <3>5, <3>6
  <2>6. Kept' = {x \in Kept : x.stream = id => x.time >= cutoff}
      BY <2>4, <2>5
  <2> QED
      BY <1>3, <1>4, <2>3, <2>6 DEF Promise!Expire
<1> QED
    BY <1>5, <1>6

\* Every step of the store is a step of the promise, or one it does not see.
LEMMA PromiseStep ==
    Base /\ OrderInv /\ SweepInv /\ [Next]_vars => [Promise!Next]_(Promise!vars)
<1> SUFFICES ASSUME Base, OrderInv, SweepInv, [Next]_vars
             PROVE  [Promise!Next]_(Promise!vars)
    OBVIOUS
<1>0. TypeOK /\ NoEmptyEntry
    BY DEF Base
<1>1. ASSUME NEW p \in Ingesters, StoreAppend(p) PROVE Promise!TakeIn
  <2>1. arrivals' = arrivals + 1 /\ UNCHANGED clock
      BY <1>1 DEF StoreAppend
  <2> QED
      BY <1>0, <1>1, <2>1, KeptByAppend DEF Promise!TakeIn
<1>2. ASSUME NEW p \in Ingesters, DropOldestStep(p) PROVE Promise!ForgetOldest
    BY <1>2, DropOldestForgets
<1>3. ASSUME DropBeforeStep
      PROVE  Promise!Expire \/ UNCHANGED <<Kept, arrivals, clock>>
    BY <1>3, DropBeforeExpires
<1>4. ASSUME Tick PROVE Promise!Pass
    BY <1>4 DEF Tick, Promise!Pass, Kept
<1>5. ASSUME \/ \E p \in Ingesters :
                 StoreCount(p) \/ DropOldestLock(p) \/ DropOldestReturn(p)
             \/ EvictorRun \/ DropBeforeLock \/ DropBeforeReturn
             \/ UNCHANGED vars
      PROVE  UNCHANGED <<Kept, arrivals, clock>>
    BY <1>5 DEF StoreCount, DropOldestLock, DropOldestReturn, EvictorRun,
        DropBeforeLock, DropBeforeReturn, vars, Kept
<1> QED
    BY <1>1, <1>2, <1>3, <1>4, <1>5 DEF Next, Promise!Next, Promise!vars

\* The store implements what SampleStore promises of it: whatever the handlers and
\* the evictor do to each other, a sample leaves only as the oldest of all, or
\* together with all its stream has from before an expired cutoff.
THEOREM PromiseKept == Spec => Implements
<1>1. Init => Promise!Init
    BY DEF Init, Promise!Init, Kept
<1> QED
    BY <1>1, BaseInvariant, OrderInvariant, SweepInvariant, PromiseStep, PTL
    DEF Spec, Implements, Promise!Spec

=============================================================================
