----------------------------- MODULE IntakeProofs ----------------------------
(***************************************************************************)
(* Proofs about the start of sor and the receiver: what was acknowledged is *)
(* stored, with the times and under the paths its sender gave it; a file is  *)
(* used as a whole or not at all, starts if it was validated, and its rules  *)
(* see the samples of the streams they name.                                *)
(***************************************************************************)
EXTENDS Intake, PathsProofs, FiniteSetTheorems

-----------------------------------------------------------------------------
(* Decoding gives a list of samples.                                       *)

\* What is in a list of anything.
LEMMA ListFacts ==
    /\ \A T : \A s \in Seq(T) : IsList(s)
    /\ \A s : IsList(s) => Len(s) \in Nat /\ DOMAIN s = 1 .. Len(s)
    /\ IsList(<< >>)
<1>1. ASSUME NEW T, NEW s \in Seq(T) PROVE IsList(s)
  <2>1. Len(s) \in Nat /\ DOMAIN s = 1 .. Len(s) /\ s \in [1 .. Len(s) -> T]
      BY LenProperties
  <2>2. \A i \in 1 .. Len(s) : s[i] \in ToSet(s)
      BY <2>1 DEF ToSet
  <2>3. s \in [1 .. Len(s) -> ToSet(s)]
      BY <2>1, <2>2
  <2> QED
      BY <2>1, <2>3, SeqOfFunction DEF IsList
<1>2. ASSUME NEW s, IsList(s) PROVE Len(s) \in Nat /\ DOMAIN s = 1 .. Len(s)
    BY <1>2, LenProperties DEF IsList
<1>3. \A a : << >> \in Seq({a})
    OBVIOUS
<1> QED
    BY <1>1, <1>2, <1>3, Zenon

\* A sequence over a set is one over every larger set.
LEMMA SeqWidens ==
    ASSUME NEW S, NEW T, S \subseteq T, NEW q \in Seq(S)
    PROVE  q \in Seq(T)
<1>1. Len(q) \in Nat /\ q \in [1 .. Len(q) -> S]
    BY LenProperties
<1>2. q \in [1 .. Len(q) -> T]
    BY <1>1
<1> QED
    BY <1>1, <1>2, SeqOfFunction

\* What a request's samples are made of
Timed(ids) == [id : ids, nanos : Nanos, same : BOOLEAN]

\* A sample with the stamp of the one before has one before, of the same time
Paired(q) == \A i \in DOMAIN q : q[i].same => i > 1 /\ q[i].nanos = q[i - 1].nanos

\* Putting lists together keeps pairs together.
LEMMA PairsConcat ==
    ASSUME NEW T, NEW p \in Seq(T), NEW q \in Seq(T), Paired(p), Paired(q)
    PROVE  p \o q \in Seq(T) /\ Paired(p \o q)
<1>1. PICK m \in Nat, n \in Nat : m = Len(p) /\ n = Len(q)
    OBVIOUS
<1>2. PICK r : r = p \o q
    OBVIOUS
<1>3. /\ r \in Seq(T) /\ DOMAIN r = 1 .. m + n /\ DOMAIN p = 1 .. m /\ DOMAIN q = 1 .. n
      /\ \A i \in 1 .. m + n : r[i] = IF i <= m THEN p[i] ELSE q[i - m]
    BY <1>1, <1>2, ConcatProperties, LenProperties
<1>4. ASSUME NEW i \in 1 .. m + n, r[i].same
      PROVE  i > 1 /\ r[i].nanos = r[i - 1].nanos
  <2>1. CASE i <= m
    <3>1. r[i] = p[i] /\ i \in 1 .. m
        BY <1>3, <2>1
    <3>2. i > 1 /\ p[i].nanos = p[i - 1].nanos
        BY <1>3, <1>4, <3>1 DEF Paired
    <3>3. i - 1 \in 1 .. m + n /\ i - 1 <= m
        BY <2>1, <3>2
    <3>4. r[i - 1] = p[i - 1]
        BY <1>3, <3>3
    <3> QED
        BY <3>1, <3>2, <3>4
  <2>2. CASE i > m
    <3>1. r[i] = q[i - m] /\ i - m \in 1 .. n
        BY <1>3, <2>2
    <3>2. i - m > 1 /\ q[i - m].nanos = q[i - m - 1].nanos
        BY <1>3, <1>4, <3>1 DEF Paired
    <3>3. i - 1 \in 1 .. m + n /\ ~(i - 1 <= m) /\ i - 1 - m = i - m - 1
        BY <2>2, <3>2
    <3>4. r[i - 1] = q[i - m - 1]
        BY <1>3, <3>3
    <3> QED
        BY <2>2, <3>1, <3>2, <3>4
  <2> QED
      BY <2>1, <2>2
<1> QED
    BY <1>2, <1>3, <1>4 DEF Paired

\* Lists put together are a list.
LEMMA ListsFlatten ==
    ASSUME NEW T, NEW seq, IsList(seq),
           NEW ss, ss = [i \in DOMAIN seq |-> ss[i]],
           \A i \in DOMAIN seq : ss[i] \in Seq(T) /\ Paired(ss[i])
    PROVE  FlattenSeq(ss) \in Seq(T) /\ Paired(FlattenSeq(ss))
<1>1. PICK n \in Nat : DOMAIN seq = 1 .. n
    BY ListFacts
<1> DEFINE A == {q \in Seq(T) : Paired(q)}
<1>2. << >> \in A
    BY DEF Paired
<1>3. \A p, q \in A : p \o q \in A
    BY PairsConcat
<1>4. ss \in [1 .. n -> A]
    BY <1>1
<1> HIDE DEF A
<1>5. FlattenSeq(ss) \in A
    BY <1>2, <1>3, <1>4, FlattenIn
<1> QED
    BY <1>5 DEF A

\* A sample that stands alone.
LEMMA Alone ==
    ASSUME NEW ids, NEW id \in ids, NEW nanos \in Nanos
    PROVE  /\ << >> \in Seq(Timed(ids)) /\ Paired(<< >>)
           /\ Sample(id, nanos, FALSE) \in Timed(ids) /\ Sample(id, nanos, TRUE) \in Timed(ids)
           /\ <<Sample(id, nanos, FALSE)>> \in Seq(Timed(ids))
           /\ Paired(<<Sample(id, nanos, FALSE)>>)
<1>1. Sample(id, nanos, FALSE) \in Timed(ids) /\ Sample(id, nanos, TRUE) \in Timed(ids)
    BY DEF Sample, Timed
<1>2. PICK s \in Timed(ids) : s = Sample(id, nanos, FALSE)
    BY <1>1
<1>3. s.same = FALSE
    BY <1>2 DEF Sample
<1>4. <<s>> \in Seq(Timed(ids)) /\ \A i \in DOMAIN <<s>> : <<s>>[i] = s
    OBVIOUS
<1>5. << >> \in Seq(Timed(ids)) /\ Paired(<< >>)
    BY DEF Paired
<1>6. Paired(<<s>>)
    BY <1>3, <1>4, Zenon DEF Paired
<1> QED
    BY <1>1, <1>2, <1>4, <1>5, <1>6, Zenon

LEMMA NumbersList ==
    ASSUME NEW ids, NEW id \in ids, NEW points, IsList(points),
           \A p \in ToSet(points) : p.nanos \in Nanos
    PROVE  numbers(id, points) \in Seq(Timed(ids)) /\ Paired(numbers(id, points))
<1>1. PICK ss : ss = [i \in DOMAIN points |->
                        IF points[i].value THEN <<Sample(id, points[i].nanos, FALSE)>>
                        ELSE << >>]
    OBVIOUS
<1>2. numbers(id, points) = FlattenSeq(ss)
    BY <1>1, Zenon DEF numbers, Each
<1>3. ASSUME NEW i \in DOMAIN points PROVE ss[i] \in Seq(Timed(ids)) /\ Paired(ss[i])
  <2>1. PICK nanos \in Nanos : nanos = points[i].nanos
      BY DEF ToSet
  <2>2. ss[i] = IF points[i].value THEN <<Sample(id, nanos, FALSE)>> ELSE << >>
      BY <1>1, <2>1, Zenon
  <2> QED
      BY <2>2, Alone, Zenon
<1>4. ss = [i \in DOMAIN points |-> ss[i]]
    BY <1>1
<1> QED
    BY <1>2, <1>3, <1>4, ListsFlatten

\* The streams that an item of a request can add to
NamedBy(route, who, item) ==
    IF route = "metrics"
    THEN {StreamID(who, <<"metrics">>, item.name),
          StreamID(who, <<"metrics">>, item.name \o <<".count">>),
          StreamID(who, <<"metrics">>, item.name \o <<".sum">>)}
    ELSE {StreamID(who, <<"logs">>, ScopeName(item.name))}

LEMMA MetricList ==
    ASSUME NEW who, NEW m, IsList(m.name), IsList(m.points),
           \A p \in ToSet(m.points) : p.nanos \in Nanos
    PROVE  /\ metric(who, m) \in Seq(Timed(NamedBy("metrics", who, m)))
           /\ Paired(metric(who, m))
<1> DEFINE id(suffix) == StreamID(who, <<"metrics">>, m.name \o suffix)
           two(p) == <<Sample(id(<<".count">>), p.nanos, FALSE)>>
                     \o IF p.value THEN <<Sample(id(<<".sum">>), p.nanos, TRUE)>> ELSE << >>
<1>0. PICK ids : ids = NamedBy("metrics", who, m)
    OBVIOUS
<1>1. id(<< >>) \in ids /\ id(<<".count">>) \in ids /\ id(<<".sum">>) \in ids
  <2>1. m.name \o << >> = m.name
      BY ConcatEmptySeq DEF IsList
  <2> QED
      BY <1>0, <2>1, Zenon DEF NamedBy
<1>2. CASE m.type \in {"gauge", "sum"}
  <2>1. metric(who, m) = numbers(id(<< >>), m.points)
      BY <1>2 DEF metric
  <2> HIDE DEF id
  <2> QED
      BY <1>0, <1>1, <2>1, NumbersList
<1>3. CASE m.type = "histogram"
  <2>1. PICK ss : ss = [i \in DOMAIN m.points |-> two(m.points[i])]
      OBVIOUS
  <2>2. metric(who, m) = FlattenSeq(ss)
    <3>1. m.type \notin {"gauge", "sum"}
        BY <1>3
    <3> QED
        BY <1>3, <2>1, <3>1, Zenon DEF metric, Each
  <2>3. ASSUME NEW i \in DOMAIN m.points PROVE ss[i] \in Seq(Timed(ids)) /\ Paired(ss[i])
    <3>1. PICK p : p = m.points[i]
        OBVIOUS
    <3>2. PICK nanos \in Nanos : nanos = p.nanos
        BY <3>1 DEF ToSet
    <3>3. PICK one, other : /\ one = Sample(id(<<".count">>), nanos, FALSE)
                            /\ other = Sample(id(<<".sum">>), nanos, TRUE)
        OBVIOUS
    <3>4. ss[i] = <<one>> \o IF p.value THEN <<other>> ELSE << >>
        BY <2>1, <3>1, <3>2, <3>3, Zenon
    <3>5. /\ one \in Timed(ids) /\ other \in Timed(ids)
          /\ <<one>> \in Seq(Timed(ids)) /\ Paired(<<one>>)
      <4>1. PICK ic \in ids, is \in ids : ic = id(<<".count">>) /\ is = id(<<".sum">>)
          BY <1>1
      <4>2. one = Sample(ic, nanos, FALSE) /\ other = Sample(is, nanos, TRUE)
          BY <3>3, <4>1
      <4> HIDE DEF id
      <4> QED
          BY <4>2, Alone
    <3>6. one.nanos = nanos /\ other.nanos = nanos /\ one.same = FALSE
        BY <3>3 DEF Sample
    <3> HIDE DEF id
    <3>7. <<one>> \o << >> = <<one>>
        BY <3>5, ConcatEmptySeq
    <3>8. <<one>> \o <<other>> \in Seq(Timed(ids)) /\ Paired(<<one>> \o <<other>>)
      <4>1. PICK q : q = <<one>> \o <<other>>
          OBVIOUS
      <4>2. q \in Seq(Timed(ids)) /\ DOMAIN q = {1, 2} /\ q[1] = one /\ q[2] = other
        <5>1. /\ <<other>> \in Seq(Timed(ids)) /\ Len(<<one>>) = 1 /\ Len(<<other>>) = 1
              /\ <<one>>[1] = one /\ <<other>>[1] = other
            BY <3>5
        <5>2. /\ q \in Seq(Timed(ids)) /\ Len(q) = 2
              /\ q[1] = <<one>>[1] /\ q[2] = <<other>>[1]
            BY <3>5, <4>1, <5>1, ConcatProperties
        <5>3. DOMAIN q = 1 .. 2 /\ 1 .. 2 = {1, 2}
            BY <5>2
        <5> QED
            BY <5>1, <5>2, <5>3
      <4>3. 2 > 1 /\ 2 - 1 = 1
          OBVIOUS
      <4>4. ASSUME NEW k \in {1, 2}, q[k].same PROVE k > 1 /\ q[k].nanos = q[k - 1].nanos
        <5>1. k # 1
            BY <3>6, <4>2, <4>4
        <5>2. k = 2
            BY <5>1
        <5> QED
            BY <3>6, <4>2, <4>3, <5>2
      <4> QED
          BY <4>1, <4>2, <4>4 DEF Paired
    <3>9. CASE p.value
        BY <3>4, <3>7, <3>8, <3>9, Zenon
    <3>10. CASE ~ p.value
        BY <3>4, <3>5, <3>7, <3>10, Zenon
    <3> QED
        BY <3>9, <3>10
  <2>4. ss = [i \in DOMAIN m.points |-> ss[i]]
      BY <2>1
  <2> HIDE DEF two, id
  <2> QED
    <3>1. PICK points : points = m.points
        OBVIOUS
    <3>2. /\ IsList(points) /\ ss = [i \in DOMAIN points |-> ss[i]]
          /\ \A i \in DOMAIN points : ss[i] \in Seq(Timed(ids)) /\ Paired(ss[i])
        BY <2>3, <2>4, <3>1
    <3>3. FlattenSeq(ss) \in Seq(Timed(ids)) /\ Paired(FlattenSeq(ss))
        BY <3>2, ListsFlatten
    <3> QED
        BY <1>0, <2>2, <3>3
<1>4. CASE m.type \notin {"gauge", "sum", "histogram"}
  <2>1. metric(who, m) = << >>
      BY <1>4 DEF metric
  <2>2. << >> \in Seq(Timed(ids)) /\ Paired(<< >>)
      BY DEF Paired
  <2> QED
      BY <1>0, <2>1, <2>2
<1> QED
    BY <1>2, <1>3, <1>4

LEMMA LogsList ==
    ASSUME NEW who, NEW scope, IsList(scope.records), NEW route, route # "metrics",
           \A rec \in ToSet(scope.records) : rec.nanos \in Nanos /\ rec.observed \in Nanos
    PROVE  /\ logs(who, scope) \in Seq(Timed(NamedBy(route, who, scope)))
           /\ Paired(logs(who, scope))
<1>0. PICK ids, id : ids = NamedBy(route, who, scope)
                     /\ id = StreamID(who, <<"logs">>, ScopeName(scope.name))
    OBVIOUS
<1>1. id \in ids
    BY <1>0 DEF NamedBy
<1>2. PICK ss : ss = [i \in DOMAIN scope.records |->
                        <<Sample(id, logStamp(scope.records[i]), FALSE)>>]
    OBVIOUS
<1>3. logs(who, scope) = FlattenSeq(ss)
    BY <1>0, <1>2, Zenon DEF logs, Each
<1>4. ASSUME NEW i \in DOMAIN scope.records PROVE ss[i] \in Seq(Timed(ids)) /\ Paired(ss[i])
  <2>1. PICK nanos \in Nanos : nanos = logStamp(scope.records[i])
      BY DEF ToSet, logStamp
  <2>2. ss[i] = <<Sample(id, nanos, FALSE)>>
      BY <1>2, <2>1
  <2> QED
      BY <1>1, <2>2, Alone
<1>5. ss = [i \in DOMAIN scope.records |-> ss[i]]
    BY <1>2
<1>6. PICK records : records = scope.records
    OBVIOUS
<1>7. /\ IsList(records) /\ ss = [i \in DOMAIN records |-> ss[i]]
      /\ \A i \in DOMAIN records : ss[i] \in Seq(Timed(ids)) /\ Paired(ss[i])
    BY <1>4, <1>5, <1>6
<1>8. FlattenSeq(ss) \in Seq(Timed(ids)) /\ Paired(FlattenSeq(ss))
    BY <1>7, ListsFlatten
<1> QED
    BY <1>0, <1>3, <1>8

\* The streams that a request can add to
Streams(req) ==
    UNION {UNION {NamedBy(req.route, identity(res.attrs), item) : item \in ToSet(res.items)}
           : res \in ToSet(req.resources)}

\* What a request decodes to is a list, of samples of its streams.
LEMMA SamplesList ==
    ASSUME NEW x \in Exports
    PROVE  /\ Samples(RequestOf[x]) \in Seq(Timed(Streams(RequestOf[x])))
           /\ Paired(Samples(RequestOf[x]))
<1>0. PICK req, T : req = RequestOf[x] /\ T = Timed(Streams(req))
    OBVIOUS
<1> DEFINE of(who, item) == IF req.route = "metrics" THEN metric(who, item)
                            ELSE logs(who, item)
<1>1. PICK per : per = [k \in DOMAIN req.resources |->
                         FlattenSeq([j \in DOMAIN req.resources[k].items |->
                           of(identity(req.resources[k].attrs), req.resources[k].items[j])])]
    OBVIOUS
<1>2. Samples(req) = FlattenSeq(per)
    BY <1>1, Zenon DEF Samples, Each
<1>3. ASSUME NEW k \in DOMAIN req.resources PROVE per[k] \in Seq(T) /\ Paired(per[k])
  <2>1. PICK res, who : res = req.resources[k] /\ who = identity(res.attrs)
      OBVIOUS
  <2>2. res \in ToSet(req.resources)
      BY <2>1 DEF ToSet
  <2>3. IsList(res.items)
      BY <1>0, <2>2, ExportsAssumption
  <2>4. PICK ss : ss = [j \in DOMAIN res.items |-> of(who, res.items[j])]
      OBVIOUS
  <2>5. per[k] = FlattenSeq(ss)
      BY <1>1, <2>1, <2>4
  <2>6. ASSUME NEW j \in DOMAIN res.items PROVE ss[j] \in Seq(T) /\ Paired(ss[j])
    <3>1. PICK item, ids : item = res.items[j] /\ ids = NamedBy(req.route, who, item)
        OBVIOUS
    <3>2. item \in ToSet(res.items)
        BY <3>1 DEF ToSet
    <3>3. Timed(ids) \subseteq T
      <4>1. ids \subseteq Streams(req)
        <5>1. \A e \in ids : e \in NamedBy(req.route, identity(res.attrs), item)
            BY <2>1, <3>1
        <5> QED
            BY <2>2, <3>2, <5>1 DEF Streams
      <4> QED
          BY <1>0, <4>1 DEF Timed
    <3>4. ss[j] = of(who, item)
        BY <2>4, <3>1
    <3>5. ss[j] \in Seq(Timed(ids)) /\ Paired(ss[j])
      <4>1. CASE req.route = "metrics"
        <5>1. /\ IsList(item.name) /\ IsList(item.points)
              /\ \A p \in ToSet(item.points) : p.nanos \in Nanos
            BY <1>0, <2>2, <3>2, <4>1, ExportsAssumption
        <5>2. ss[j] = metric(who, item) /\ ids = NamedBy("metrics", who, item)
            BY <3>1, <3>4, <4>1
        <5> QED
            BY <5>1, <5>2, MetricList
      <4>2. CASE req.route # "metrics"
        <5>1. /\ IsList(item.records)
              /\ \A rec \in ToSet(item.records) : rec.nanos \in Nanos /\ rec.observed \in Nanos
            BY <1>0, <2>2, <3>2, <4>2, ExportsAssumption
        <5>2. ss[j] = logs(who, item)
            BY <3>4, <4>2
        <5> QED
            BY <3>1, <4>2, <5>1, <5>2, LogsList
      <4> QED
          BY <4>1, <4>2
    <3> QED
        BY <3>3, <3>5, SeqWidens
  <2>7. ss = [j \in DOMAIN res.items |-> ss[j]]
      BY <2>4
  <2>8. PICK items : items = res.items
      OBVIOUS
  <2>9. /\ IsList(items) /\ ss = [j \in DOMAIN items |-> ss[j]]
        /\ \A j \in DOMAIN items : ss[j] \in Seq(T) /\ Paired(ss[j])
      BY <2>3, <2>6, <2>7, <2>8
  <2> QED
      BY <2>5, <2>9, ListsFlatten
<1>4. IsList(req.resources)
    BY <1>0, ExportsAssumption
<1>5. per = [k \in DOMAIN req.resources |-> per[k]]
    BY <1>1
<1> HIDE DEF of
<1>6. PICK resources : resources = req.resources
    OBVIOUS
<1>7. /\ IsList(resources) /\ per = [k \in DOMAIN resources |-> per[k]]
      /\ \A k \in DOMAIN resources : per[k] \in Seq(T) /\ Paired(per[k])
    BY <1>3, <1>4, <1>5, <1>6
<1>8. FlattenSeq(per) \in Seq(T) /\ Paired(FlattenSeq(per))
    BY <1>7, ListsFlatten
<1> QED
    BY <1>0, <1>2, <1>8

-----------------------------------------------------------------------------
(* The streams of a request.                                               *)

\* What identity makes of one attribute
IdentityStep(who, kv) ==
    CASE kv.key = "service.namespace" -> [who EXCEPT !.ns = kv.value]
      [] kv.key = "service.name" -> [who EXCEPT !.svc = kv.value]
      [] OTHER -> who

Nobody == [ns |-> <<"default">>, svc |-> <<"unknown">>]

\* f is the function that identity's fold chooses
Identifies(f, N, attrs) ==
    f = [s \in SUBSET (1 .. N) |->
           IF s = {} THEN Nobody ELSE IdentityStep(f[s \ {Max(s)}], attrs[Max(s)])]

LEMMA IdentityUnfold ==
    ASSUME NEW N \in Nat, NEW attrs, DOMAIN attrs = 1 .. N,
           \E f : Identifies(f, N, attrs)
    PROVE  \E f : Identifies(f, N, attrs) /\ identity(attrs) = f[1 .. N]
<1> DEFINE g == CHOOSE f : f = [s \in SUBSET (1 .. N) |->
                                  IF s = {} THEN Nobody
                                  ELSE IdentityStep(f[s \ {Max(s)}], attrs[Max(s)])]
<1>1. g = [s \in SUBSET (1 .. N) |->
             IF s = {} THEN Nobody ELSE IdentityStep(g[s \ {Max(s)}], attrs[Max(s)])]
    BY Zenon DEF Identifies
<1>2. identity(attrs) = g[1 .. N]
    BY Zenon DEF identity, FoldLeft, MapThenFoldSet, IdentityStep, Nobody
<1> HIDE DEF g
<1> QED
    BY <1>1, <1>2, Zenon DEF Identifies

\* Who sends is named by attributes, or by default.
LEMMA IdentityType ==
    ASSUME NEW attrs, IsList(attrs), NEW Names, <<"default">> \in Names, <<"unknown">> \in Names,
           \A kv \in ToSet(attrs) : kv.value \in Names
    PROVE  identity(attrs) \in [ns : Names, svc : Names]
<1> DEFINE Who == [ns : Names, svc : Names]
           F == [x \in Who \X ToSet(attrs) |-> IdentityStep(x[1], x[2])]
<1>1. PICK N \in Nat : DOMAIN attrs = 1 .. N /\ attrs \in [1 .. N -> ToSet(attrs)]
    BY LenProperties DEF IsList
<1>2. ASSUME NEW who \in Who, NEW kv \in ToSet(attrs) PROVE IdentityStep(who, kv) \in Who
    BY DEF IdentityStep
<1>3. Nobody \in Who
    BY DEF Nobody
<1> HIDE DEF Who
<1>4. F \in [Who \X ToSet(attrs) -> Who]
  <2>1. \A x \in Who \X ToSet(attrs) : IdentityStep(x[1], x[2]) \in Who
      BY <1>2
  <2> QED
      BY <2>1
<1>5. \A a \in Who, v \in ToSet(attrs) : F[<<a, v>>] = IdentityStep(a, v)
    OBVIOUS
<1> HIDE DEF F
<1>6. PICK g : Folds(g, Who, Nobody, F, N, attrs)
    BY <1>1, <1>3, <1>4, FoldExists
<1>7. \A s \in SUBSET (1 .. N) : s # {} => Max(s) \in s
    BY LargestIndex
<1>8. Identifies(g, N, attrs)
  <2>1. ASSUME NEW s \in SUBSET (1 .. N), s # {}
        PROVE  g[s] = IdentityStep(g[s \ {Max(s)}], attrs[Max(s)])
    <3>1. g[s] = F[<<g[s \ {Max(s)}], attrs[Max(s)]>>]
        BY <1>6, <2>1 DEF Folds
    <3>2. attrs[Max(s)] \in ToSet(attrs) /\ g[s \ {Max(s)}] \in Who
      <4>1. Max(s) \in 1 .. N /\ s \ {Max(s)} \in SUBSET (1 .. N)
          BY <1>7, <2>1
      <4> QED
          BY <1>1, <1>6, <4>1 DEF Folds
    <3> QED
        BY <1>5, <3>1, <3>2
  <2>2. g[{}] = Nobody
      BY <1>6 DEF Folds
  <2>3. \A s \in SUBSET (1 .. N) :
           g[s] = IF s = {} THEN Nobody ELSE IdentityStep(g[s \ {Max(s)}], attrs[Max(s)])
      BY <2>1, <2>2
  <2>4. g = [s \in SUBSET (1 .. N) |-> g[s]]
      BY <1>6 DEF Folds
  <2> QED
      BY <2>3, <2>4, Zenon DEF Identifies
<1>9. PICK f : Identifies(f, N, attrs) /\ identity(attrs) = f[1 .. N]
    BY <1>1, <1>8, IdentityUnfold
<1> DEFINE P == {k \in 0 .. N : f[1 .. k] \in Who}
<1>10. 0 \in P
  <2>1. 1 .. 0 = {} /\ {} \in SUBSET (1 .. N)
      OBVIOUS
  <2> QED
      BY <1>3, <1>9, <2>1 DEF Identifies
<1>11. ASSUME NEW k \in 1 .. N, k - 1 \in P PROVE k \in P
  <2>1. /\ 1 .. k \in SUBSET (1 .. N) /\ 1 .. k # {}
        /\ (1 .. k) \ {k} = 1 .. (k - 1) /\ Max(1 .. k) = k
      BY PrefixIndices
  <2>2. f[1 .. k] = IdentityStep(f[1 .. (k - 1)], attrs[k])
      BY <1>9, <2>1 DEF Identifies
  <2>3. attrs[k] \in ToSet(attrs) /\ f[1 .. (k - 1)] \in Who
      BY <1>1, <1>11
  <2>4. f[1 .. k] \in Who
      BY <1>2, <2>2, <2>3
  <2> QED
      BY <2>4
<1>12. N \in P
  <2> HIDE DEF P
  <2>1. \A k \in 0 .. N : k \in P
      BY <1>10, <1>11, UpTo
  <2> QED
      BY <2>1
<1> QED
    BY <1>9, <1>12 DEF Who

\* The names a request gives and those the receiver adds
AllNames(req) ==
    GivenNames(req) \cup {<<"default">>, <<"unknown">>, <<".count">>, <<".sum">>,
                          <<DatSuffix>>, <<"logs">>, <<"metrics">>}

PiecesOf(req) == UNION {ToSet(name) : name \in AllNames(req)}

\* The names of a request that gives none empty or with a slash.
LEMMA NamesFacts ==
    ASSUME NEW x \in Exports, ~ Misnamed(x), NEW name \in AllNames(RequestOf[x])
    PROVE  name \in Seq(PiecesOf(RequestOf[x])) /\ name # << >> /\ Slash \notin ToSet(name)
<1>1. IsList(name) /\ name # << >> /\ Slash \notin ToSet(name)
  <2>1. CASE name \in GivenNames(RequestOf[x])
    <3>1. name # << >> /\ Slash \notin ToSet(name)
        BY <2>1 DEF Misnamed
    <3>2. PICK res \in ToSet(RequestOf[x].resources) :
             \/ \E kv \in ToSet(res.attrs) : name = kv.value
             \/ \E item \in ToSet(res.items) : name = item.name
        BY <2>1 DEF GivenNames
    <3>3. IsList(name)
        BY <3>2, ExportsAssumption
    <3> QED
        BY <3>1, <3>3
  <2>2. ASSUME NEW piece, piece # Slash, name = <<piece>>
        PROVE  IsList(name) /\ name # << >> /\ Slash \notin ToSet(name)
    <3>1. <<piece>> \in Seq({piece}) /\ <<piece>> # << >>
        OBVIOUS
    <3>2. \A i \in DOMAIN <<piece>> : <<piece>>[i] = piece
        OBVIOUS
    <3>3. IsList(name)
        BY <2>2, <3>1, ListFacts
    <3>4. Slash \notin ToSet(name)
        BY <2>2, <3>2 DEF ToSet
    <3> QED
        BY <2>2, <3>1, <3>3, <3>4
  <2>3. CASE name \notin GivenNames(RequestOf[x])
    <3>1. \E piece \in {"default", "unknown", ".count", ".sum", DatSuffix, "logs", "metrics"} :
             name = <<piece>>
        BY <2>3 DEF AllNames
    <3>2. \A piece \in {"default", "unknown", ".count", ".sum", DatSuffix, "logs", "metrics"} :
             piece # Slash
        BY DEF DatSuffix, Slash
    <3> QED
        BY <2>2, <3>1, <3>2
  <2> QED
      BY <2>1, <2>3
<1>2. ToSet(name) \subseteq PiecesOf(RequestOf[x])
    BY DEF PiecesOf
<1> QED
    BY <1>1, <1>2, SeqWidens DEF IsList

\* Two names put together.
LEMMA NameConcat ==
    ASSUME NEW Pieces, NEW p \in Seq(Pieces), NEW q \in Seq(Pieces),
           p # << >>, Slash \notin ToSet(p), Slash \notin ToSet(q)
    PROVE  p \o q \in Seq(Pieces) /\ p \o q # << >> /\ Slash \notin ToSet(p \o q)
<1>1. PICK m \in Nat, n \in Nat : m = Len(p) /\ n = Len(q)
    OBVIOUS
<1>2. PICK r : r = p \o q
    OBVIOUS
<1>3. /\ r \in Seq(Pieces) /\ DOMAIN r = 1 .. m + n /\ DOMAIN p = 1 .. m /\ DOMAIN q = 1 .. n
      /\ Len(r) = m + n
      /\ \A i \in 1 .. m + n : r[i] = IF i <= m THEN p[i] ELSE q[i - m]
    BY <1>1, <1>2, ConcatProperties, LenProperties
<1>4. m # 0 /\ r # << >>
    BY <1>1, <1>3, EmptySeq
<1>5. ASSUME NEW i \in 1 .. m + n PROVE r[i] # Slash
  <2>1. CASE i <= m
      BY <1>3, <2>1 DEF ToSet
  <2>2. CASE ~(i <= m)
    <3>1. i - m \in 1 .. n
        BY <2>2
    <3> QED
        BY <1>3, <2>2, <3>1 DEF ToSet
  <2> QED
      BY <2>1, <2>2
<1> QED
    BY <1>2, <1>3, <1>4, <1>5 DEF ToSet

\* The streams of such a request have plain names.
LEMMA StreamsPlain ==
    ASSUME NEW x \in Exports, ~ Misnamed(x), NEW id \in Streams(RequestOf[x])
    PROVE  IsPlain(id, PiecesOf(RequestOf[x]))
<1>1. PICK req, Names, Pieces :
         req = RequestOf[x] /\ Names = AllNames(req) /\ Pieces = PiecesOf(req)
    OBVIOUS
<1>2. \A name \in Names : name \in Seq(Pieces) /\ name # << >> /\ Slash \notin ToSet(name)
    BY <1>1, NamesFacts
<1>3. /\ <<"default">> \in Names /\ <<"unknown">> \in Names /\ <<".count">> \in Names
      /\ <<".sum">> \in Names /\ <<DatSuffix>> \in Names /\ <<"logs">> \in Names
      /\ <<"metrics">> \in Names
    BY <1>1 DEF AllNames
<1>4. PICK res \in ToSet(req.resources) : \E item \in ToSet(res.items) :
         id \in NamedBy(req.route, identity(res.attrs), item)
    BY <1>1 DEF Streams
<1>5. PICK item \in ToSet(res.items) : id \in NamedBy(req.route, identity(res.attrs), item)
    BY <1>4
<1>6. PICK who \in [ns : Names, svc : Names] : who = identity(res.attrs)
  <2>1. PICK attrs : attrs = res.attrs
      OBVIOUS
  <2>2. IsList(attrs)
      BY <1>1, <2>1, ExportsAssumption
  <2>3. \A kv \in ToSet(attrs) : kv.value \in Names
      BY <1>1, <2>1 DEF AllNames, GivenNames
  <2>4. identity(attrs) \in [ns : Names, svc : Names]
      BY <1>3, <2>2, <2>3, IdentityType
  <2> QED
      BY <2>1, <2>4
<1>7. item.name \in Names \/ (req.route = "logs" /\ item.name = << >>)
    BY <1>1 DEF AllNames, GivenNames
<1>8. PICK kind, name :
         /\ kind \in KindDirs
         /\ id = [ns |-> who.ns, svc |-> who.svc, kind |-> kind, name |-> name]
         /\ name \in Seq(Pieces) /\ name # << >> /\ Slash \notin ToSet(name)
  <2>1. CASE req.route = "metrics"
    <3>1. item.name \in Names
        BY <1>7, <2>1
    <3>2. PICK given \in Names : given = item.name
        BY <3>1
    <3>3. \E name \in {given, given \o <<".count">>, given \o <<".sum">>} :
             id = StreamID(who, <<"metrics">>, name)
        BY <1>5, <1>6, <2>1, <3>2 DEF NamedBy
    <3>4. PICK name \in {given, given \o <<".count">>, given \o <<".sum">>} :
             id = StreamID(who, <<"metrics">>, name)
        BY <3>3
    <3>5. name \in Seq(Pieces) /\ name # << >> /\ Slash \notin ToSet(name)
      <4>1. \A suffix \in Names :
               /\ given \o suffix \in Seq(Pieces) /\ given \o suffix # << >>
               /\ Slash \notin ToSet(given \o suffix)
          BY <1>2, NameConcat
      <4> QED
          BY <1>2, <1>3, <3>4, <4>1, Zenon
    <3>6. <<"metrics">> \in KindDirs
        BY DEF KindDirs
    <3> QED
        BY <3>4, <3>5, <3>6, Zenon DEF StreamID
  <2>2. CASE req.route # "metrics"
    <3>1. PICK name : name = ScopeName(item.name)
        OBVIOUS
    <3>2. id = StreamID(who, <<"logs">>, name)
        BY <1>5, <1>6, <2>2, <3>1 DEF NamedBy
    <3>3. name \in Names
        BY <1>3, <1>7, <3>1 DEF ScopeName
    <3>4. <<"logs">> \in KindDirs
        BY DEF KindDirs
    <3> QED
        BY <1>2, <3>2, <3>3, <3>4, Zenon DEF StreamID
  <2> QED
      BY <2>1, <2>2
<1>9. DatSuffix \in Pieces /\ KindDirs \subseteq Seq(Pieces)
  <2>1. DatSuffix \in ToSet(<<DatSuffix>>)
    <3>1. 1 \in DOMAIN <<DatSuffix>> /\ <<DatSuffix>>[1] = DatSuffix
        OBVIOUS
    <3> QED
        BY <3>1 DEF ToSet
  <2>2. DatSuffix \in Pieces
      BY <1>1, <1>3, <2>1 DEF PiecesOf
  <2>3. KindDirs \subseteq Seq(Pieces)
      BY <1>2, <1>3 DEF KindDirs
  <2> QED
      BY <2>2, <2>3
<1>10. who.ns \in Names /\ who.svc \in Names
    BY <1>6
<1>11. id \in [ns : Seq(Pieces), svc : Seq(Pieces), kind : KindDirs, name : Seq(Pieces)]
    BY <1>2, <1>8, <1>10
<1>12. \A n \in {id.ns, id.svc, id.name} : n # << >> /\ Slash \notin ToSet(n)
  <2>1. id.ns = who.ns /\ id.svc = who.svc /\ id.name = name
      BY <1>8
  <2> QED
      BY <1>2, <1>8, <1>10, <2>1
<1> QED
    BY <1>1, <1>9, <1>11, <1>12 DEF IsPlain

-----------------------------------------------------------------------------
(* The receiver's state.                                                   *)

Total(x) == Len(Samples(RequestOf[x]))

\* A handler with a request is at one of its samples or before them; only a
\* well-formed request is handled, and what is ingested is one of its samples.
Serving ==
    /\ handler = [h \in Handlers |-> handler[h]]
    /\ \A h \in Handlers :
         /\ DOMAIN handler[h] = {"req", "step", "pending", "ts", "taken"}
         /\ \/ handler[h].step = "free" /\ handler[h].req = "none"
            \/ handler[h].step \in {"read", "handle"} /\ handler[h].req \in Exports
         /\ handler[h].step # "handle" => handler[h].pending = << >>
         /\ handler[h].step = "handle" =>
              /\ Good(handler[h].req) /\ IsList(handler[h].pending)
              /\ Len(handler[h].pending) <= Total(handler[h].req)
    /\ posts \in [Exports -> Nat]
    /\ acked \subseteq Exports
    /\ now \in StartTime .. StartTime + MaxTicks
    /\ IsList(ingested)
    /\ \A i \in DOMAIN ingested :
         /\ ingested[i].req \in Exports /\ Good(ingested[i].req)
         /\ ingested[i].left \in 1 .. Total(ingested[i].req)

\* The sample of x with n samples from it on is stored
Stored(x, n) == \E i \in DOMAIN ingested : ingested[i].req = x /\ ingested[i].left = n

\* Of a request that is acknowledged everything is stored, of one that is being
\* handled what is no longer pending.
StoredInv ==
    /\ \A x \in acked : \A n \in 1 .. Total(x) : Stored(x, n)
    /\ \A h \in Handlers : handler[h].step = "handle" =>
         \A n \in 1 .. Total(handler[h].req) :
            n > Len(handler[h].pending) => Stored(handler[h].req, n)

\* The handlers that may still ingest that sample
Owing(x, n) ==
    {h \in Handlers : /\ handler[h].req = x
                      /\ \/ handler[h].step = "read"
                         \/ handler[h].step = "handle" /\ n <= Len(handler[h].pending)}

\* Every copy of a sample, stored or still to come, is owed to a request sent.
SentInv ==
    \A x \in Exports : \A n \in 1 .. Total(x) :
        Copies(x, n) + Cardinality(Owing(x, n)) <= posts[x]

ReceiverInv == Serving /\ StoredInv /\ SentInv

LEMMA TotalType == \A x \in Exports : Total(x) \in Nat
BY SamplesList, ListFacts DEF Total

\* How many copies there are, and whether there is one.
LEMMA CopiesFacts ==
    ASSUME IsList(ingested), NEW x, NEW n
    PROVE  /\ Copies(x, n) \in Nat
           /\ Stored(x, n) => Copies(x, n) >= 1
<1> DEFINE C == {i \in DOMAIN ingested : ingested[i].req = x /\ ingested[i].left = n}
<1>1. PICK k \in Nat : DOMAIN ingested = 1 .. k
    BY ListFacts
<1>2. IsFiniteSet(C)
  <2>1. IsFiniteSet(1 .. k)
      BY FS_Interval
  <2> QED
      BY <1>1, <2>1, FS_Subset
<1>3. Copies(x, n) = Cardinality(C)
    BY DEF Copies
<1>4. Stored(x, n) => C # {}
    BY DEF Stored
<1> HIDE DEF C
<1>5. Cardinality(C) \in Nat
    BY <1>2, FS_CardinalityType
<1>6. C # {} => Cardinality(C) # 0
    BY <1>2, FS_EmptySet
<1> QED
    BY <1>3, <1>4, <1>5, <1>6

\* One sample more.
LEMMA ListAppend ==
    ASSUME NEW s, IsList(s), NEW e
    PROVE  /\ IsList(Append(s, e)) /\ Len(Append(s, e)) = Len(s) + 1
           /\ \A i \in 1 .. Len(s) : Append(s, e)[i] = s[i]
           /\ Append(s, e)[Len(s) + 1] = e
<1>1. PICK T : T = ToSet(s) \cup {e}
    OBVIOUS
<1>2. s \in Seq(T) /\ e \in T
  <2>1. Len(s) \in Nat /\ s \in [1 .. Len(s) -> ToSet(s)]
      BY LenProperties DEF IsList
  <2>2. s \in [1 .. Len(s) -> T] /\ e \in T
      BY <1>1, <2>1
  <2> QED
      BY <2>1, <2>2, SeqOfFunction
<1>3. /\ Append(s, e) \in Seq(T) /\ Len(Append(s, e)) = Len(s) + 1
      /\ \A i \in 1 .. Len(s) : Append(s, e)[i] = s[i]
      /\ Append(s, e)[Len(s) + 1] = e
    BY <1>2, AppendProperties
<1> QED
    BY <1>3, ListFacts

\* One sample less.
LEMMA ListTail ==
    ASSUME NEW s, IsList(s), s # << >>
    PROVE  IsList(Tail(s)) /\ Len(Tail(s)) = Len(s) - 1 /\ Len(s) >= 1
<1>1. PICK T : T = ToSet(s)
    OBVIOUS
<1>2. s \in Seq(T)
    BY <1>1 DEF IsList
<1>3. Tail(s) \in Seq(T) /\ Len(Tail(s)) = Len(s) - 1 /\ Len(s) \in Nat /\ Len(s) # 0
    BY <1>2, HeadTailProperties, EmptySeq
<1>4. IsList(Tail(s))
    BY <1>3, ListFacts, Zenon
<1>5. Len(s) >= 1
    BY <1>3
<1> QED
    BY <1>3, <1>4, <1>5

\* What a handler's step makes of the handlers.
LEMMA Updated ==
    ASSUME Serving, NEW h \in Handlers, NEW r, handler' = [handler EXCEPT ![h] = r]
    PROVE  /\ handler' = [g \in Handlers |-> handler'[g]]
           /\ handler'[h] = r
           /\ \A g \in Handlers : g # h => handler'[g] = handler[g]
<1>1. DOMAIN handler = Handlers
    BY DEF Serving
<1> QED
    BY <1>1

\* What stays right of the handlers if one of them changes as it may.
LEMMA ServingKept ==
    ASSUME Serving, NEW h \in Handlers, NEW r, handler' = [handler EXCEPT ![h] = r],
           DOMAIN r = {"req", "step", "pending", "ts", "taken"},
           \/ r.step = "free" /\ r.req = "none"
           \/ r.step \in {"read", "handle"} /\ r.req \in Exports,
           r.step # "handle" => r.pending = << >>,
           r.step = "handle" =>
              Good(r.req) /\ IsList(r.pending) /\ Len(r.pending) <= Total(r.req)
    PROVE  /\ handler' = [g \in Handlers |-> handler'[g]]
           /\ \A g \in Handlers :
                /\ DOMAIN handler'[g] = {"req", "step", "pending", "ts", "taken"}
                /\ \/ handler'[g].step = "free" /\ handler'[g].req = "none"
                   \/ handler'[g].step \in {"read", "handle"} /\ handler'[g].req \in Exports
                /\ handler'[g].step # "handle" => handler'[g].pending = << >>
                /\ handler'[g].step = "handle" =>
                     /\ Good(handler'[g].req) /\ IsList(handler'[g].pending)
                     /\ Len(handler'[g].pending) <= Total(handler'[g].req)
<1>1. /\ handler' = [g \in Handlers |-> handler'[g]]
      /\ handler'[h] = r
      /\ \A g \in Handlers : g # h => handler'[g] = handler[g]
    BY Updated
<1>2. ASSUME NEW g \in Handlers
      PROVE  /\ DOMAIN handler'[g] = {"req", "step", "pending", "ts", "taken"}
             /\ \/ handler'[g].step = "free" /\ handler'[g].req = "none"
                \/ handler'[g].step \in {"read", "handle"} /\ handler'[g].req \in Exports
             /\ handler'[g].step # "handle" => handler'[g].pending = << >>
             /\ handler'[g].step = "handle" =>
                  /\ Good(handler'[g].req) /\ IsList(handler'[g].pending)
                  /\ Len(handler'[g].pending) <= Total(handler'[g].req)
  <2>1. CASE g = h
      BY <1>1, <2>1
  <2>2. CASE g # h
    <3>1. handler'[g] = handler[g]
        BY <1>1, <2>2
    <3> QED
        BY <3>1 DEF Serving
  <2> QED
      BY <2>1, <2>2
<1> QED
    BY <1>1, <1>2

\* A handler's step that ingests nothing keeps what is stored; it must not make more
\* handlers owe a sample than requests are sent.
LEMMA CopiesKept ==
    ASSUME ingested' = ingested
    PROVE  \A x, n : Copies(x, n)' = Copies(x, n) /\ (Stored(x, n) <=> Stored(x, n)')
BY DEF Copies, Stored

\* Fewer owe, or one more of the request that is sent once more.
LEMMA OwingFewer ==
    ASSUME NEW x, NEW n, Owing(x, n)' \subseteq Owing(x, n)
    PROVE  /\ Cardinality(Owing(x, n)) \in Nat /\ Cardinality(Owing(x, n)') \in Nat
           /\ Cardinality(Owing(x, n)') <= Cardinality(Owing(x, n))
<1>1. PICK A, B : A = Owing(x, n) /\ B = Owing(x, n)'
    OBVIOUS
<1>2. IsFiniteSet(A)
  <2>1. A \subseteq Handlers
      BY <1>1 DEF Owing
  <2> QED
      BY <2>1, ServingAssumption, FS_Subset
<1>3. /\ IsFiniteSet(B) /\ Cardinality(B) <= Cardinality(A)
      /\ Cardinality(A) \in Nat /\ Cardinality(B) \in Nat
    BY <1>1, <1>2, FS_Subset, FS_CardinalityType
<1> QED
    BY <1>1, <1>3

LEMMA OwingOneMore ==
    ASSUME NEW x, NEW n, NEW h, Owing(x, n)' \subseteq Owing(x, n) \cup {h}
    PROVE  /\ Cardinality(Owing(x, n)) \in Nat /\ Cardinality(Owing(x, n)') \in Nat
           /\ Cardinality(Owing(x, n)') <= Cardinality(Owing(x, n)) + 1
<1>1. PICK A, B : A = Owing(x, n) /\ B = Owing(x, n)'
    OBVIOUS
<1>2. IsFiniteSet(A)
  <2>1. A \subseteq Handlers
      BY <1>1 DEF Owing
  <2> QED
      BY <2>1, ServingAssumption, FS_Subset
<1>3. /\ IsFiniteSet(A \cup {h}) /\ Cardinality(A \cup {h}) <= Cardinality(A) + 1
      /\ Cardinality(A) \in Nat /\ Cardinality(A \cup {h}) \in Nat
  <2>1. IsFiniteSet(A \cup {h})
      BY <1>2, FS_AddElement
  <2>2. Cardinality(A \cup {h}) = IF h \in A THEN Cardinality(A) ELSE Cardinality(A) + 1
      BY <1>2, FS_AddElement
  <2>3. Cardinality(A) \in Nat
      BY <1>2, FS_CardinalityType
  <2> QED
      BY <2>1, <2>2, <2>3
<1>4. /\ IsFiniteSet(B) /\ Cardinality(B) <= Cardinality(A \cup {h})
      /\ Cardinality(B) \in Nat
    BY <1>1, <1>3, FS_Subset, FS_CardinalityType
<1> QED
    BY <1>1, <1>3, <1>4

LEMMA OwingOneLess ==
    ASSUME NEW x, NEW n, NEW h \in Owing(x, n), Owing(x, n)' = Owing(x, n) \ {h}
    PROVE  /\ Cardinality(Owing(x, n)) \in Nat /\ Cardinality(Owing(x, n)') \in Nat
           /\ Cardinality(Owing(x, n)') = Cardinality(Owing(x, n)) - 1
<1>1. PICK A, B : A = Owing(x, n) /\ B = Owing(x, n)'
    OBVIOUS
<1>2. IsFiniteSet(A)
  <2>1. A \subseteq Handlers
      BY <1>1 DEF Owing
  <2> QED
      BY <2>1, ServingAssumption, FS_Subset
<1>3. h \in A /\ B = A \ {h}
    BY <1>1
<1>4. /\ IsFiniteSet(B) /\ Cardinality(B) = Cardinality(A) - 1
      /\ Cardinality(A) \in Nat /\ Cardinality(B) \in Nat
    BY <1>2, <1>3, FS_RemoveElement, FS_CardinalityType
<1> QED
    BY <1>1, <1>4

\* An answer frees the handler.
LEMMA AnswerStep ==
    ASSUME ReceiverInv, NEW h \in Handlers, NEW status, Answer(h, status),
           handler[h].step # "free",
           status = 200 => \A n \in 1 .. Total(handler[h].req) : Stored(handler[h].req, n)
    PROVE  ReceiverInv'
<1>1. /\ handler' = [handler EXCEPT ![h] = Free]
      /\ acked' = acked \/ (status = 200 /\ acked' = acked \cup {handler[h].req})
      /\ now' = now /\ posts' = posts /\ ingested' = ingested
    BY DEF Answer
<1>2. Serving /\ handler[h].req \in Exports
    BY DEF ReceiverInv, Serving
<1>3. /\ DOMAIN Free = {"req", "step", "pending", "ts", "taken"}
      /\ Free.step = "free" /\ Free.req = "none" /\ Free.pending = << >>
    BY DEF Free
<1>4. Serving'
  <2>1. /\ handler' = [g \in Handlers |-> handler'[g]]
        /\ \A g \in Handlers :
             /\ DOMAIN handler'[g] = {"req", "step", "pending", "ts", "taken"}
             /\ \/ handler'[g].step = "free" /\ handler'[g].req = "none"
                \/ handler'[g].step \in {"read", "handle"} /\ handler'[g].req \in Exports
             /\ handler'[g].step # "handle" => handler'[g].pending = << >>
             /\ handler'[g].step = "handle" =>
                  /\ Good(handler'[g].req) /\ IsList(handler'[g].pending)
                  /\ Len(handler'[g].pending) <= Total(handler'[g].req)
      BY <1>1, <1>2, <1>3, ServingKept
  <2>2. acked' \subseteq Exports
      BY <1>1, <1>2 DEF Serving
  <2> QED
      BY <1>1, <1>2, <2>1, <2>2 DEF Serving
<1>5. handler'[h] = Free /\ \A g \in Handlers : g # h => handler'[g] = handler[g]
  <2>1. PICK r : r = Free
      OBVIOUS
  <2>2. handler' = [handler EXCEPT ![h] = r]
      BY <1>1, <2>1
  <2> QED
      BY <1>2, <2>1, <2>2, Updated
<1>6. StoredInv'
  <2>1. \A x, n : Stored(x, n) <=> Stored(x, n)'
      BY <1>1, CopiesKept
  <2>2. \A x \in acked' : \A n \in 1 .. Total(x) : Stored(x, n)
      BY <1>1 DEF ReceiverInv, StoredInv
  <2>3. ASSUME NEW g \in Handlers, handler'[g].step = "handle",
               NEW n \in 1 .. Total(handler'[g].req), n > Len(handler'[g].pending)
        PROVE  Stored(handler'[g].req, n)
    <3>1. g # h
        BY <1>3, <1>5, <2>3
    <3> QED
        BY <1>5, <2>3, <3>1 DEF ReceiverInv, StoredInv
  <2> QED
      BY <2>1, <2>2, <2>3 DEF StoredInv
<1>7. SentInv'
  <2> SUFFICES ASSUME NEW x \in Exports, NEW n \in 1 .. Total(x)
               PROVE  Copies(x, n)' + Cardinality(Owing(x, n)') <= posts'[x]
      BY DEF SentInv
  <2>1. Owing(x, n)' \subseteq Owing(x, n)
      BY <1>3, <1>5 DEF Owing
  <2>2. Copies(x, n)' = Copies(x, n) /\ Copies(x, n) \in Nat
      BY <1>1, <1>2, CopiesKept, CopiesFacts DEF Serving
  <2>3. posts'[x] = posts[x] /\ posts[x] \in Nat
      BY <1>1, <1>2 DEF Serving
  <2>4. Copies(x, n) + Cardinality(Owing(x, n)) <= posts[x]
      BY DEF ReceiverInv, SentInv
  <2>5. /\ Cardinality(Owing(x, n)) \in Nat /\ Cardinality(Owing(x, n)') \in Nat
        /\ Cardinality(Owing(x, n)') <= Cardinality(Owing(x, n))
      BY <2>1, OwingFewer
  <2> QED
      BY <2>2, <2>3, <2>4, <2>5
<1> QED
    BY <1>4, <1>6, <1>7 DEF ReceiverInv

LEMMA RefuseStep ==
    ASSUME ReceiverInv, NEW h \in Handlers, Refuse(h)
    PROVE  ReceiverInv'
<1>1. PICK status : Answer(h, status) /\ status # 200
  <2>1. PICK status : status = Status(RequestOf[handler[h].req])
      OBVIOUS
  <2>2. Answer(h, IF status = 200 THEN 400 ELSE status)
      BY <2>1 DEF Refuse
  <2>3. (IF status = 200 THEN 400 ELSE status) # 200
      OBVIOUS
  <2> QED
      BY <2>2, <2>3
<1>2. handler[h].step # "free"
    BY DEF Refuse
<1> QED
    BY <1>1, <1>2, AnswerStep

LEMMA ReplyStep ==
    ASSUME ReceiverInv, NEW h \in Handlers, Reply(h)
    PROVE  ReceiverInv'
<1>1. /\ Answer(h, 200) /\ handler[h].step = "handle" /\ handler[h].pending = << >>
    BY DEF Reply, Handled
<1>2. handler[h].req \in Exports
    BY <1>1 DEF ReceiverInv, Serving
<1>3. ASSUME NEW n \in 1 .. Total(handler[h].req) PROVE Stored(handler[h].req, n)
  <2>1. n > Len(handler[h].pending)
      BY <1>1
  <2> QED
      BY <1>1, <2>1 DEF ReceiverInv, StoredInv
<1> QED
    BY <1>1, <1>3, AnswerStep

LEMMA TickStep ==
    ASSUME ReceiverInv, Tick
    PROVE  ReceiverInv'
<1>1. /\ now < StartTime + MaxTicks /\ now' = now + 1
      /\ handler' = handler /\ posts' = posts /\ acked' = acked /\ ingested' = ingested
    BY DEF Tick
<1>2. Serving'
  <2>1. now' \in StartTime .. StartTime + MaxTicks
      BY <1>1, ServingAssumption DEF ReceiverInv, Serving
  <2> QED
      BY <1>1, <2>1 DEF ReceiverInv, Serving
<1>3. StoredInv'
    BY <1>1 DEF ReceiverInv, StoredInv, Stored
<1>4. SentInv'
    BY <1>1 DEF ReceiverInv, SentInv, Copies, Owing
<1> QED
    BY <1>2, <1>3, <1>4 DEF ReceiverInv

LEMMA PostStep ==
    ASSUME ReceiverInv, NEW h \in Handlers, Post(h)
    PROVE  ReceiverInv'
<1>1. PICK x \in Exports \ acked :
         /\ handler[h] = Free
         /\ handler' = [handler EXCEPT ![h] = [Free EXCEPT !.req = x, !.step = "read"]]
         /\ posts' = [posts EXCEPT ![x] = @ + 1]
         /\ now' = now /\ acked' = acked /\ ingested' = ingested
    BY Zenon DEF Post
<1>2. PICK r : r = [Free EXCEPT !.req = x, !.step = "read"]
    OBVIOUS
<1>3. /\ DOMAIN r = {"req", "step", "pending", "ts", "taken"}
      /\ r.step = "read" /\ r.req = x /\ r.pending = << >>
      /\ Free.step = "free"
    BY <1>2 DEF Free
<1>4. handler' = [handler EXCEPT ![h] = r]
    BY <1>1, <1>2
<1>5. Serving
    BY DEF ReceiverInv
<1>6. posts' \in [Exports -> Nat]
    BY <1>1, <1>5 DEF Serving
<1>7. Serving'
  <2>1. /\ handler' = [g \in Handlers |-> handler'[g]]
        /\ \A g \in Handlers :
             /\ DOMAIN handler'[g] = {"req", "step", "pending", "ts", "taken"}
             /\ \/ handler'[g].step = "free" /\ handler'[g].req = "none"
                \/ handler'[g].step \in {"read", "handle"} /\ handler'[g].req \in Exports
             /\ handler'[g].step # "handle" => handler'[g].pending = << >>
             /\ handler'[g].step = "handle" =>
                  /\ Good(handler'[g].req) /\ IsList(handler'[g].pending)
                  /\ Len(handler'[g].pending) <= Total(handler'[g].req)
      BY <1>3, <1>4, <1>5, ServingKept
  <2> QED
      BY <1>1, <1>5, <1>6, <2>1 DEF Serving
<1>8. handler'[h] = r /\ \A g \in Handlers : g # h => handler'[g] = handler[g]
    BY <1>4, <1>5, Updated
<1>9. StoredInv'
  <2>1. \A y, n : Stored(y, n) <=> Stored(y, n)'
      BY <1>1, CopiesKept
  <2>2. \A y \in acked' : \A n \in 1 .. Total(y) : Stored(y, n)
      BY <1>1 DEF ReceiverInv, StoredInv
  <2>3. ASSUME NEW g \in Handlers, handler'[g].step = "handle",
               NEW n \in 1 .. Total(handler'[g].req), n > Len(handler'[g].pending)
        PROVE  Stored(handler'[g].req, n)
    <3>1. g # h
        BY <1>3, <1>8, <2>3
    <3> QED
        BY <1>8, <2>3, <3>1 DEF ReceiverInv, StoredInv
  <2> QED
      BY <2>1, <2>2, <2>3 DEF StoredInv
<1>10. SentInv'
  <2> SUFFICES ASSUME NEW y \in Exports, NEW n \in 1 .. Total(y)
               PROVE  Copies(y, n)' + Cardinality(Owing(y, n)') <= posts'[y]
      BY DEF SentInv
  <2>1. Copies(y, n)' = Copies(y, n) /\ Copies(y, n) \in Nat
      BY <1>1, <1>5, CopiesKept, CopiesFacts DEF Serving
  <2>2. posts[y] \in Nat /\ posts'[y] = IF y = x THEN posts[y] + 1 ELSE posts[y]
      BY <1>1, <1>5 DEF Serving
  <2>3. Copies(y, n) + Cardinality(Owing(y, n)) <= posts[y]
      BY DEF ReceiverInv, SentInv
  <2>4. CASE y = x
    <3>1. Owing(y, n)' \subseteq Owing(y, n) \cup {h}
        BY <1>8 DEF Owing
    <3>2. /\ Cardinality(Owing(y, n)) \in Nat /\ Cardinality(Owing(y, n)') \in Nat
          /\ Cardinality(Owing(y, n)') <= Cardinality(Owing(y, n)) + 1
        BY <3>1, OwingOneMore
    <3> QED
        BY <2>1, <2>2, <2>3, <2>4, <3>2
  <2>5. CASE y # x
    <3>1. Owing(y, n)' \subseteq Owing(y, n)
        BY <1>3, <1>8, <2>5 DEF Owing
    <3>2. /\ Cardinality(Owing(y, n)) \in Nat /\ Cardinality(Owing(y, n)') \in Nat
          /\ Cardinality(Owing(y, n)') <= Cardinality(Owing(y, n))
        BY <3>1, OwingFewer
    <3> QED
        BY <2>1, <2>2, <2>3, <2>5, <3>2
  <2> QED
      BY <2>4, <2>5
<1> QED
    BY <1>7, <1>9, <1>10 DEF ReceiverInv

LEMMA DecodeStep ==
    ASSUME ReceiverInv, NEW h \in Handlers, Decode(h)
    PROVE  ReceiverInv'
<1>1. PICK x : x = handler[h].req
    OBVIOUS
<1>2. /\ handler[h].step = "read" /\ Status(RequestOf[x]) = 200
      /\ handler' = [handler EXCEPT ![h].step = "handle",
                                    ![h].pending = Samples(RequestOf[x])]
      /\ now' = now /\ posts' = posts /\ acked' = acked /\ ingested' = ingested
    BY <1>1, Zenon DEF Decode
<1>3. Serving /\ x \in Exports /\ DOMAIN handler[h] = {"req", "step", "pending", "ts", "taken"}
      /\ DOMAIN handler = Handlers
    BY <1>1, <1>2 DEF ReceiverInv, Serving
<1>4. PICK r : r = [handler[h] EXCEPT !.step = "handle", !.pending = Samples(RequestOf[x])]
    OBVIOUS
<1>5. /\ DOMAIN r = {"req", "step", "pending", "ts", "taken"}
      /\ r.step = "handle" /\ r.req = x /\ r.pending = Samples(RequestOf[x])
    BY <1>1, <1>3, <1>4
<1>6. handler' = [handler EXCEPT ![h] = r]
    BY <1>2, <1>3, <1>4
<1>7. Good(x)
    BY <1>2 DEF Status, Good
<1>8. IsList(r.pending) /\ Len(r.pending) = Total(x) /\ Total(x) \in Nat
  <2>1. IsList(Samples(RequestOf[x]))
      BY <1>3, SamplesList, ListFacts, Zenon
  <2> QED
      BY <1>3, <1>5, <2>1, TotalType DEF Total
<1>9. Serving'
  <2>1. /\ handler' = [g \in Handlers |-> handler'[g]]
        /\ \A g \in Handlers :
             /\ DOMAIN handler'[g] = {"req", "step", "pending", "ts", "taken"}
             /\ \/ handler'[g].step = "free" /\ handler'[g].req = "none"
                \/ handler'[g].step \in {"read", "handle"} /\ handler'[g].req \in Exports
             /\ handler'[g].step # "handle" => handler'[g].pending = << >>
             /\ handler'[g].step = "handle" =>
                  /\ Good(handler'[g].req) /\ IsList(handler'[g].pending)
                  /\ Len(handler'[g].pending) <= Total(handler'[g].req)
    <3>1. r.step \in {"read", "handle"} /\ r.req \in Exports
        BY <1>3, <1>5
    <3>2. Good(r.req) /\ IsList(r.pending) /\ Len(r.pending) <= Total(r.req)
        BY <1>5, <1>7, <1>8
    <3> QED
        BY <1>3, <1>5, <1>6, <3>1, <3>2, ServingKept
  <2> QED
      BY <1>2, <1>3, <2>1 DEF Serving
<1>10. handler'[h] = r /\ \A g \in Handlers : g # h => handler'[g] = handler[g]
    BY <1>3, <1>6, Updated
<1>11. StoredInv'
  <2>1. \A y, n : Stored(y, n) <=> Stored(y, n)'
      BY <1>2, CopiesKept
  <2>2. \A y \in acked' : \A n \in 1 .. Total(y) : Stored(y, n)
      BY <1>2 DEF ReceiverInv, StoredInv
  <2>3. ASSUME NEW g \in Handlers, handler'[g].step = "handle",
               NEW n \in 1 .. Total(handler'[g].req), n > Len(handler'[g].pending)
        PROVE  Stored(handler'[g].req, n)
    <3>1. CASE g = h
      <4>1. n \in 1 .. Total(x) /\ n > Total(x)
          BY <1>5, <1>8, <1>10, <2>3, <3>1
      <4> QED
          BY <1>8, <4>1
    <3>2. CASE g # h
        BY <1>10, <2>3, <3>2 DEF ReceiverInv, StoredInv
    <3> QED
        BY <3>1, <3>2
  <2> QED
      BY <2>1, <2>2, <2>3 DEF StoredInv
<1>12. SentInv'
  <2> SUFFICES ASSUME NEW y \in Exports, NEW n \in 1 .. Total(y)
               PROVE  Copies(y, n)' + Cardinality(Owing(y, n)') <= posts'[y]
      BY DEF SentInv
  <2>1. Copies(y, n)' = Copies(y, n) /\ Copies(y, n) \in Nat
      BY <1>2, <1>3, CopiesKept, CopiesFacts DEF Serving
  <2>2. posts[y] \in Nat /\ posts'[y] = posts[y]
      BY <1>2, <1>3 DEF Serving
  <2>3. Copies(y, n) + Cardinality(Owing(y, n)) <= posts[y]
      BY DEF ReceiverInv, SentInv
  <2>4. ASSUME NEW g \in Owing(y, n)'
        PROVE  g \in Owing(y, n)
    <3>1. g \in Handlers /\ handler'[g].req = y
          /\ \/ handler'[g].step = "read"
             \/ handler'[g].step = "handle" /\ n <= Len(handler'[g].pending)
        BY DEF Owing
    <3>2. CASE g = h
        BY <1>1, <1>2, <1>5, <1>10, <3>1, <3>2 DEF Owing
    <3>3. CASE g # h
      <4>1. handler'[g] = handler[g]
          BY <1>10, <3>1, <3>3
      <4> QED
          BY <3>1, <4>1 DEF Owing
    <3> QED
        BY <3>2, <3>3
  <2>5. /\ Cardinality(Owing(y, n)) \in Nat /\ Cardinality(Owing(y, n)') \in Nat
        /\ Cardinality(Owing(y, n)') <= Cardinality(Owing(y, n))
      BY <2>4, OwingFewer
  <2> QED
      BY <2>1, <2>2, <2>3, <2>5
<1> QED
    BY <1>9, <1>11, <1>12 DEF ReceiverInv

\* Ingesting a sample stores one copy more of it, which one handler no longer owes.
LEMMA IngestStep ==
    ASSUME ReceiverInv, NEW h \in Handlers, Ingest(h)
    PROVE  ReceiverInv'
<1>1. Serving
    BY DEF ReceiverInv
<1>2. PICK x, p, m : x = handler[h].req /\ p = handler[h].pending /\ m = Len(p)
    OBVIOUS
<1>3. p # << >> /\ now' = now /\ posts' = posts /\ acked' = acked
    BY <1>2 DEF Ingest
<1>4. /\ handler[h].step = "handle" /\ x \in Exports /\ Good(x)
      /\ IsList(p) /\ m <= Total(x)
      /\ DOMAIN handler[h] = {"req", "step", "pending", "ts", "taken"} /\ DOMAIN handler = Handlers
    BY <1>1, <1>2, <1>3 DEF Serving
<1>5. /\ IsList(Tail(p)) /\ Len(Tail(p)) = m - 1 /\ m >= 1 /\ m \in Nat
      /\ Total(x) \in Nat /\ m \in 1 .. Total(x)
  <2>1. IsList(Tail(p)) /\ Len(Tail(p)) = m - 1 /\ m >= 1
      BY <1>2, <1>3, <1>4, ListTail
  <2>2. m \in Nat /\ Total(x) \in Nat
      BY <1>2, <1>4, ListFacts, TotalType
  <2> QED
      BY <1>4, <2>1, <2>2
<1>6. PICK e, t, c : /\ ingested' = Append(ingested, e) /\ e.req = x /\ e.left = m
                     /\ handler' = [handler EXCEPT ![h].pending = Tail(@), ![h].ts = t,
                                                   ![h].taken = c]
  <2>1. PICK s : s = Head(p)
      OBVIOUS
  <2>2. PICK t : t = IF s.same THEN handler[h].ts ELSE stamp(s.nanos)
      OBVIOUS
  <2>3. PICK c : c = IF s.same THEN handler[h].taken ELSE now
      OBVIOUS
  <2>4. PICK e : e = [id |-> s.id, time |-> t, nanos |-> s.nanos, came |-> c,
                      req |-> x, left |-> m]
      OBVIOUS
  <2>5. /\ ingested' = Append(ingested, e)
        /\ handler' = [handler EXCEPT ![h].pending = Tail(@), ![h].ts = t, ![h].taken = c]
      BY <1>2, <2>1, <2>2, <2>3, <2>4, Zenon DEF Ingest
  <2> QED
      BY <2>4, <2>5
<1>7. PICK r : r = [handler[h] EXCEPT !.pending = Tail(p), !.ts = t, !.taken = c]
    OBVIOUS
<1>8. /\ DOMAIN r = {"req", "step", "pending", "ts", "taken"}
      /\ r.step = "handle" /\ r.req = x /\ r.pending = Tail(p)
    BY <1>2, <1>4, <1>7
<1>9. handler' = [handler EXCEPT ![h] = r]
    BY <1>2, <1>4, <1>6, <1>7
<1>10. handler'[h] = r /\ \A g \in Handlers : g # h => handler'[g] = handler[g]
    BY <1>1, <1>9, Updated
<1>11. PICK k \in Nat : k = Len(ingested) /\ DOMAIN ingested = 1 .. k
  <2>1. IsList(ingested)
      BY <1>1 DEF Serving
  <2> QED
      BY <2>1, ListFacts
<1>12. /\ IsList(ingested') /\ DOMAIN ingested' = 1 .. (k + 1)
       /\ \A i \in 1 .. k : ingested'[i] = ingested[i]
       /\ ingested'[k + 1] = e
  <2>1. IsList(ingested)
      BY <1>1 DEF Serving
  <2>2. /\ IsList(ingested') /\ Len(ingested') = k + 1
        /\ \A i \in 1 .. k : ingested'[i] = ingested[i]
        /\ ingested'[k + 1] = e
      BY <1>6, <1>11, <2>1, ListAppend
  <2>3. DOMAIN ingested' = 1 .. Len(ingested')
      BY <2>2, ListFacts
  <2> QED
      BY <2>2, <2>3
<1>13. Serving'
  <2>1. /\ handler' = [g \in Handlers |-> handler'[g]]
        /\ \A g \in Handlers :
             /\ DOMAIN handler'[g] = {"req", "step", "pending", "ts", "taken"}
             /\ \/ handler'[g].step = "free" /\ handler'[g].req = "none"
                \/ handler'[g].step \in {"read", "handle"} /\ handler'[g].req \in Exports
             /\ handler'[g].step # "handle" => handler'[g].pending = << >>
             /\ handler'[g].step = "handle" =>
                  /\ Good(handler'[g].req) /\ IsList(handler'[g].pending)
                  /\ Len(handler'[g].pending) <= Total(handler'[g].req)
    <3>1. r.step \in {"read", "handle"} /\ r.req \in Exports
        BY <1>4, <1>8
    <3>2. Good(r.req) /\ IsList(r.pending) /\ Len(r.pending) <= Total(r.req)
        BY <1>4, <1>5, <1>8
    <3> QED
        BY <1>1, <1>8, <1>9, <3>1, <3>2, ServingKept
  <2>2. ASSUME NEW i \in DOMAIN ingested'
        PROVE  /\ ingested'[i].req \in Exports /\ Good(ingested'[i].req)
               /\ ingested'[i].left \in 1 .. Total(ingested'[i].req)
    <3>1. CASE i = k + 1
        BY <1>4, <1>5, <1>6, <1>12, <3>1
    <3>2. CASE i # k + 1
      <4>1. i \in 1 .. k
          BY <1>12, <3>2
      <4> QED
          BY <1>1, <1>11, <1>12, <4>1 DEF Serving
    <3> QED
        BY <3>1, <3>2
  <2>3. /\ posts' \in [Exports -> Nat] /\ acked' \subseteq Exports
        /\ now' \in StartTime .. StartTime + MaxTicks
      BY <1>1, <1>3 DEF Serving
  <2> QED
      BY <1>12, <2>1, <2>2, <2>3 DEF Serving
<1>14. Stored(x, m)' /\ \A y, n : Stored(y, n) => Stored(y, n)'
  <2>1. Stored(x, m)'
    <3>1. k + 1 \in DOMAIN ingested'
        BY <1>12
    <3> QED
        BY <1>6, <1>12, <3>1 DEF Stored
  <2>2. ASSUME NEW y, NEW n, Stored(y, n)
        PROVE  Stored(y, n)'
    <3>1. PICK i \in 1 .. k : ingested[i].req = y /\ ingested[i].left = n
        BY <1>11, <2>2 DEF Stored
    <3>2. i \in DOMAIN ingested' /\ ingested'[i] = ingested[i]
        BY <1>12
    <3> QED
        BY <3>1, <3>2 DEF Stored
  <2> QED
      BY <2>1, <2>2
<1>15. StoredInv'
  <2>1. ASSUME NEW y \in acked', NEW n \in 1 .. Total(y)
        PROVE  Stored(y, n)'
      BY <1>3, <1>14 DEF ReceiverInv, StoredInv
  <2>2. ASSUME NEW g \in Handlers, handler'[g].step = "handle",
               NEW n \in 1 .. Total(handler'[g].req), n > Len(handler'[g].pending)
        PROVE  Stored(handler[g].req, n)'
    <3>1. CASE g = h
      <4>1. handler'[g].req = x /\ n \in 1 .. Total(x) /\ n > m - 1 /\ n \in Int
          BY <1>5, <1>8, <1>10, <2>2, <3>1
      <4>2. CASE n = m
          BY <1>14, <4>1, <4>2
      <4>3. CASE n # m
        <5>1. n > m
            BY <1>5, <4>1, <4>3
        <5>2. Stored(x, n)
            BY <1>2, <1>4, <4>1, <5>1 DEF ReceiverInv, StoredInv
        <5> QED
            BY <1>14, <4>1, <5>2
      <4> QED
          BY <4>2, <4>3
    <3>2. CASE g # h
      <4>1. handler'[g] = handler[g]
          BY <1>10, <3>2
      <4>2. Stored(handler[g].req, n)
          BY <2>2, <4>1 DEF ReceiverInv, StoredInv
      <4> QED
          BY <1>14, <4>1, <4>2
    <3> QED
        BY <3>1, <3>2
  <2> QED
      BY <2>1, <2>2 DEF StoredInv
<1>16. ASSUME NEW y, NEW n
       PROVE  /\ Copies(y, n) \in Nat
              /\ Copies(y, n)' = IF y = x /\ n = m THEN Copies(y, n) + 1 ELSE Copies(y, n)
  <2>1. PICK C, D : /\ C = {i \in DOMAIN ingested : ingested[i].req = y /\ ingested[i].left = n}
                    /\ D = {i \in DOMAIN ingested' : ingested'[i].req = y /\ ingested'[i].left = n}
      OBVIOUS
  <2>2. Copies(y, n) = Cardinality(C) /\ Copies(y, n)' = Cardinality(D)
      BY <2>1 DEF Copies
  <2>3. IsFiniteSet(C) /\ Cardinality(C) \in Nat /\ k + 1 \notin C
    <3>1. IsFiniteSet(1 .. k)
        BY FS_Interval
    <3>2. C \subseteq 1 .. k
        BY <1>11, <2>1
    <3>3. k + 1 \notin 1 .. k
        OBVIOUS
    <3>4. IsFiniteSet(C)
        BY <3>1, <3>2, FS_Subset
    <3> QED
        BY <3>2, <3>3, <3>4, FS_CardinalityType
  <2>4. D = IF y = x /\ n = m THEN C \cup {k + 1} ELSE C
    <3>1. \A i \in 1 .. k : i \in D <=> i \in C
        BY <1>11, <1>12, <2>1
    <3>2. k + 1 \in D <=> y = x /\ n = m
        BY <1>6, <1>12, <2>1
    <3>3. C \subseteq 1 .. k /\ D \subseteq 1 .. (k + 1)
        BY <1>11, <1>12, <2>1
    <3>4. \A i \in 1 .. (k + 1) : i = k + 1 \/ i \in 1 .. k
        OBVIOUS
    <3>5. CASE y = x /\ n = m
      <4>1. D = C \cup {k + 1}
          BY <3>1, <3>2, <3>3, <3>4, <3>5, Zenon
      <4> QED
          BY <3>5, <4>1
    <3>6. CASE ~(y = x /\ n = m)
      <4>1. D = C
          BY <3>1, <3>2, <3>3, <3>4, <3>6, Zenon
      <4> QED
          BY <3>6, <4>1
    <3> QED
        BY <3>5, <3>6
  <2>5. Cardinality(C \cup {k + 1}) = Cardinality(C) + 1
      BY <2>3, FS_AddElement
  <2> QED
      BY <2>2, <2>3, <2>4, <2>5
<1>17. SentInv'
  <2> SUFFICES ASSUME NEW y \in Exports, NEW n \in 1 .. Total(y)
               PROVE  Copies(y, n)' + Cardinality(Owing(y, n)') <= posts'[y]
      BY DEF SentInv
  <2>1. posts[y] \in Nat /\ posts'[y] = posts[y]
      BY <1>1, <1>3 DEF Serving
  <2>2. Copies(y, n) + Cardinality(Owing(y, n)) <= posts[y]
      BY DEF ReceiverInv, SentInv
  <2>3. ASSUME NEW g \in Handlers, g # h
        PROVE  g \in Owing(y, n)' <=> g \in Owing(y, n)
    <3>1. handler'[g] = handler[g]
        BY <1>10, <2>3
    <3> QED
        BY <3>1 DEF Owing
  <2>4. Owing(y, n) \subseteq Handlers /\ Owing(y, n)' \subseteq Handlers
      BY DEF Owing
  <2>5. CASE y = x /\ n = m
    <3>1. h \in Owing(y, n)
        BY <1>2, <1>4, <1>5, <2>5 DEF Owing
    <3>2. h \notin Owing(y, n)'
      <4>1. handler'[h].step = "handle" /\ handler'[h].pending = Tail(p)
          BY <1>8, <1>10
      <4>2. ~(m <= Len(Tail(p)))
          BY <1>5
      <4> QED
          BY <2>5, <4>1, <4>2 DEF Owing
    <3>3. Owing(y, n)' = Owing(y, n) \ {h}
        BY <2>3, <2>4, <3>2
    <3>4. /\ Cardinality(Owing(y, n)) \in Nat /\ Cardinality(Owing(y, n)') \in Nat
          /\ Cardinality(Owing(y, n)') = Cardinality(Owing(y, n)) - 1
        BY <3>1, <3>3, OwingOneLess
    <3>5. Copies(y, n) \in Nat /\ Copies(y, n)' = Copies(y, n) + 1
        BY <1>16, <2>5
    <3> QED
        BY <2>1, <2>2, <3>4, <3>5
  <2>6. CASE ~(y = x /\ n = m)
    <3>1. h \in Owing(y, n)' => h \in Owing(y, n)
      <4>1. ASSUME h \in Owing(y, n)'
            PROVE  h \in Owing(y, n)
        <5>1. handler'[h].step = "handle" /\ handler'[h].pending = Tail(p)
              /\ handler'[h].req = x
            BY <1>8, <1>10
        <5>2. x = y /\ n <= Len(Tail(p))
            BY <4>1, <5>1 DEF Owing
        <5>3. n \in Int
            BY TotalType
        <5>4. n <= m
            BY <1>5, <5>2, <5>3
        <5> QED
            BY <1>2, <1>4, <5>2, <5>4 DEF Owing
      <4> QED
          BY <4>1
    <3>2. Owing(y, n)' \subseteq Owing(y, n)
        BY <2>3, <2>4, <3>1
    <3>3. /\ Cardinality(Owing(y, n)) \in Nat /\ Cardinality(Owing(y, n)') \in Nat
          /\ Cardinality(Owing(y, n)') <= Cardinality(Owing(y, n))
        BY <3>2, OwingFewer
    <3>4. Copies(y, n) \in Nat /\ Copies(y, n)' = Copies(y, n)
        BY <1>16, <2>6
    <3> QED
        BY <2>1, <2>2, <3>3, <3>4
  <2> QED
      BY <2>5, <2>6
<1> QED
    BY <1>13, <1>15, <1>17 DEF ReceiverInv

\* Nothing is sent or stored at first.
LEMMA ReceiverStart ==
    ASSUME ReceiverInit
    PROVE  ReceiverInv
<1>1. /\ now = StartTime /\ handler = [h \in Handlers |-> Free]
      /\ posts = [x \in Exports |-> 0] /\ acked = {} /\ ingested = << >>
    BY DEF ReceiverInit
<1>2. /\ DOMAIN Free = {"req", "step", "pending", "ts", "taken"}
      /\ Free.step = "free" /\ Free.req = "none" /\ Free.pending = << >>
    BY DEF Free
<1>3. \A h \in Handlers : handler[h] = Free
    BY <1>1
<1>4. IsList(ingested) /\ DOMAIN ingested = {}
  <2>1. ingested \in Seq({}) /\ Len(ingested) = 0
      BY <1>1
  <2>2. IsList(ingested)
      BY <2>1, ListFacts, Zenon
  <2> QED
      BY <2>1, <2>2, <1>1
<1>5. Serving
  <2>1. /\ handler = [h \in Handlers |-> handler[h]]
        /\ posts \in [Exports -> Nat] /\ acked \subseteq Exports
        /\ now \in StartTime .. StartTime + MaxTicks
      BY <1>1, ServingAssumption
  <2> QED
      BY <1>2, <1>3, <1>4, <2>1 DEF Serving
<1>6. StoredInv
    BY <1>1, <1>2, <1>3 DEF StoredInv
<1>7. SentInv
  <2> SUFFICES ASSUME NEW x \in Exports, NEW n \in 1 .. Total(x)
               PROVE  Copies(x, n) + Cardinality(Owing(x, n)) <= posts[x]
      BY DEF SentInv
  <2>1. Owing(x, n) = {}
      BY <1>2, <1>3 DEF Owing
  <2>2. Copies(x, n) = Cardinality({})
      BY <1>4 DEF Copies
  <2>3. Cardinality({}) = 0
      BY FS_EmptySet
  <2> QED
      BY <1>1, <2>1, <2>2, <2>3
<1> QED
    BY <1>5, <1>6, <1>7 DEF ReceiverInv

LEMMA ReceiverStep ==
    ASSUME ReceiverInv, ReceiverNext
    PROVE  ReceiverInv'
<1>1. CASE Tick
    BY <1>1, TickStep
<1>2. ASSUME NEW h \in Handlers, Post(h) \/ Refuse(h) \/ Decode(h) \/ Ingest(h) \/ Reply(h)
      PROVE  ReceiverInv'
    BY <1>2, PostStep, RefuseStep, DecodeStep, IngestStep, ReplyStep
<1> QED
    BY <1>1, <1>2 DEF ReceiverNext

\* A step of the start, or none, leaves the receiver alone.
LEMMA ReceiverStays ==
    ASSUME ReceiverInv, UNCHANGED receiverVars
    PROVE  ReceiverInv'
<1>1. /\ now' = now /\ handler' = handler /\ posts' = posts /\ acked' = acked
      /\ ingested' = ingested
    BY DEF receiverVars
<1>2. Serving'
    BY <1>1 DEF ReceiverInv, Serving
<1>3. StoredInv'
    BY <1>1 DEF ReceiverInv, StoredInv, Stored
<1>4. SentInv'
    BY <1>1 DEF ReceiverInv, SentInv, Copies, Owing
<1> QED
    BY <1>2, <1>3, <1>4 DEF ReceiverInv

\* The invariant says what an exporter may rely on.
LEMMA StoredAsSentHolds ==
    ASSUME ReceiverInv
    PROVE  StoredAsSent
<1>1. IsList(ingested) /\ posts \in [Exports -> Nat]
    BY DEF ReceiverInv, Serving
<1>2. AckedStored
    BY <1>1, CopiesFacts DEF ReceiverInv, StoredInv, AckedStored, Total
<1>3. NoMoreThanSent
  <2> SUFFICES ASSUME NEW i \in DOMAIN ingested
               PROVE  /\ Good(ingested[i].req)
                      /\ Copies(ingested[i].req, ingested[i].left) <= posts[ingested[i].req]
      BY DEF NoMoreThanSent
  <2>1. PICK x, n : x = ingested[i].req /\ n = ingested[i].left
      OBVIOUS
  <2>2. x \in Exports /\ Good(x) /\ n \in 1 .. Total(x)
      BY <2>1 DEF ReceiverInv, Serving
  <2>3. Copies(x, n) + Cardinality(Owing(x, n)) <= posts[x]
      BY <2>2 DEF ReceiverInv, SentInv
  <2>4. Copies(x, n) \in Nat /\ posts[x] \in Nat
      BY <1>1, <2>2, CopiesFacts
  <2>5. Cardinality(Owing(x, n)) \in Nat
    <3>1. Owing(x, n) \subseteq Handlers
        BY DEF Owing
    <3> QED
        BY <3>1, ServingAssumption, FS_Subset, FS_CardinalityType
  <2> QED
      BY <2>1, <2>2, <2>3, <2>4, <2>5
<1> QED
    BY <1>2, <1>3 DEF StoredAsSent

\* Whatever handlers interleave and however often requests are sent again: every
\* sample of an acknowledged request is stored, none more often than it was sent,
\* and none of a request that is refused (serve, handle, Sink.Ingest).
THEOREM Acknowledged == Spec => []StoredAsSent
<1>1. Init => ReceiverInv
    BY ReceiverStart DEF Init
<1>2. ReceiverInv /\ [Next]_vars => ReceiverInv'
  <2>1. ASSUME ReceiverInv, UNCHANGED receiverVars
        PROVE  ReceiverInv'
      BY <2>1, ReceiverStays
  <2>2. ASSUME ReceiverInv, ReceiverNext
        PROVE  ReceiverInv'
      BY <2>2, ReceiverStep
  <2>3. UNCHANGED vars => UNCHANGED receiverVars
      BY DEF vars
  <2> QED
      BY <2>1, <2>2, <2>3 DEF Next, Serve
<1>3. ReceiverInv => StoredAsSent
    BY StoredAsSentHolds
<1> QED
    BY <1>1, <1>2, <1>3, PTL DEF Spec

-----------------------------------------------------------------------------
(* Time stamps and streams.                                                *)

\* What stamp gives at the instant t
StampAt(t, nanos) ==
    CASE nanos = 0 -> t
      [] nanos >= 2^(WordBits - 1) -> nanos - 2^WordBits
      [] OTHER -> nanos

\* A sample that is to have the stamp of the one before it is of the same time
Tied(q) == \A i \in 2 .. Len(q) : q[i].same => q[i].nanos = q[i - 1].nanos

\* What a handler still has to ingest, and the stamp it holds for the first of it
Holds(r) ==
    /\ r.pending \in Seq(Timed(Streams(RequestOf[r.req]))) /\ Tied(r.pending)
    /\ r.pending # << >> /\ r.pending[1].same =>
          /\ r.taken \in Int /\ r.taken >= StartTime
          /\ r.ts = StampAt(r.taken, r.pending[1].nanos)

\* What has been ingested
Came(e) ==
    /\ e.id \in Streams(RequestOf[e.req]) /\ e.nanos \in Nanos
    /\ e.came \in Int /\ e.came >= StartTime
    /\ e.time = StampAt(e.came, e.nanos)

StampInv ==
    /\ \A h \in Handlers : handler[h].step = "handle" => Holds(handler[h])
    /\ \A i \in DOMAIN ingested : Came(ingested[i])

\* A step that frees a handler, gives it a request or lets time pass.
LEMMA StampKept ==
    ASSUME StampInv, Serving, ingested' = ingested,
           \A h \in Handlers : handler'[h] = handler[h] \/ handler'[h].step # "handle"
    PROVE  StampInv'
<1>1. \A i \in DOMAIN ingested' : Came(ingested'[i])
    BY DEF StampInv
<1>2. ASSUME NEW h \in Handlers, handler'[h].step = "handle"
      PROVE  Holds(handler'[h])
    BY <1>2 DEF StampInv
<1> QED
    BY <1>1, <1>2, Zenon DEF StampInv, Came, Holds, Timed, Streams, StampAt

LEMMA StampDecode ==
    ASSUME StampInv, Serving, NEW h \in Handlers, Decode(h)
    PROVE  StampInv'
<1>1. PICK x \in Exports : x = handler[h].req
    BY DEF Serving, Decode
<1>2. PICK q : q = Samples(RequestOf[x])
    OBVIOUS
<1>3. PICK r : r = [handler[h] EXCEPT !.step = "handle", !.pending = q]
    OBVIOUS
<1>4. handler' = [handler EXCEPT ![h] = r] /\ ingested' = ingested
  <2>1. /\ handler' = [handler EXCEPT ![h].step = "handle", ![h].pending = q]
        /\ ingested' = ingested
      BY <1>1, <1>2, Zenon DEF Decode
  <2>2. h \in DOMAIN handler
      BY DEF Serving
  <2> QED
      BY <1>3, <2>1, <2>2
<1>5. r.req = x /\ r.pending = q
    BY <1>1, <1>3 DEF Serving
<1>6. q \in Seq(Timed(Streams(RequestOf[x]))) /\ Paired(q)
    BY <1>2, SamplesList
<1>7. PICK n \in Nat : n = Len(q) /\ DOMAIN q = 1 .. n
    BY <1>6, LenProperties
<1>8. Tied(q)
  <2>1. \A i \in 2 .. n : i \in 1 .. n
      OBVIOUS
  <2> QED
      BY <1>6, <1>7, <2>1 DEF Tied, Paired
<1>9. q # << >> => ~ q[1].same
  <2>1. q # << >> => 1 \in 1 .. n
      BY <1>6, <1>7, EmptySeq
  <2>2. ~(1 > 1)
      OBVIOUS
  <2> QED
      BY <1>6, <1>7, <2>1, <2>2, Zenon DEF Paired
<1>10. Holds(r)
    BY <1>5, <1>6, <1>8, <1>9, Zenon DEF Holds
<1>11. handler'[h] = r /\ \A g \in Handlers : g # h => handler'[g] = handler[g]
    BY <1>4, Updated
<1>12. \A g \in Handlers : handler'[g].step = "handle" => Holds(handler'[g])
    BY <1>10, <1>11, Zenon DEF StampInv
<1>13. \A i \in DOMAIN ingested' : Came(ingested'[i])
    BY <1>4 DEF StampInv
<1> QED
    BY <1>12, <1>13, Zenon DEF StampInv, Came, Holds, Timed, Streams, StampAt

\* The stamp a sample gets, and the one its handler keeps for the next.
LEMMA StampIngest ==
    ASSUME StampInv, Serving, NEW h \in Handlers, Ingest(h)
    PROVE  StampInv'
<1>1. PICK x, p : x = handler[h].req /\ p = handler[h].pending
    OBVIOUS
<1>2. p # << >> /\ handler[h].step = "handle"
    BY <1>1 DEF Ingest, Serving
<1>3. Holds(handler[h])
    BY <1>2 DEF StampInv
<1>4. PICK T : T = Timed(Streams(RequestOf[x]))
    OBVIOUS
<1>5. /\ p \in Seq(T) /\ Tied(p)
      /\ p[1].same => /\ handler[h].taken \in Int /\ handler[h].taken >= StartTime
                      /\ handler[h].ts = StampAt(handler[h].taken, p[1].nanos)
    BY <1>1, <1>2, <1>3, <1>4, Zenon DEF Holds
<1>6. PICK s \in T : s = Head(p) /\ s = p[1]
    BY <1>2, <1>5, HeadTailProperties
<1>7. PICK t, c : /\ t = (IF s.same THEN handler[h].ts ELSE stamp(s.nanos))
                  /\ c = IF s.same THEN handler[h].taken ELSE now
    OBVIOUS
<1>8. c \in Int /\ c >= StartTime /\ t = StampAt(c, s.nanos)
  <2>1. CASE s.same
      BY <1>5, <1>6, <1>7, <2>1, Zenon
  <2>2. CASE ~ s.same
    <3>1. t = stamp(s.nanos) /\ c = now
        BY <1>7, <2>2, Zenon
    <3>2. now \in Int /\ now >= StartTime
        BY ServingAssumption DEF Serving
    <3> QED
        BY <3>1, <3>2 DEF stamp, StampAt
  <2> QED
      BY <2>1, <2>2
<1>9. PICK e : e = [id |-> s.id, time |-> t, nanos |-> s.nanos, came |-> c,
                    req |-> x, left |-> Len(p)]
    OBVIOUS
<1>10. PICK r : r = [handler[h] EXCEPT !.pending = Tail(p), !.ts = t, !.taken = c]
    OBVIOUS
<1>11. ingested' = Append(ingested, e) /\ handler' = [handler EXCEPT ![h] = r]
  <2>1. /\ ingested' = Append(ingested, e)
        /\ handler' = [handler EXCEPT ![h].pending = Tail(@), ![h].ts = t, ![h].taken = c]
      BY <1>1, <1>6, <1>7, <1>9, Zenon DEF Ingest
  <2>2. h \in DOMAIN handler
      BY DEF Serving
  <2> QED
      BY <1>1, <1>10, <2>1, <2>2
<1>12. r.req = x /\ r.pending = Tail(p) /\ r.ts = t /\ r.taken = c
    BY <1>1, <1>10 DEF Serving
<1>13. Came(e)
  <2>1. s.id \in Streams(RequestOf[x]) /\ s.nanos \in Nanos
      BY <1>4, <1>6 DEF Timed
  <2>2. /\ e.id = s.id /\ e.req = x /\ e.nanos = s.nanos /\ e.came = c /\ e.time = t
      BY <1>9
  <2> QED
      BY <1>8, <2>1, <2>2, Zenon DEF Came
<1>14. Holds(r)
  <2>1. PICK n \in Nat : n = Len(p) /\ n >= 1
      BY <1>2, <1>5, EmptySeq
  <2>2. PICK q : q = Tail(p)
      OBVIOUS
  <2>3. q \in Seq(T) /\ Len(q) = n - 1 /\ \A i \in 1 .. n - 1 : q[i] = p[i + 1]
      BY <1>2, <1>5, <2>1, <2>2, HeadTailProperties
  <2>4. Tied(q)
    <3>1. ASSUME NEW i \in 2 .. n - 1, q[i].same PROVE q[i].nanos = q[i - 1].nanos
      <4>1. i \in 1 .. n - 1 /\ i - 1 \in 1 .. n - 1 /\ i + 1 \in 2 .. n
            /\ (i - 1) + 1 = i /\ (i + 1) - 1 = i
          OBVIOUS
      <4>2. q[i] = p[i + 1] /\ q[i - 1] = p[i]
          BY <2>3, <4>1
      <4>3. p[i + 1].nanos = p[i].nanos
          BY <1>5, <2>1, <3>1, <4>1, <4>2 DEF Tied
      <4> QED
          BY <4>2, <4>3
    <3> QED
        BY <2>3, <3>1 DEF Tied
  <2>5. ASSUME q # << >>, q[1].same PROVE t = StampAt(c, q[1].nanos)
    <3>1. n >= 2
        BY <2>1, <2>3, <2>5, EmptySeq
    <3>2. q[1] = p[2]
        BY <2>3, <3>1
    <3>3. p[2].nanos = p[1].nanos
        BY <1>5, <2>1, <2>5, <3>1, <3>2 DEF Tied
    <3> QED
        BY <1>6, <1>8, <3>2, <3>3
  <2> QED
      BY <1>4, <1>8, <1>12, <2>2, <2>3, <2>4, <2>5, Zenon DEF Holds
<1>15. handler'[h] = r /\ \A g \in Handlers : g # h => handler'[g] = handler[g]
    BY <1>11, Updated
<1>16. \A g \in Handlers : handler'[g].step = "handle" => Holds(handler'[g])
    BY <1>14, <1>15, Zenon DEF StampInv
<1>17. \A i \in DOMAIN ingested' : Came(ingested'[i])
  <2>1. PICK k \in Nat : k = Len(ingested) /\ DOMAIN ingested = 1 .. k
      BY ListFacts DEF Serving
  <2>2. /\ DOMAIN ingested' = 1 .. (k + 1)
        /\ \A i \in 1 .. k : ingested'[i] = ingested[i]
        /\ ingested'[k + 1] = e
    <3>1. IsList(ingested)
        BY DEF Serving
    <3>2. /\ IsList(ingested') /\ Len(ingested') = k + 1
          /\ \A i \in 1 .. k : ingested'[i] = ingested[i]
          /\ ingested'[k + 1] = e
        BY <1>11, <2>1, <3>1, ListAppend
    <3> QED
        BY <3>2, ListFacts
  <2>3. \A i \in 1 .. (k + 1) : i \in 1 .. k \/ i = k + 1
      OBVIOUS
  <2> QED
      BY <1>13, <2>1, <2>2, <2>3, Zenon DEF StampInv
<1> QED
    BY <1>16, <1>17, Zenon DEF StampInv, Came, Holds, Timed, Streams, StampAt

LEMMA StampStep ==
    ASSUME StampInv, ReceiverInv, ReceiverNext
    PROVE  StampInv'
<1>1. Serving
    BY DEF ReceiverInv
<1>2. CASE Tick
  <2>1. ingested' = ingested /\ handler' = handler
      BY <1>2 DEF Tick
  <2> QED
      BY <1>1, <2>1, StampKept
<1>3. ASSUME NEW h \in Handlers, Post(h) PROVE StampInv'
  <2>1. PICK x : /\ handler' = [handler EXCEPT ![h] = [Free EXCEPT !.req = x, !.step = "read"]]
                 /\ ingested' = ingested
      BY <1>3, Zenon DEF Post
  <2>2. PICK r : r = [Free EXCEPT !.req = x, !.step = "read"]
      OBVIOUS
  <2>3. r.step = "read" /\ handler' = [handler EXCEPT ![h] = r]
      BY <2>1, <2>2 DEF Free
  <2>4. handler'[h] = r /\ \A g \in Handlers : g # h => handler'[g] = handler[g]
      BY <1>1, <2>3, Updated
  <2>5. \A g \in Handlers : handler'[g] = handler[g] \/ handler'[g].step # "handle"
      BY <2>3, <2>4
  <2> QED
      BY <1>1, <2>1, <2>5, StampKept
<1>4. ASSUME NEW h \in Handlers, NEW status, Answer(h, status) PROVE StampInv'
  <2>1. handler' = [handler EXCEPT ![h] = Free] /\ ingested' = ingested
      BY <1>4 DEF Answer
  <2>2. PICK r : r = Free
      OBVIOUS
  <2>3. handler' = [handler EXCEPT ![h] = r] /\ r.step = "free"
      BY <2>1, <2>2 DEF Free
  <2>4. handler'[h] = r /\ \A g \in Handlers : g # h => handler'[g] = handler[g]
      BY <1>1, <2>3, Updated
  <2>5. \A g \in Handlers : handler'[g] = handler[g] \/ handler'[g].step # "handle"
      BY <2>3, <2>4
  <2> QED
      BY <1>1, <2>1, <2>5, StampKept
<1>5. ASSUME NEW h \in Handlers, Refuse(h) \/ Reply(h) PROVE \E status : Answer(h, status)
  <2>1. CASE Refuse(h)
    <3>1. PICK status : status = Status(RequestOf[handler[h].req])
        OBVIOUS
    <3>2. Answer(h, IF status = 200 THEN 400 ELSE status)
        BY <2>1, <3>1 DEF Refuse
    <3> QED
        BY <3>2
  <2>2. CASE Reply(h)
    <3>1. Answer(h, 200)
        BY <2>2 DEF Reply
    <3> QED
        BY <3>1
  <2> QED
      BY <1>5, <2>1, <2>2
<1>6. ASSUME NEW h \in Handlers, Decode(h) \/ Ingest(h) PROVE StampInv'
    BY <1>1, <1>6, StampDecode, StampIngest
<1> QED
    BY <1>2, <1>3, <1>4, <1>5, <1>6, Zenon DEF ReceiverNext

LEMMA StampStart ==
    ASSUME ReceiverInit
    PROVE  StampInv
<1>1. handler = [h \in Handlers |-> Free] /\ ingested = << >>
    BY DEF ReceiverInit
<1>2. Free.step # "handle"
    BY DEF Free
<1>3. \A i \in DOMAIN ingested : FALSE
    BY <1>1
<1>4. \A h \in Handlers : handler[h].step # "handle"
    BY <1>1, <1>2
<1> QED
    BY <1>3, <1>4, Zenon DEF StampInv

LEMMA StampStays ==
    ASSUME StampInv, ReceiverInv, UNCHANGED receiverVars
    PROVE  StampInv'
<1>1. handler' = handler /\ ingested' = ingested
    BY DEF receiverVars
<1> QED
    BY <1>1, StampKept DEF ReceiverInv

\* A stamp is before the window exactly when the sender's time is.
LEMMA StampLate ==
    ASSUME NEW nanos \in Nanos, NEW came \in Int, came >= StartTime
    PROVE  StampAt(came, nanos) < came - Window <=>
               nanos \in 1 .. came - Window - 1 \/ nanos >= 2^(WordBits - 1)
<1>1. PICK all \in Nat, half \in Nat \ {0} : all = 2^WordBits /\ half = 2^(WordBits - 1)
    BY WordAssumption
<1>2. nanos \in 0 .. all - 1
    BY <1>1 DEF Nanos
<1>3. Window \in Nat /\ came - Window \in Int /\ came - Window >= 0
    BY ServingAssumption
<1>4. StampAt(came, nanos) = IF nanos = 0 THEN came ELSE IF nanos >= half THEN nanos - all ELSE nanos
    BY <1>1 DEF StampAt
<1>5. (IF nanos = 0 THEN came ELSE IF nanos >= half THEN nanos - all ELSE nanos) < came - Window
      <=> nanos \in 1 .. came - Window - 1 \/ nanos >= half
    BY <1>2, <1>3
<1> QED
    BY <1>1, <1>4, <1>5

\* The invariants say when a sample is late and which path leads to it.
LEMMA LateHolds ==
    ASSUME StampInv
    PROVE  LateOnlyBySender
<1> SUFFICES ASSUME NEW i \in DOMAIN ingested
             PROVE  ingested[i].time < ingested[i].came - Window <=>
                      \/ ingested[i].nanos \in 1 .. ingested[i].came - Window - 1
                      \/ ingested[i].nanos >= 2^(WordBits - 1)
    BY DEF LateOnlyBySender
<1>1. Came(ingested[i])
    BY DEF StampInv
<1>2. PICK nanos \in Nanos, came \in Int :
         /\ nanos = ingested[i].nanos /\ came = ingested[i].came /\ came >= StartTime
         /\ ingested[i].time = StampAt(came, nanos)
    BY <1>1 DEF Came
<1> QED
    BY <1>2, StampLate

LEMMA AddressableHolds ==
    ASSUME StampInv, ReceiverInv
    PROVE  Addressable
<1> SUFFICES ASSUME NEW i \in DOMAIN ingested, ~ Misnamed(ingested[i].req)
             PROVE  LET parts == PathString(ingested[i].id)
                    IN /\ ParsePath([absolute |-> TRUE, parts |-> parts]) = "ok"
                       /\ Depth(parts) = 4 /\ StreamIDOf(parts) = ingested[i].id
    BY DEF Addressable
<1>1. PICK x \in Exports : x = ingested[i].req
    BY DEF ReceiverInv, Serving
<1>2. PICK id \in Streams(RequestOf[x]) : id = ingested[i].id
    BY <1>1 DEF StampInv, Came
<1>3. PICK Pieces : Pieces = PiecesOf(RequestOf[x])
    OBVIOUS
<1>4. IsPlain(id, Pieces)
    BY <1>1, <1>3, StreamsPlain
<1>5. PICK parts : parts = PathString(id)
    OBVIOUS
<1>6. parts \in Seq(Seq(Pieces)) /\ Len(parts) = 4 /\ Parses(parts) /\ StreamIDOf(parts) = id
    BY <1>4, <1>5, PlainParses
<1>7. PICK path \in [absolute : BOOLEAN, parts : Seq(Seq(Pieces))] :
         path = [absolute |-> TRUE, parts |-> parts]
    BY <1>6
<1>8. ParsePath(path) = "ok"
  <2>1. path.absolute /\ path.parts = parts
      BY <1>7
  <2> QED
      BY <1>6, <2>1, ParsePathFacts
<1> QED
    BY <1>2, <1>5, <1>6, <1>7, <1>8 DEF Depth

\* ReceiverInv and StampInv hold in every state.
LEMMA Received == Spec => [](ReceiverInv /\ StampInv)
<1>1. Init => ReceiverInv /\ StampInv
    BY ReceiverStart, StampStart DEF Init
<1>2. ReceiverInv /\ StampInv /\ [Next]_vars => (ReceiverInv /\ StampInv)'
  <2>1. ASSUME ReceiverInv, StampInv, UNCHANGED receiverVars
        PROVE  ReceiverInv' /\ StampInv'
      BY <2>1, ReceiverStays, StampStays
  <2>2. ASSUME ReceiverInv, StampInv, ReceiverNext
        PROVE  ReceiverInv' /\ StampInv'
      BY <2>2, ReceiverStep, StampStep
  <2>3. UNCHANGED vars => UNCHANGED receiverVars
      BY DEF vars
  <2> QED
      BY <2>1, <2>2, <2>3, Zenon DEF Next, Serve
<1> QED
    BY <1>1, <1>2, PTL DEF Spec

\* Whatever the requests and the clock: a sample is outside the window when its stamp is
\* taken only if its sender gave such a time, and the second sample of a histogram's
\* point shares the stamp of the first (stamp, logStamp, metric, Window.Cutoff).
THEOREM LateBySender == Spec => []LateOnlyBySender
<1>1. ReceiverInv /\ StampInv => LateOnlyBySender
    BY LateHolds
<1> QED
    BY <1>1, Received, PTL

\* Whatever the requests: the path of an ingested sample's stream parses and leads back to
\* the stream, unless its request gave an empty name or one with a slash (identity,
\* logs, StreamID.Path, ParsePath).
THEOREM StreamsAddressable == Spec => []Addressable
<1>1. ReceiverInv /\ StampInv => Addressable
    BY AddressableHolds
<1> QED
    BY <1>1, Received, PTL

-----------------------------------------------------------------------------
(* alert.conf.                                                             *)

\* What line i is, if it is a directive
Is(directive, i) ==
    /\ ~ Ignored(file[i]) /\ Fields(file[i]) # << >>
    /\ Fields(file[i])[1] = directive

Args(i) == Tail(Fields(file[i]))

\* A destination that Slack can be reached with
Usable(d) == d.webhook # "" \/ (d.token # "" /\ d.channelID # "")

\* The k-th rule is what the k-th alert line of the first n says
RuleLine(k, n) ==
    \E i \in Lines("alert", n) :
        /\ Cardinality({j \in Lines("alert", n) : j <= i}) = k
        /\ cfg.rules[k] = Rule(Spliced(Args(i)))

\* What ParseEnv has made of the first n lines
ReadUpTo(n) ==
    /\ WellFormed(n)
    /\ seen = {Args(i)[1] : i \in Lines("channel", n)}
    /\ cfg = [channels |-> cfg.channels, rules |-> cfg.rules]
    /\ IsList(cfg.channels) /\ Len(cfg.channels) = Cardinality(Lines("channel", n))
    /\ IsList(cfg.rules) /\ Len(cfg.rules) = Cardinality(Lines("alert", n))
    /\ seen = {ch.name : ch \in ToSet(cfg.channels)}
    /\ \A ch \in ToSet(cfg.channels) : Usable(ch.destination)
    /\ \A r \in ToSet(cfg.rules) : r.channel \in seen
    /\ \A k \in DOMAIN cfg.rules : RuleLine(k, n)

ConfInv ==
    /\ file \in Seq(Seq(Words)) /\ env \in Environments
    /\ phase \in {"validating", "starting", "serving", "stopped"}
    /\ phase = "stopped" => cfg = NoConfig
    /\ verdict \in {"unknown", "valid", "invalid"}
    /\ at \in 0 .. Len(file) + 1
    /\ phase = "serving" => at = Len(file) + 1
    /\ phase # "stopped" => ReadUpTo(IF at = 0 THEN 0 ELSE at - 1)

\* A line expands to words.
LEMMA ExpandedType ==
    ASSUME NEW e \in Environments, NEW lookup \in {e.build, e.run}, NEW words \in Seq(Words)
    PROVE  Expanded(lookup, words) \in Seq(Words)
<1>1. \A ref \in DOMAIN lookup : lookup[ref] \in Seq(Words)
    BY EnvironmentsAssumption
<1>2. PICK ss : ss = [i \in DOMAIN words |->
        IF words[i] \in DOMAIN lookup THEN lookup[words[i]] ELSE <<words[i]>>]
    OBVIOUS
<1>3. PICK n \in Nat : n = Len(words) /\ DOMAIN words = 1 .. n
    BY LenProperties
<1>4. ASSUME NEW i \in 1 .. n
      PROVE  ss[i] \in Seq(Words)
  <2>1. words[i] \in Words
      BY <1>3, ElementOfSeq
  <2>2. <<words[i]>> \in Seq(Words)
      BY <2>1
  <2> QED
      BY <1>1, <1>2, <1>3, <2>2
<1>5. ss \in [1 .. n -> Seq(Words)]
    BY <1>2, <1>3, <1>4
<1>6. FlattenSeq(ss) \in Seq(Words)
    BY <1>5, FlattenType
<1> QED
    BY <1>2, <1>6, Zenon DEF Expanded

LEMMA FieldsType ==
    ASSUME env \in Environments, NEW words \in Seq(Words)
    PROVE  Fields(words) \in Seq(Words)
<1>1. PICK e \in Environments : e = env
    OBVIOUS
<1>2. Lookup \in {e.build, e.run}
    BY <1>1 DEF Lookup
<1> QED
    BY <1>2, ExpandedType DEF Fields

\* A step that leaves the file and its environment alone reads its lines the same.
LEMMA SameFile ==
    ASSUME file' = file, Lookup' = Lookup
    PROVE  /\ \A d, n : Lines(d, n)' = Lines(d, n)
           /\ \A n : WellFormed(n) <=> WellFormed(n)'
           /\ \A i : Args(i)' = Args(i)
<1>1. \A w : Fields(w)' = Fields(w) /\ (Unset(w) <=> Unset(w)')
    BY DEF Fields, Unset
<1>2. \A d, n : Lines(d, n)' = Lines(d, n)
    BY <1>1 DEF Lines
<1>3. \A n : WellFormed(n) <=> WellFormed(n)'
    BY <1>1, <1>2 DEF WellFormed
<1>4. \A i : Args(i)' = Args(i)
    BY <1>1 DEF Args
<1> QED
    BY <1>2, <1>3, <1>4

\* The directives among one line more.
LEMMA LinesGrow ==
    ASSUME NEW n \in Nat, NEW d
    PROVE  /\ Lines(d, n + 1) = IF Is(d, n + 1) THEN Lines(d, n) \cup {n + 1} ELSE Lines(d, n)
           /\ n + 1 \notin Lines(d, n)
           /\ Cardinality(Lines(d, n)) \in Nat
           /\ Cardinality(Lines(d, n + 1)) =
                Cardinality(Lines(d, n)) + (IF Is(d, n + 1) THEN 1 ELSE 0)
<1>1. PICK A : A = Lines(d, n)
    OBVIOUS
<1>2. A \subseteq 1 .. n /\ n + 1 \notin 1 .. n /\ \A i : i \in 1 .. n + 1 <=> i \in 1 .. n \/ i = n + 1
  <2>1. A \subseteq 1 .. n
      BY <1>1 DEF Lines
  <2> QED
      BY <2>1
<1>3. \A i : i \in Lines(d, n + 1) <=> i \in 1 .. n + 1 /\ Is(d, i)
    BY DEF Lines, Is
<1>4. \A i : i \in A <=> i \in 1 .. n /\ Is(d, i)
    BY <1>1 DEF Lines, Is
<1>5. CASE Is(d, n + 1)
  <2>1. Lines(d, n + 1) = A \cup {n + 1}
      BY <1>2, <1>3, <1>4, <1>5, Zenon
  <2>2. IsFiniteSet(A) /\ Cardinality(A) \in Nat /\ n + 1 \notin A
    <3>1. IsFiniteSet(1 .. n)
        BY FS_Interval
    <3>2. IsFiniteSet(A)
        BY <1>2, <3>1, FS_Subset
    <3> QED
        BY <1>2, <3>2, FS_CardinalityType
  <2>3. Cardinality(A \cup {n + 1}) = Cardinality(A) + 1
      BY <2>2, FS_AddElement
  <2> QED
      BY <1>1, <1>5, <2>1, <2>2, <2>3
<1>6. CASE ~ Is(d, n + 1)
  <2>1. Lines(d, n + 1) = A
      BY <1>2, <1>3, <1>4, <1>6, Zenon
  <2>2. IsFiniteSet(A) /\ Cardinality(A) \in Nat /\ n + 1 \notin A
    <3>1. IsFiniteSet(1 .. n)
        BY FS_Interval
    <3>2. IsFiniteSet(A)
        BY <1>2, <3>1, FS_Subset
    <3> QED
        BY <1>2, <3>2, FS_CardinalityType
  <2> QED
      BY <1>1, <1>6, <2>1, <2>2
<1> QED
    BY <1>5, <1>6

\* What GoodLine has found of a line.
LEMMA GoodLineFacts ==
    ASSUME NEW i, GoodLine(file[i])
    PROVE  /\ Ignored(file[i]) \/ (~ Unset(file[i]) /\
                (Fields(file[i]) = << >> \/ Is("channel", i) \/ Is("alert", i)))
           /\ ~(Is("channel", i) /\ Is("alert", i))
           /\ Is("channel", i) => GoodChannel(Args(i)) /\ Args(i)[1] \notin seen
           /\ Is("alert", i) => GoodAlert(Spliced(Args(i))) /\ Last(Args(i)) \in seen
<1>1. PICK f, a : f = Fields(file[i]) /\ a = Args(i) /\ a = Tail(f)
    BY DEF Args
<1>2. CASE Ignored(file[i])
    BY <1>2 DEF Is
<1>3. CASE ~ Ignored(file[i]) /\ f = << >>
    BY <1>1, <1>3 DEF Is, GoodLine
<1>4. CASE ~ Ignored(file[i]) /\ f # << >>
  <2>1. /\ ~ Unset(file[i]) /\ f[1] \in {"channel", "alert"}
        /\ f[1] = "channel" => GoodChannel(a) /\ a[1] \notin seen
        /\ f[1] = "alert" => GoodAlert(Spliced(a)) /\ Last(a) \in seen
      BY <1>1, <1>4 DEF GoodLine, Declared
  <2>2. /\ Is("channel", i) <=> f[1] = "channel"
        /\ Is("alert", i) <=> f[1] = "alert"
      BY <1>1, <1>4 DEF Is
  <2>3. f[1] = "channel" \/ f[1] = "alert"
      BY <2>1
  <2>4. ~(f[1] = "channel" /\ f[1] = "alert")
      OBVIOUS
  <2> QED
      BY <1>1, <2>1, <2>2, <2>3, <2>4, Zenon
<1> QED
    BY <1>2, <1>3, <1>4

\* The channel a rule gets is the one the line ends in.
LEMMA RuleChannel ==
    ASSUME NEW a \in Seq(Words), GoodAlert(Spliced(a))
    PROVE  Rule(Spliced(a)).channel = Last(a)
<1>1. Rule(Spliced(a)).channel = Spliced(a)[7]
    BY DEF Rule
<1>2. Len(Spliced(a)) = 7
    BY DEF GoodAlert
<1>3. CASE Len(a) >= 2 /\ a[2] = "absent"
  <2>1. PICK b, c : b = <<a[1], a[2], "0">> /\ c = SubSeq(a, 3, Len(a))
      OBVIOUS
  <2>2. Spliced(a) = b \o c
      BY <1>3, <2>1 DEF Spliced
  <2>3. a[1] \in Words /\ a[2] \in Words /\ Len(a) \in Nat
      BY <1>3, LenProperties, ElementOfSeq
  <2>4. c \in Seq(Words) /\ Len(c) = Len(a) - 2 /\ \A i \in 1 .. Len(a) - 2 : c[i] = a[i + 2]
    <3>1. \A i \in 3 .. Len(a) : a[i] \in Words
        BY <2>3, ElementOfSeq
    <3>2. /\ c \in Seq(Words) /\ Len(c) = IF 3 <= Len(a) THEN Len(a) - 3 + 1 ELSE 0
          /\ \A i \in 1 .. Len(a) - 3 + 1 : c[i] = a[3 + i - 1]
        BY <2>1, <2>3, <3>1, SubSeqProperties
    <3>3. \A i \in 1 .. Len(a) - 2 : i \in 1 .. Len(a) - 3 + 1 /\ 3 + i - 1 = i + 2
        BY <2>3
    <3>4. \A i \in 1 .. Len(a) - 2 : c[i] = a[i + 2]
        BY <3>2, <3>3
    <3>5. Len(c) = Len(a) - 2
      <4>1. PICK l \in Nat : l = Len(a) /\ l >= 2
          BY <1>3, <2>3
      <4>2. Len(c) = IF 3 <= l THEN l - 3 + 1 ELSE 0
          BY <3>2, <4>1, Zenon
      <4>3. (IF 3 <= l THEN l - 3 + 1 ELSE 0) = l - 2
          BY <4>1
      <4> QED
          BY <4>1, <4>2, <4>3
    <3> QED
        BY <3>2, <3>4, <3>5
  <2>5. PICK T : T = Words \cup {"0"}
      OBVIOUS
  <2>6. b \in Seq(T) /\ Len(b) = 3 /\ c \in Seq(T)
      BY <2>1, <2>3, <2>4, <2>5
  <2>7. Len(b \o c) = 3 + Len(c) /\ \A i \in 1 .. 3 + Len(c) : (b \o c)[i] = IF i <= 3 THEN b[i] ELSE c[i - 3]
    <3>1. /\ Len(b \o c) = Len(b) + Len(c)
          /\ \A i \in 1 .. Len(b) + Len(c) :
                (b \o c)[i] = IF i <= Len(b) THEN b[i] ELSE c[i - Len(b)]
        BY <2>6, ConcatProperties
    <3> QED
        BY <2>6, <3>1
  <2>8. Len(a) = 6
      BY <1>2, <2>2, <2>3, <2>4, <2>7
  <2>9. (b \o c)[7] = c[4] /\ c[4] = a[6]
      BY <2>4, <2>7, <2>8
  <2> QED
      BY <1>1, <2>2, <2>8, <2>9 DEF Last
<1>4. CASE ~(Len(a) >= 2 /\ a[2] = "absent")
  <2>1. Spliced(a) = a
      BY <1>4 DEF Spliced
  <2> QED
      BY <1>1, <1>2, <2>1 DEF Last
<1> QED
    BY <1>3, <1>4

\* A channel that parses has its line's name and a destination.
LEMMA ChannelFacts ==
    ASSUME NEW a \in Seq(Words), GoodChannel(a)
    PROVE  Channel(a).name = a[1] /\ Usable(Channel(a).destination)
<1>1. Channel(a).name = a[1]
    BY DEF Channel
<1>2. "" \notin Words /\ Len(a) \in Nat
    BY LenProperties DEF Words
<1>3. CASE a[2] = "slack"
  <2>1. Len(a) = 3
      BY <1>3 DEF GoodChannel
  <2>2. a[3] \in Words
    <3>1. 3 \in 1 .. Len(a)
        BY <2>1
    <3> QED
        BY <3>1, ElementOfSeq
  <2>3. Channel(a).destination.webhook = a[3]
      BY <1>3 DEF Channel
  <2> QED
      BY <1>1, <1>2, <2>2, <2>3 DEF Usable
<1>4. CASE a[2] # "slack"
  <2>1. Len(a) = 4
      BY <1>4 DEF GoodChannel
  <2>2. a[3] \in Words /\ a[4] \in Words
    <3>1. 3 \in 1 .. Len(a) /\ 4 \in 1 .. Len(a)
        BY <2>1
    <3> QED
        BY <3>1, ElementOfSeq
  <2>3. Channel(a).destination.token = a[3] /\ Channel(a).destination.channelID = a[4]
      BY <1>4 DEF Channel
  <2> QED
      BY <1>1, <1>2, <2>2, <2>3 DEF Usable
<1> QED
    BY <1>3, <1>4

\* A good line extends a well-formed beginning.
LEMMA WellFormedGrows ==
    ASSUME NEW n \in Nat, WellFormed(n), file[n + 1] # TooLong, GoodLine(file[n + 1]),
           seen = {Args(i)[1] : i \in Lines("channel", n)}
    PROVE  WellFormed(n + 1)
<1> DEFINE chans == Lines("channel", n)
           alerts == Lines("alert", n)
           more == Lines("channel", n + 1)
           mores == Lines("alert", n + 1)
<1>1. /\ Ignored(file[n + 1]) \/ (~ Unset(file[n + 1]) /\
            (Fields(file[n + 1]) = << >> \/ Is("channel", n + 1) \/ Is("alert", n + 1)))
      /\ ~(Is("channel", n + 1) /\ Is("alert", n + 1))
      /\ Is("channel", n + 1) => GoodChannel(Args(n + 1)) /\ Args(n + 1)[1] \notin seen
      /\ Is("alert", n + 1) => GoodAlert(Spliced(Args(n + 1))) /\ Last(Args(n + 1)) \in seen
    BY GoodLineFacts
<1>2. /\ \A i \in 1 .. n :
            file[i] # TooLong /\ (Ignored(file[i]) \/
                (~ Unset(file[i]) /\ (Fields(file[i]) = << >> \/ i \in chans \cup alerts)))
      /\ \A i \in chans : GoodChannel(Args(i))
      /\ \A i \in alerts : GoodAlert(Spliced(Args(i)))
      /\ \A i, j \in chans : Args(i)[1] = Args(j)[1] => i = j
      /\ \A i \in alerts : \E j \in chans : j < i /\ Args(j)[1] = Last(Args(i))
    BY DEF WellFormed, Args
<1>3. /\ more = IF Is("channel", n + 1) THEN chans \cup {n + 1} ELSE chans
      /\ mores = IF Is("alert", n + 1) THEN alerts \cup {n + 1} ELSE alerts
      /\ \A i \in chans : i \in 1 .. n
      /\ \A i \in 1 .. n + 1 : i \in 1 .. n \/ i = n + 1
  <2>1. \A i \in chans : i \in 1 .. n
      BY DEF Lines
  <2> QED
      BY <2>1, LinesGrow
<1>4. chans \subseteq more /\ alerts \subseteq mores
      /\ (Is("channel", n + 1) => n + 1 \in more) /\ (Is("alert", n + 1) => n + 1 \in mores)
    BY <1>3
<1>5. /\ \A i \in more : i \in chans \/ (i = n + 1 /\ Is("channel", n + 1))
      /\ \A i \in mores : i \in alerts \/ (i = n + 1 /\ Is("alert", n + 1))
    BY <1>3
<1> HIDE DEF chans, alerts, more, mores
<1>6. \A i \in 1 .. n + 1 :
         file[i] # TooLong /\ (Ignored(file[i]) \/
            (~ Unset(file[i]) /\ (Fields(file[i]) = << >> \/ i \in more \cup mores)))
    BY <1>1, <1>2, <1>3, <1>4, Zenon
<1>7. \A i \in more : GoodChannel(Args(i))
    BY <1>1, <1>2, <1>5, Zenon
<1>8. \A i \in mores : GoodAlert(Spliced(Args(i)))
    BY <1>1, <1>2, <1>5, Zenon
<1>9. \A i, j \in more : Args(i)[1] = Args(j)[1] => i = j
  <2>1. \A j \in chans : Args(j)[1] \in seen
      BY DEF chans
  <2> QED
      BY <1>1, <1>2, <1>5, <2>1, Zenon
<1>10. \A i \in mores : \E j \in more : j < i /\ Args(j)[1] = Last(Args(i))
  <2>1. CASE Is("alert", n + 1)
    <3>1. PICK j \in chans : Args(j)[1] = Last(Args(n + 1))
        BY <1>1, <2>1 DEF chans
    <3>2. j < n + 1
        BY <1>3
    <3> QED
        BY <1>2, <1>4, <1>5, <3>1, <3>2, Zenon
  <2>2. CASE ~ Is("alert", n + 1)
      BY <1>2, <1>4, <1>5, <2>2, Zenon
  <2> QED
      BY <2>1, <2>2
<1> QED
    BY <1>6, <1>7, <1>8, <1>9, <1>10 DEF WellFormed, Args, more, mores

\* What is in a list with one element more.
LEMMA AppendSet ==
    ASSUME NEW s, IsList(s), NEW e
    PROVE  ToSet(Append(s, e)) = ToSet(s) \cup {e}
<1>1. PICK k \in Nat : k = Len(s) /\ DOMAIN s = 1 .. k
    BY ListFacts
<1>2. PICK t : t = Append(s, e)
    OBVIOUS
<1>3. /\ IsList(t) /\ Len(t) = k + 1
      /\ \A i \in 1 .. k : t[i] = s[i]
      /\ t[k + 1] = e
    BY <1>1, <1>2, ListAppend
<1>4. DOMAIN t = 1 .. k + 1
    BY <1>3, ListFacts
<1>5. \A i \in 1 .. k + 1 : i \in 1 .. k \/ i = k + 1
    OBVIOUS
<1>6. k + 1 \in 1 .. k + 1 /\ \A i \in 1 .. k : i \in 1 .. k + 1
    OBVIOUS
<1>7. \A v : v \in ToSet(t) <=> \E i \in 1 .. k + 1 : t[i] = v
    BY <1>4 DEF ToSet
<1>8. \A v : v \in ToSet(s) <=> \E i \in 1 .. k : s[i] = v
    BY <1>1 DEF ToSet
<1>9. \A v : v \in ToSet(t) <=> v \in ToSet(s) \/ v = e
    BY <1>3, <1>5, <1>6, <1>7, <1>8, Zenon
<1> QED
    BY <1>2, <1>9, Zenon

\* The rules a line that is no alert leaves.
LEMMA RuleLinesStay ==
    ASSUME NEW n \in Nat, NEW m \in Nat, NEW k, RuleLine(k, n), cfg'.rules = cfg.rules,
           Lines("alert", m) = Lines("alert", n),
           \A d, q : Lines(d, q)' = Lines(d, q), \A i : Args(i)' = Args(i)
    PROVE  RuleLine(k, m)'
<1>1. PICK i \in Lines("alert", m) :
         /\ Cardinality({j \in Lines("alert", m) : j <= i}) = k
         /\ cfg'.rules[k] = Rule(Spliced(Args(i)))
    BY DEF RuleLine
<1> QED
    BY <1>1 DEF RuleLine

\* The rules after an alert line.
LEMMA RuleLinesGrow ==
    ASSUME NEW n \in Nat, NEW m \in Nat, Is("alert", n + 1),
           m = Cardinality(Lines("alert", n)), DOMAIN cfg.rules = 1 .. m,
           \A k \in 1 .. m : RuleLine(k, n),
           \A k \in 1 .. m : cfg'.rules[k] = cfg.rules[k],
           cfg'.rules[m + 1] = Rule(Spliced(Args(n + 1))),
           \A d, q : Lines(d, q)' = Lines(d, q), \A i : Args(i)' = Args(i)
    PROVE  \A k \in 1 .. m + 1 : RuleLine(k, n + 1)'
<1>1. PICK A, B : A = Lines("alert", n) /\ B = Lines("alert", n + 1)
    OBVIOUS
<1>2. B = A \cup {n + 1} /\ Cardinality(B) = m + 1
    BY <1>1, LinesGrow
<1>3. A \subseteq 1 .. n
    BY <1>1 DEF Lines
<1>4. ASSUME NEW k \in 1 .. m PROVE RuleLine(k, n + 1)'
  <2>1. PICK i \in A : /\ Cardinality({j \in A : j <= i}) = k
                       /\ cfg.rules[k] = Rule(Spliced(Args(i)))
      BY <1>1 DEF RuleLine
  <2>2. {j \in B : j <= i} = {j \in A : j <= i}
    <3>1. ~(n + 1 <= i)
        BY <1>3, <2>1
    <3> QED
        BY <1>2, <3>1
  <2>3. i \in B /\ cfg'.rules[k] = Rule(Spliced(Args(i)))
      BY <1>2, <2>1
  <2> QED
      BY <1>1, <2>1, <2>2, <2>3 DEF RuleLine
<1>5. RuleLine(m + 1, n + 1)'
  <2>1. n + 1 \in B /\ {j \in B : j <= n + 1} = B
    <3>1. \A j \in B : j <= n + 1
        BY <1>2, <1>3
    <3> QED
        BY <1>2, <3>1
  <2>2. Cardinality({j \in B : j <= n + 1}) = m + 1
      BY <1>2, <2>1
  <2> QED
      BY <1>1, <2>1, <2>2 DEF RuleLine
<1>6. \A k \in 1 .. m + 1 : k \in 1 .. m \/ k = m + 1
    OBVIOUS
<1> QED
    BY <1>4, <1>5, <1>6, Zenon

\* The loop's step over a line.
LEMMA LineReadStep ==
    ASSUME ConfInv, LineRead
    PROVE  ConfInv'
<1>1. PICK n \in Nat : at = n + 1 /\ n + 1 \in 1 .. Len(file)
  <2>1. at \in 1 .. Len(file) /\ Len(file) \in Nat
      BY LenProperties DEF LineRead, Scans, ConfInv
  <2>2. at - 1 \in Nat /\ at = (at - 1) + 1
      BY <2>1
  <2> QED
      BY <2>1, <2>2
<1>2. /\ phase \in {"validating", "starting"} /\ file[n + 1] # TooLong /\ GoodLine(file[n + 1])
      /\ at' = n + 2 /\ file' = file /\ env' = env /\ phase' = phase /\ verdict' = verdict
    BY <1>1 DEF LineRead, Scans, Reading
<1>3. PICK q : q = IF at = 0 THEN 0 ELSE at - 1
    OBVIOUS
<1>4. ReadUpTo(n)
  <2>1. q = n
      BY <1>1, <1>3
  <2> QED
      BY <1>2, <1>3, <2>1 DEF ConfInv
<1>5. WellFormed(n + 1)
    BY <1>2, <1>4, WellFormedGrows DEF ReadUpTo
<1>6. Lookup' = Lookup
    BY <1>2 DEF Lookup
<1>7. /\ \A d, m : Lines(d, m)' = Lines(d, m)
      /\ \A m : WellFormed(m) <=> WellFormed(m)'
      /\ \A i : Args(i)' = Args(i)
    BY <1>2, <1>6, SameFile
<1>8. PICK f, a : f = Fields(file[n + 1]) /\ a = Args(n + 1) /\ a = Tail(f)
    BY DEF Args
<1>9. f \in Seq(Words) /\ (f # << >> => a \in Seq(Words))
  <2>1. file[n + 1] \in Seq(Words)
      BY <1>1, ElementOfSeq DEF ConfInv
  <2>2. f \in Seq(Words)
      BY <1>8, <2>1, FieldsType DEF ConfInv
  <2>3. f # << >> => Tail(f) \in Seq(Words)
      BY <2>2, HeadTailProperties
  <2> QED
      BY <1>8, <2>2, <2>3
<1>10. /\ Ignored(file[n + 1]) \/ f = << >> \/ Is("channel", n + 1) \/ Is("alert", n + 1)
       /\ ~(Is("channel", n + 1) /\ Is("alert", n + 1))
       /\ Is("channel", n + 1) => GoodChannel(a) /\ f # << >>
       /\ Is("alert", n + 1) => GoodAlert(Spliced(a)) /\ Last(a) \in seen /\ f # << >>
  <2>1. /\ Is("channel", n + 1) => f # << >>
        /\ Is("alert", n + 1) => f # << >>
      BY <1>8 DEF Is
  <2> QED
      BY <1>2, <1>8, <2>1, GoodLineFacts, Zenon
<1>11. ReadUpTo(n + 1)'
  <2>1. PICK chs, rs : chs = cfg.channels /\ rs = cfg.rules
      OBVIOUS
  <2>2. /\ seen = {Args(i)[1] : i \in Lines("channel", n)}
        /\ cfg = [channels |-> chs, rules |-> rs]
        /\ IsList(chs) /\ Len(chs) = Cardinality(Lines("channel", n))
        /\ IsList(rs) /\ Len(rs) = Cardinality(Lines("alert", n))
        /\ seen = {ch.name : ch \in ToSet(chs)}
        /\ \A ch \in ToSet(chs) : Usable(ch.destination)
        /\ \A r \in ToSet(rs) : r.channel \in seen
        /\ \A k \in DOMAIN rs : RuleLine(k, n)
      BY <1>4, <2>1 DEF ReadUpTo
  <2>3. CASE Is("channel", n + 1)
    <3>1. seen' = seen \cup {a[1]} /\ cfg' = [cfg EXCEPT !.channels = Append(@, Channel(a))]
        BY <1>1, <1>8, <2>3 DEF LineRead, Is, Args
    <3>2. PICK cs : cs = Append(chs, Channel(a))
        OBVIOUS
    <3>3. cfg' = [channels |-> cs, rules |-> rs]
        BY <2>2, <3>1, <3>2
    <3>4. IsList(cs) /\ Len(cs) = Len(chs) + 1 /\ ToSet(cs) = ToSet(chs) \cup {Channel(a)}
        BY <2>2, <3>2, ListAppend, AppendSet
    <3>5. /\ Lines("channel", n + 1) = Lines("channel", n) \cup {n + 1}
          /\ Cardinality(Lines("channel", n + 1)) = Cardinality(Lines("channel", n)) + 1
          /\ Cardinality(Lines("alert", n + 1)) = Cardinality(Lines("alert", n))
        BY <1>10, <2>3, LinesGrow
    <3>6. Channel(a).name = a[1] /\ Usable(Channel(a).destination)
        BY <1>9, <1>10, <2>3, ChannelFacts
    <3>7. seen' = {Args(i)[1] : i \in Lines("channel", n + 1)}
        BY <1>8, <2>2, <3>1, <3>5
    <3>8. seen' = {ch.name : ch \in ToSet(cs)}
        BY <2>2, <3>1, <3>4, <3>6
    <3>9. \A ch \in ToSet(cs) : Usable(ch.destination)
        BY <2>2, <3>4, <3>6
    <3>10. \A r \in ToSet(rs) : r.channel \in seen'
        BY <2>2, <3>1
    <3>11. cfg'.channels = cs /\ cfg'.rules = rs
        BY <3>3
    <3>12. Len(cs) = Cardinality(Lines("channel", n + 1)) /\ Len(rs) = Cardinality(Lines("alert", n + 1))
        BY <2>2, <3>4, <3>5
    <3>13. \A k \in DOMAIN rs : RuleLine(k, n + 1)'
      <4>1. Lines("alert", n + 1) = Lines("alert", n) /\ cfg'.rules = cfg.rules
          BY <1>10, <2>1, <2>3, <3>11, LinesGrow
      <4> QED
          BY <1>7, <2>2, <4>1, RuleLinesStay
    <3> QED
        BY <1>5, <1>7, <2>2, <3>3, <3>4, <3>7, <3>8, <3>9, <3>10, <3>11, <3>12, <3>13
        DEF ReadUpTo, Usable
  <2>4. CASE Is("alert", n + 1)
    <3>1. seen' = seen /\ cfg' = [cfg EXCEPT !.rules = Append(@, Rule(Spliced(a)))]
        BY <1>1, <1>8, <2>4 DEF LineRead, Is, Args
    <3>2. PICK us : us = Append(rs, Rule(Spliced(a)))
        OBVIOUS
    <3>3. cfg' = [channels |-> chs, rules |-> us]
        BY <2>2, <3>1, <3>2
    <3>4. IsList(us) /\ Len(us) = Len(rs) + 1 /\ ToSet(us) = ToSet(rs) \cup {Rule(Spliced(a))}
        BY <2>2, <3>2, ListAppend, AppendSet
    <3>5. /\ Lines("channel", n + 1) = Lines("channel", n)
          /\ Cardinality(Lines("alert", n + 1)) = Cardinality(Lines("alert", n)) + 1
        BY <1>10, <2>4, LinesGrow
    <3>6. Rule(Spliced(a)).channel \in seen
        BY <1>9, <1>10, <2>4, RuleChannel
    <3>7. seen' = {Args(i)[1] : i \in Lines("channel", n + 1)}
        BY <2>2, <3>1, <3>5
    <3>8. \A r \in ToSet(us) : r.channel \in seen'
        BY <2>2, <3>1, <3>4, <3>6
    <3>9. cfg'.channels = chs /\ cfg'.rules = us
        BY <3>3
    <3>10. Len(chs) = Cardinality(Lines("channel", n + 1)) /\ Len(us) = Cardinality(Lines("alert", n + 1))
        BY <2>2, <3>4, <3>5
    <3>11. seen' = {ch.name : ch \in ToSet(chs)}
        BY <2>2, <3>1
    <3>12. IsList(chs) /\ \A ch \in ToSet(chs) : Usable(ch.destination)
        BY <2>2
    <3>13. \A k \in DOMAIN us : RuleLine(k, n + 1)'
      <4>1. PICK m \in Nat : m = Len(rs) /\ DOMAIN rs = 1 .. m
          BY <2>2, ListFacts
      <4>2. /\ \A k \in 1 .. m : us[k] = rs[k]
            /\ us[m + 1] = Rule(Spliced(a)) /\ DOMAIN us = 1 .. m + 1
        <5>1. /\ IsList(us) /\ Len(us) = m + 1 /\ \A k \in 1 .. m : us[k] = rs[k]
              /\ us[m + 1] = Rule(Spliced(a))
            BY <2>2, <3>2, <4>1, ListAppend
        <5> QED
            BY <5>1, ListFacts
      <4>3. /\ m = Cardinality(Lines("alert", n)) /\ DOMAIN cfg.rules = 1 .. m
            /\ \A k \in 1 .. m : RuleLine(k, n)
            /\ \A k \in 1 .. m : cfg'.rules[k] = cfg.rules[k]
            /\ cfg'.rules[m + 1] = Rule(Spliced(Args(n + 1)))
          BY <1>8, <2>1, <2>2, <3>9, <4>1, <4>2
      <4>4. \A k \in 1 .. m + 1 : RuleLine(k, n + 1)'
          BY <1>7, <2>4, <4>3, RuleLinesGrow
      <4> QED
          BY <4>2, <4>4
    <3> QED
        BY <1>5, <1>7, <3>3, <3>4, <3>7, <3>8, <3>9, <3>10, <3>11, <3>12, <3>13
        DEF ReadUpTo, Usable
  <2>5. CASE ~ Is("channel", n + 1) /\ ~ Is("alert", n + 1)
    <3>1. seen' = seen /\ cfg' = cfg
        BY <1>1, <1>8, <1>10, <2>5 DEF LineRead
    <3>2. /\ Lines("channel", n + 1) = Lines("channel", n)
          /\ Lines("alert", n + 1) = Lines("alert", n)
        BY <2>5, LinesGrow
    <3>3. \A k \in DOMAIN rs : RuleLine(k, n + 1)'
        BY <1>7, <2>2, <3>1, <3>2, RuleLinesStay
    <3> QED
        BY <1>4, <1>5, <1>7, <2>1, <3>1, <3>2, <3>3 DEF ReadUpTo, Usable
  <2> QED
      BY <2>3, <2>4, <2>5
<1>12. ReadUpTo(IF at = 0 THEN 0 ELSE at - 1)'
  <2>1. (IF at' = 0 THEN 0 ELSE at' - 1) = n + 1
      BY <1>2
  <2> QED
      BY <1>11, <2>1
<1>13. at' \in 0 .. Len(file) + 1
    BY <1>1, <1>2, LenProperties DEF ConfInv
<1> QED
    BY <1>2, <1>12, <1>13 DEF ConfInv

\* Before the first line nothing is read.
LEMMA NothingRead == seen = {} /\ cfg = NoConfig => ReadUpTo(0)
<1> SUFFICES ASSUME seen = {}, cfg = NoConfig
             PROVE  ReadUpTo(0)
    OBVIOUS
<1>1. \A d : Lines(d, 0) = {}
    BY DEF Lines
<1>2. Cardinality({}) = 0
    BY FS_EmptySet
<1>3. WellFormed(0)
    BY <1>1 DEF WellFormed
<1>4. cfg.channels = << >> /\ cfg.rules = << >> /\ cfg = [channels |-> << >>, rules |-> << >>]
    BY DEF NoConfig
<1>5. IsList(<< >>) /\ Len(<< >>) = 0 /\ ToSet(<< >>) = {} /\ DOMAIN << >> = {}
  <2>1. IsList(<< >>)
      BY ListFacts
  <2> QED
      BY <2>1 DEF ToSet
<1> QED
    BY <1>1, <1>2, <1>3, <1>4, <1>5 DEF ReadUpTo

LEMMA ConfStart ==
    ASSUME ConfInit
    PROVE  ConfInv
<1>1. /\ file \in Seq(Seq(Words)) /\ env \in Environments
      /\ phase \in {"validating", "starting"} /\ at = 0 /\ seen = {} /\ cfg = NoConfig
      /\ verdict = "unknown"
    BY FilesAssumption DEF ConfInit
<1>2. ReadUpTo(0)
    BY <1>1, NothingRead
<1>3. at \in 0 .. Len(file) + 1
    BY <1>1, LenProperties
<1>4. ReadUpTo(IF at = 0 THEN 0 ELSE at - 1)
    BY <1>1, <1>2
<1> QED
    BY <1>1, <1>3, <1>4 DEF ConfInv

\* The parse that fails leaves nothing.
LEMMA FailStep ==
    ASSUME ConfInv, Fail
    PROVE  ConfInv'
BY DEF ConfInv, Fail

\* What has been read stays read while its file and environment do.
LEMMA ReadStays ==
    ASSUME NEW n, ReadUpTo(n), file' = file, Lookup' = Lookup, seen' = seen, cfg' = cfg
    PROVE  ReadUpTo(n)'
<1>1. /\ \A d, m : Lines(d, m)' = Lines(d, m)
      /\ \A m : WellFormed(m) <=> WellFormed(m)'
      /\ \A i : Args(i)' = Args(i)
    BY SameFile
<1>2. \A k : RuleLine(k, n) => RuleLine(k, n)'
    BY <1>1 DEF RuleLine
<1> QED
    BY <1>1, <1>2 DEF ReadUpTo, Usable

LEMMA ConfStep ==
    ASSUME ConfInv, ConfNext
    PROVE  ConfInv'
<1>1. CASE OpenFails
    BY <1>1, FailStep DEF OpenFails
<1>2. CASE Open
  <2>1. /\ phase \in {"validating", "starting"} /\ at = 0 /\ at' = 1
        /\ file' = file /\ env' = env /\ phase' = phase /\ seen' = seen /\ cfg' = cfg
        /\ verdict' = verdict
      BY <1>2 DEF Open, Reading
  <2>2. ReadUpTo(0)
      BY <2>1 DEF ConfInv
  <2>3. ReadUpTo(0)'
    <3>1. Lookup' = Lookup
        BY <2>1 DEF Lookup
    <3> QED
        BY <2>1, <2>2, <3>1, ReadStays
  <2>4. ReadUpTo(IF at = 0 THEN 0 ELSE at - 1)'
    <3>1. (IF at' = 0 THEN 0 ELSE at' - 1) = 0
        BY <2>1
    <3> QED
        BY <2>3, <3>1
  <2>5. at' \in 0 .. Len(file) + 1
      BY <2>1, LenProperties DEF ConfInv
  <2> QED
      BY <2>1, <2>4, <2>5 DEF ConfInv
<1>3. CASE ScanFails
    BY <1>3, FailStep DEF ScanFails
<1>4. CASE LineFails
    BY <1>4, FailStep DEF LineFails
<1>5. CASE LineRead
    BY <1>5, LineReadStep
<1>6. CASE Validated
  <2>1. /\ phase' = "starting" /\ at' = 0 /\ file' = file /\ env' = env
        /\ seen' = {} /\ cfg' = NoConfig /\ verdict' = "valid"
      BY <1>6 DEF Validated
  <2>2. ReadUpTo(0)'
    <3>1. (seen = {} /\ cfg = NoConfig)'
        BY <2>1 DEF NoConfig
    <3> QED
        BY <3>1, NothingRead, PTL
  <2>3. ReadUpTo(IF at = 0 THEN 0 ELSE at - 1)'
      BY <2>1, <2>2
  <2>4. at' \in 0 .. Len(file) + 1
      BY <2>1, LenProperties DEF ConfInv
  <2> QED
      BY <2>1, <2>3, <2>4 DEF ConfInv
<1>7. CASE Started
  <2>1. /\ phase = "starting" /\ phase' = "serving" /\ at = Len(file) + 1 /\ at' = at
        /\ file' = file /\ env' = env /\ seen' = seen /\ cfg' = cfg /\ verdict' = verdict
      BY <1>7 DEF Started
  <2>2. PICK q : q = IF at = 0 THEN 0 ELSE at - 1
      OBVIOUS
  <2>3. ReadUpTo(q)'
    <3>1. Lookup' = Lookup
        BY <2>1 DEF Lookup
    <3>2. ReadUpTo(q)
        BY <2>1, <2>2 DEF ConfInv
    <3> QED
        BY <2>1, <3>1, <3>2, ReadStays
  <2>4. ReadUpTo(IF at = 0 THEN 0 ELSE at - 1)'
    <3>1. (IF at' = 0 THEN 0 ELSE at' - 1) = q
        BY <2>1, <2>2
    <3> QED
        BY <2>3, <3>1
  <2> QED
      BY <2>1, <2>4 DEF ConfInv
<1> QED
    BY <1>1, <1>2, <1>3, <1>4, <1>5, <1>6, <1>7 DEF ConfNext

LEMMA ConfStays ==
    ASSUME ConfInv, UNCHANGED confVars
    PROVE  ConfInv'
<1>1. /\ file' = file /\ env' = env /\ phase' = phase /\ at' = at /\ seen' = seen
      /\ cfg' = cfg /\ verdict' = verdict
    BY DEF confVars
<1>2. PICK q : q = IF at = 0 THEN 0 ELSE at - 1
    OBVIOUS
<1>3. phase # "stopped" => ReadUpTo(q)'
  <2>1. Lookup' = Lookup
      BY <1>1 DEF Lookup
  <2>2. phase # "stopped" => ReadUpTo(q)
      BY <1>2 DEF ConfInv
  <2> QED
      BY <1>1, <2>1, <2>2, ReadStays
<1>4. phase # "stopped" => ReadUpTo(IF at = 0 THEN 0 ELSE at - 1)'
  <2>1. (IF at' = 0 THEN 0 ELSE at' - 1) = q
      BY <1>1, <1>2
  <2> QED
      BY <1>3, <2>1
<1> QED
    BY <1>1, <1>4 DEF ConfInv

\* What has been read is what the file says.
LEMMA FileHonouredHolds ==
    ASSUME ConfInv
    PROVE  FileHonoured
<1>1. Len(file) \in Nat /\ at \in 0 .. Len(file) + 1
    BY LenProperties DEF ConfInv
<1>2. Scans => WellFormed(at - 1)
  <2>1. ASSUME Scans PROVE WellFormed(at - 1)
    <3>1. at # 0 /\ phase # "stopped"
        BY <1>1, <2>1 DEF Scans, Reading
    <3>2. ReadUpTo(at - 1)
        BY <3>1 DEF ConfInv
    <3> QED
        BY <3>2 DEF ReadUpTo
  <2> QED
      BY <2>1
<1>3. ASSUME phase = "serving"
      PROVE  ReadUpTo(Len(file))
  <2>1. at = Len(file) + 1
      BY <1>3 DEF ConfInv
  <2>2. (IF at = 0 THEN 0 ELSE at - 1) = Len(file)
      BY <1>1, <2>1
  <2> QED
      BY <1>3, <2>2 DEF ConfInv
<1>4. FirstBadLine
    BY <1>2, <1>3 DEF FirstBadLine, ReadUpTo, ConfInv
<1>5. RulesDelivered
  <2> SUFFICES ASSUME phase = "serving", NEW r \in ToSet(cfg.rules)
               PROVE  /\ r.channel \in DOMAIN Destinations
                      /\ LET d == Destinations[r.channel]
                         IN d.webhook # "" \/ (d.token # "" /\ d.channelID # "")
      BY DEF RulesDelivered
  <2>1. /\ r.channel \in {ch.name : ch \in ToSet(cfg.channels)}
        /\ \A ch \in ToSet(cfg.channels) : Usable(ch.destination)
      BY <1>3 DEF ReadUpTo
  <2>2. PICK c : c = CHOOSE ch \in ToSet(cfg.channels) : ch.name = r.channel
      OBVIOUS
  <2>3. c \in ToSet(cfg.channels)
      BY <2>1, <2>2
  <2>4. r.channel \in DOMAIN Destinations /\ Destinations[r.channel] = c.destination
      BY <2>1, <2>2 DEF Destinations
  <2> QED
      BY <2>1, <2>3, <2>4 DEF Usable
<1> QED
    BY <1>4, <1>5 DEF FileHonoured

\* Whatever the file and the environments: ParseEnv has got past well-formed lines
\* only, sor serves with all of a file's channels and rules or does not serve, and
\* every rule's channel leads to Slack (ParseEnv, Load, main.destinations).
THEOREM Honoured == Spec => []FileHonoured
<1>1. Init => ConfInv
    BY ConfStart DEF Init
<1>2. ConfInv /\ [Next]_vars => ConfInv'
  <2>1. ASSUME ConfInv, UNCHANGED confVars
        PROVE  ConfInv'
      BY <2>1, ConfStays
  <2>2. ASSUME ConfInv, ConfNext
        PROVE  ConfInv'
      BY <2>2, ConfStep
  <2>3. UNCHANGED vars => UNCHANGED confVars
      BY DEF vars
  <2> QED
      BY <2>1, <2>2, <2>3 DEF Next, Serve
<1>3. ConfInv => FileHonoured
    BY FileHonouredHolds
<1> QED
    BY <1>1, <1>2, <1>3, PTL DEF Spec

-----------------------------------------------------------------------------
(* Rules and the streams they watch.                                       *)

\* The words of a line that is a directive.
LEMMA ArgsFacts ==
    ASSUME ConfInv, NEW i \in 1 .. Len(file), Fields(file[i]) # << >>
    PROVE  /\ Fields(file[i]) \in Seq(Words) /\ Args(i) \in Seq(Words)
           /\ Len(Args(i)) = Len(Fields(file[i])) - 1
           /\ \A k \in 1 .. Len(Args(i)) : Args(i)[k] = Fields(file[i])[k + 1]
<1>1. file[i] \in Seq(Words)
    BY ElementOfSeq DEF ConfInv
<1>2. PICK f \in Seq(Words) : f = Fields(file[i])
    BY <1>1, FieldsType DEF ConfInv
<1>3. /\ Tail(f) \in Seq(Words) /\ Len(Tail(f)) = Len(f) - 1
      /\ \A k \in 1 .. Len(Tail(f)) : Tail(f)[k] = f[k + 1]
    BY <1>2, HeadTailProperties
<1> QED
    BY <1>2, <1>3 DEF Args

\* The path of an alert is the line's second word, spliced or not.
LEMMA SplicedFirst ==
    ASSUME NEW a \in Seq(Words), GoodAlert(Spliced(a))
    PROVE  Len(a) >= 1 /\ Spliced(a)[1] = a[1]
<1>1. CASE Len(a) >= 2 /\ a[2] = "absent"
  <2>1. PICK b, c : b = <<a[1], a[2], "0">> /\ c = SubSeq(a, 3, Len(a))
      OBVIOUS
  <2>2. Spliced(a) = b \o c
      BY <1>1, <2>1 DEF Spliced
  <2>3. a[1] \in Words /\ a[2] \in Words /\ Len(a) \in Nat
      BY <1>1, LenProperties, ElementOfSeq
  <2>4. c \in Seq(Words) /\ Len(c) \in Nat
    <3>1. \A i \in 3 .. Len(a) : a[i] \in Words
        BY <2>3, ElementOfSeq
    <3>2. c \in Seq(Words)
        BY <2>1, <2>3, <3>1, SubSeqProperties
    <3> QED
        BY <3>2, LenProperties
  <2>5. PICK T : T = Words \cup {"0"}
      OBVIOUS
  <2>6. b \in Seq(T) /\ Len(b) = 3 /\ c \in Seq(T)
    <3>1. b \in Seq(T) /\ Len(b) = 3
        BY <2>1, <2>3, <2>5
    <3>2. Words \subseteq T
        BY <2>5
    <3> QED
        BY <2>4, <3>1, <3>2, SeqWidens
  <2>7. (b \o c)[1] = b[1]
      BY <2>4, <2>6, ConcatProperties
  <2> QED
      BY <1>1, <2>1, <2>2, <2>3, <2>7
<1>2. CASE ~(Len(a) >= 2 /\ a[2] = "absent")
  <2>1. Spliced(a) = a
      BY <1>2 DEF Spliced
  <2> QED
      BY <2>1 DEF GoodAlert
<1> QED
    BY <1>1, <1>2

\* The file an alert names is the one its rule's stream is listed under.
LEMMA AlertPath ==
    ASSUME NEW a \in Seq(Words), GoodAlert(Spliced(a))
    PROVE  /\ Rule(Spliced(a)).stream = StreamIDOf(PathOf[a[1]].parts)
           /\ PathString(Rule(Spliced(a)).stream) = PathOf[a[1]].parts
<1>1. Spliced(a)[1] = a[1]
    BY SplicedFirst
<1>2. IsMetric(a[1])
    BY <1>1 DEF GoodAlert
<1>3. Rule(Spliced(a)).stream = StreamIDOf(PathOf[a[1]].parts)
    BY <1>1 DEF Rule
<1>4. PICK S : S = STRING \ {Slash}
    OBVIOUS
<1>5. PICK path \in [absolute : BOOLEAN, parts : Seq(Seq(S))] :
         path = PathOf[a[1]] /\ ParsePath(path) = "ok" /\ Len(path.parts) = 4
    BY <1>2, <1>4, PathsAssumption DEF IsMetric, Depth
<1>6. PICK parts \in Seq(Seq(S)) : parts = path.parts
    BY <1>5
<1>7. Parses(parts)
    BY <1>5, <1>6, ParsePathFacts
<1>8. Slash \notin S /\ Len(parts) = 4
    BY <1>4, <1>5, <1>6
<1>9. PathString(StreamIDOf(parts)) = parts
    BY <1>7, <1>8, ParsedPath
<1> QED
    BY <1>3, <1>5, <1>6, <1>9

\* The directives are no more than the lines.
LEMMA DirectivesFit ==
    ASSUME NEW n \in Nat
    PROVE  /\ Cardinality(Lines("channel", n)) \in Nat /\ Cardinality(Lines("alert", n)) \in Nat
           /\ Cardinality(Lines("channel", n)) + Cardinality(Lines("alert", n)) <= n
<1>1. PICK A, B : A = Lines("channel", n) /\ B = Lines("alert", n)
    OBVIOUS
<1>2. A \subseteq 1 .. n /\ B \subseteq 1 .. n /\ A \cap B = {}
    BY <1>1 DEF Lines
<1>3. IsFiniteSet(1 .. n) /\ Cardinality(1 .. n) = n
    BY FS_Interval
<1>4. IsFiniteSet(A) /\ IsFiniteSet(B) /\ IsFiniteSet(A \cup B)
      /\ Cardinality(A) \in Nat /\ Cardinality(B) \in Nat
    BY <1>2, <1>3, FS_Subset, FS_Union, FS_CardinalityType
<1>5. Cardinality(A \cup B) = Cardinality(A) + Cardinality(B)
  <2>1. Cardinality(A \cup B) = Cardinality(A) + Cardinality(B) - Cardinality(A \cap B)
      BY <1>4, FS_Union
  <2>2. Cardinality(A \cap B) = 0
      BY <1>2, FS_EmptySet
  <2> QED
      BY <1>4, <2>1, <2>2
<1>6. Cardinality(A \cup B) <= Cardinality(1 .. n)
  <2>1. A \cup B \subseteq 1 .. n
      BY <1>2
  <2> QED
      BY <1>3, <2>1, FS_Subset
<1> QED
    BY <1>1, <1>3, <1>4, <1>5, <1>6

LEMMA TypeHolds ==
    ASSUME ConfInv, ReceiverInv, ingested # << >> => phase = "serving"
    PROVE  TypeOK
<1>1. Len(file) \in Nat /\ at \in 0 .. Len(file) + 1
    BY LenProperties DEF ConfInv
<1>2. Len(cfg.channels) + Len(cfg.rules) <= at
  <2>1. CASE phase = "stopped"
    <3>1. Len(cfg.channels) = 0 /\ Len(cfg.rules) = 0
        BY <2>1 DEF ConfInv, NoConfig
    <3> QED
        BY <1>1, <3>1
  <2>2. CASE phase # "stopped"
    <3>1. PICK n \in Nat : n = (IF at = 0 THEN 0 ELSE at - 1) /\ n <= at
        BY <1>1
    <3>2. ReadUpTo(n)
        BY <2>2, <3>1 DEF ConfInv
    <3>3. /\ Len(cfg.channels) = Cardinality(Lines("channel", n))
          /\ Len(cfg.rules) = Cardinality(Lines("alert", n))
        BY <3>2 DEF ReadUpTo
    <3>4. PICK c \in Nat, q \in Nat : /\ c = Cardinality(Lines("channel", n))
                                     /\ q = Cardinality(Lines("alert", n)) /\ c + q <= n
        BY DirectivesFit
    <3>5. c + q <= at
        BY <1>1, <3>1, <3>4
    <3> QED
        BY <3>3, <3>4, <3>5
  <2> QED
      BY <2>1, <2>2
<1>3. ConfTypeOK
    BY <1>1, <1>2 DEF ConfTypeOK, ConfInv
<1>4. ReceiverTypeOK
    BY DEF ReceiverTypeOK, ReceiverInv, Serving
<1> QED
    BY <1>3, <1>4 DEF TypeOK

\* The invariants say what a rule is shown.
LEMMA RuleSeesHolds ==
    ASSUME ConfInv, ReceiverInv, StampInv, ingested # << >> => phase = "serving"
    PROVE  RuleSeesItsFile
<1> SUFFICES ASSUME phase = "serving", NEW k \in DOMAIN cfg.rules
             PROVE  \E i \in 1 .. Len(file) :
                       /\ IsAlertLine(k, i)
                       /\ Observed(cfg.rules[k]) \subseteq Listed(i)
                       /\ \A n \in Listed(i) \ Observed(cfg.rules[k]) :
                             Misnamed(ingested[n].req)
    BY TypeHolds DEF RuleSeesItsFile
<1>1. PICK len \in Nat : len = Len(file)
    BY LenProperties DEF ConfInv
<1>2. ReadUpTo(len)
  <2>1. at = len + 1
      BY <1>1 DEF ConfInv
  <2>2. (IF at = 0 THEN 0 ELSE at - 1) = len
      BY <2>1
  <2> QED
      BY <2>2 DEF ConfInv
<1>3. PICK i \in Lines("alert", len) :
         /\ Cardinality({j \in Lines("alert", len) : j <= i}) = k
         /\ cfg.rules[k] = Rule(Spliced(Args(i)))
    BY <1>2 DEF ReadUpTo, RuleLine
<1>4. i \in 1 .. Len(file) /\ Fields(file[i]) # << >> /\ GoodAlert(Spliced(Args(i)))
  <2>1. i \in 1 .. Len(file) /\ Fields(file[i]) # << >>
      BY <1>1, <1>3 DEF Lines
  <2>2. GoodAlert(Spliced(Args(i)))
      BY <1>2, <1>3 DEF ReadUpTo, WellFormed, Args
  <2> QED
      BY <2>1, <2>2
<1>5. IsAlertLine(k, i)
    BY <1>1, <1>3 DEF IsAlertLine
<1>6. PICK a \in Seq(Words) : a = Args(i) /\ a[1] = Fields(file[i])[2]
  <2>1. /\ Args(i) \in Seq(Words)
        /\ \A j \in 1 .. Len(Args(i)) : Args(i)[j] = Fields(file[i])[j + 1]
      BY <1>4, ArgsFacts
  <2>2. Len(Args(i)) >= 1 /\ Len(Args(i)) \in Nat
      BY <1>4, <2>1, SplicedFirst
  <2>3. Args(i)[1] = Fields(file[i])[1 + 1]
      BY <2>1, <2>2
  <2> QED
      BY <2>1, <2>3
<1>7. PICK parts, rule : parts = PathOf[a[1]].parts /\ rule = cfg.rules[k]
    OBVIOUS
<1>8. rule.stream = StreamIDOf(parts) /\ PathString(rule.stream) = parts
    BY <1>3, <1>4, <1>6, <1>7, AlertPath
<1>9. Listed(i) = {n \in DOMAIN ingested : PathString(ingested[n].id) = parts}
    BY <1>6, <1>7 DEF Listed
<1>10. Observed(rule) \subseteq Listed(i)
    BY <1>8, <1>9 DEF Observed
<1>11. ASSUME NEW n \in Listed(i) \ Observed(rule), ~ Misnamed(ingested[n].req)
       PROVE  FALSE
  <2>1. n \in DOMAIN ingested /\ PathString(ingested[n].id) = parts
      BY <1>9, <1>11
  <2>2. PICK x \in Exports : x = ingested[n].req
      BY <2>1 DEF ReceiverInv, Serving
  <2>3. PICK id \in Streams(RequestOf[x]) : id = ingested[n].id
      BY <2>1, <2>2 DEF StampInv, Came
  <2>4. IsPlain(id, PiecesOf(RequestOf[x]))
      BY <1>11, <2>2, StreamsPlain
  <2>5. StreamIDOf(PathString(id)) = id
      BY <2>4, PlainParses
  <2>6. id # rule.stream
      BY <1>11, <2>1, <2>3 DEF Observed
  <2> QED
      BY <1>8, <2>1, <2>3, <2>5, <2>6
<1> QED
    BY <1>4, <1>5, <1>7, <1>10, <1>11

\* ConfInv holds in every state, and nothing is ingested before sor serves.
LEMMA Configured == Spec => [](ConfInv /\ (ingested # << >> => phase = "serving"))
<1>1. Init => ConfInv /\ (ingested # << >> => phase = "serving")
    BY ConfStart DEF Init, ReceiverInit
<1>2. ConfInv /\ (ingested # << >> => phase = "serving") /\ [Next]_vars
        => (ConfInv /\ (ingested # << >> => phase = "serving"))'
  <2> SUFFICES ASSUME ConfInv, ingested # << >> => phase = "serving", [Next]_vars
               PROVE  ConfInv' /\ (ingested' # << >> => phase' = "serving")
      OBVIOUS
  <2>1. CASE UNCHANGED vars
      BY <2>1, ConfStays DEF vars, confVars, receiverVars
  <2>2. CASE ConfNext /\ UNCHANGED receiverVars
    <3>1. ConfInv' /\ ingested' = ingested
        BY <2>2, ConfStep DEF receiverVars
    <3>2. phase # "serving"
        BY <2>2 DEF ConfNext, OpenFails, Open, ScanFails, LineFails, LineRead, Validated,
                    Started, Scans, Reading
    <3> QED
        BY <3>1, <3>2
  <2>3. CASE Serve
    <3>1. ConfInv'
        BY <2>3, ConfStays DEF Serve
    <3> QED
        BY <2>3, <3>1 DEF Serve, confVars
  <2> QED
      BY <2>1, <2>2, <2>3 DEF Next
<1> QED
    BY <1>1, <1>2, PTL DEF Spec

\* Whatever the file, the environments and the requests: the k-th rule is shown all samples
\* of the stream whose file the k-th alert line names, and what is listed there besides
\* comes from a request with an empty name or a slash in one (parseAlert, metric,
\* StreamID.Path, Alerter.Observe).
THEOREM RuleWatchesItsFile == Spec => []RuleSeesItsFile
<1>1. ConfInv /\ (ingested # << >> => phase = "serving") /\ ReceiverInv /\ StampInv
        => RuleSeesItsFile
    BY RuleSeesHolds
<1> QED
    BY <1>1, Received, Configured, PTL

-----------------------------------------------------------------------------
(* What -validate has said of the file.                                    *)

\* The lines of a kind of a file f, and that f is well-formed, as read with lookup
LinesIn(lookup, f, directive) ==
    {i \in 1 .. Len(f) : /\ ~ Ignored(f[i]) /\ Expanded(lookup, f[i]) # << >>
                         /\ Expanded(lookup, f[i])[1] = directive}

ArgsIn(lookup, f, i) == Tail(Expanded(lookup, f[i]))

UnsetIn(lookup, words) == (ToSet(words) \cap References) \ DOMAIN lookup # {}

WellFormedIn(lookup, f) ==
    /\ \A i \in 1 .. Len(f) :
          f[i] # TooLong /\ (Ignored(f[i]) \/
             (~ UnsetIn(lookup, f[i]) /\
                (\/ Expanded(lookup, f[i]) = << >>
                 \/ i \in LinesIn(lookup, f, "channel") \cup LinesIn(lookup, f, "alert"))))
    /\ \A i \in LinesIn(lookup, f, "channel") : GoodChannel(ArgsIn(lookup, f, i))
    /\ \A i \in LinesIn(lookup, f, "alert") : GoodAlert(Spliced(ArgsIn(lookup, f, i)))
    /\ \A i, j \in LinesIn(lookup, f, "channel") :
          ArgsIn(lookup, f, i)[1] = ArgsIn(lookup, f, j)[1] => i = j
    /\ \A i \in LinesIn(lookup, f, "alert") : \E j \in LinesIn(lookup, f, "channel") :
          j < i /\ ArgsIn(lookup, f, j)[1] = Last(ArgsIn(lookup, f, i))

\* A file that is declared valid is well-formed in the environment of the build.
VerdictInv == verdict = "valid" => WellFormedIn(env.build, file)

LEMMA WellFormedThere ==
    ASSUME phase = "validating", WellFormed(Len(file))
    PROVE  WellFormedIn(env.build, file)
<1>1. PICK lookup : lookup = env.build
    OBVIOUS
<1>2. Lookup = lookup
    BY <1>1 DEF Lookup
<1>3. \A w : Fields(w) = Expanded(lookup, w) /\ (Unset(w) <=> UnsetIn(lookup, w))
    BY <1>2 DEF Fields, Unset, UnsetIn
<1>4. \A d : Lines(d, Len(file)) = LinesIn(lookup, file, d)
    BY <1>3 DEF Lines, LinesIn
<1>5. \A i : Args(i) = ArgsIn(lookup, file, i)
    BY <1>3 DEF Args, ArgsIn
<1>6. PICK chans, alerts : /\ chans = Lines("channel", Len(file))
                           /\ alerts = Lines("alert", Len(file))
    OBVIOUS
<1>7. /\ \A i \in 1 .. Len(file) :
            file[i] # TooLong /\ (Ignored(file[i]) \/
               (~ Unset(file[i]) /\ (Fields(file[i]) = << >> \/ i \in chans \cup alerts)))
      /\ \A i \in chans : GoodChannel(Args(i))
      /\ \A i \in alerts : GoodAlert(Spliced(Args(i)))
      /\ \A i, j \in chans : Args(i)[1] = Args(j)[1] => i = j
      /\ \A i \in alerts : \E j \in chans : j < i /\ Args(j)[1] = Last(Args(i))
    BY <1>6 DEF WellFormed, Args
<1>8. chans = LinesIn(lookup, file, "channel") /\ alerts = LinesIn(lookup, file, "alert")
    BY <1>4, <1>6
<1>9. \A i \in 1 .. Len(file) :
         file[i] # TooLong /\ (Ignored(file[i]) \/
            (~ UnsetIn(lookup, file[i]) /\
                (Expanded(lookup, file[i]) = << >> \/ i \in chans \cup alerts)))
    BY <1>3, <1>7, Zenon
<1>10. /\ \A i \in chans : GoodChannel(ArgsIn(lookup, file, i))
       /\ \A i \in alerts : GoodAlert(Spliced(ArgsIn(lookup, file, i)))
       /\ \A i, j \in chans :
             ArgsIn(lookup, file, i)[1] = ArgsIn(lookup, file, j)[1] => i = j
       /\ \A i \in alerts : \E j \in chans :
             j < i /\ ArgsIn(lookup, file, j)[1] = Last(ArgsIn(lookup, file, i))
    BY <1>5, <1>7
<1> QED
    BY <1>1, <1>8, <1>9, <1>10, Zenon DEF WellFormedIn

LEMMA VerdictStep ==
    ASSUME ConfInv, VerdictInv, ConfNext
    PROVE  VerdictInv'
<1>1. CASE ~ Validated
  <2>1. file' = file /\ env' = env /\ (verdict' = "valid" => verdict = "valid")
      BY <1>1 DEF ConfNext, OpenFails, Open, ScanFails, LineFails, LineRead, Started, Fail
  <2> QED
      BY <2>1 DEF VerdictInv
<1>2. CASE Validated
  <2>1. phase = "validating" /\ at = Len(file) + 1 /\ file' = file /\ env' = env
      BY <1>2 DEF Validated
  <2>2. WellFormed(Len(file))
    <3>1. Len(file) \in Nat
        BY LenProperties DEF ConfInv
    <3>2. (IF at = 0 THEN 0 ELSE at - 1) = Len(file)
        BY <2>1, <3>1
    <3>3. ReadUpTo(Len(file))
        BY <2>1, <3>2 DEF ConfInv
    <3> QED
        BY <3>3 DEF ReadUpTo
  <2>3. WellFormedIn(env.build, file)
      BY <2>1, <2>2, WellFormedThere
  <2> QED
      BY <2>1, <2>3 DEF VerdictInv
<1> QED
    BY <1>1, <1>2

\* A line's words at the build and at the start, where they differ in destinations only.
LEMMA SameWords ==
    ASSUME ConfInv, OnlyDestinationsDiffer, NEW i \in 1 .. Len(file), ~ Ignored(file[i])
    PROVE  LET b == Expanded(env.build, file[i])
               r == Expanded(env.run, file[i])
           IN /\ b \in Seq(Words) /\ r \in Seq(Words) /\ Len(b) = Len(r)
              /\ b = << >> <=> r = << >>
              /\ b # << >> => b[1] = r[1] /\ Len(Tail(b)) = Len(Tail(r))
              /\ b # << >> => \A k \in 1 .. Len(Tail(b)) :
                                Tail(b)[k] = Tail(r)[k] \/ (b[1] = "channel" /\ k > 2)
              /\ b # << >> /\ b[1] # "channel" => b = r
<1>1. PICK w \in Seq(Words) : w = file[i]
    BY ElementOfSeq DEF ConfInv
<1>2. ASSUME NEW lookup \in {env.build, env.run} PROVE Expanded(lookup, w) \in Seq(Words)
    BY ExpandedType DEF ConfInv
<1>3. PICK b \in Seq(Words), r \in Seq(Words) :
         b = Expanded(env.build, file[i]) /\ r = Expanded(env.run, file[i])
    BY <1>1, <1>2
<1>4. /\ Len(b) = Len(r)
      /\ \A k \in 1 .. Len(b) : b[k] = r[k] \/ (b[1] = "channel" /\ k > 3)
    BY <1>3, Zenon DEF OnlyDestinationsDiffer
<1>5. b = << >> <=> r = << >>
    BY <1>4, EmptySeq
<1>6. PICK n \in Nat : n = Len(b) /\ n = Len(r) /\ (b # << >> => n >= 1)
    BY <1>4, EmptySeq
<1>7. ASSUME b # << >>
      PROVE  /\ b[1] = r[1] /\ Len(Tail(b)) = n - 1 /\ Len(Tail(r)) = n - 1
             /\ \A k \in 1 .. n - 1 : Tail(b)[k] = b[k + 1] /\ Tail(r)[k] = r[k + 1]
  <2>1. 1 \in 1 .. Len(b) /\ ~(1 > 3)
      BY <1>6, <1>7
  <2>2. b[1] = r[1]
      BY <1>4, <2>1
  <2> QED
      BY <1>5, <1>6, <1>7, <2>2, HeadTailProperties
<1>8. ASSUME b # << >>, NEW k \in 1 .. n - 1
      PROVE  Tail(b)[k] = Tail(r)[k] \/ (b[1] = "channel" /\ k > 2)
  <2>1. k + 1 \in 1 .. Len(b) /\ (k + 1 > 3 => k > 2)
      BY <1>6
  <2>2. b[k + 1] = r[k + 1] \/ (b[1] = "channel" /\ k > 2)
      BY <1>4, <2>1
  <2> QED
      BY <1>7, <1>8, <2>2
<1>9. ASSUME b # << >>, b[1] # "channel" PROVE b = r
    BY <1>4, <1>9, SeqEqual
<1> QED
    BY <1>3, <1>4, <1>5, <1>7, <1>8, <1>9, Zenon

\* The next line of a file that was declared valid is good.
LEMMA ValidGoesOn ==
    ASSUME ConfInv, VerdictInv, verdict = "valid", phase = "starting", OnlyDestinationsDiffer,
           at \in 1 .. Len(file)
    PROVE  file[at] # TooLong /\ GoodLine(file[at])
<1>1. PICK n, w, f, b, r : /\ n = at /\ w = file[n] /\ f = file
                           /\ b = Expanded(env.build, w) /\ r = Expanded(env.run, w)
    OBVIOUS
<1>2. WellFormedIn(env.build, f) /\ n \in 1 .. Len(f)
    BY <1>1 DEF VerdictInv
<1>3. /\ w # TooLong
      /\ Ignored(w) \/ (~ UnsetIn(env.build, w) /\
            (b = << >> \/ n \in LinesIn(env.build, f, "channel") \cup LinesIn(env.build, f, "alert")))
    BY <1>1, <1>2 DEF WellFormedIn
<1>4. CASE Ignored(w)
    BY <1>1, <1>3, <1>4 DEF GoodLine
<1>5. CASE ~ Ignored(w)
  <2>1. Lookup = env.run
      BY DEF Lookup
  <2>2. Fields(w) = r
      BY <1>1, <2>1 DEF Fields
  <2>3. ~ Unset(w)
    <3>1. ToSet(w) \cap References \subseteq DOMAIN env.build
        BY <1>3, <1>5 DEF UnsetIn
    <3>2. ToSet(w) \cap References \cap DOMAIN env.build \subseteq DOMAIN env.run
        BY <1>1, <1>5, Zenon DEF OnlyDestinationsDiffer
    <3> QED
        BY <2>1, <3>1, <3>2 DEF Unset
  <2>4. /\ b \in Seq(Words) /\ r \in Seq(Words) /\ Len(b) = Len(r)
        /\ b = << >> <=> r = << >>
        /\ b # << >> => b[1] = r[1] /\ Len(Tail(b)) = Len(Tail(r))
        /\ b # << >> => \A k \in 1 .. Len(Tail(b)) :
                          Tail(b)[k] = Tail(r)[k] \/ (b[1] = "channel" /\ k > 2)
        /\ b # << >> /\ b[1] # "channel" => b = r
      BY <1>1, <1>5, SameWords
  <2>5. PICK a, c : a = Tail(r) /\ c = Tail(b)
      OBVIOUS
  <2>6. ASSUME NEW j \in LinesIn(env.build, f, "channel")
        PROVE  /\ j \in 1 .. Len(file) /\ GoodChannel(ArgsIn(env.build, f, j))
               /\ ~ Ignored(file[j]) /\ Fields(file[j]) # << >> /\ Fields(file[j])[1] = "channel"
               /\ Len(Args(j)) = Len(ArgsIn(env.build, f, j))
               /\ Args(j)[1] = ArgsIn(env.build, f, j)[1]
               /\ Args(j)[2] = ArgsIn(env.build, f, j)[2]
    <3>1. PICK bj, rj : bj = Expanded(env.build, file[j]) /\ rj = Expanded(env.run, file[j])
        OBVIOUS
    <3>2. /\ j \in 1 .. Len(file) /\ ~ Ignored(file[j]) /\ bj # << >> /\ bj[1] = "channel"
        BY <1>1, <2>6, <3>1 DEF LinesIn
    <3>3. PICK cj, aj : /\ cj = ArgsIn(env.build, f, j) /\ aj = Args(j)
                        /\ cj = Tail(bj) /\ aj = Tail(rj)
        BY <1>1, <2>1, <3>1 DEF ArgsIn, Args, Fields
    <3>4. Fields(file[j]) = rj
        BY <2>1, <3>1 DEF Fields
    <3>5. /\ bj \in Seq(Words) /\ rj # << >> /\ bj[1] = rj[1] /\ Len(cj) = Len(aj)
          /\ \A k \in 1 .. Len(cj) : cj[k] = aj[k] \/ (bj[1] = "channel" /\ k > 2)
        BY <3>1, <3>2, <3>3, SameWords
    <3>6. GoodChannel(cj)
        BY <1>2, <2>6, <3>3 DEF WellFormedIn
    <3>7. Len(cj) \in Nat /\ Len(cj) >= 2
      <4>1. cj \in Seq(Words)
          BY <3>2, <3>3, <3>5, HeadTailProperties
      <4> QED
          BY <3>6, <4>1, LenProperties DEF GoodChannel
    <3>8. cj[1] = aj[1] /\ cj[2] = aj[2]
      <4>1. 1 \in 1 .. Len(cj) /\ 2 \in 1 .. Len(cj) /\ ~(1 > 2) /\ ~(2 > 2)
          BY <3>7
      <4> QED
          BY <3>5, <4>1, Zenon
    <3> QED
        BY <3>2, <3>3, <3>4, <3>5, <3>6, <3>8
  <2>7. seen = {Args(j)[1] : j \in Lines("channel", n - 1)}
    <3>1. n # 0 /\ n = at
        BY <1>1
    <3>2. (IF at = 0 THEN 0 ELSE at - 1) = n - 1
        BY <3>1
    <3>3. ReadUpTo(n - 1)
        BY <3>2 DEF ConfInv
    <3> QED
        BY <3>3 DEF ReadUpTo
  <2>8. n \in Nat /\ Len(file) \in Nat /\ n <= Len(file)
      BY <1>1, LenProperties DEF ConfInv
  <2>9. ASSUME NEW j \in Lines("channel", n - 1)
        PROVE  j \in LinesIn(env.build, f, "channel") /\ j < n
    <3>1. /\ j \in 1 .. n - 1 /\ ~ Ignored(file[j]) /\ Fields(file[j]) # << >>
          /\ Fields(file[j])[1] = "channel"
        BY DEF Lines
    <3>2. j \in 1 .. Len(file) /\ j < n
        BY <2>8, <3>1
    <3>3. Fields(file[j]) = Expanded(env.run, file[j])
        BY <2>1 DEF Fields
    <3>4. Expanded(env.build, file[j]) # << >> /\ Expanded(env.build, file[j])[1] = "channel"
        BY <3>1, <3>2, <3>3, SameWords
    <3> QED
        BY <1>1, <3>1, <3>2, <3>4 DEF LinesIn
  <2>10. CASE b = << >>
    <3>1. r = << >>
        BY <2>4, <2>10
    <3> QED
        BY <1>1, <1>3, <1>5, <2>2, <2>3, <3>1 DEF GoodLine
  <2>11. CASE n \in LinesIn(env.build, f, "channel")
    <3>1. /\ r # << >> /\ r[1] = "channel" /\ a = Args(n)
          /\ GoodChannel(ArgsIn(env.build, f, n))
          /\ Len(a) = Len(ArgsIn(env.build, f, n)) /\ a[1] = ArgsIn(env.build, f, n)[1]
          /\ a[2] = ArgsIn(env.build, f, n)[2]
      <4>1. Args(n) = a
          BY <1>1, <2>2, <2>5 DEF Args
      <4> QED
          BY <1>1, <2>2, <2>6, <2>11, <4>1
    <3>2. GoodChannel(a)
        BY <3>1 DEF GoodChannel
    <3>3. a[1] \notin seen
      <4>1. ASSUME a[1] \in seen PROVE FALSE
        <5>1. PICK j \in Lines("channel", n - 1) : a[1] = Args(j)[1]
            BY <2>7, <4>1
        <5>2. j \in LinesIn(env.build, f, "channel") /\ j < n
            BY <2>9
        <5>3. ArgsIn(env.build, f, j)[1] = ArgsIn(env.build, f, n)[1]
            BY <2>6, <3>1, <5>1, <5>2
        <5>4. j = n
            BY <1>2, <2>11, <5>2, <5>3 DEF WellFormedIn
        <5> QED
            BY <2>8, <5>2, <5>4
      <4> QED
          BY <4>1
    <3> QED
        BY <1>1, <1>3, <1>5, <2>2, <2>3, <2>5, <3>1, <3>2, <3>3 DEF GoodLine, Declared
  <2>12. CASE n \in LinesIn(env.build, f, "alert")
    <3>1. b # << >> /\ b[1] = "alert"
        BY <1>1, <2>12 DEF LinesIn
    <3>2. b = r /\ a = ArgsIn(env.build, f, n)
        BY <1>1, <2>4, <2>5, <3>1 DEF ArgsIn
    <3>3. GoodAlert(Spliced(a))
        BY <1>2, <2>12, <3>2 DEF WellFormedIn
    <3>4. PICK j \in LinesIn(env.build, f, "channel") :
             j < n /\ ArgsIn(env.build, f, j)[1] = Last(a)
        BY <1>2, <2>12, <3>2 DEF WellFormedIn
    <3>5. j \in Lines("channel", n - 1) /\ Args(j)[1] = Last(a)
      <4>1. j \in 1 .. n - 1
          BY <2>6, <2>8, <3>4
      <4> QED
          BY <2>6, <3>4, <4>1 DEF Lines
    <3>6. Last(a) \in seen
        BY <2>7, <3>5
    <3> QED
        BY <1>1, <1>3, <1>5, <2>2, <2>3, <2>5, <3>1, <3>2, <3>3, <3>6 DEF GoodLine, Declared
  <2> QED
      BY <1>3, <1>5, <2>10, <2>11, <2>12
<1> QED
    BY <1>4, <1>5

\* Whatever the file and the environments: a file that -validate has accepted is not refused
\* line by line at the start, if the variables it names are set then as well and make a
\* difference to destinations only (ParseEnv, Load).
THEOREM ValidStarts == Spec => ValidatedStarts
<1>1. Init => VerdictInv
    BY DEF Init, ConfInit, VerdictInv
<1>2. ConfInv /\ VerdictInv /\ [Next]_vars => VerdictInv'
  <2> SUFFICES ASSUME ConfInv, VerdictInv, [Next]_vars PROVE VerdictInv'
      OBVIOUS
  <2>1. CASE ConfNext
      BY <2>1, VerdictStep
  <2>2. CASE UNCHANGED confVars
      BY <2>2 DEF confVars, VerdictInv
  <2>3. UNCHANGED vars => UNCHANGED confVars
      BY DEF vars
  <2> QED
      BY <2>1, <2>2, <2>3 DEF Next, Serve
<1>3. ConfInv /\ VerdictInv /\ [Next]_vars =>
        [verdict = "valid" /\ phase = "starting" /\ at > 0 /\ OnlyDestinationsDiffer
            => phase' # "stopped"]_confVars
  <2> SUFFICES ASSUME ConfInv, VerdictInv, [Next]_vars, ~ UNCHANGED confVars,
                      verdict = "valid", phase = "starting", at > 0, OnlyDestinationsDiffer
               PROVE  phase' # "stopped"
      BY Zenon
  <2>1. UNCHANGED vars => UNCHANGED confVars
      BY DEF vars
  <2>2. ConfNext
      BY <2>1 DEF Next, Serve
  <2>3. at # 0
      BY LenProperties DEF ConfInv
  <2>4. ~ OpenFails
      BY <2>3 DEF OpenFails
  <2>5. ~ ScanFails /\ ~ LineFails
    <3>1. ASSUME Scans PROVE file[at] # TooLong /\ GoodLine(file[at])
        BY <3>1, ValidGoesOn DEF Scans
    <3> QED
        BY <3>1 DEF ScanFails, LineFails
  <2>6. Open \/ LineRead \/ Validated \/ Started
      BY <2>2, <2>4, <2>5 DEF ConfNext
  <2> QED
      BY <2>6 DEF Open, LineRead, Validated, Started
<1> QED
    BY <1>1, <1>2, <1>3, Configured, PTL DEF Spec, ValidatedStarts

=============================================================================
