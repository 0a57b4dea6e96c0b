------------------------------ MODULE VFSProofs ------------------------------
(***************************************************************************)
(* Proofs about the virtual filesystem: what the path code computes for      *)
(* names of any length, and from it that answers are true, that the shell    *)
(* stands in a directory, and that streams are reachable by their paths.     *)
(***************************************************************************)
EXTENDS VFS, PathsProofs

-----------------------------------------------------------------------------
(* path.Clean.                                                             *)

\* What Clean does with one component
CleanStep(acc, part) ==
    CASE part \in {<< >>, <<".">>} -> acc
      [] part = <<"..">> -> IF acc = << >> THEN acc ELSE Front(acc)
      [] OTHER -> Append(acc, part)

\* Clean goes through the components in order.
LEMMA CleanUnfolds ==
    ASSUME NEW N \in Nat, NEW parts, DOMAIN parts = 1 .. N,
           \E f : f = [s \in SUBSET (1 .. N) |->
                         IF s = {} THEN << >>
                         ELSE CleanStep(f[s \ {Max(s)}], parts[Max(s)])]
    PROVE  \E f : /\ f = [s \in SUBSET (1 .. N) |->
                            IF s = {} THEN << >>
                            ELSE CleanStep(f[s \ {Max(s)}], parts[Max(s)])]
                  /\ Clean(parts) = f[1 .. N]
<1> DEFINE g == CHOOSE f : f = [s \in SUBSET (1 .. N) |->
                                  IF s = {} THEN << >>
                                  ELSE CleanStep(f[s \ {Max(s)}], parts[Max(s)])]
<1>1. g = [s \in SUBSET (1 .. N) |->
             IF s = {} THEN << >> ELSE CleanStep(g[s \ {Max(s)}], parts[Max(s)])]
    BY Zenon
<1>2. Clean(parts) = g[1 .. N]
    BY Zenon DEF Clean, FoldLeft, MapThenFoldSet, CleanStep
<1> HIDE DEF g
<1> QED
    BY <1>1, <1>2, Zenon

\* A step keeps a path a path.
LEMMA CleanStepType ==
    ASSUME NEW acc \in Seq(Name), NEW part \in Name
    PROVE  CleanStep(acc, part) \in Seq(Name)
<1>1. acc # << >> => Front(acc) \in Seq(Name)
  <2> SUFFICES ASSUME acc # << >> PROVE Front(acc) \in Seq(Name)
      OBVIOUS
  <2>1. PICK n \in Nat : n = Len(acc)
      OBVIOUS
  <2>2. n # 0
      BY <2>1, EmptySeq
  <2> QED
      BY <2>1, <2>2, SubSeqProperties DEF Front
<1>2. Append(acc, part) \in Seq(Name)
    OBVIOUS
<1>3. CASE part \in {<< >>, <<".">>}
    BY <1>3 DEF CleanStep
<1>4. CASE part \notin {<< >>, <<".">>} /\ part = <<"..">>
  <2>1. CleanStep(acc, part) = IF acc = << >> THEN acc ELSE Front(acc)
      BY <1>4, Zenon DEF CleanStep
  <2> QED
      BY <1>1, <2>1
<1>5. CASE part \notin {<< >>, <<".">>} /\ part # <<"..">>
    BY <1>2, <1>5 DEF CleanStep
<1> QED
    BY <1>3, <1>4, <1>5

\* Clean from left to right: h[k] is what the first k components come to.
LEMMA CleanPrefixes ==
    ASSUME NEW parts \in Seq(Name)
    PROVE  \E h : /\ h[0] = << >>
                  /\ \A k \in 1 .. Len(parts) : h[k] = CleanStep(h[k - 1], parts[k])
                  /\ Clean(parts) = h[Len(parts)]
<1> DEFINE F == [x \in Seq(Name) \X Name |-> CleanStep(x[1], x[2])]
<1>0. PICK N \in Nat : N = Len(parts)
    OBVIOUS
<1>1. DOMAIN parts = 1 .. N /\ parts \in [1 .. N -> Name]
    BY <1>0
<1>2. F \in [Seq(Name) \X Name -> Seq(Name)]
  <2>1. \A x \in Seq(Name) \X Name : CleanStep(x[1], x[2]) \in Seq(Name)
      BY CleanStepType
  <2> QED
      BY <2>1
<1>3. << >> \in Seq(Name)
    OBVIOUS
<1>4. \A a \in Seq(Name), v \in Name : F[<<a, v>>] = CleanStep(a, v)
    OBVIOUS
<1> HIDE DEF F
<1>5. PICK g : Folds(g, Seq(Name), << >>, F, N, parts)
    BY <1>1, <1>2, <1>3, FoldExists
<1>6. \A s \in SUBSET (1 .. N) : s # {} => Max(s) \in s
    BY LargestIndex
<1>7. g = [s \in SUBSET (1 .. N) |->
             IF s = {} THEN << >> ELSE CleanStep(g[s \ {Max(s)}], parts[Max(s)])]
  <2>1. ASSUME NEW s \in SUBSET (1 .. N), s # {}
        PROVE  g[s] = CleanStep(g[s \ {Max(s)}], parts[Max(s)])
    <3>1. g[s] = F[<<g[s \ {Max(s)}], parts[Max(s)]>>]
        BY <1>5, <2>1 DEF Folds
    <3>2. parts[Max(s)] \in Name /\ g[s \ {Max(s)}] \in Seq(Name)
      <4>1. Max(s) \in 1 .. N /\ s \ {Max(s)} \in SUBSET (1 .. N)
          BY <1>6, <2>1
      <4> QED
          BY <1>1, <1>5, <4>1 DEF Folds
    <3> QED
        BY <1>4, <3>1, <3>2
  <2>2. g[{}] = << >>
      BY <1>5 DEF Folds
  <2>3. \A s \in SUBSET (1 .. N) :
           g[s] = IF s = {} THEN << >> ELSE CleanStep(g[s \ {Max(s)}], parts[Max(s)])
      BY <2>1, <2>2
  <2>4. g = [s \in SUBSET (1 .. N) |-> g[s]]
      BY <1>5 DEF Folds
  <2> QED
      BY <2>3, <2>4, Zenon
<1>8. PICK f : /\ f = [s \in SUBSET (1 .. N) |->
                         IF s = {} THEN << >>
                         ELSE CleanStep(f[s \ {Max(s)}], parts[Max(s)])]
               /\ Clean(parts) = f[1 .. N]
    BY <1>1, <1>7, CleanUnfolds, Zenon
<1> DEFINE h == [k \in 0 .. N |-> f[1 .. k]]
<1>9. h[0] = << >>
  <2>1. 1 .. 0 = {} /\ {} \in SUBSET (1 .. N)
      OBVIOUS
  <2> QED
      BY <1>8, <2>1
<1>10. ASSUME NEW k \in 1 .. N PROVE h[k] = CleanStep(h[k - 1], parts[k])
  <2>1. /\ 1 .. k \in SUBSET (1 .. N) /\ 1 .. k # {}
        /\ (1 .. k) \ {k} = 1 .. (k - 1) /\ Max(1 .. k) = k
      BY <1>10, PrefixIndices
  <2>2. f[1 .. k] = CleanStep(f[1 .. (k - 1)], parts[k])
      BY <1>8, <2>1
  <2>3. k - 1 \in 0 .. N
      BY <1>10
  <2> QED
      BY <2>2, <2>3
<1>11. Clean(parts) = h[N]
  <2>1. N \in 0 .. N
      OBVIOUS
  <2> QED
      BY <1>8, <2>1
<1> HIDE DEF h
<1> QED
    BY <1>0, <1>9, <1>10, <1>11

\* A cleaned path is a path.
LEMMA CleanType ==
    ASSUME NEW parts \in Seq(Name)
    PROVE  Clean(parts) \in Seq(Name)
<1>0. PICK N \in Nat : N = Len(parts)
    OBVIOUS
<1>1. PICK h : /\ h[0] = << >>
               /\ \A k \in 1 .. N : h[k] = CleanStep(h[k - 1], parts[k])
               /\ Clean(parts) = h[N]
    BY <1>0, CleanPrefixes
<1> DEFINE P == {k \in 0 .. N : h[k] \in Seq(Name)}
<1>2. 0 \in P
  <2>1. h[0] \in Seq(Name) /\ 0 \in 0 .. N
      BY <1>1
  <2> QED
      BY <2>1
<1>3. ASSUME NEW k \in 1 .. N, k - 1 \in P PROVE k \in P
  <2>1. parts[k] \in Name
      BY <1>0
  <2>2. h[k] \in Seq(Name)
      BY <1>1, <1>3, <2>1, CleanStepType
  <2> QED
      BY <2>2
<1>4. N \in P
  <2> HIDE DEF P
  <2>1. \A k \in 0 .. N : k \in P
      BY <1>2, <1>3, UpTo
  <2> QED
      BY <2>1
<1> QED
    BY <1>1, <1>4

\* Cleaning changes nothing of a path without empty components and dots.
LEMMA CleanPlain ==
    ASSUME NEW parts \in Seq(Name),
           \A k \in 1 .. Len(parts) : parts[k] \notin {<< >>, <<".">>, <<"..">>}
    PROVE  Clean(parts) = parts
<1>0. PICK N \in Nat : N = Len(parts)
    OBVIOUS
<1>1. PICK h : /\ h[0] = << >>
               /\ \A k \in 1 .. N : h[k] = CleanStep(h[k - 1], parts[k])
               /\ Clean(parts) = h[N]
    BY <1>0, CleanPrefixes
<1> DEFINE P == {k \in 0 .. N : h[k] = SubSeq(parts, 1, k)}
<1>2. 0 \in P
  <2>1. SubSeq(parts, 1, 0) = << >>
      BY SubSeqEmpty
  <2>2. 0 \in 0 .. N
      OBVIOUS
  <2> QED
      BY <1>1, <2>1, <2>2
<1>3. ASSUME NEW k \in 1 .. N, k - 1 \in P PROVE k \in P
  <2>1. h[k] = CleanStep(SubSeq(parts, 1, k - 1), parts[k])
      BY <1>1, <1>3
  <2>2. CleanStep(SubSeq(parts, 1, k - 1), parts[k])
           = Append(SubSeq(parts, 1, k - 1), parts[k])
      BY <1>0, <1>3 DEF CleanStep
  <2>3. h[k] = SubSeq(parts, 1, k)
      BY <1>0, <2>1, <2>2, PrefixGrows
  <2> QED
      BY <2>3
<1>4. N \in P
  <2> HIDE DEF P
  <2>1. \A k \in 0 .. N : k \in P
      BY <1>2, <1>3, UpTo
  <2> QED
      BY <2>1
<1> QED
    BY <1>0, <1>1, <1>4, SubSeqFull

-----------------------------------------------------------------------------
(* Names and paths.                                                        *)

\* The names of streams are plain.
LEMMA StreamPlain ==
    ASSUME NEW id \in StreamIDs
    PROVE  IsPlain(id, Pieces)
BY StreamsAssumption, PiecesAssumption DEF IsPlain, Name

\* The path of a stream is what it looks like.
LEMMA PathOfStream ==
    ASSUME NEW id \in StreamIDs
    PROVE  PathString(id) = <<id.ns, id.svc, id.kind, FileName(id.name)>>
BY StreamPlain, PlainPath

-----------------------------------------------------------------------------
(* Parsing.                                                                *)

\* ParsePath accepts exactly the absolute paths that keep to the layout.
LEMMA ParseFacts ==
    ASSUME NEW path \in Path
    PROVE  /\ ParsePath(path) \in {"ok", "bad_path", "not_found"}
           /\ ParsePath(path) = "ok" <=> path.absolute /\ Parses(path.parts)
           /\ ParsePath(path) = "not_found" => path.absolute
BY ParsePathFacts DEF Path

\* A stream's path parses, and leads back to the stream.
LEMMA StreamParses ==
    ASSUME NEW id \in StreamIDs
    PROVE  /\ PathString(id) \in Seq(Name) /\ Len(PathString(id)) = 4
           /\ Parses(PathString(id))
           /\ StreamIDOf(PathString(id)) = id
BY StreamPlain, PlainParses DEF Name

-----------------------------------------------------------------------------
(* The layout.                                                             *)

\* Sequences of up to four, element by element.
LEMMA AsTuple ==
    ASSUME NEW S, NEW q \in Seq(S)
    PROVE  /\ Len(q) = 0 => q = << >>
           /\ Len(q) = 1 => q = <<q[1]>> /\ q[1] \in S
           /\ Len(q) = 2 => q = <<q[1], q[2]>> /\ q[1] \in S /\ q[2] \in S
           /\ Len(q) = 3 => q = <<q[1], q[2], q[3]>> /\ q[1] \in S /\ q[2] \in S /\ q[3] \in S
           /\ Len(q) = 4 => q = <<q[1], q[2], q[3], q[4]>>
<1>0. Len(q) = 0 => q = << >>
    BY EmptySeq
<1>1. ASSUME Len(q) = 1 PROVE q = <<q[1]>> /\ q[1] \in S
  <2>1. q \in [1 .. 1 -> S]
      BY <1>1, LenProperties
  <2> QED
      BY <2>1
<1>2. Len(q) = 2 => q = <<q[1], q[2]>> /\ q[1] \in S /\ q[2] \in S
    OBVIOUS
<1>3. ASSUME Len(q) = 3
      PROVE  q = <<q[1], q[2], q[3]>> /\ q[1] \in S /\ q[2] \in S /\ q[3] \in S
  <2>1. q \in [1 .. 3 -> S]
      BY <1>3, LenProperties
  <2> QED
      BY <2>1
<1>4. Len(q) = 4 => q = <<q[1], q[2], q[3], q[4]>>
    OBVIOUS
<1> QED
    BY <1>0, <1>1, <1>2, <1>3, <1>4

\* Their prefixes.
LEMMA FirstOfFour ==
    ASSUME NEW S, NEW a \in S, NEW b \in S, NEW c \in S, NEW d \in S
    PROVE  /\ SubSeq(<<a, b, c, d>>, 1, 1) = <<a>>
           /\ SubSeq(<<a, b, c, d>>, 1, 2) = <<a, b>>
           /\ SubSeq(<<a, b, c, d>>, 1, 3) = <<a, b, c>>
           /\ SubSeq(<<a, b, c, d>>, 1, 4) = <<a, b, c, d>>
<1>0. PICK q : q = <<a, b, c, d>>
    OBVIOUS
<1>1. q \in Seq(S) /\ Len(q) = 4 /\ q[1] = a /\ q[2] = b /\ q[3] = c /\ q[4] = d
    BY <1>0
<1>2. \A k \in 1 .. 4 : SubSeq(q, 1, k) = Append(SubSeq(q, 1, k - 1), q[k])
    BY <1>1, PrefixGrows
<1>3. SubSeq(q, 1, 0) = << >>
    BY SubSeqEmpty
<1>4. SubSeq(q, 1, 1) = Append(SubSeq(q, 1, 0), a)
    BY <1>1, <1>2
<1>5. SubSeq(q, 1, 2) = Append(SubSeq(q, 1, 1), b)
    BY <1>1, <1>2
<1>6. SubSeq(q, 1, 3) = Append(SubSeq(q, 1, 2), c)
    BY <1>1, <1>2
<1>7. SubSeq(q, 1, 4) = q
    BY <1>1, SubSeqFull
<1>8. <<a>> = Append(<< >>, a) /\ <<a, b>> = Append(<<a>>, b)
    OBVIOUS
<1>9. <<a, b, c>> = Append(<<a, b>>, c)
    OBVIOUS
<1> QED
    BY <1>0, <1>3, <1>4, <1>5, <1>6, <1>7, <1>8, <1>9, Zenon

\* Front and Last of them.
LEMMA FrontLast ==
    /\ \A a \in Name : Front(<<a>>) = << >> /\ Last(<<a>>) = a
    /\ \A a \in Name, b \in Name : Front(<<a, b>>) = <<a>> /\ Last(<<a, b>>) = b
    /\ \A a \in Name, b \in Name, c \in Name :
          Front(<<a, b, c>>) = <<a, b>> /\ Last(<<a, b, c>>) = c
    /\ \A a \in Name, b \in Name, c \in Name, d \in Name :
          Front(<<a, b, c, d>>) = <<a, b, c>> /\ Last(<<a, b, c, d>>) = d
<1>1. \A q \in Seq(Name), x \in Name : Front(Append(q, x)) = q /\ Last(Append(q, x)) = x
    BY AppendFrontLast
<1>2. ASSUME NEW a \in Name PROVE Front(<<a>>) = << >> /\ Last(<<a>>) = a
  <2>1. <<a>> = Append(<< >>, a) /\ << >> \in Seq(Name)
      OBVIOUS
  <2> QED
      BY <1>1, <2>1
<1>3. ASSUME NEW a \in Name, NEW b \in Name
      PROVE  Front(<<a, b>>) = <<a>> /\ Last(<<a, b>>) = b
  <2>1. <<a, b>> = Append(<<a>>, b) /\ <<a>> \in Seq(Name)
      OBVIOUS
  <2> QED
      BY <1>1, <2>1
<1>4. ASSUME NEW a \in Name, NEW b \in Name, NEW c \in Name
      PROVE  Front(<<a, b, c>>) = <<a, b>> /\ Last(<<a, b, c>>) = c
  <2>1. <<a, b, c>> = Append(<<a, b>>, c) /\ <<a, b>> \in Seq(Name)
      OBVIOUS
  <2> QED
      BY <1>1, <2>1
<1>5. ASSUME NEW a \in Name, NEW b \in Name, NEW c \in Name, NEW d \in Name
      PROVE  Front(<<a, b, c, d>>) = <<a, b, c>> /\ Last(<<a, b, c, d>>) = d
  <2>1. <<a, b, c, d>> = Append(<<a, b, c>>, d) /\ <<a, b, c>> \in Seq(Name)
      OBVIOUS
  <2> QED
      BY <1>1, <2>1
<1> QED
    BY <1>2, <1>3, <1>4, <1>5, Zenon

\* The streams that may be asked for, and their paths as tuples of names.
LEMMA StreamFields ==
    ASSUME NEW id \in StreamIDs
    PROVE  /\ id.ns \in Name /\ id.svc \in Name /\ id.kind \in Name /\ id.name \in Name
           /\ id.kind \in KindDirs /\ FileName(id.name) \in Name
           /\ id = [ns |-> id.ns, svc |-> id.svc, kind |-> id.kind, name |-> id.name]
<1>1. /\ id.ns \in Name /\ id.svc \in Name /\ id.kind \in KindDirs /\ id.name \in Name
      /\ id.name # << >> /\ Slash \notin ToSet(id.name)
      /\ id = [ns |-> id.ns, svc |-> id.svc, kind |-> id.kind, name |-> id.name]
    BY StreamsAssumption
<1>2. id.kind \in Name
    BY <1>1, PiecesAssumption DEF Name
<1>3. FileName(id.name) \in Name
    BY <1>1, FileNamePlain, PiecesAssumption DEF Name
<1> QED
    BY <1>1, <1>2, <1>3

\* What is in the tree of one stream.
InTreeOf(id, q) ==
    \/ q = <<id.ns>>
    \/ q = <<id.ns, id.svc>>
    \/ \E kind \in KindDirs : q = <<id.ns, id.svc, kind>>
    \/ q = <<id.ns, id.svc, id.kind, FileName(id.name)>>

\* The tree is the root and the trees of the streams.
LEMMA TreeMembers ==
    ASSUME NEW S \in SUBSET StreamIDs, NEW q
    PROVE  q \in Tree(S) <=> q = << >> \/ \E id \in S : InTreeOf(id, q)
<1> DEFINE Of(id) == {SubSeq(PathString(id), 1, n) : n \in 1 .. 4} \cup
                        {<<id.ns, id.svc, kind>> : kind \in KindDirs}
<1>1. q \in Tree(S) <=> q = << >> \/ \E id \in S : q \in Of(id)
  <2>1. Tree(S) = {<< >>} \cup UNION {Of(id) : id \in S}
      BY Zenon DEF Tree
  <2> HIDE DEF Of
  <2>2. q \in UNION {Of(id) : id \in S} <=> \E id \in S : q \in Of(id)
      BY SMT
  <2> QED
      BY <2>1, <2>2
<1>2. ASSUME NEW id \in S PROVE q \in Of(id) <=> InTreeOf(id, q)
  <2>0. id \in StreamIDs
      OBVIOUS
  <2>1. /\ id.ns \in Name /\ id.svc \in Name /\ id.kind \in Name
        /\ FileName(id.name) \in Name /\ id.kind \in KindDirs
      BY <2>0, StreamFields
  <2>2. PICK file \in Name : file = FileName(id.name)
      BY <2>1
  <2>3. PathString(id) = <<id.ns, id.svc, id.kind, file>>
      BY <2>0, <2>2, PathOfStream
  <2>4. /\ SubSeq(PathString(id), 1, 1) = <<id.ns>>
        /\ SubSeq(PathString(id), 1, 2) = <<id.ns, id.svc>>
        /\ SubSeq(PathString(id), 1, 3) = <<id.ns, id.svc, id.kind>>
        /\ SubSeq(PathString(id), 1, 4) = <<id.ns, id.svc, id.kind, file>>
      BY <2>1, <2>2, <2>3, FirstOfFour
  <2>5. \A n : n \in 1 .. 4 <=> n = 1 \/ n = 2 \/ n = 3 \/ n = 4
      OBVIOUS
  <2>6. q \in {SubSeq(PathString(id), 1, n) : n \in 1 .. 4} <=>
           \/ q = <<id.ns>>
           \/ q = <<id.ns, id.svc>>
           \/ q = <<id.ns, id.svc, id.kind>>
           \/ q = <<id.ns, id.svc, id.kind, file>>
    <3>1. q \in {SubSeq(PathString(id), 1, n) : n \in 1 .. 4} <=>
             \/ q = SubSeq(PathString(id), 1, 1)
             \/ q = SubSeq(PathString(id), 1, 2)
             \/ q = SubSeq(PathString(id), 1, 3)
             \/ q = SubSeq(PathString(id), 1, 4)
        BY <2>5, Zenon
    <3> QED
        BY <2>4, <3>1, Zenon
  <2>7. q \in {<<id.ns, id.svc, kind>> : kind \in KindDirs} <=>
           \E kind \in KindDirs : q = <<id.ns, id.svc, kind>>
      OBVIOUS
  <2> QED
      BY <2>1, <2>2, <2>6, <2>7, Zenon DEF InTreeOf
<1> QED
    BY <1>1, <1>2, Zenon

\* Whatever is in the tree parses.
LEMMA TreeParses ==
    ASSUME NEW S \in SUBSET StreamIDs, NEW q \in Tree(S)
    PROVE  q \in Seq(Name) /\ Parses(q)
<1>1. CASE q = << >>
    BY <1>1 DEF Parses
<1>2. ASSUME NEW id \in S, InTreeOf(id, q) PROVE q \in Seq(Name) /\ Parses(q)
  <2>1. /\ id.ns \in Name /\ id.svc \in Name
        /\ id.ns # << >> /\ id.svc # << >>
      BY StreamsAssumption
  <2>2. ASSUME NEW kind \in KindDirs PROVE kind \in Name /\ kind # << >>
    <3>1. kind # << >>
        BY DEF KindDirs
    <3> QED
        BY <3>1, PiecesAssumption DEF Name
  <2>3. CASE q = <<id.ns>>
      BY <2>1, <2>3 DEF Parses
  <2>4. CASE q = <<id.ns, id.svc>>
      BY <2>1, <2>4 DEF Parses
  <2>5. ASSUME NEW kind \in KindDirs, q = <<id.ns, id.svc, kind>>
        PROVE  q \in Seq(Name) /\ Parses(q)
      BY <2>1, <2>2, <2>5 DEF Parses
  <2>6. CASE q = <<id.ns, id.svc, id.kind, FileName(id.name)>>
      BY <2>6, StreamParses, PathOfStream
  <2> QED
      BY <1>2, <2>3, <2>4, <2>5, <2>6 DEF InTreeOf
<1> QED
    BY <1>1, <1>2, TreeMembers

\* What a path that parses says about the streams, by its depth.
LEMMA TreeByDepth ==
    ASSUME NEW S \in SUBSET StreamIDs, NEW q \in Seq(Name), Parses(q)
    PROVE  /\ Len(q) = 1 => (q \in Tree(S) <=> \E id \in S : id.ns = q[1])
           /\ Len(q) \in {2, 3} =>
                (q \in Tree(S) <=> \E id \in S : id.ns = q[1] /\ id.svc = q[2])
           /\ Len(q) = 4 => (q \in Tree(S) <=> StreamIDOf(q) \in S)
<1>0. q \in Tree(S) <=> q = << >> \/ \E id \in S : InTreeOf(id, q)
    BY TreeMembers
<1>1. ASSUME Len(q) = 1 PROVE q \in Tree(S) <=> \E id \in S : id.ns = q[1]
  <2>1. q = <<q[1]>>
      BY <1>1, AsTuple
  <2>2. \A id \in S : InTreeOf(id, q) <=> id.ns = q[1]
      BY <1>1, <2>1 DEF InTreeOf
  <2>3. q # << >>
      BY SMTT(30), <1>1, EmptySeq
  <2> QED
      BY <1>0, <2>2, <2>3, Zenon
<1>2. ASSUME Len(q) = 2
      PROVE  q \in Tree(S) <=> \E id \in S : id.ns = q[1] /\ id.svc = q[2]
  <2>1. q = <<q[1], q[2]>>
      BY <1>2, AsTuple
  <2>2. \A id \in S : InTreeOf(id, q) <=> id.ns = q[1] /\ id.svc = q[2]
      BY <1>2, <2>1 DEF InTreeOf
  <2>3. q # << >>
      BY <1>2, EmptySeq
  <2> QED
      BY <1>0, <2>2, <2>3, Zenon
<1>3. ASSUME Len(q) = 3
      PROVE  q \in Tree(S) <=> \E id \in S : id.ns = q[1] /\ id.svc = q[2]
  <2>1. q = <<q[1], q[2], q[3]>>
      BY <1>3, AsTuple
  <2>2. q[3] \in KindDirs
      BY <1>3 DEF Parses
  <2>3. \A id \in S : InTreeOf(id, q) <=> id.ns = q[1] /\ id.svc = q[2]
      BY <1>3, <2>1, <2>2 DEF InTreeOf
  <2>4. q # << >>
      BY <1>3, EmptySeq
  <2> QED
      BY <1>0, <2>3, <2>4, Zenon
<1>4. ASSUME Len(q) = 4 PROVE q \in Tree(S) <=> StreamIDOf(q) \in S
  <2>1. q # << >> /\ q = <<q[1], q[2], q[3], q[4]>>
      BY <1>4, AsTuple, EmptySeq
  <2>2. \A id \in S : InTreeOf(id, q) =>
                         q = <<id.ns, id.svc, id.kind, FileName(id.name)>>
    <3>1. \A a, b, c : Len(<<a>>) # 4 /\ Len(<<a, b>>) # 4 /\ Len(<<a, b, c>>) # 4
        OBVIOUS
    <3> QED
        BY <1>4, <3>1, Zenon DEF InTreeOf
  <2>3. \A id \in S : InTreeOf(id, q) => StreamIDOf(q) = id
      BY <2>2, PathOfStream, StreamParses
  <2>4. ASSUME StreamIDOf(q) \in S PROVE InTreeOf(StreamIDOf(q), q)
    <3>1. PICK file \in Name : file = q[4]
        BY <1>4
    <3>2. IsFile(file)
        BY <1>4, <3>1 DEF Parses
    <3>3. file # << >> /\ Last(file) = DatSuffix
        BY <3>2 DEF IsFile
    <3>4. FileName(Front(file)) = file
      <4>0. file \in Seq(Pieces)
          BY DEF Name
      <4>1. PICK n \in Nat : n = Len(file)
          BY <4>0
      <4>2. n >= 1
          BY <3>3, <4>0, <4>1, EmptySeq
      <4>3. Append(SubSeq(file, 1, n - 1), file[n]) = SubSeq(file, 1, n)
          BY <4>0, <4>1, <4>2, PrefixGrows
      <4>4. SubSeq(file, 1, n) = file
          BY <4>0, <4>1, SubSeqFull
      <4> QED
          BY <3>3, <4>1, <4>3, <4>4 DEF FileName, Front, Last
    <3>5. /\ StreamIDOf(q).ns = q[1] /\ StreamIDOf(q).svc = q[2]
          /\ StreamIDOf(q).kind = q[3] /\ StreamIDOf(q).name = Front(file)
        BY <3>1 DEF StreamIDOf
    <3> QED
        BY <2>1, <3>1, <3>4, <3>5, Zenon DEF InTreeOf
  <2> QED
      BY <1>0, <2>1, <2>3, <2>4, Zenon
<1> QED
    BY <1>1, <1>2, <1>3, <1>4

\* What a stream puts into the directories on its path.
ChildOf(id, parts, x) ==
    \/ parts = << >> /\ x = id.ns
    \/ parts = <<id.ns>> /\ x = id.svc
    \/ parts = <<id.ns, id.svc>> /\ x \in KindDirs
    \/ parts = <<id.ns, id.svc, id.kind>> /\ x = FileName(id.name)

\* Tuples of different lengths differ.
LEMMA TupleLengths ==
    /\ Len(<< >>) = 0
    /\ \A a : Len(<<a>>) = 1 /\ <<a>> # << >>
    /\ \A a, b : Len(<<a, b>>) = 2 /\ <<a, b>> # << >>
    /\ \A a, b, c : Len(<<a, b, c>>) = 3 /\ <<a, b, c>> # << >>
    /\ \A a, b, c, d : Len(<<a, b, c, d>>) = 4 /\ <<a, b, c, d>> # << >>
    /\ 0 # 1 /\ 0 # 2 /\ 0 # 3 /\ 1 # 2 /\ 1 # 3 /\ 2 # 3
<1>1. /\ Len(<< >>) = 0
      /\ \A a : Len(<<a>>) = 1
      /\ \A a, b : Len(<<a, b>>) = 2
      /\ \A a, b, c : Len(<<a, b, c>>) = 3
      /\ \A a, b, c, d : Len(<<a, b, c, d>>) = 4
    OBVIOUS
<1>2. 0 # 1 /\ 0 # 2 /\ 0 # 3 /\ 0 # 4 /\ 1 # 2 /\ 1 # 3 /\ 2 # 3
    OBVIOUS
<1> QED
    BY <1>1, <1>2, Zenon

\* Equal tuples have equal elements.
LEMMA TuplesEqual ==
    /\ \A a, x : <<a>> = <<x>> <=> a = x
    /\ \A a, b, x, y : <<a, b>> = <<x, y>> <=> a = x /\ b = y
    /\ \A a, b, c, x, y, z : <<a, b, c>> = <<x, y, z>> <=> a = x /\ b = y /\ c = z
OBVIOUS

\* The children of a directory are what the streams put into it.
LEMMA ChildMembers ==
    ASSUME NEW S \in SUBSET StreamIDs, NEW parts, NEW x
    PROVE  x \in Children(S, parts) <=> \E id \in S : ChildOf(id, parts, x)
<1> DEFINE Child(q) == q # << >> /\ Front(q) = parts /\ Last(q) = x
<1>1. x \in Children(S, parts) <=> \E q \in Tree(S) : Child(q)
    BY Zenon DEF Children
<1>2. ASSUME NEW id \in S
      PROVE  (\E q : InTreeOf(id, q) /\ Child(q)) <=> ChildOf(id, parts, x)
  <2>1. PICK a, b, c, d : a = id.ns /\ b = id.svc /\ c = id.kind /\ d = FileName(id.name)
      OBVIOUS
  <2>2. a \in Name /\ b \in Name /\ c \in Name /\ d \in Name /\ c \in KindDirs
      BY <2>1, StreamFields
  <2>3. \A kind \in KindDirs : kind \in Name
      BY PiecesAssumption DEF Name
  <2> HIDE DEF Child
  <2>4. Child(<<a>>) <=> parts = << >> /\ x = a
    <3>1. Front(<<a>>) = << >> /\ Last(<<a>>) = a
        BY <2>2, FrontLast, Zenon
    <3> QED
        BY <3>1, TupleLengths, Zenon DEF Child
  <2>5. Child(<<a, b>>) <=> parts = <<a>> /\ x = b
    <3>1. Front(<<a, b>>) = <<a>> /\ Last(<<a, b>>) = b
        BY <2>2, FrontLast, Zenon
    <3> QED
        BY <3>1, TupleLengths, Zenon DEF Child
  <2>6. \A kind \in KindDirs : Child(<<a, b, kind>>) <=> parts = <<a, b>> /\ x = kind
    <3> TAKE kind \in KindDirs
    <3>0. kind \in Name
        BY <2>3
    <3>1. Front(<<a, b, kind>>) = <<a, b>> /\ Last(<<a, b, kind>>) = kind
        BY <2>2, <3>0, FrontLast
    <3> QED
        BY <3>1, TupleLengths, Zenon DEF Child
  <2>7. Child(<<a, b, c, d>>) <=> parts = <<a, b, c>> /\ x = d
    <3>1. Front(<<a, b, c, d>>) = <<a, b, c>> /\ Last(<<a, b, c, d>>) = d
        BY <2>2, FrontLast
    <3> QED
        BY <3>1, TupleLengths, Zenon DEF Child
  <2>8. \A q : InTreeOf(id, q) <=>
                 \/ q = <<a>> \/ q = <<a, b>>
                 \/ \E kind \in KindDirs : q = <<a, b, kind>>
                 \/ q = <<a, b, c, d>>
      BY <2>1, Zenon DEF InTreeOf
  <2>9. (\E q : InTreeOf(id, q) /\ Child(q)) <=>
           \/ Child(<<a>>) \/ Child(<<a, b>>)
           \/ \E kind \in KindDirs : Child(<<a, b, kind>>)
           \/ Child(<<a, b, c, d>>)
      BY <2>8, Zenon
  <2>10. ChildOf(id, parts, x) <=>
           \/ parts = << >> /\ x = a
           \/ parts = <<a>> /\ x = b
           \/ parts = <<a, b>> /\ x \in KindDirs
           \/ parts = <<a, b, c>> /\ x = d
      BY <2>1, Zenon DEF ChildOf
  <2> QED
      BY <2>4, <2>5, <2>6, <2>7, <2>9, <2>10, Zenon
<1>3. ~ Child(<< >>)
    OBVIOUS
<1> HIDE DEF Child
<1> QED
  <2>1. (\E q \in Tree(S) : Child(q)) <=> \E id \in S : \E q : InTreeOf(id, q) /\ Child(q)
      BY <1>3, TreeMembers, Zenon
  <2> QED
      BY <1>1, <1>2, <2>1, Zenon

\* The children of the directories, by depth.
LEMMA ChildrenByDepth ==
    ASSUME NEW S \in SUBSET StreamIDs, NEW parts \in Seq(Name)
    PROVE  /\ Len(parts) = 0 => Children(S, parts) = {id.ns : id \in S}
           /\ Len(parts) = 1 =>
                Children(S, parts) = {id.svc : id \in {i \in S : i.ns = parts[1]}}
           /\ Len(parts) = 2 /\ (\E id \in S : id.ns = parts[1] /\ id.svc = parts[2]) =>
                Children(S, parts) = KindDirs
           /\ Len(parts) = 3 =>
                Children(S, parts) =
                  {FileName(id.name) : id \in
                     {i \in S : i.ns = parts[1] /\ i.svc = parts[2] /\ i.kind = parts[3]}}
<1>0. \A x : x \in Children(S, parts) <=> \E id \in S : ChildOf(id, parts, x)
    BY ChildMembers
<1>1. ASSUME Len(parts) = 0 PROVE Children(S, parts) = {id.ns : id \in S}
  <2>1. parts = << >>
      BY <1>1, EmptySeq
  <2>2. \A id \in S : \A x : ChildOf(id, parts, x) <=> x = id.ns
      BY <2>1 DEF ChildOf
  <2> QED
      BY <1>0, <2>2, Zenon
<1>2. ASSUME Len(parts) = 1
      PROVE  Children(S, parts) = {id.svc : id \in {i \in S : i.ns = parts[1]}}
  <2>1. PICK a : parts = <<a>>
      BY <1>2, AsTuple
  <2>elements. parts[1] = a
      BY <2>1
  <2>2. \A id \in S : \A x : ChildOf(id, parts, x) <=> id.ns = parts[1] /\ x = id.svc
    <3> TAKE id \in S
    <3> TAKE x
    <3>1. parts # << >> /\ parts # <<id.ns, id.svc>> /\ parts # <<id.ns, id.svc, id.kind>>
      <4>1. Len(<< >>) # 1 /\ Len(<<id.ns, id.svc>>) # 1
            /\ Len(<<id.ns, id.svc, id.kind>>) # 1
          BY TupleLengths
      <4> QED
          BY <1>2, <4>1, Zenon
    <3>2. parts = <<id.ns>> <=> id.ns = a
        BY <2>1, TuplesEqual
    <3> QED
        BY <2>elements, <3>1, <3>2, Zenon DEF ChildOf
  <2> QED
      BY <1>0, <2>2, Zenon
<1>3. ASSUME Len(parts) = 2, NEW stream \in S,
             stream.ns = parts[1] /\ stream.svc = parts[2]
      PROVE  Children(S, parts) = KindDirs
  <2>1. PICK a, b : parts = <<a, b>>
      BY <1>3, AsTuple
  <2>elements. parts[1] = a /\ parts[2] = b
      BY <2>1
  <2>2. \A id \in S : \A x : ChildOf(id, parts, x) <=>
                           id.ns = parts[1] /\ id.svc = parts[2] /\ x \in KindDirs
    <3> TAKE id \in S
    <3> TAKE x
    <3>1. parts # << >> /\ parts # <<id.ns>> /\ parts # <<id.ns, id.svc, id.kind>>
      <4>1. Len(<< >>) # 2 /\ Len(<<id.ns>>) # 2
            /\ Len(<<id.ns, id.svc, id.kind>>) # 2
          BY TupleLengths
      <4> QED
          BY <1>3, <4>1, Zenon
    <3>2. parts = <<id.ns, id.svc>> <=> id.ns = a /\ id.svc = b
        BY <2>1, TuplesEqual
    <3> QED
        BY <2>elements, <3>1, <3>2, Zenon DEF ChildOf
  <2> QED
      BY <1>0, <1>3, <2>2, Zenon
<1>4. ASSUME Len(parts) = 3
      PROVE  Children(S, parts) =
               {FileName(id.name) : id \in
                  {i \in S : i.ns = parts[1] /\ i.svc = parts[2] /\ i.kind = parts[3]}}
  <2>1. PICK a, b, c : parts = <<a, b, c>>
      BY <1>4, AsTuple
  <2>elements. parts[1] = a /\ parts[2] = b /\ parts[3] = c
      BY <2>1
  <2>2. \A id \in S : \A x : ChildOf(id, parts, x) <=>
                           /\ id.ns = parts[1] /\ id.svc = parts[2] /\ id.kind = parts[3]
                           /\ x = FileName(id.name)
    <3> TAKE id \in S
    <3> TAKE x
    <3>1. parts # << >> /\ parts # <<id.ns>> /\ parts # <<id.ns, id.svc>>
      <4>1. Len(<< >>) # 3 /\ Len(<<id.ns>>) # 3
            /\ Len(<<id.ns, id.svc>>) # 3
          BY TupleLengths
      <4> QED
          BY <1>4, <4>1, Zenon
    <3>2. parts = <<id.ns, id.svc, id.kind>> <=>
             id.ns = a /\ id.svc = b /\ id.kind = c
        BY <2>1, TuplesEqual
    <3> QED
        BY <2>elements, <3>1, <3>2, Zenon DEF ChildOf
  <2> QED
      BY <1>0, <2>2, Zenon
<1> QED
    BY <1>1, <1>2, <1>3, <1>4

-----------------------------------------------------------------------------
(* The invariant.                                                          *)

\* What a call in progress has seen of the store, and what it owes the check: a
\* directory that was found has a depth of 1 to 3, and a service was there when the
\* call looked.
Calling ==
    call # NoCall =>
      /\ stored \in seen
      /\ answer = NoAnswer
      /\ call.checked =>
           /\ InLs /\ Depth(Parts) \in 1 .. 3
           /\ Depth(Parts) = 2 =>
                \E S \in seen : \E id \in S : id.ns = Parts[1] /\ id.svc = Parts[2]

\* What AnswersTrue says of an answer and a set of streams
TrueFor(a, S) ==
    CASE a.kind = "entries" -> a.entries = Children(S, a.path.parts)
      [] a.kind = "not_found" -> a.path.parts \notin Tree(S)
      [] a.kind \in {"not_dir", "samples"} ->
           a.path.parts \in Tree(S) /\ Len(a.path.parts) = 4
      [] a.kind = "is_dir" -> Len(a.path.parts) < 4
      [] a.kind = "bad_path" -> a.path.parts \notin Tree(S) \/ ~ a.path.absolute
      [] OTHER -> TRUE

Truthful == answer.kind # "none" => \E S \in seen : TrueFor(answer, S)

IInv == TypeOK /\ Calling /\ Truthful /\ CwdIsDirectory

\* The invariant is what AnswersTrue says.
LEMMA Answering == AnswersTrue <=> TypeOK /\ Truthful
BY Zenon DEF AnswersTrue, Truthful, TrueFor

LEMMA InvInit == Init => IInv
<1> SUFFICES ASSUME Init PROVE IInv
    OBVIOUS
<1>1. TypeOK
    BY RequestsAssumption DEF Init, TypeOK
<1>2. Calling /\ Truthful
    BY DEF Init, Calling, Truthful, NoAnswer
<1>3. CwdIsDirectory
    BY DEF Init, CwdIsDirectory
<1> QED
    BY <1>1, <1>2, <1>3 DEF IInv

\* A call in progress.
LEMMA InCall ==
    ASSUME IInv, call.op \in {"cd", "ls", "cat"} \/ call # NoCall
    PROVE  /\ call # NoCall /\ call \in Call
           /\ call.path \in Path /\ Parts \in Seq(Name)
           /\ call.op \in {"cd", "ls", "cat"} /\ call.checked \in BOOLEAN
           /\ stored \in seen /\ stored \in SUBSET StreamIDs
           /\ seen \subseteq SUBSET StreamIDs
<1>1. call # NoCall
    BY DEF NoCall
<1>2. call \in Call
    BY <1>1 DEF IInv, TypeOK
<1>3. call.path \in Path /\ call.op \in {"cd", "ls", "cat"} /\ call.checked \in BOOLEAN
    BY <1>2 DEF Call
<1>4. Parts \in Seq(Name)
    BY <1>3 DEF Path, Parts
<1> QED
    BY <1>1, <1>2, <1>3, <1>4 DEF IInv, TypeOK, Calling

\* A call may return what was true of some set it has seen.
LEMMA Returning ==
    ASSUME IInv, call # NoCall,
           NEW kind \in {"entries", "samples", "bad_path", "not_found", "not_dir", "is_dir",
                         "internal"},
           NEW entries \in SUBSET Name,
           Return(kind, entries),
           call.op = "cd" /\ kind = "entries" => Parses(Parts) /\ Len(Parts) < 4,
           NEW S \in seen,
           TrueFor([kind |-> kind, entries |-> entries, path |-> call.path], S)
    PROVE  IInv'
<1>0. /\ call.path \in Path /\ Parts \in Seq(Name)
    BY InCall
<1>1. /\ answer' = [kind |-> kind, entries |-> entries, path |-> call.path]
      /\ call' = NoCall
      /\ cwd' = IF call.op = "cd" /\ kind = "entries" THEN Parts ELSE cwd
      /\ stored' = stored /\ changes' = changes /\ seen' = seen
    BY DEF Return, Parts
<1>2. answer' \in Answer
    BY <1>0, <1>1 DEF Answer
<1>3. cwd' \in Seq(Name)
    BY <1>0, <1>1 DEF IInv, TypeOK
<1>4. TypeOK'
    BY <1>1, <1>2, <1>3 DEF IInv, TypeOK
<1>5. Calling'
    BY <1>1 DEF Calling
<1>6. Truthful'
    BY <1>1, Zenon DEF Truthful
<1>7. CwdIsDirectory'
  <2>1. CASE cwd' = cwd
      BY <2>1 DEF IInv, CwdIsDirectory
  <2>2. CASE call.op = "cd" /\ kind = "entries"
      BY <1>0, <1>1, <2>2 DEF CwdIsDirectory, Parses
  <2> QED
      BY <1>1, <2>1, <2>2
<1> QED
    BY <1>4, <1>5, <1>6, <1>7 DEF IInv

\* What an answer has to satisfy, by its kind.
LEMMA TrueByKind ==
    ASSUME NEW entries, NEW path, NEW S
    PROVE  /\ entries = Children(S, path.parts) =>
                TrueFor([kind |-> "entries", entries |-> entries, path |-> path], S)
           /\ path.parts \notin Tree(S) =>
                TrueFor([kind |-> "not_found", entries |-> entries, path |-> path], S)
           /\ path.parts \in Tree(S) /\ Len(path.parts) = 4 =>
                /\ TrueFor([kind |-> "not_dir", entries |-> entries, path |-> path], S)
                /\ TrueFor([kind |-> "samples", entries |-> entries, path |-> path], S)
           /\ Len(path.parts) < 4 =>
                TrueFor([kind |-> "is_dir", entries |-> entries, path |-> path], S)
           /\ path.parts \notin Tree(S) \/ ~ path.absolute =>
                TrueFor([kind |-> "bad_path", entries |-> entries, path |-> path], S)
           /\ TrueFor([kind |-> "internal", entries |-> entries, path |-> path], S)
BY DEF TrueFor

LEMMA StoreStep == IInv /\ StoreChanges => IInv'
<1> SUFFICES ASSUME IInv, StoreChanges PROVE IInv'
    OBVIOUS
<1>1. /\ changes < MaxChanges /\ changes' = changes + 1
      /\ cwd' = cwd /\ call' = call /\ answer' = answer
      /\ seen' = IF call = NoCall THEN seen ELSE seen \cup {stored'}
    BY DEF StoreChanges
<1>2. stored' \subseteq StreamIDs
    BY DEF StoreChanges, IInv, TypeOK
<1>3. TypeOK'
    BY <1>1, <1>2, RequestsAssumption DEF IInv, TypeOK
<1>4. Calling'
    BY <1>1 DEF IInv, Calling, InLs, Parts
<1>5. Truthful'
    BY <1>1 DEF IInv, Truthful, Calling, NoAnswer
<1>6. CwdIsDirectory'
    BY <1>1 DEF IInv, CwdIsDirectory
<1> QED
    BY <1>3, <1>4, <1>5, <1>6 DEF IInv

LEMMA BeginStep ==
    ASSUME IInv, NEW op \in {"cd", "ls", "cat"}, NEW path \in Path, Begin(op, path)
    PROVE  IInv'
<1>1. /\ call' = [op |-> op, path |-> path, checked |-> FALSE]
      /\ answer' = NoAnswer /\ seen' = {stored}
      /\ stored' = stored /\ changes' = changes /\ cwd' = cwd
    BY DEF Begin
<1>2. call' \in Call
    BY <1>1 DEF Call
<1>3. TypeOK'
    BY <1>1, <1>2 DEF IInv, TypeOK
<1>4. Calling'
  <2>1. call'.checked = FALSE
      BY <1>1
  <2> QED
      BY <1>1, <2>1 DEF Calling
<1>5. Truthful'
    BY <1>1 DEF Truthful, NoAnswer
<1>6. CwdIsDirectory'
    BY <1>1 DEF IInv, CwdIsDirectory
<1> QED
    BY <1>3, <1>4, <1>5, <1>6 DEF IInv

\* The shell's paths are paths.
LEMMA ResolveType ==
    ASSUME IInv, NEW path \in Path
    PROVE  resolve(path) \in Path
<1>1. path.parts \in Seq(Name) /\ cwd \in Seq(Name)
    BY DEF IInv, TypeOK, Path
<1>2. cwd \o path.parts \in Seq(Name)
    BY <1>1, ConcatProperties
<1>3. PICK parts \in Seq(Name) : parts = IF path.absolute THEN path.parts ELSE cwd \o path.parts
    BY <1>1, <1>2
<1>4. Clean(parts) \in Seq(Name)
    BY CleanType
<1>5. resolve(path) = [absolute |-> TRUE, parts |-> Clean(parts)]
    BY <1>3 DEF resolve
<1> QED
    BY <1>4, <1>5 DEF Path

LEMMA BadPathStep == IInv /\ BadPath => IInv'
<1> SUFFICES ASSUME IInv, BadPath PROVE IInv'
    OBVIOUS
<1>1. /\ call # NoCall /\ ParsePath(call.path) # "ok"
      /\ Return(ParsePath(call.path), {})
    BY DEF BadPath, Fails
<1>2. /\ call.path \in Path /\ stored \in seen /\ stored \in SUBSET StreamIDs
      /\ call.path.parts \in Seq(Name)
    BY <1>1, InCall DEF Parts
<1>3. PICK kind : kind = ParsePath(call.path)
    OBVIOUS
<1>4. kind \in {"bad_path", "not_found"}
    BY <1>1, <1>2, <1>3, ParseFacts
<1>5. kind = "not_found" => call.path.absolute
    BY <1>2, <1>3, ParseFacts
<1>6. call.path.absolute => ~ Parses(call.path.parts)
    BY <1>1, <1>2, ParseFacts
<1>7. call.path.absolute => call.path.parts \notin Tree(stored)
    BY <1>2, <1>6, TreeParses
<1>8. TrueFor([kind |-> kind, entries |-> {}, path |-> call.path], stored)
  <2>1. CASE kind = "bad_path"
      BY <1>7, <2>1, TrueByKind
  <2>2. CASE kind = "not_found"
      BY <1>5, <1>7, <2>2, TrueByKind
  <2> QED
      BY <1>4, <2>1, <2>2
<1>9. {} \in SUBSET Name
    OBVIOUS
<1> QED
    BY <1>1, <1>2, <1>3, <1>4, <1>8, <1>9, Returning

LEMMA UnreachableStep == IInv /\ Unreachable => IInv'
<1> SUFFICES ASSUME IInv, Unreachable PROVE IInv'
    OBVIOUS
<1>1. call # NoCall /\ Return("internal", {})
    BY DEF Unreachable, Fails
<1>2. stored \in seen
    BY <1>1, InCall
<1>3. TrueFor([kind |-> "internal", entries |-> {}, path |-> call.path], stored)
    BY TrueByKind
<1>4. {} \in SUBSET Name
    OBVIOUS
<1> QED
    BY <1>1, <1>2, <1>3, <1>4, Returning

\* A call of Ls, and what is known of its path.
LEMMA InListing ==
    ASSUME IInv, InLs
    PROVE  /\ call # NoCall /\ Parts \in Seq(Name) /\ Parses(Parts)
           /\ Parts = call.path.parts
           /\ stored \in seen /\ stored \in SUBSET StreamIDs
<1>1. call.op \in {"cd", "ls", "cat"} /\ ParsePath(call.path) = "ok"
    BY DEF InLs
<1>2. /\ call # NoCall /\ call.path \in Path /\ Parts \in Seq(Name)
      /\ stored \in seen /\ stored \in SUBSET StreamIDs
    BY <1>1, InCall
<1>3. Parses(Parts)
    BY <1>1, <1>2, ParseFacts DEF Parts
<1> QED
    BY <1>2, <1>3 DEF Parts

\* A listing is right if it is what some set of streams seen has in that place.
LEMMA Listing ==
    ASSUME IInv, InLs, Len(Parts) < 4, NEW entries, Entries(entries),
           NEW S \in seen, entries = Children(S, Parts)
    PROVE  IInv'
<1>1. /\ call # NoCall /\ Parts \in Seq(Name) /\ Parses(Parts) /\ Parts = call.path.parts
    BY InListing
<1>2. S \in SUBSET StreamIDs
    BY DEF IInv, TypeOK
<1>3. entries \in SUBSET Name
  <2> SUFFICES ASSUME NEW x \in Children(S, Parts) PROVE x \in Name
      OBVIOUS
  <2>1. PICK id \in S : ChildOf(id, Parts, x)
      BY <1>2, ChildMembers
  <2>2. id \in StreamIDs
      BY <1>2
  <2>3. /\ id.ns \in Name /\ id.svc \in Name /\ FileName(id.name) \in Name
      BY <2>2, StreamFields
  <2>4. \A kind \in KindDirs : kind \in Name
      BY PiecesAssumption DEF Name
  <2> QED
      BY <2>1, <2>3, <2>4, Zenon DEF ChildOf
<1>4. TrueFor([kind |-> "entries", entries |-> entries, path |-> call.path], S)
    BY <1>1, TrueByKind
<1>5. Return("entries", entries)
    BY DEF Entries
<1> QED
    BY <1>1, <1>3, <1>4, <1>5, Returning

\* A path that is not in the tree was not found.
LEMMA NotFound ==
    ASSUME IInv, call # NoCall, Fails("not_found"), Parts \notin Tree(stored)
    PROVE  IInv'
<1>1. stored \in seen
    BY InCall
<1>2. TrueFor([kind |-> "not_found", entries |-> {}, path |-> call.path], stored)
    BY TrueByKind DEF Parts
<1>3. Return("not_found", {})
    BY DEF Fails
<1>4. {} \in SUBSET Name
    OBVIOUS
<1> QED
    BY <1>1, <1>2, <1>3, <1>4, Returning

LEMMA LsRootStep == IInv /\ LsRoot => IInv'
<1> SUFFICES ASSUME IInv, LsRoot PROVE IInv'
    OBVIOUS
<1>1. InLs /\ Len(Parts) = 0 /\ Entries(Namespaces)
    BY DEF LsRoot, Depth
<1>2. Parts \in Seq(Name) /\ stored \in seen /\ stored \in SUBSET StreamIDs
    BY <1>1, InListing
<1>3. Namespaces = Children(stored, Parts)
    BY <1>1, <1>2, ChildrenByDepth DEF Namespaces
<1>4. Len(Parts) < 4
    BY <1>1
<1> QED
    BY <1>1, <1>2, <1>3, <1>4, Listing

LEMMA LsCheckStep == IInv /\ LsCheck => IInv'
<1> SUFFICES ASSUME IInv, LsCheck PROVE IInv'
    OBVIOUS
<1> DEFINE Exists == IF Len(Parts) = 1 THEN Parts[1] \in Namespaces
                                       ELSE Parts[2] \in Services(Parts[1])
<1>1. /\ InLs /\ Len(Parts) \in 1 .. 3
      /\ IF Exists
         THEN /\ call' = [call EXCEPT !.checked = TRUE]
              /\ stored' = stored /\ changes' = changes /\ cwd' = cwd
              /\ answer' = answer /\ seen' = seen
         ELSE Fails("not_found")
    BY DEF LsCheck, Depth
<1>2. /\ call # NoCall /\ Parts \in Seq(Name) /\ Parses(Parts)
      /\ stored \in seen /\ stored \in SUBSET StreamIDs
    BY <1>1, InListing
<1>3. CASE Exists
  <2>1. /\ call' = [call EXCEPT !.checked = TRUE]
        /\ stored' = stored /\ changes' = changes /\ cwd' = cwd
        /\ answer' = answer /\ seen' = seen
      BY <1>1, <1>3
  <2>2. call \in Call
      BY <1>2, InCall
  <2>3. /\ call' \in Call /\ call'.op = call.op /\ call'.path = call.path
      BY <2>1, <2>2 DEF Call
  <2>4. TypeOK'
      BY <2>1, <2>3 DEF IInv, TypeOK
  <2>5. Calling'
    <3>1. answer = NoAnswer
        BY <1>2 DEF IInv, Calling
    <3>2. InLs' /\ Parts' = Parts
        BY <1>1, <2>3 DEF InLs, Parts
    <3>3. Len(Parts) = 2 => \E id \in stored : id.ns = Parts[1] /\ id.svc = Parts[2]
        BY <1>3 DEF Services
    <3> QED
        BY <1>1, <1>2, <2>1, <3>1, <3>2, <3>3 DEF Calling, Depth
  <2>6. Truthful'
      BY <2>1 DEF IInv, Truthful
  <2>7. CwdIsDirectory'
      BY <2>1 DEF IInv, CwdIsDirectory
  <2> QED
      BY <2>4, <2>5, <2>6, <2>7 DEF IInv
<1>4. CASE ~ Exists
  <2>1. Parts \notin Tree(stored)
    <3>1. CASE Len(Parts) = 1
        BY <1>2, <1>4, <3>1, TreeByDepth DEF Namespaces
    <3>2. CASE Len(Parts) \in {2, 3}
      <4>1. ~ \E id \in stored : id.ns = Parts[1] /\ id.svc = Parts[2]
          BY <1>4, <3>2 DEF Services
      <4> QED
          BY <1>2, <3>2, <4>1, TreeByDepth
    <3> QED
        BY <1>1, <3>1, <3>2
  <2> QED
      BY <1>1, <1>2, <1>4, <2>1, NotFound
<1> QED
    BY <1>3, <1>4

LEMMA LsListStep == IInv /\ LsList => IInv'
<1> SUFFICES ASSUME IInv, LsList PROVE IInv'
    OBVIOUS
<1>1. InLs /\ call.checked
    BY DEF LsList
<1>2. /\ call # NoCall /\ Parts \in Seq(Name) /\ stored \in seen /\ stored \in SUBSET StreamIDs
    BY <1>1, InListing
<1>3. /\ Len(Parts) \in 1 .. 3
      /\ Len(Parts) = 2 =>
           \E S \in seen : \E id \in S : id.ns = Parts[1] /\ id.svc = Parts[2]
    BY <1>1, <1>2 DEF IInv, Calling, Depth
<1>4. /\ Len(Parts) = 1 => Entries(Services(Parts[1]))
      /\ Len(Parts) = 2 => Entries(KindDirs)
      /\ Len(Parts) = 3 =>
           Entries({FileName(n) : n \in Streams(Parts[1], Parts[2], Parts[3])})
  <2>2. (CASE Depth(Parts) = 1 -> Entries(Services(Parts[1]))
           [] Depth(Parts) = 2 -> Entries(KindDirs)
           [] Depth(Parts) = 3 ->
                Entries({FileName(m) : m \in Streams(Parts[1], Parts[2], Parts[3])}))
      BY Zenon DEF LsList
  <2>3. 1 # 2 /\ 1 # 3 /\ 2 # 3
      OBVIOUS
  <2> QED
      BY <2>2, <2>3, Zenon DEF Depth
<1>5. Len(Parts) < 4
  <2>1. \A n \in 1 .. 3 : n < 4
      OBVIOUS
  <2> QED
      BY <1>3, <2>1, Zenon
<1>6. CASE Len(Parts) = 1
  <2>1. Services(Parts[1]) = Children(stored, Parts)
      BY <1>2, <1>6, ChildrenByDepth DEF Services
  <2> QED
      BY <1>1, <1>2, <1>4, <1>5, <1>6, <2>1, Listing
<1>7. CASE Len(Parts) = 2
  <2>1. PICK S \in seen : \E id \in S : id.ns = Parts[1] /\ id.svc = Parts[2]
      BY <1>3, <1>7
  <2>2. S \in SUBSET StreamIDs
      BY DEF IInv, TypeOK
  <2>3. KindDirs = Children(S, Parts)
      BY <1>2, <1>7, <2>1, <2>2, ChildrenByDepth
  <2> QED
      BY <1>1, <1>4, <1>5, <1>7, <2>3, Listing
<1>8. CASE Len(Parts) = 3
  <2> DEFINE listed == {FileName(n) : n \in Streams(Parts[1], Parts[2], Parts[3])}
  <2>1. listed = {FileName(id.name) : id \in
                    {i \in stored : /\ i.ns = Parts[1] /\ i.svc = Parts[2]
                                    /\ i.kind = Parts[3]}}
      BY SMT DEF Streams
  <2>2. listed = Children(stored, Parts)
      BY <1>2, <1>8, <2>1, ChildrenByDepth
  <2>3. Entries(listed)
      BY <1>4, <1>8
  <2> HIDE DEF listed
  <2> QED
      BY <1>1, <1>2, <1>5, <2>2, <2>3, Listing
<1> QED
    BY <1>3, <1>6, <1>7, <1>8

LEMMA LsStreamStep == IInv /\ LsStream => IInv'
<1> SUFFICES ASSUME IInv, LsStream PROVE IInv'
    OBVIOUS
<1>1. /\ InLs /\ Len(Parts) = 4
      /\ StreamIDOf(Parts) \in stored => Fails("not_dir")
      /\ StreamIDOf(Parts) \notin stored => Fails("not_found")
    BY DEF LsStream, Depth
<1>2. /\ call # NoCall /\ Parts \in Seq(Name) /\ Parses(Parts) /\ Parts = call.path.parts
      /\ stored \in seen /\ stored \in SUBSET StreamIDs
    BY <1>1, InListing
<1>3. Parts \in Tree(stored) <=> StreamIDOf(Parts) \in stored
    BY <1>1, <1>2, TreeByDepth
<1>4. CASE StreamIDOf(Parts) \in stored
  <2>1. TrueFor([kind |-> "not_dir", entries |-> {}, path |-> call.path], stored)
      BY <1>1, <1>2, <1>3, <1>4, TrueByKind
  <2>2. Return("not_dir", {})
      BY <1>1, <1>4 DEF Fails
  <2>3. {} \in SUBSET Name
      OBVIOUS
  <2> QED
      BY <1>2, <2>1, <2>2, <2>3, Returning
<1>5. CASE StreamIDOf(Parts) \notin stored
    BY <1>1, <1>2, <1>3, <1>5, NotFound
<1> QED
    BY <1>4, <1>5

LEMMA CatStep == IInv /\ Cat => IInv'
<1> SUFFICES ASSUME IInv, Cat PROVE IInv'
    OBVIOUS
<1>1. call.op = "cat" /\ ParsePath(call.path) = "ok"
    BY DEF Cat
<1>2. /\ call # NoCall /\ call.path \in Path /\ Parts \in Seq(Name)
      /\ stored \in seen /\ stored \in SUBSET StreamIDs
    BY <1>1, InCall
<1>3. Parses(Parts)
    BY <1>1, <1>2, ParseFacts DEF Parts
<1>4. {} \in SUBSET Name /\ Parts = call.path.parts
    BY DEF Parts
<1>5. CASE Len(Parts) # 4
  <2>1. Fails("is_dir")
      BY <1>5 DEF Cat, Depth
  <2>2. Len(Parts) < 4
    <3>1. PICK n \in Nat : n = Len(Parts)
        BY <1>2
    <3>2. n <= 4 /\ n # 4
        BY <1>3, <1>5, <3>1 DEF Parses
    <3> QED
        BY <3>1, <3>2
  <2>3. TrueFor([kind |-> "is_dir", entries |-> {}, path |-> call.path], stored)
      BY <1>4, <2>2, TrueByKind
  <2>4. Return("is_dir", {})
      BY <2>1 DEF Fails
  <2> QED
      BY <1>2, <1>4, <2>3, <2>4, Returning
<1>6. CASE Len(Parts) = 4
  <2>1. Parts \in Tree(stored) <=> StreamIDOf(Parts) \in stored
      BY <1>2, <1>3, <1>6, TreeByDepth
  <2>2. CASE StreamIDOf(Parts) \notin stored
    <3>1. Fails("not_found")
        BY <1>6, <2>2 DEF Cat, Depth
    <3> QED
        BY <1>2, <2>1, <2>2, <3>1, NotFound
  <2>3. CASE StreamIDOf(Parts) \in stored
    <3>1. Return("samples", {})
        BY <1>6, <2>3 DEF Cat, Depth
    <3>2. TrueFor([kind |-> "samples", entries |-> {}, path |-> call.path], stored)
        BY <1>4, <1>6, <2>1, <2>3, TrueByKind
    <3> QED
        BY <1>1, <1>2, <1>4, <3>1, <3>2, Returning
  <2> QED
      BY <2>2, <2>3
<1> QED
    BY <1>5, <1>6

LEMMA InvStep == IInv /\ [Next]_vars => IInv'
<1> SUFFICES ASSUME IInv, [Next]_vars PROVE IInv'
    OBVIOUS
<1>1. ASSUME ShellCommand PROVE IInv'
  <2>1. PICK op \in {"cd", "ls", "cat"}, path \in Requests : Begin(op, resolve(path))
      BY <1>1 DEF ShellCommand
  <2>2. resolve(path) \in Path
      BY RequestsAssumption, ResolveType
  <2> QED
      BY <2>1, <2>2, BeginStep
<1>2. ASSUME Request PROVE IInv'
  <2>1. PICK op \in {"ls", "cat"}, path \in Requests : Begin(op, path)
      BY <1>2 DEF Request
  <2>2. path \in Path /\ op \in {"cd", "ls", "cat"}
      BY RequestsAssumption
  <2> QED
      BY <2>1, <2>2, BeginStep
<1>3. CASE UNCHANGED vars
    BY <1>3 DEF vars, IInv, TypeOK, Calling, Truthful, CwdIsDirectory, InLs, Parts
<1> QED
    BY <1>1, <1>2, <1>3, StoreStep, BadPathStep, UnreachableStep, LsRootStep, LsCheckStep,
       LsListStep, LsStreamStep, CatStep, Zenon DEF Next

-----------------------------------------------------------------------------
(* The theorems.                                                           *)

LEMMA Invariant == Spec => []IInv
<1> QED
    BY InvInit, InvStep, PTL DEF Spec

\* The state of the browser and of the shell is well-typed (Browser's Ls and Cat, the
\* shell's cd).
THEOREM TypeCorrect == Spec => []TypeOK
<1>1. IInv => TypeOK
    BY DEF IInv
<1> QED
    BY <1>1, Invariant, PTL

\* Whatever streams come and go between the two reads of Ls, a listing is one that
\* the directory had during the call, what was not found was not there, and what was
\* called a file or a directory is one: for all streams and all paths that are asked for.
THEOREM Answers == Spec => []AnswersTrue
<1>1. IInv => AnswersTrue
    BY Answering DEF IInv
<1> QED
    BY <1>1, Invariant, PTL

\* The shell stands in a directory of the layout, whatever path it is told to go to
\* (cd, resolve, ParsePath).
THEOREM CwdInLayout == Spec => []CwdIsDirectory
<1>1. IInv => CwdIsDirectory
    BY DEF IInv
<1> QED
    BY <1>1, Invariant, PTL

\* The path of a stream survives the shell's cleaning, parses, and leads back to the
\* stream, whatever its name is made of, a suffix .dat of its own included (String,
\* FileName, ParsePath, StreamID).
THEOREM StreamsReachable == Spec => []Reachable
<1>1. ASSUME NEW id \in StreamIDs, {id.ns, id.svc} \cap {<<".">>, <<"..">>} = {}
      PROVE  Clean(PathString(id)) = PathString(id)
  <2>1. /\ PathString(id) \in Seq(Name) /\ Len(PathString(id)) = 4
        /\ Parses(PathString(id))
      BY StreamParses
  <2>2. PathString(id) = <<id.ns, id.svc, id.kind, FileName(id.name)>>
      BY PathOfStream
  <2>3. FileName(id.name) \notin {<<".">>, <<"..">>}
    <3>1. IsFile(FileName(id.name))
        BY <2>1, <2>2 DEF Parses
    <3>2. Len(FileName(id.name)) > 1
        BY <3>1 DEF IsFile
    <3>3. Len(<<".">>) = 1 /\ Len(<<"..">>) = 1
        OBVIOUS
    <3>4. ~ (1 > 1)
        OBVIOUS
    <3> QED
        BY <3>2, <3>3, <3>4, Zenon
  <2>4. id.kind \notin {<<".">>, <<"..">>}
    <3>1. id.kind \in KindDirs
        BY StreamFields
    <3> QED
        BY <3>1 DEF KindDirs
  <2>5. \A k \in 1 .. 4 : PathString(id)[k] # << >>
      BY <2>1 DEF Parses
  <2>6. \A k \in 1 .. 4 : PathString(id)[k] \notin {<<".">>, <<"..">>}
    <3>1. id.ns \notin {<<".">>, <<"..">>} /\ id.svc \notin {<<".">>, <<"..">>}
        BY <1>1
    <3>2. /\ PathString(id)[1] = id.ns /\ PathString(id)[2] = id.svc
          /\ PathString(id)[3] = id.kind /\ PathString(id)[4] = FileName(id.name)
        BY <2>2
    <3>3. \A k \in 1 .. 4 : k = 1 \/ k = 2 \/ k = 3 \/ k = 4
        OBVIOUS
    <3> QED
        BY <2>3, <2>4, <3>1, <3>2, <3>3, Zenon
  <2> QED
      BY <2>1, <2>5, <2>6, CleanPlain
<1>2. TypeOK => Reachable
  <2> SUFFICES ASSUME TypeOK, NEW id \in stored,
                      {id.ns, id.svc} \cap {<<".">>, <<"..">>} = {}
               PROVE  LET parts == Clean(PathString(id))
                      IN /\ ParsePath([absolute |-> TRUE, parts |-> parts]) = "ok"
                         /\ Depth(parts) = 4 /\ StreamIDOf(parts) = id
      BY Zenon DEF Reachable
  <2>1. id \in StreamIDs
      BY DEF TypeOK
  <2>2. PICK parts : parts = Clean(PathString(id))
      OBVIOUS
  <2>3. /\ parts \in Seq(Name) /\ Len(parts) = 4
        /\ Parses(parts)
        /\ StreamIDOf(parts) = id
      BY <1>1, <2>1, <2>2, StreamParses
  <2>4. ParsePath([absolute |-> TRUE, parts |-> parts]) = "ok"
    <3>1. PICK path \in Path : path = [absolute |-> TRUE, parts |-> parts]
        BY <2>3 DEF Path
    <3>2. path.absolute /\ path.parts = parts
        BY <3>1
    <3> QED
        BY <2>3, <3>1, <3>2, ParseFacts
  <2> QED
      BY <2>2, <2>3, <2>4 DEF Depth
<1> QED
    BY <1>2, TypeCorrect, PTL

=============================================================================
