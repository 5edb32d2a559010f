---------------------------- MODULE SourcesProofs ----------------------------
(***************************************************************************)
(* The list of streams is what the sources have delivered, under ids that  *)
(* are given once and kept, and the playlist goes by it, for any sources,  *)
(* links, prefixes of ids and playlist.                                    *)
(*                                                                         *)
(* That ids are distinct rests on two facts about one stream being named:  *)
(* there is a candidate left, by the pigeonhole principle, and nothing     *)
(* that has an id is touched.  Naming a list, and the lists of all         *)
(* sources, iterates that.  The list itself is what combining last made of *)
(* what the sources have, so the rest follows from its definition.         *)
(***************************************************************************)
EXTENDS Sources, Induction, SequenceTheorems, FiniteSetTheorems, TLAPS

N == Cardinality(Link)
Ids == {NoId} \union {Candidate(Prefix[l], k) : l \in Link, k \in 0 .. N}

\* Ids of links, of which no two have the same.
Maps == {m \in [Link -> Ids] : \A k, l \in Link : k # l /\ m[k] # NoId => m[k] # m[l]}

\* What has an id has the same one afterwards.
Keeps(m, n) == \A l \in Link : m[l] # NoId => n[l] = m[l]

\* Links are numbered.
LEMMA Numbered == N \in Nat /\ Link = 1 .. N
BY LinkAssumption, FS_CardinalityType DEF N

-----------------------------------------------------------------------------
(* Ids.                                                                    *)

\* Among one candidate more than there are ids taken, one is free: the first is chosen.
LEMMA NewIdIsFree ==
  ASSUME NEW l \in Link, NEW taken, IsFiniteSet(taken), Cardinality(taken) <= N
  PROVE  NewId(Prefix[l], taken) \in Ids \ (taken \union {NoId})
<1> DEFINE c == Cardinality(taken)
           tries == [k \in 0 .. c |-> Candidate(Prefix[l], k)]
           free == {k \in 0 .. c : Candidate(Prefix[l], k) \notin taken}
<1>1. c \in Nat /\ c <= N /\ N \in Nat
  BY FS_CardinalityType, Numbered
<1>2. \A k \in 0 .. c : k \in 0 .. N
  BY <1>1
<1>3. \A j, k \in 0 .. c : j # k => tries[j] # tries[k]
  BY <1>2, CandidateAssumption DEF N
<1>4. IsFiniteSet(0 .. c) /\ Cardinality(0 .. c) = c + 1
  BY <1>1, FS_Interval
<1>5. free # {}
  <2> SUFFICES ASSUME free = {} PROVE FALSE
    OBVIOUS
  <2>1. tries \in [0 .. c -> taken]
    OBVIOUS
  <2>2. Cardinality(taken) < Cardinality(0 .. c)
    BY <1>1, <1>4
  <2> HIDE DEF c, tries, free
  <2> QED BY <1>3, <1>4, <2>1, <2>2, FS_PigeonHole
<1>6. free \in SUBSET Nat
  BY <1>1
<1> DEFINE k == CHOOSE i \in free : \A j \in free : i <= j
<1>7. k \in free
  <2> HIDE DEF free
  <2>1. \E i \in free : \A j \in free : i <= j
    BY <1>5, <1>6, Least
  <2> QED BY <2>1
<1>8. NewId(Prefix[l], taken) = Candidate(Prefix[l], k)
  BY DEF NewId
<1>9. k \in 0 .. N /\ Candidate(Prefix[l], k) \notin taken
  BY <1>2, <1>7
<1> HIDE DEF k
<1>10. Candidate(Prefix[l], k) # NoId
  BY <1>9, CandidateAssumption DEF N
<1> QED BY <1>8, <1>9, <1>10 DEF Ids

\* A link is named without another being touched.
LEMMA NameNames ==
  ASSUME NEW m \in Maps, NEW l \in Link
  PROVE  Name(m, l) \in Maps /\ Keeps(m, Name(m, l)) /\ Name(m, l)[l] # NoId
<1>1. m \in [Link -> Ids] /\ \A j, k \in Link : j # k /\ m[j] # NoId => m[j] # m[k]
  BY DEF Maps
<1>2. CASE m[l] # NoId
  BY <1>2 DEF Name, Keeps
<1>3. CASE m[l] = NoId
  <2> DEFINE all == {m[k] : k \in Link}
             taken == all \ {NoId}
             id == NewId(Prefix[l], taken)
  <2>1. IsFiniteSet(all) /\ Cardinality(all) <= N
    <3>1. m \in Surjection(Link, all)
      BY <1>1 DEF Surjection
    <3> HIDE DEF all
    <3> QED BY <3>1, LinkAssumption, FS_Surjection DEF N
  <2>2. IsFiniteSet(taken) /\ Cardinality(taken) <= Cardinality(all)
    <3>1. taken \in SUBSET all
      OBVIOUS
    <3> HIDE DEF taken, all
    <3> QED BY <2>1, <3>1, FS_Subset
  <2>3. Cardinality(taken) <= N
    <3> HIDE DEF taken, all
    <3> QED BY <2>1, <2>2, Numbered, FS_CardinalityType
  <2>4. id \in Ids /\ id \notin taken /\ id # NoId
    <3> HIDE DEF taken
    <3> QED BY <2>2, <2>3, NewIdIsFree
  <2>5. Name(m, l) = [m EXCEPT ![l] = id]
    BY <1>3 DEF Name
  <2>6. \A k \in Link : m[k] # id
    BY <2>4
  <2> HIDE DEF id
  <2>7. Name(m, l) \in [Link -> Ids] /\ Name(m, l)[l] = id /\ \A k \in Link : k # l => Name(m, l)[k] = m[k]
    BY <1>1, <2>4, <2>5
  <2>8. Keeps(m, Name(m, l))
    BY <1>3, <2>7 DEF Keeps
  <2>9. \A j, k \in Link : j # k /\ Name(m, l)[j] # NoId => Name(m, l)[j] # Name(m, l)[k]
    BY <1>1, <2>6, <2>7
  <2> QED BY <2>4, <2>7, <2>8, <2>9 DEF Maps
<1> QED BY <1>2, <1>3

\* Names are kept over any number of steps.
LEMMA KeepsOn ==
  ASSUME NEW m \in Maps, NEW n \in Maps, NEW p \in Maps, Keeps(m, n), Keeps(n, p)
  PROVE  Keeps(m, p)
BY DEF Keeps

\* A list is named link by link, and all that it has are.
LEMMA BatchNamed ==
  ASSUME NEW map \in Maps, NEW batch
  PROVE  /\ NameBatch(map, batch) \in Maps /\ Keeps(map, NameBatch(map, batch))
         /\ \A l \in Link : batch[l] # NoKind => NameBatch(map, batch)[l] # NoId
<1> DEFINE Next1(m, k) == IF batch[k] = NoKind THEN m ELSE Name(m, k)
           step == [k \in 1 .. N |-> [m \in Maps |-> Next1(m, k)]]
           Is(f) == f = [k \in 0 .. N |-> IF k = 0 THEN map
                                          ELSE IF batch[k] = NoKind THEN f[k - 1] ELSE Name(f[k - 1], k)]
           f == CHOOSE g : Is(g)
<1>1. N \in Nat /\ Link = 1 .. N
  BY Numbered
<1>2. NameBatch(map, batch) = f[N]
  BY DEF NameBatch, N
<1>3. \A k \in 1 .. N : \A m \in Maps :
        Next1(m, k) \in Maps /\ Keeps(m, Next1(m, k)) /\ (batch[k] # NoKind => Next1(m, k)[k] # NoId)
  BY <1>1, NameNames DEF Keeps
<1>4. PICK g \in [0 .. N -> Maps] : Iterates(g, N, map, step)
  <2>1. Closed(Maps, N, step)
    BY <1>3 DEF Closed
  <2> HIDE DEF step
  <2> QED BY <1>1, <2>1, Recursion, Zenon
<1>5. Is(g)
  <2>1. \A k \in 1 .. N : k - 1 \in 0 .. N /\ k \in 0 .. N
    BY <1>1
  <2>2. \A k \in 1 .. N : step[k][g[k - 1]] = Next1(g[k - 1], k)
    BY <1>4, <2>1
  <2>3. \A k \in 0 .. N : k # 0 => k \in 1 .. N
    BY <1>1
  <2> HIDE DEF step
  <2> QED BY <1>4, <2>2, <2>3 DEF Iterates
<1>6. Is(f)
  BY <1>5
<1> HIDE DEF f
<1>7. f[0] = map /\ \A k \in 1 .. N : f[k] = Next1(f[k - 1], k)
  <2>1. 0 \in 0 .. N /\ \A k \in 1 .. N : k \in 0 .. N /\ k # 0
    BY <1>1
  <2> QED BY <1>6, <2>1
<1> HIDE DEF Next1
<1> DEFINE T == {k \in 0 .. N : /\ f[k] \in Maps /\ Keeps(map, f[k])
                                /\ \A l \in 1 .. k : batch[l] # NoKind => f[k][l] # NoId}
<1>8. 0 \in T
  BY <1>1, <1>7 DEF Keeps
<1>9. ASSUME NEW k \in 1 .. N, k - 1 \in T PROVE k \in T
  <2>1. /\ f[k - 1] \in Maps /\ Keeps(map, f[k - 1]) /\ f[k] = Next1(f[k - 1], k)
        /\ \A l \in 1 .. (k - 1) : batch[l] # NoKind => f[k - 1][l] # NoId
    BY <1>7, <1>9
  <2>2. f[k] \in Maps /\ Keeps(f[k - 1], f[k]) /\ (batch[k] # NoKind => f[k][k] # NoId)
    BY <1>3, <2>1
  <2>3. Keeps(map, f[k])
    BY <2>1, <2>2, KeepsOn
  <2>4. \A l \in 1 .. k : l \in Link /\ (l = k \/ l \in 1 .. (k - 1))
    BY <1>1
  <2>5. \A l \in 1 .. k : batch[l] # NoKind => f[k][l] # NoId
    BY <2>1, <2>2, <2>4 DEF Keeps
  <2>6. k \in 0 .. N
    BY <1>1
  <2> QED BY <2>2, <2>3, <2>5, <2>6
<1>10. N \in T
  <2> HIDE DEF T
  <2>1. \A k \in 0 .. N : k \in T
    BY <1>1, <1>8, <1>9, Induct
  <2> QED BY <1>1, <2>1
<1> QED BY <1>1, <1>2, <1>10

\* The sources in their order, each of them somewhere.
LEMMA Ordered ==
  /\ Order \in Seq(Source) /\ Len(Order) \in Nat
  /\ \A i \in 1 .. Len(Order) : Order[i] \in Source
  /\ \A s \in Source : \E i \in 1 .. Len(Order) : Order[i] = s
<1>1. ASSUME NEW S, IsFiniteSet(S)
      PROVE  SetToSeq(S) \in Seq(S) /\ \A s \in S : \E i \in 1 .. Len(SetToSeq(S)) : SetToSeq(S)[i] = s
  <2> DEFINE n == Cardinality(S)
             q == SetToSeq(S)
  <2>1. n \in Nat /\ ExistsBijection(1 .. n, S)
    BY <1>1, FS_CardinalityType
  <2>2. \E f \in [1 .. n -> S] : IsInjective(f)
    <3>1. PICK f \in Bijection(1 .. n, S) : TRUE
      BY <2>1 DEF ExistsBijection
    <3>2. f \in [1 .. n -> S] /\ \A a, b \in 1 .. n : f[a] = f[b] => a = b
      BY <3>1 DEF Bijection, Injection, IsInjective
    <3> QED BY <3>2 DEF IsInjective
  <2>3. q \in [1 .. n -> S] /\ IsInjective(q)
    BY <2>2 DEF SetToSeq
  <2> HIDE DEF q
  <2>4. q \in Injection(1 .. n, S)
    BY <2>3 DEF Injection, IsInjective
  <2>5. IsFiniteSet(1 .. n) /\ Cardinality(1 .. n) = n
    BY <2>1, FS_Interval
  <2>6. q \in Surjection(1 .. n, S)
    <3> HIDE DEF n
    <3>1. Cardinality(1 .. n) = Cardinality(S)
      BY <2>5 DEF n
    <3> QED BY <1>1, <2>4, <3>1, FS_Injection
  <2>7. q \in Seq(S) /\ Len(q) = n
    <3> HIDE DEF n
    <3> QED BY <2>1, <2>3, SeqDef
  <2>8. \A s \in S : \E i \in 1 .. n : q[i] = s
    BY <2>6 DEF Surjection
  <2> QED BY <2>7, <2>8 DEF q
<1> DEFINE p == SetToSeq(Poll)
           f == SetToSeq(File)
<1>2. /\ p \in Seq(Poll) /\ \A s \in Poll : \E i \in 1 .. Len(p) : p[i] = s
      /\ f \in Seq(File) /\ \A s \in File : \E i \in 1 .. Len(f) : f[i] = s
  BY <1>1, SourceAssumption
<1>3. Order = (p \o f) \o <<"custom">>
  BY DEF Order
<1> HIDE DEF p, f
<1>4. p \in Seq(Source) /\ f \in Seq(Source) /\ "custom" \in Source /\ Len(p) \in Nat /\ Len(f) \in Nat
  BY <1>2 DEF Source
<1> DEFINE pf == p \o f
<1>5. /\ pf \in Seq(Source) /\ Len(pf) = Len(p) + Len(f)
      /\ \A i \in 1 .. Len(p) : i \in 1 .. Len(pf) /\ pf[i] = p[i]
      /\ \A i \in 1 .. Len(f) : Len(p) + i \in 1 .. Len(pf) /\ pf[Len(p) + i] = f[i]
  BY <1>4
<1> HIDE DEF pf
<1>6. /\ Order \in Seq(Source) /\ Len(Order) = Len(pf) + 1 /\ Len(pf) \in Nat
      /\ \A i \in 1 .. Len(pf) : i \in 1 .. Len(Order) /\ Order[i] = pf[i]
      /\ Order[Len(pf) + 1] = "custom"
  BY <1>3, <1>4, <1>5 DEF pf
<1>7. ASSUME NEW s \in Source PROVE \E i \in 1 .. Len(Order) : Order[i] = s
  <2>1. CASE s \in Poll
    BY <1>2, <1>5, <1>6, <2>1
  <2>2. CASE s \in File
    <3>1. PICK i \in 1 .. Len(f) : f[i] = s
      BY <1>2, <2>2
    <3>2. Len(p) + i \in 1 .. Len(pf) /\ pf[Len(p) + i] = s
      BY <1>5, <3>1
    <3> QED BY <1>6, <3>2
  <2>3. CASE s = "custom"
    BY <1>6, <2>3
  <2> QED BY <2>1, <2>2, <2>3 DEF Source
<1> QED BY <1>6, <1>7

\* All lists are named, that of each source in its turn.
LEMMA AllNamed ==
  ASSUME NEW map \in Maps, NEW batches
  PROVE  /\ Named(map, batches) \in Maps /\ Keeps(map, Named(map, batches))
         /\ \A s \in Source, l \in Link : batches[s][l] # NoKind => Named(map, batches)[l] # NoId
<1> DEFINE n == Len(Order)
           step == [i \in 1 .. n |-> [m \in Maps |-> NameBatch(m, batches[Order[i]])]]
           Is(f) == f = [i \in 0 .. n |-> IF i = 0 THEN map ELSE NameBatch(f[i - 1], batches[Order[i]])]
           f == CHOOSE g : Is(g)
<1>1. n \in Nat
  BY Ordered
<1>2. Named(map, batches) = f[n]
  BY DEF Named
<1> HIDE DEF n
<1>3. \A i \in 1 .. n : \A m \in Maps :
        /\ NameBatch(m, batches[Order[i]]) \in Maps /\ Keeps(m, NameBatch(m, batches[Order[i]]))
        /\ \A l \in Link : batches[Order[i]][l] # NoKind => NameBatch(m, batches[Order[i]])[l] # NoId
  BY BatchNamed
<1>4. PICK g \in [0 .. n -> Maps] : Iterates(g, n, map, step)
  <2>1. Closed(Maps, n, step)
    BY <1>3 DEF Closed
  <2> HIDE DEF step
  <2> QED BY <1>1, <2>1, Recursion, Zenon
<1>5. Is(g)
  <2>1. \A i \in 1 .. n : i - 1 \in 0 .. n /\ i \in 0 .. n
    BY <1>1
  <2>2. \A i \in 1 .. n : step[i][g[i - 1]] = NameBatch(g[i - 1], batches[Order[i]])
    BY <1>4, <2>1
  <2>3. \A i \in 0 .. n : i # 0 => i \in 1 .. n
    BY <1>1
  <2> HIDE DEF step
  <2> QED BY <1>4, <2>2, <2>3 DEF Iterates
<1>6. Is(f)
  BY <1>5
<1> HIDE DEF f
<1>7. f[0] = map /\ \A i \in 1 .. n : f[i] = NameBatch(f[i - 1], batches[Order[i]])
  <2>1. 0 \in 0 .. n /\ \A i \in 1 .. n : i \in 0 .. n /\ i # 0
    BY <1>1
  <2> QED BY <1>6, <2>1
<1> DEFINE T == {i \in 0 .. n : /\ f[i] \in Maps /\ Keeps(map, f[i])
                                /\ \A j \in 1 .. i : \A l \in Link :
                                     batches[Order[j]][l] # NoKind => f[i][l] # NoId}
<1>8. 0 \in T
  BY <1>1, <1>7 DEF Keeps
<1>9. ASSUME NEW i \in 1 .. n, i - 1 \in T PROVE i \in T
  <2>1. /\ f[i - 1] \in Maps /\ Keeps(map, f[i - 1]) /\ f[i] = NameBatch(f[i - 1], batches[Order[i]])
        /\ \A j \in 1 .. (i - 1) : \A l \in Link : batches[Order[j]][l] # NoKind => f[i - 1][l] # NoId
    BY <1>7, <1>9
  <2>2. /\ f[i] \in Maps /\ Keeps(f[i - 1], f[i])
        /\ \A l \in Link : batches[Order[i]][l] # NoKind => f[i][l] # NoId
    BY <1>3, <2>1
  <2>3. Keeps(map, f[i])
    BY <2>1, <2>2, KeepsOn
  <2>4. \A j \in 1 .. i : j = i \/ j \in 1 .. (i - 1)
    BY <1>1
  <2>5. \A j \in 1 .. i : \A l \in Link : batches[Order[j]][l] # NoKind => f[i][l] # NoId
    BY <2>1, <2>2, <2>4 DEF Keeps
  <2>6. i \in 0 .. n
    BY <1>1
  <2> QED BY <2>2, <2>3, <2>5, <2>6
<1>10. n \in T
  <2> HIDE DEF T
  <2>1. \A i \in 0 .. n : i \in T
    BY <1>1, <1>8, <1>9, Induct
  <2> QED BY <1>1, <2>1
<1>11. f[n] \in Maps /\ Keeps(map, f[n]) /\ \A j \in 1 .. n : \A l \in Link : batches[Order[j]][l] # NoKind => f[n][l] # NoId
  BY <1>10
<1>12. \A s \in Source : \E j \in 1 .. n : Order[j] = s
  BY Ordered DEF n
<1>13. \A s \in Source, l \in Link : batches[s][l] # NoKind => f[n][l] # NoId
  BY <1>11, <1>12
<1> QED BY <1>2, <1>11, <1>13

-----------------------------------------------------------------------------
(* The list.                                                               *)

\* A set of positions has a last one.
LEMMA LastPosition ==
  ASSUME NEW n \in Nat, NEW T \in SUBSET (1 .. n), T # {}
  PROVE  \E i \in T : \A j \in T : j <= i
<1> DEFINE above == {k \in Nat : \A j \in T : j <= k}
<1>1. n \in above
  OBVIOUS
<1>2. PICK k \in above : \A m \in above : k <= m
  <2> HIDE DEF above
  <2>1. above \in SUBSET Nat
    BY DEF above
  <2> QED BY <1>1, <2>1, Least
<1>3. k \in Nat /\ \A j \in T : j <= k /\ j \in Nat /\ j # 0
  BY <1>2
<1>4. k # 0
  <2>1. PICK j \in T : TRUE
    OBVIOUS
  <2>2. j \in 1 .. n /\ j <= k
    BY <1>3
  <2> QED BY <1>3, <2>2
<1>5. k - 1 \in Nat /\ k - 1 \notin above
  <2> HIDE DEF above
  <2>1. k - 1 \in Nat /\ ~(k <= k - 1)
    BY <1>3, <1>4
  <2> QED BY <1>2, <2>1
<1>6. PICK j \in T : ~(j <= k - 1)
  BY <1>5
<1>7. j = k
  <2> HIDE DEF above
  <2>1. j <= k /\ j \in Nat /\ k \in Nat /\ ~(j <= k - 1)
    BY <1>3, <1>6
  <2> QED BY <2>1
<1> QED BY <1>3, <1>6, <1>7

\* A link of which some source has a stream is listed as that source has it, and no other is.
LEMMA Combined ==
  ASSUME NEW batches \in [Source -> Batch], NEW rotations, NEW m, NEW l \in Link
  PROVE  LET stream == Merged(batches, rotations, m)[l]
         IN  \/ stream = NoStream /\ \A s \in Source : batches[s][l] = NoKind
             \/ \E s \in Source :
                  /\ batches[s][l] # NoKind
                  /\ stream = [kind |-> batches[s][l], from |-> s, rotation |-> rotations[l], id |-> m[l]]
                  /\ stream # NoStream
<1> DEFINE n == Len(Order)
           having == {i \in DOMAIN Order : batches[Order[i]][l] # NoKind}
           i == LastWith(batches, l)
           stream == Merged(batches, rotations, m)[l]
<1>1. n \in Nat /\ DOMAIN Order = 1 .. n /\ \A j \in 1 .. n : Order[j] \in Source
  BY Ordered
<1>2. \A s \in Source : \E j \in 1 .. n : Order[j] = s
  BY Ordered
<1>3. stream = IF i = 0 THEN NoStream
               ELSE [kind |-> batches[Order[i]][l], from |-> Order[i], rotation |-> rotations[l], id |-> m[l]]
  BY DEF Merged
<1>4. CASE having = {}
  <2>1. i = 0
    BY <1>4 DEF LastWith
  <2>2. \A s \in Source : batches[s][l] = NoKind
    BY <1>1, <1>2, <1>4
  <2> QED BY <1>3, <2>1, <2>2
<1>5. CASE having # {}
  <2>1. \E j \in having : \A k \in having : k <= j
    <3>1. having \in SUBSET (1 .. n)
      BY <1>1
    <3> HIDE DEF n, having
    <3> QED BY <1>1, <1>5, <3>1, LastPosition
  <2>2. i = CHOOSE j \in having : \A k \in having : k <= j
    BY <1>5 DEF LastWith
  <2>3. i \in having
    <3> HIDE DEF having, i
    <3> QED BY <2>1, <2>2
  <2>4. i \in 1 .. n /\ batches[Order[i]][l] # NoKind /\ i # 0
    BY <1>1, <2>3
  <2> HIDE DEF i, n
  <2>5. Order[i] \in Source
    BY <1>1, <2>4
  <2>6. stream = [kind |-> batches[Order[i]][l], from |-> Order[i], rotation |-> rotations[l], id |-> m[l]]
    BY <1>3, <2>4
  <2> HIDE DEF stream
  <2>7. stream # NoStream
    BY <2>4, <2>6 DEF NoStream
  <2> QED BY <2>4, <2>5, <2>6, <2>7 DEF stream
<1> QED BY <1>4, <1>5

\* The id of what is listed tells whether something is.
LEMMA ListedHasId ==
  ASSUME NEW batches \in [Source -> Batch], NEW rotations, NEW m, NEW l \in Link,
         \A s \in Source : batches[s][l] # NoKind => m[l] # NoId
  PROVE  LET stream == Merged(batches, rotations, m)[l]
         IN  \/ stream = NoStream /\ stream.id = NoId
             \/ stream # NoStream /\ stream.id = m[l] /\ m[l] # NoId
<1> DEFINE stream == Merged(batches, rotations, m)[l]
<1>1. \/ stream = NoStream
      \/ \E s \in Source :
           /\ batches[s][l] # NoKind
           /\ stream = [kind |-> batches[s][l], from |-> s, rotation |-> rotations[l], id |-> m[l]]
           /\ stream # NoStream
  BY Combined
<1> HIDE DEF stream
<1>2. ASSUME stream = NoStream PROVE stream.id = NoId
  BY <1>2 DEF NoStream
<1>3. ASSUME NEW s \in Source, batches[s][l] # NoKind, stream # NoStream,
             stream = [kind |-> batches[s][l], from |-> s, rotation |-> rotations[l], id |-> m[l]]
      PROVE  stream # NoStream /\ stream.id = m[l] /\ m[l] # NoId
  BY <1>3
<1>4. (stream = NoStream /\ stream.id = NoId) \/ (stream # NoStream /\ stream.id = m[l] /\ m[l] # NoId)
  BY <1>1, <1>2, <1>3
<1> QED BY <1>4 DEF stream

-----------------------------------------------------------------------------
(* The invariant.                                                          *)

\* Of the loops: what they are about, and where they may be.
LoopInv ==
  /\ contents \in [File -> Batch \union {Bad}] /\ changed \in [File -> BOOLEAN]
  /\ text \in [File -> Batch \union {Bad}]
  /\ pc \in [Poll \union File -> {"fetching", "body", "sleeping", "reading", "read", "watching"}]
  /\ \A s \in Poll : pc[s] \in {"fetching", "body", "sleeping"}
  /\ \A f \in File : pc[f] \in {"reading", "read", "watching"}
  /\ health \in [Poll \union File -> {"none", "ok", "error"}]

\* Of the list: what is delivered has been named, and the list is made of it.
ListInv ==
  /\ latest \in [Source -> Batch] /\ overlay \in [Link -> Rotation \union {NoRotation}]
  /\ ids \in Maps
  /\ \A s \in Source, l \in Link : latest[s][l] # NoKind => ids[l] # NoId
  /\ streams = Merged(latest, overlay, ids)

\* Of the playlist: it waits for a stream that is not there, or its cell has the id of one
\* that has been.
PlaylistInv ==
  /\ cursor \in 0 .. (Len(Playlist) - 1) /\ pending \in BOOLEAN
  /\ pending => streams[Url(cursor)] = NoStream
  /\ ~pending => cell = ids[Url(cursor)] /\ cell # NoId

SourceInv == LoopInv /\ ListInv /\ PlaylistInv

\* The URLs of a playlist are links.
LEMMA UrlsAreLinks == Len(Playlist) \in Nat /\ Len(Playlist) > 0 /\ \A c \in 0 .. (Len(Playlist) - 1) : Url(c) \in Link
<1>1. Playlist \in Seq(Link) /\ Playlist # <<>>
  BY PlaylistAssumption
<1>2. Len(Playlist) \in Nat /\ \A i \in 1 .. Len(Playlist) : Playlist[i] \in Link
  BY <1>1
<1>3. Len(Playlist) # 0
  BY <1>1, EmptySeq
<1> QED BY <1>2, <1>3 DEF Url

\* Where the playlist resolves its URL, it waits exactly if there is no such stream.
LEMMA ResolveKeeps ==
  ASSUME ListInv', NEW c \in 0 .. (Len(Playlist) - 1), cursor' = c, Resolve(c)
  PROVE  PlaylistInv'
<1> DEFINE l == Url(c)
           id == streams'[l].id
<1>1. l \in Link
  BY UrlsAreLinks
<1>2. latest' \in [Source -> Batch] /\ streams' = Merged(latest', overlay', ids')
      /\ \A s \in Source : latest'[s][l] # NoKind => ids'[l] # NoId
  BY <1>1 DEF ListInv
<1>3. \/ streams'[l] = NoStream /\ id = NoId
      \/ streams'[l] # NoStream /\ id = ids'[l] /\ ids'[l] # NoId
  BY <1>1, <1>2, ListedHasId
<1>4. pending' = (id = NoId) /\ cell' = (IF id = NoId THEN cell ELSE id)
  BY DEF Resolve
<1>5. Url(cursor)' = l
  BY DEF Url
<1> HIDE DEF l, id
<1>6. pending' \in BOOLEAN
  BY <1>4
<1>7. pending' => streams'[l] = NoStream
  BY <1>3, <1>4
<1>8. ~pending' => cell' = ids'[l] /\ cell' # NoId
  BY <1>3, <1>4
<1> QED BY <1>5, <1>6, <1>7, <1>8 DEF PlaylistInv

\* Combining what the sources have keeps all ids, and the playlist agrees with the new list.
LEMMA CombineKeeps ==
  ASSUME ListInv, PlaylistInv, NEW b \in [Source -> Batch], NEW r \in [Link -> Rotation \union {NoRotation}],
         Combine(b, r)
  PROVE  ListInv' /\ PlaylistInv' /\ Keeps(ids, ids')
<1>1. latest' = b /\ overlay' = r /\ ids' = Named(ids, b) /\ streams' = Merged(b, r, ids')
  BY DEF Combine
<1>2. ids \in Maps
  BY DEF ListInv
<1>3. ids' \in Maps /\ Keeps(ids, ids') /\ \A s \in Source, l \in Link : b[s][l] # NoKind => ids'[l] # NoId
  BY <1>1, <1>2, AllNamed
<1>4. ListInv'
  BY <1>1, <1>3 DEF ListInv
<1>5. cursor \in 0 .. (Len(Playlist) - 1) /\ cursor' = cursor /\ Url(cursor) \in Link
  BY UrlsAreLinks DEF PlaylistInv, Combine, RetryPending
<1>6. CASE pending
  <2>1. Resolve(cursor)
    BY <1>6 DEF Combine, RetryPending
  <2> QED BY <1>3, <1>4, <1>5, <2>1, ResolveKeeps
<1>7. CASE ~pending
  <2>1. pending' = pending /\ cell' = cell
    BY <1>7 DEF Combine, RetryPending
  <2>2. cell = ids[Url(cursor)] /\ cell # NoId
    BY <1>7 DEF PlaylistInv
  <2>3. Url(cursor)' = Url(cursor)
    BY <1>5 DEF Url
  <2>4. ids'[Url(cursor)] = ids[Url(cursor)]
    BY <1>3, <1>5, <2>2 DEF Keeps
  <2>5. ~pending' /\ pending' \in BOOLEAN
    BY <1>7, <2>1 DEF PlaylistInv
  <2> QED BY <1>3, <1>4, <1>5, <2>1, <2>2, <2>3, <2>4, <2>5 DEF PlaylistInv
<1> QED BY <1>6, <1>7

\* What a source delivers is combined, unless it is nothing and the source had something.
LEMMA DeliverKeeps ==
  ASSUME ListInv, PlaylistInv, NEW s \in Source, NEW b \in Batch, Deliver(s, b)
  PROVE  /\ ListInv' /\ PlaylistInv' /\ Keeps(ids, ids')
         /\ \A t \in Source : latest[t] # Empty => latest'[t] # Empty
<1>1. CASE b = Empty /\ latest[s] # Empty
  <2>1. UNCHANGED <<latest, overlay, ids, streams, cursor, pending, cell>>
    BY <1>1 DEF Deliver, list, playlist
  <2>2. ListInv'
    BY <2>1 DEF ListInv
  <2>3. PlaylistInv'
    BY <2>1 DEF PlaylistInv, Url
  <2> QED BY <2>1, <2>2, <2>3 DEF Keeps
<1>2. CASE ~(b = Empty /\ latest[s] # Empty)
  <2> DEFINE c == [latest EXCEPT ![s] = b]
  <2>1. latest \in [Source -> Batch] /\ overlay \in [Link -> Rotation \union {NoRotation}]
    BY DEF ListInv
  <2>2. c \in [Source -> Batch] /\ c[s] = b /\ \A t \in Source : t # s => c[t] = latest[t]
    BY <2>1
  <2>3. Combine(c, overlay)
    BY <1>2 DEF Deliver
  <2> HIDE DEF c
  <2>4. ListInv' /\ PlaylistInv' /\ Keeps(ids, ids')
    BY <2>1, <2>2, <2>3, CombineKeeps
  <2>5. latest' = c
    BY <2>3 DEF Combine
  <2> QED BY <1>2, <2>2, <2>4, <2>5
<1> QED BY <1>1, <1>2

\* What a source has it keeps, and a link its id.
NothingLost ==
  /\ \A s \in Poll \union File : latest[s] # Empty => latest'[s] # Empty
  /\ Keeps(ids, ids')

\* A read that fails, or is over, tells the health and delivers.
LEMMA ReadEnds ==
  ASSUME SourceInv, NEW s \in Poll \union File, NEW b \in Batch, NEW ok \in BOOLEAN, NEW at,
         at \in IF s \in Poll THEN {"fetching", "body", "sleeping"} ELSE {"reading", "read", "watching"},
         pc' = [pc EXCEPT ![s] = at], Report(s, ok), Deliver(s, b),
         UNCHANGED <<contents, changed>>, text' \in [File -> Batch \union {Bad}]
  PROVE  SourceInv' /\ NothingLost
<1>1. LoopInv /\ ListInv /\ PlaylistInv
  BY DEF SourceInv
<1>2. s \in Source /\ Poll \union File \subseteq Source
  BY DEF Source
<1>3. /\ ListInv' /\ PlaylistInv' /\ Keeps(ids, ids')
      /\ \A t \in Source : latest[t] # Empty => latest'[t] # Empty
  BY <1>1, <1>2, DeliverKeeps
<1>4. health' \in [Poll \union File -> {"none", "ok", "error"}]
  BY <1>1 DEF Report, LoopInv
<1>5. /\ pc \in [Poll \union File -> {"fetching", "body", "sleeping", "reading", "read", "watching"}]
      /\ \A t \in Poll : pc[t] \in {"fetching", "body", "sleeping"}
      /\ \A f \in File : pc[f] \in {"reading", "read", "watching"}
  BY <1>1 DEF LoopInv
<1>6. pc' \in [Poll \union File -> {"fetching", "body", "sleeping", "reading", "read", "watching"}]
  BY <1>5
<1>7. \A t \in Poll : pc'[t] \in {"fetching", "body", "sleeping"}
  BY <1>5
<1>8. \A f \in File : pc'[f] \in {"reading", "read", "watching"}
  BY <1>5, SourceAssumption
<1>9. LoopInv'
  BY <1>1, <1>4, <1>6, <1>7, <1>8 DEF LoopInv
<1> QED BY <1>2, <1>3, <1>9 DEF SourceInv, NothingLost

\* A step of a loop that delivers nothing leaves the list and the playlist alone.
LEMMA Unlisted ==
  ASSUME SourceInv, LoopInv', UNCHANGED <<list, playlist>>
  PROVE  SourceInv' /\ NothingLost
<1>1. ListInv /\ PlaylistInv
  BY DEF SourceInv
<1>2. UNCHANGED <<latest, overlay, ids, streams, cursor, pending, cell>>
  BY DEF list, playlist
<1>3. ListInv'
  BY <1>1, <1>2 DEF ListInv
<1>4. PlaylistInv'
  BY <1>1, <1>2 DEF PlaylistInv, Url
<1>5. NothingLost
  BY <1>2 DEF NothingLost, Keeps
<1> QED BY <1>3, <1>4, <1>5 DEF SourceInv

\* The commands of the operator change what is custom, or what is rotated.
LEMMA Operated ==
  ASSUME SourceInv, NEW b \in [Source -> Batch], NEW r \in [Link -> Rotation \union {NoRotation}],
         Combine(b, r), UNCHANGED <<contents, loops>>,
         \A s \in Poll \union File : b[s] = latest[s]
  PROVE  SourceInv' /\ NothingLost
<1>1. LoopInv /\ ListInv /\ PlaylistInv
  BY DEF SourceInv
<1>2. ListInv' /\ PlaylistInv' /\ Keeps(ids, ids')
  BY <1>1, CombineKeeps
<1>3. LoopInv'
  BY <1>1 DEF LoopInv, loops
<1>4. latest' = b
  BY DEF Combine
<1> QED BY <1>2, <1>3, <1>4 DEF SourceInv, NothingLost

\* Every step keeps the invariant, and loses nothing.
LEMMA SourcesKeep == SourceInv /\ [SourceNext]_sourceVars => SourceInv' /\ NothingLost
<1> SUFFICES ASSUME SourceInv, [SourceNext]_sourceVars PROVE SourceInv' /\ NothingLost
  OBVIOUS
<1>0. LoopInv /\ ListInv /\ PlaylistInv
  BY DEF SourceInv
<1>e. Empty \in Batch /\ Bad \notin Batch
  BY BadAssumption DEF Empty, Batch
<1>p. Poll \intersect File = {} /\ "custom" \notin Poll \union File /\ "custom" \in Source
  BY SourceAssumption DEF Source
<1>t. text \in [File -> Batch \union {Bad}]
  BY <1>0 DEF LoopInv
<1>1. ASSUME NEW s \in Poll, Headers(s) \/ Wakes(s) PROVE SourceInv' /\ NothingLost
  <2>1. LoopInv'
    BY <1>0, <1>1, <1>p DEF Headers, Wakes, LoopInv
  <2> QED BY <1>1, <2>1, Unlisted DEF Headers, Wakes
<1>2. ASSUME NEW s \in Poll, Refused(s) \/ Timeout(s) \/ Broken(s) PROVE SourceInv' /\ NothingLost
  <2>1. /\ pc' = [pc EXCEPT ![s] = "sleeping"] /\ Report(s, FALSE) /\ Deliver(s, Empty)
        /\ UNCHANGED <<contents, changed>> /\ text' = text
    BY <1>2 DEF Refused, Timeout, Broken, Fails
  <2> QED BY <1>e, <1>t, <2>1, ReadEnds
<1>3. ASSUME NEW s \in Poll, NEW b \in Batch, Body(s, b) PROVE SourceInv' /\ NothingLost
  <2>1. /\ pc' = [pc EXCEPT ![s] = "sleeping"] /\ Report(s, TRUE) /\ Deliver(s, b)
        /\ UNCHANGED <<contents, changed>> /\ text' = text
    BY <1>3 DEF Body
  <2> QED BY <1>t, <2>1, ReadEnds
<1>4. ASSUME NEW f \in File, Reads(f) \/ FileEvent(f) \/ WatcherError(f) PROVE SourceInv' /\ NothingLost
  <2>1. CASE Reads(f)
    BY <1>0, <1>p, <2>1, Unlisted DEF Reads, LoopInv
  <2>2. CASE FileEvent(f)
    BY <1>0, <1>p, <2>2, Unlisted DEF FileEvent, LoopInv
  <2>3. CASE WatcherError(f)
    BY <1>0, <1>p, <2>3, Unlisted DEF WatcherError, LoopInv
  <2> QED BY <1>4, <2>1, <2>2, <2>3
<1>5. ASSUME NEW f \in File, Serves(f) PROVE SourceInv' /\ NothingLost
  <2> DEFINE b == IF text[f] = Bad THEN Empty ELSE text[f]
             ok == text[f] # Bad
  <2>1. /\ pc' = [pc EXCEPT ![f] = "watching"] /\ Report(f, ok) /\ Deliver(f, b)
        /\ UNCHANGED <<contents, changed>> /\ text' = [text EXCEPT ![f] = Bad]
    BY <1>5 DEF Serves
  <2>2. b \in Batch /\ ok \in BOOLEAN /\ text' \in [File -> Batch \union {Bad}] /\ f \notin Poll
    BY <1>e, <1>p, <1>t, <2>1
  <2> HIDE DEF b, ok
  <2> QED BY <2>1, <2>2, ReadEnds
<1>6. ASSUME NEW f \in File, NEW b \in Batch \union {Bad}, FileChanges(f, b) PROVE SourceInv' /\ NothingLost
  <2>1. LoopInv'
    BY <1>0, <1>6 DEF FileChanges, LoopInv
  <2> QED BY <1>6, <2>1, Unlisted DEF FileChanges
<1>7. ASSUME NEW url \in Link, NEW link \in Link, NEW kind \in Kind \union {NoKind}, UpdateCustomStream(url, link, kind)
      PROVE  SourceInv' /\ NothingLost
  <2> DEFINE old == latest["custom"]
             wanted == IF kind # NoKind THEN kind ELSE IF old[url] # NoKind THEN old[url] ELSE DefaultKind
             given == CHOOSE k \in Kind : k = wanted
             new == [l \in Link |-> IF l = link THEN given ELSE IF l = url THEN NoKind ELSE old[l]]
             b == [latest EXCEPT !["custom"] = new]
  <2>1. latest \in [Source -> Batch] /\ overlay \in [Link -> Rotation \union {NoRotation}]
    BY <1>0 DEF ListInv
  <2>2. old \in [Link -> Kind \union {NoKind}]
    BY <1>p, <2>1 DEF Batch
  <2>3. wanted \in Kind
    BY <2>2, KindAssumption
  <2>4. given \in Kind
    <3> HIDE DEF wanted
    <3> QED BY <2>3
  <2> HIDE DEF given
  <2>5. new \in Batch
    BY <2>2, <2>4 DEF Batch
  <2>6. Combine(b, overlay) /\ UNCHANGED <<contents, loops>>
    BY <1>7 DEF UpdateCustomStream, given
  <2> HIDE DEF new
  <2>7. b \in [Source -> Batch] /\ \A s \in Poll \union File : b[s] = latest[s]
    BY <1>p, <2>1, <2>5 DEF Source
  <2> HIDE DEF b
  <2> QED BY <2>1, <2>6, <2>7, Operated
<1>8. ASSUME NEW l \in Link, DeleteCustomStream(l) PROVE SourceInv' /\ NothingLost
  <2> DEFINE new == [latest["custom"] EXCEPT ![l] = NoKind]
             b == [latest EXCEPT !["custom"] = new]
  <2>1. latest \in [Source -> Batch] /\ overlay \in [Link -> Rotation \union {NoRotation}]
    BY <1>0 DEF ListInv
  <2>2. new \in Batch
    BY <1>p, <2>1 DEF Batch
  <2>3. Combine(b, overlay) /\ UNCHANGED <<contents, loops>>
    BY <1>8 DEF DeleteCustomStream
  <2> HIDE DEF new
  <2>4. b \in [Source -> Batch] /\ \A s \in Poll \union File : b[s] = latest[s]
    BY <1>p, <2>1, <2>2 DEF Source
  <2> HIDE DEF b
  <2> QED BY <2>1, <2>3, <2>4, Operated
<1>9. ASSUME NEW l \in Link, NEW r \in Rotation, RotateStream(l, r) PROVE SourceInv' /\ NothingLost
  <2> DEFINE new == [overlay EXCEPT ![l] = r]
  <2>1. latest \in [Source -> Batch] /\ overlay \in [Link -> Rotation \union {NoRotation}]
    BY <1>0 DEF ListInv
  <2>2. new \in [Link -> Rotation \union {NoRotation}]
    BY <2>1
  <2>3. Combine(latest, new) /\ UNCHANGED <<contents, loops>>
    BY <1>9 DEF RotateStream
  <2> HIDE DEF new
  <2> QED BY <2>1, <2>2, <2>3, Operated
<1>10. CASE Advance
  <2>1. /\ cursor' = (cursor + 1) % Len(Playlist) /\ UNCHANGED <<contents, loops, list>> /\ Resolve(cursor')
    BY <1>10 DEF Advance
  <2>2. LoopInv' /\ ListInv'
    BY <1>0, <2>1 DEF LoopInv, ListInv, loops, list
  <2>3. cursor' \in 0 .. (Len(Playlist) - 1)
    BY <1>0, <2>1, UrlsAreLinks DEF PlaylistInv
  <2>4. PlaylistInv'
    BY <2>1, <2>2, <2>3, ResolveKeeps
  <2>5. NothingLost
    BY <2>1 DEF NothingLost, Keeps, list
  <2> QED BY <2>2, <2>4, <2>5 DEF SourceInv
<1>11. CASE UNCHANGED sourceVars
  <2>1. LoopInv' /\ UNCHANGED <<list, playlist>>
    BY <1>0, <1>11 DEF sourceVars, loops, LoopInv
  <2> QED BY <2>1, Unlisted
<1> QED
  BY <1>1, <1>2, <1>3, <1>4, <1>5, <1>6, <1>7, <1>8, <1>9, <1>10, <1>11
     DEF SourceNext, Polling, Watching, Operating

\* At the start, only the custom streams are there, and the playlist has resolved its first URL.
LEMMA SourcesStart == SourceInit => SourceInv
<1> SUFFICES ASSUME SourceInit PROVE SourceInv
  OBVIOUS
<1> DEFINE none == [l \in Link |-> NoId]
<1>1. Empty \in Batch /\ none \in Maps
  BY DEF Empty, Batch, Maps, Ids
<1>2. LoopInv
  BY <1>1, SourceAssumption DEF SourceInit, LoopInv
<1>3. latest \in [Source -> Batch]
  BY <1>1 DEF SourceInit
<1>4. overlay \in [Link -> Rotation \union {NoRotation}]
  BY DEF SourceInit
<1>5. ids = Named(none, latest) /\ streams = Merged(latest, overlay, ids)
  BY DEF SourceInit
<1> HIDE DEF none
<1>6. ids \in Maps /\ \A s \in Source, l \in Link : latest[s][l] # NoKind => ids[l] # NoId
  BY <1>1, <1>5, AllNamed
<1>7. ListInv
  BY <1>3, <1>4, <1>5, <1>6 DEF ListInv
<1> DEFINE l == Url(0)
<1>8. l \in Link /\ 0 \in 0 .. (Len(Playlist) - 1)
  BY UrlsAreLinks
<1>9. cursor = 0 /\ pending = (streams[l].id = NoId) /\ cell = streams[l].id
  BY DEF SourceInit
<1>10. Url(cursor) = l
  BY <1>9
<1> HIDE DEF l
<1>11. \/ streams[l] = NoStream /\ streams[l].id = NoId
       \/ streams[l] # NoStream /\ streams[l].id = ids[l] /\ ids[l] # NoId
  BY <1>3, <1>5, <1>6, <1>8, ListedHasId
<1>12. pending \in BOOLEAN
  BY <1>9
<1>13. pending => streams[l] = NoStream
  BY <1>9, <1>11
<1>14. ~pending => cell = ids[l] /\ cell # NoId
  BY <1>9, <1>11
<1>15. PlaylistInv
  BY <1>8, <1>9, <1>10, <1>12, <1>13, <1>14 DEF PlaylistInv
<1> QED BY <1>2, <1>7, <1>15 DEF SourceInv

\* The invariant says more than what is to be shown of the list.
LEMMA SourcesSound == SourceInv => ListAgrees
<1> SUFFICES ASSUME SourceInv PROVE ListAgrees
  OBVIOUS
<1>1. LoopInv /\ ListInv /\ PlaylistInv
  BY DEF SourceInv
<1>2. /\ latest \in [Source -> Batch] /\ streams = Merged(latest, overlay, ids) /\ ids \in Maps
      /\ \A s \in Source, l \in Link : latest[s][l] # NoKind => ids[l] # NoId
  BY <1>1 DEF ListInv
<1>3. \A l \in Link :
        \/ streams[l] = NoStream /\ \A s \in Source : latest[s][l] = NoKind
        \/ \E s \in Source :
             /\ latest[s][l] # NoKind
             /\ streams[l] = [kind |-> latest[s][l], from |-> s, rotation |-> overlay[l], id |-> ids[l]]
             /\ streams[l] # NoStream
  BY <1>2, Combined
<1>4. ASSUME NEW l \in Link, streams[l] # NoStream
      PROVE  /\ streams[l].id = ids[l] /\ ids[l] # NoId
             /\ \E s \in Source : streams[l].from = s /\ latest[s][l] = streams[l].kind
             /\ streams[l].rotation = overlay[l]
  <2>1. PICK s \in Source :
          /\ latest[s][l] # NoKind
          /\ streams[l] = [kind |-> latest[s][l], from |-> s, rotation |-> overlay[l], id |-> ids[l]]
    BY <1>3, <1>4
  <2>2. /\ streams[l].kind = latest[s][l] /\ streams[l].from = s /\ streams[l].rotation = overlay[l]
        /\ streams[l].id = ids[l]
    BY <2>1
  <2> QED BY <1>2, <2>1, <2>2
<1>5. SourceTypeOK
  BY <1>1, <1>4 DEF SourceTypeOK, LoopInv, ListInv, PlaylistInv
<1>6. IdsDistinct
  BY <1>2 DEF IdsDistinct, Maps
<1>7. DeliveredAreListed
  BY <1>3 DEF DeliveredAreListed
<1>8. OverlayOnlyPatches
  BY <1>4 DEF OverlayOnlyPatches
<1>9. PlaylistAgrees
  BY <1>1 DEF PlaylistAgrees, PlaylistInv
<1> QED BY <1>5, <1>6, <1>7, <1>8, <1>9 DEF ListAgrees

-----------------------------------------------------------------------------
(* The theorems.                                                           *)

\* In whatever order sources deliver, fail and hang, and whatever the operator adds and
\* rotates: what a source has delivered is listed as that source has it, under an id that
\* no other link has, and the playlist's cell has its current URL, or that is not there.
THEOREM ListGoesBySources == SourceSpec => []ListAgrees
BY SourcesStart, SourcesKeep, SourcesSound, PTL DEF SourceSpec

\* A source that fails, or is empty for once, keeps its streams, and a link its id, also
\* while no source has it.
THEOREM StreamsAreKept == SourceSpec => KeepsStreams
<1>1. SourceInv /\ [SourceNext]_sourceVars =>
        [ /\ \A s \in Poll \union File : latest[s] # Empty => latest'[s] # Empty
          /\ \A l \in Link : ids[l] # NoId => ids'[l] = ids[l] ]_sourceVars
  BY SourcesKeep DEF NothingLost, Keeps
<1> QED BY <1>1, SourcesStart, SourcesKeep, PTL DEF SourceSpec, KeepsStreams
=============================================================================
