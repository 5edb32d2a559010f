----------------------------- MODULE WallProofs -----------------------------
(***************************************************************************)
(* The wall shows what the document says, on actors of which at most one   *)
(* is listened to, and a stream that runs goes on running wherever it can, *)
(* for any size of the grid, any streams and any number of presets and     *)
(* actors.                                                                 *)
(***************************************************************************)
EXTENDS MCWall, Induction, SequenceTheorems, FiniteSetTheorems, TLAPS

-----------------------------------------------------------------------------
(* The operators on sets and sequences that the wall is made of.           *)

\* The least of a set of natural numbers.
LEMMA MinOfNat ==
  ASSUME NEW T \in SUBSET Nat, T # {}
  PROVE  Min(T) \in T /\ \A k \in T : Min(T) <= k
BY Least, Zenon DEF Min

\* All but the element at i.
LEMMA Removed ==
  ASSUME NEW S, NEW s \in Seq(S), NEW i \in 1 .. Len(s)
  PROVE  /\ RemoveAt(s, i) \in Seq(S) /\ Len(RemoveAt(s, i)) = Len(s) - 1
         /\ \A j \in 1 .. (Len(s) - 1) : /\ j < i => RemoveAt(s, i)[j] = s[j]
                                         /\ ~ (j < i) => RemoveAt(s, i)[j] = s[j + 1]
<1> DEFINE a == SubSeq(s, 1, i - 1)
           b == SubSeq(s, i + 1, Len(s))
<1>1. a \in Seq(S) /\ Len(a) = i - 1 /\ \A j \in 1 .. (i - 1) : a[j] = s[j]
  OBVIOUS
<1>2. b \in Seq(S) /\ Len(b) = Len(s) - i /\ \A j \in 1 .. (Len(s) - i) : b[j] = s[i + j]
  OBVIOUS
<1>3. RemoveAt(s, i) = a \o b
  BY DEF RemoveAt
<1> HIDE DEF a, b
<1>4. a \o b \in Seq(S) /\ Len(a \o b) = Len(s) - 1
  <2>1. a \o b \in Seq(S) /\ Len(a \o b) = Len(a) + Len(b)
    BY <1>1, <1>2, ConcatProperties
  <2> QED BY <1>1, <1>2, <2>1, LenProperties
<1>5. ASSUME NEW j \in 1 .. (Len(s) - 1), j < i PROVE (a \o b)[j] = s[j]
  BY <1>1, <1>2, <1>5
<1>6. ASSUME NEW j \in 1 .. (Len(s) - 1), ~ (j < i) PROVE (a \o b)[j] = s[j + 1]
  <2>1. (a \o b)[j] = b[j - (i - 1)] /\ j - (i - 1) \in 1 .. (Len(s) - i)
    BY <1>1, <1>2, <1>6
  <2>2. b[j - (i - 1)] = s[i + (j - (i - 1))] /\ i + (j - (i - 1)) = j + 1
    BY <1>2, <2>1
  <2> QED BY <2>1, <2>2, Zenon
<1> QED BY <1>3, <1>4, <1>5, <1>6, Zenon

-----------------------------------------------------------------------------
(* The plan.                                                               *)

\* What the numbers of a sequence say of its elements: Append adds one.
LEMMA Appended ==
  ASSUME NEW S, NEW s \in Seq(S), NEW e \in S
  PROVE  /\ Append(s, e) \in Seq(S) /\ DOMAIN Append(s, e) = 1 .. (Len(s) + 1)
         /\ \A i \in 1 .. Len(s) : Append(s, e)[i] = s[i]
         /\ Append(s, e)[Len(s) + 1] = e
         /\ Len(s) \in Nat /\ DOMAIN s = 1 .. Len(s)
OBVIOUS

\* An actor may take a box if it shows the content already or is ready for any.
Suits(v, box) == v.running \/ v.content = box.content

\* Boxes and actors are matched one to one, with suitable ones among the candidates,
\* and whoever is unused is one of the others.
Allots(boxes, candidates, p) ==
  /\ \A i, j \in DOMAIN p.reused : p.reused[i][1] = p.reused[j][1] => i = j
  /\ \A i, j \in DOMAIN p.reused : p.reused[i][2] = p.reused[j][2] => i = j
  /\ \A i, j \in DOMAIN p.unused : p.unused[i] = p.unused[j] => i = j
  /\ \A i \in DOMAIN p.reused, j \in DOMAIN p.unused : p.reused[i][2] # p.unused[j]
  /\ \A i \in DOMAIN p.reused :
       p.reused[i][2] \in ToSet(candidates) /\ Suits(view[p.reused[i][2]], boxes[p.reused[i][1]])
  /\ \A j \in DOMAIN p.unused : p.unused[j] \in ToSet(candidates)

Plans(boxes, candidates) ==
  {p \in [reused : Seq((1 .. Len(boxes)) \X Actor), unused : Seq(Actor)] : Allots(boxes, candidates, p)}

\* A claim takes an actor that suits, and no one has, for a box that has none.
LEMMA ClaimAllots ==
  ASSUME NEW boxes, NEW candidates, NEW p \in Plans(boxes, candidates),
         NEW b \in 1 .. Len(boxes), \A i \in DOMAIN p.reused : p.reused[i][1] # b,
         NEW h \in DOMAIN p.unused, Suits(view[p.unused[h]], boxes[b])
  PROVE  Claim(p, b, h) \in Plans(boxes, candidates)
<1> DEFINE re == p.reused
           un == p.unused
           pair == <<b, un[h]>>
           more == Append(re, pair)
           rest == RemoveAt(un, h)
<1>1. /\ re \in Seq((1 .. Len(boxes)) \X Actor) /\ un \in Seq(Actor)
      /\ Allots(boxes, candidates, p) /\ pair \in (1 .. Len(boxes)) \X Actor
      /\ h \in 1 .. Len(un) /\ DOMAIN un = 1 .. Len(un)
  BY DEF Plans
<1>2. /\ more \in Seq((1 .. Len(boxes)) \X Actor) /\ DOMAIN more = 1 .. (Len(re) + 1)
      /\ \A i \in 1 .. Len(re) : more[i] = re[i]
      /\ more[Len(re) + 1] = pair
      /\ Len(re) \in Nat /\ DOMAIN re = 1 .. Len(re)
  BY <1>1, Appended
<1>3. /\ rest \in Seq(Actor) /\ DOMAIN rest = 1 .. (Len(un) - 1)
      /\ \A j \in 1 .. (Len(un) - 1) : /\ j < h => rest[j] = un[j]
                                       /\ ~ (j < h) => rest[j] = un[j + 1]
  <2>1. /\ rest \in Seq(Actor) /\ Len(rest) = Len(un) - 1
        /\ \A j \in 1 .. (Len(un) - 1) : /\ j < h => rest[j] = un[j]
                                         /\ ~ (j < h) => rest[j] = un[j + 1]
    <3> HIDE DEF un
    <3> QED BY <1>1, Removed, Zenon DEF rest
  <2> HIDE DEF rest
  <2> QED BY <2>1, LenProperties
<1>4. pair[1] = b /\ pair[2] = un[h]
  OBVIOUS
<1>5. Claim(p, b, h) = [reused |-> more, unused |-> rest]
  BY DEF Claim
<1>6. /\ \A i, j \in DOMAIN re : re[i][1] = re[j][1] => i = j
      /\ \A i, j \in DOMAIN re : re[i][2] = re[j][2] => i = j
      /\ \A i, j \in DOMAIN un : un[i] = un[j] => i = j
      /\ \A i \in DOMAIN re, j \in DOMAIN un : re[i][2] # un[j]
      /\ \A i \in DOMAIN re :
           re[i][2] \in ToSet(candidates) /\ Suits(view[re[i][2]], boxes[re[i][1]])
      /\ \A j \in DOMAIN un : un[j] \in ToSet(candidates)
  BY <1>1 DEF Allots
<1>7. \A i \in DOMAIN re : re[i][1] # b
  OBVIOUS
<1>8. Suits(view[un[h]], boxes[b])
  OBVIOUS
<1> HIDE DEF re, un, pair, more, rest
\* The actors of rest are those of un but the one at h.
<1>9. \A j \in DOMAIN rest : \E k \in DOMAIN un : k # h /\ rest[j] = un[k] /\ (k = j \/ k = j + 1)
  BY <1>1, <1>3
<1>a. \A i \in DOMAIN more : i \in DOMAIN re \/ (i = Len(re) + 1 /\ more[i] = pair)
  BY <1>2
<1>b. \A i \in DOMAIN re : more[i] = re[i] /\ i # Len(re) + 1
  BY <1>2
<1>c. \A i, j \in DOMAIN rest : rest[i] = rest[j] => i = j
  <2>1. Len(un) \in Nat /\ h \in Nat
    BY <1>1
  <2>2. \A j \in DOMAIN rest :
          \/ j < h /\ rest[j] = un[j] /\ j \in DOMAIN un
          \/ j >= h /\ rest[j] = un[j + 1] /\ j + 1 \in DOMAIN un
    BY <1>1, <1>3, <2>1
  <2>3. DOMAIN rest \subseteq Nat
    BY <1>3, <2>1
  <2> QED BY <1>6, <2>1, <2>2, <2>3
<1>d. \A i, j \in DOMAIN more : more[i][1] = more[j][1] => i = j
  BY <1>4, <1>6, <1>7, <1>a, <1>b
<1>e. \A i, j \in DOMAIN more : more[i][2] = more[j][2] => i = j
  BY <1>1, <1>4, <1>6, <1>a, <1>b
<1>f. \A i \in DOMAIN more, j \in DOMAIN rest : more[i][2] # rest[j]
  BY <1>1, <1>4, <1>6, <1>9, <1>a, <1>b
<1>g. \A i \in DOMAIN more :
        more[i][2] \in ToSet(candidates) /\ Suits(view[more[i][2]], boxes[more[i][1]])
  BY <1>1, <1>4, <1>6, <1>8, <1>a, <1>b
<1>h. \A j \in DOMAIN rest : rest[j] \in ToSet(candidates)
  BY <1>6, <1>9
<1>i. /\ Claim(p, b, h).reused = more /\ Claim(p, b, h).unused = rest
      /\ Claim(p, b, h) \in [reused : Seq((1 .. Len(boxes)) \X Actor), unused : Seq(Actor)]
  BY <1>2, <1>3, <1>5
<1>j. Allots(boxes, candidates, Claim(p, b, h))
  BY <1>c, <1>d, <1>e, <1>f, <1>g, <1>h, <1>i DEF Allots
<1> QED BY <1>i, <1>j DEF Plans

\* So each turn is part of a plan.
LEMMA TurnAllots ==
  ASSUME NEW boxes, NEW candidates, NEW p \in Plans(boxes, candidates),
         NEW r \in (1 .. 4) \X (1 .. Len(boxes))
  PROVE  Turn(boxes, p, r) \in Plans(boxes, candidates)
<1> DEFINE hits == {i \in 1 .. Len(p.unused) : Matches(view[p.unused[i]], r[1], boxes[r[2]])}
           hit == IF hits # {} THEN Min(hits) ELSE 0
<1>1. p.unused \in Seq(Actor) /\ DOMAIN p.unused = 1 .. Len(p.unused)
  BY DEF Plans
<1>2. hit = 0 \/ hit \in hits
  <2>1. hits \in SUBSET Nat
    OBVIOUS
  <2> HIDE DEF hits
  <2> QED BY <2>1, MinOfNat, Zenon
<1>3. Turn(boxes, p, r) = IF hit = 0 \/ \E i \in DOMAIN p.reused : p.reused[i][1] = r[2] THEN p
                          ELSE Claim(p, r[2], hit)
  BY DEF Turn, SelectInSeq
<1> HIDE DEF hit
<1>4. ASSUME hit \in hits, \A i \in DOMAIN p.reused : p.reused[i][1] # r[2]
      PROVE  Claim(p, r[2], hit) \in Plans(boxes, candidates)
  <2>1. Suits(view[p.unused[hit]], boxes[r[2]])
    BY <1>4 DEF Matches, Suits
  <2> QED BY <1>1, <1>4, <2>1, ClaimAllots
<1> QED BY <1>2, <1>3, <1>4

\* The turns that planViewLayout takes.
LEMMA RoundsOf ==
  ASSUME NEW n \in Nat
  PROVE  /\ Len(Rounds(n)) = 4 * n
         /\ \A k \in 1 .. (4 * n) : Rounds(n)[k] \in (1 .. 4) \X (1 .. n)
         /\ \A k \in 1 .. (4 * n) : \E m \in 1 .. 4 : \E b \in 1 .. n :
              Rounds(n)[k] = <<m, b>> /\ k = (m - 1) * n + b
<1>1. Rounds(n) = [k \in 1 .. (4 * n) |-> <<((k - 1) \div n) + 1, ((k - 1) % n) + 1>>]
  BY DEF Rounds
<1>2. ASSUME NEW k \in 1 .. (4 * n)
      PROVE  /\ ((k - 1) \div n) + 1 \in 1 .. 4 /\ ((k - 1) % n) + 1 \in 1 .. n
             /\ k = ((k - 1) \div n) * n + ((k - 1) % n) + 1
  OBVIOUS
<1>3. 4 * n \in Nat
  OBVIOUS
<1>4. Len(Rounds(n)) = 4 * n
  BY <1>1, <1>3
<1>5. \A k \in 1 .. (4 * n) : Rounds(n)[k] = <<((k - 1) \div n) + 1, ((k - 1) % n) + 1>>
  BY <1>1
<1>6. ASSUME NEW k \in 1 .. (4 * n)
      PROVE  \E m \in 1 .. 4 : \E b \in 1 .. n : Rounds(n)[k] = <<m, b>> /\ k = (m - 1) * n + b
  <2> DEFINE i == ((k - 1) \div n) + 1
             j == ((k - 1) % n) + 1
  <2>1. i \in 1 .. 4 /\ j \in 1 .. n /\ Rounds(n)[k] = <<i, j>>
    BY <1>2, <1>5
  <2>2. k = (i - 1) * n + j
    BY <1>2
  <2> HIDE DEF i, j
  <2> QED BY <2>1, <2>2
<1>7. \A k \in 1 .. (4 * n) : Rounds(n)[k] \in (1 .. 4) \X (1 .. n)
  BY <1>6
<1> QED BY <1>4, <1>6, <1>7, Zenon

\* f says what a plan is after each of its turns, the last of which make it what it is.
Turning(boxes, candidates, f) ==
  /\ f[0] = [reused |-> <<>>, unused |-> candidates]
  /\ f[0] \in Plans(boxes, candidates)
  /\ \A k \in 1 .. (4 * Len(boxes)) :
       f[k - 1] \in Plans(boxes, candidates) =>
         /\ f[k] \in Plans(boxes, candidates)
         /\ f[k] = Turn(boxes, f[k - 1], Rounds(Len(boxes))[k])
  /\ Plan(boxes, candidates) = f[4 * Len(boxes)]

\* The whole plan is what it is after its turns.
LEMMA PlanTurns ==
  ASSUME NEW boxes, Len(boxes) \in Nat, NEW candidates \in Seq(Actor),
         \A i, j \in DOMAIN candidates : candidates[i] = candidates[j] => i = j
  PROVE  \E f : Turning(boxes, candidates, f)
<1> DEFINE n == 4 * Len(boxes)
           r == Rounds(Len(boxes))
           base == [reused |-> <<>>, unused |-> candidates]
           S == Plans(boxes, candidates)
           step == [k \in 1 .. n |-> [p \in S |-> Turn(boxes, p, r[k])]]
           Is(f) == f = [k \in 0 .. n |-> IF k = 0 THEN base
                                          ELSE CHOOSE y \in {Turn(boxes, p, r[k]) : p \in {f[k - 1]}} : TRUE]
           f == CHOOSE g : Is(g)
<1>1. base \in S
  BY DEF Plans, Allots, ToSet
<1>2. n \in Nat /\ Len(r) = n /\ \A k \in 1 .. n : r[k] \in (1 .. 4) \X (1 .. Len(boxes))
  <2>1. /\ Len(Rounds(Len(boxes))) = 4 * Len(boxes)
        /\ \A k \in 1 .. (4 * Len(boxes)) : Rounds(Len(boxes))[k] \in (1 .. 4) \X (1 .. Len(boxes))
    BY RoundsOf, Zenon
  <2> QED BY <2>1
<1>3. Plan(boxes, candidates) = f[n]
  BY <1>2 DEF Plan, Fold, With
<1> HIDE DEF n, r, base, S
<1>4. \A k \in 1 .. n : \A p \in S : Turn(boxes, p, r[k]) \in S
  BY <1>2, TurnAllots DEF S
<1>5. PICK g \in [0 .. n -> S] : Iterates(g, n, base, step)
  <2>1. Closed(S, n, step)
    BY <1>4 DEF Closed
  <2>2. n \in Nat
    BY <1>2
  <2> HIDE DEF step
  <2> QED BY <1>1, <2>1, <2>2, Recursion, Zenon
<1>6. \A k \in 1 .. n : g[k - 1] \in S
  <2>1. \A k \in 1 .. n : k - 1 \in 0 .. n
    BY <1>2
  <2> QED BY <1>5, <2>1
<1>7. Is(g)
  <2>1. \A k \in 1 .. n : step[k][g[k - 1]] = Turn(boxes, g[k - 1], r[k])
    BY <1>6
  <2>2. \A k \in 0 .. n : k # 0 => k \in 1 .. n
    BY <1>2
  <2> HIDE DEF step
  <2>3. g = [k \in 0 .. n |-> IF k = 0 THEN base ELSE Turn(boxes, g[k - 1], r[k])]
    BY <1>5, <2>1, <2>2 DEF Iterates
  <2> QED BY <2>3
<1>8. Is(f)
  BY <1>7
<1> HIDE DEF f
<1>9. f[0] = base /\ \A k \in 1 .. n : f[k] = Turn(boxes, f[k - 1], r[k])
  <2>1. 0 \in 0 .. n /\ \A k \in 1 .. n : k \in 0 .. n /\ k # 0
    BY <1>2
  <2> QED BY <1>8, <2>1
<1>10. f[0] \in S /\ \A k \in 1 .. n : f[k - 1] \in S => f[k] \in S
  BY <1>1, <1>4, <1>9
<1> HIDE DEF Is
<1> QED BY <1>3, <1>9, <1>10 DEF S, n, r, base, Turning

-----------------------------------------------------------------------------
(* Who is preferred.  The matchers are numbered, and the first three ask   *)
(* for the content of the box.                                             *)

\* Every actor has one place.
Places ==
  /\ live \in Seq(Actor) /\ parked \in Seq(Actor)
  /\ \A i, j \in DOMAIN live : live[i] = live[j] => i = j
  /\ \A i, j \in DOMAIN parked : parked[i] = parked[j] => i = j
  /\ ToSet(live) \intersect ToSet(parked) = {}

\* The sequence of all actors.
LEMMA CandidatesOf ==
  ASSUME Places
  PROVE  /\ Candidates \in Seq(Actor) /\ ToSet(Candidates) = Alive
         /\ \A i, j \in DOMAIN Candidates : Candidates[i] = Candidates[j] => i = j
<1> DEFINE all == live \o parked
<1>1. /\ live \in Seq(Actor) /\ parked \in Seq(Actor)
      /\ DOMAIN live = 1 .. Len(live) /\ DOMAIN parked = 1 .. Len(parked)
      /\ Len(live) \in Nat /\ Len(parked) \in Nat
  BY DEF Places
<1>2. /\ all \in Seq(Actor) /\ Len(all) = Len(live) + Len(parked)
      /\ DOMAIN all = 1 .. (Len(live) + Len(parked))
  BY <1>1
<1>3. \A i \in 1 .. Len(live) : i \in DOMAIN all /\ all[i] = live[i]
  BY <1>1
<1>4. \A i \in 1 .. Len(parked) : Len(live) + i \in DOMAIN all /\ all[Len(live) + i] = parked[i]
  BY <1>1
<1> HIDE DEF all
<1>5. \A i \in DOMAIN all :
        \/ i \in DOMAIN live
        \/ \E j \in DOMAIN parked : i = Len(live) + j
  <2> SUFFICES ASSUME NEW i \in DOMAIN all, ~ (i \in DOMAIN live)
               PROVE  \E j \in DOMAIN parked : i = Len(live) + j
    OBVIOUS
  <2>1. i - Len(live) \in DOMAIN parked /\ i = Len(live) + (i - Len(live))
    BY <1>1, <1>2
  <2> QED BY <2>1
<1>6. ToSet(all) = Alive
  BY <1>1, <1>3, <1>4, <1>5 DEF Alive, ToSet
<1>7. \A i, j \in DOMAIN all : all[i] = all[j] => i = j
  <2>1. \A i \in DOMAIN live, j \in DOMAIN parked : live[i] # parked[j]
    BY DEF Places, ToSet
  <2>2. \A i \in DOMAIN all :
          \/ i \in DOMAIN live /\ all[i] = live[i]
          \/ \E j \in DOMAIN parked : i = Len(live) + j /\ all[i] = parked[j]
    BY <1>1, <1>3, <1>4, <1>5
  <2>3. /\ \A i, j \in DOMAIN live : live[i] = live[j] => i = j
        /\ \A i, j \in DOMAIN parked : parked[i] = parked[j] => i = j
    BY DEF Places
  <2> SUFFICES ASSUME NEW i \in DOMAIN all, NEW j \in DOMAIN all, all[i] = all[j] PROVE i = j
    OBVIOUS
  <2>4. CASE i \in DOMAIN live /\ all[i] = live[i]
    <3>1. j \in DOMAIN live /\ all[j] = live[j]
      BY <2>1, <2>2, <2>4
    <3> QED BY <2>3, <2>4, <3>1
  <2>5. CASE \E k \in DOMAIN parked : i = Len(live) + k /\ all[i] = parked[k]
    <3>1. \E k \in DOMAIN parked : j = Len(live) + k /\ all[j] = parked[k]
      BY <2>1, <2>2, <2>5
    <3> QED BY <2>3, <2>5, <3>1
  <2> QED BY <2>2, <2>4, <2>5
<1> QED BY <1>2, <1>6, <1>7 DEF Candidates, all

\* Whoever matches a box by one of them does by the next.
LEMMA MatchesLess ==
  ASSUME NEW v, NEW box
  PROVE  /\ Matches(v, 1, box) => Matches(v, 2, box) /\ Matches(v, 3, box)
         /\ Matches(v, 2, box) => Matches(v, 3, box)
BY DEF Matches

\* The actors that have no box they match by m, in a set R of pairs of boxes and actors.
Spare(boxes, R, m) ==
  {a \in Alive : \A b : <<b, a>> \in R => ~ Matches(view[a], m, boxes[b])}

\* A box has an actor that matches by m, or no spare one does; by the first matcher, it has
\* one of the wall if a spare one of the wall does.
Settled(boxes, R, b, m) ==
  \/ \E a \in Alive :
       /\ <<b, a>> \in R /\ Matches(view[a], m, boxes[b])
       /\ m = 1 /\ a \notin ToSet(live) =>
            \A v \in Spare(boxes, R, 1) \intersect ToSet(live) : ~ Matches(view[v], 1, boxes[b])
  \/ \A a \in Spare(boxes, R, m) : ~ Matches(view[a], m, boxes[b])

\* It stays so when there are more pairs.
LEMMA SettledStays ==
  ASSUME NEW boxes, NEW R, NEW RR, R \subseteq RR, NEW b, NEW m, Settled(boxes, R, b, m)
  PROVE  Settled(boxes, RR, b, m)
<1>1. Spare(boxes, RR, m) \subseteq Spare(boxes, R, m)
  BY DEF Spare
<1>2. Spare(boxes, RR, 1) \subseteq Spare(boxes, R, 1)
  BY DEF Spare
<1>3. CASE \E a \in Alive :
             /\ <<b, a>> \in R /\ Matches(view[a], m, boxes[b])
             /\ m = 1 /\ a \notin ToSet(live) =>
                  \A v \in Spare(boxes, R, 1) \intersect ToSet(live) :
                    ~ Matches(view[v], 1, boxes[b])
  <2>1. PICK a \in Alive :
          /\ <<b, a>> \in RR /\ Matches(view[a], m, boxes[b])
          /\ m = 1 /\ a \notin ToSet(live) =>
               \A v \in Spare(boxes, RR, 1) \intersect ToSet(live) : ~ Matches(view[v], 1, boxes[b])
    BY <1>2, <1>3, Zenon
  <2> QED BY <2>1, Zenon DEF Settled
<1>4. CASE \A a \in Spare(boxes, R, m) : ~ Matches(view[a], m, boxes[b])
  <2>1. \A a \in Spare(boxes, RR, m) : ~ Matches(view[a], m, boxes[b])
    BY <1>1, <1>4
  <2> QED BY <2>1, Zenon DEF Settled
<1> QED BY <1>3, <1>4, Zenon DEF Settled

\* A plan after k of the turns of n boxes.
Staged(boxes, n, k, p) ==
  /\ p \in Plans(boxes, Candidates)
  /\ \A a \in Alive : \/ \E j \in DOMAIN p.unused : p.unused[j] = a
                      \/ \E b : <<b, a>> \in ToSet(p.reused)
  /\ \A i, j \in DOMAIN p.unused :
       i < j /\ p.unused[j] \in ToSet(live) => p.unused[i] \in ToSet(live)
  /\ \A i \in DOMAIN p.reused :
       /\ \A m \in 1 .. 3 : k <= m * n => Matches(view[p.reused[i][2]], m, boxes[p.reused[i][1]])
       /\ k <= n => p.reused[i][1] <= k
  /\ \A m \in 1 .. 3, b \in 1 .. n : (m - 1) * n + b <= k => Settled(boxes, ToSet(p.reused), b, m)

\* What the turns before the one of box b at matcher m are.
LEMMA TurnsBefore ==
  ASSUME NEW n \in Nat, NEW m \in 1 .. 4, NEW b \in 1 .. n, NEW k \in 1 .. (4 * n),
         k = (m - 1) * n + b
  PROVE  /\ \A l \in 1 .. 3, d \in 1 .. n : (l - 1) * n + d <= k =>
              (l - 1) * n + d <= k - 1 \/ (l = m /\ d = b)
         /\ \A l \in 1 .. 3 : k <= l * n => m <= l /\ k - 1 <= l * n
         /\ m # 4 => k - 1 <= m * n
         /\ k <= n => m = 1 /\ b = k
         /\ m = 1 => k = b /\ k - 1 <= n
<1>1. \A l \in 1 .. 3 : l = 1 \/ l = 2 \/ l = 3
  OBVIOUS
<1>2. CASE m = 1
  BY <1>1, <1>2
<1>3. CASE m = 2
  BY <1>1, <1>3
<1>4. CASE m = 3
  BY <1>1, <1>4
<1>5. CASE m = 4
  BY <1>1, <1>5
<1> QED BY <1>2, <1>3, <1>4, <1>5

\* What a claim leaves: the others in their order.
LEMMA ClaimOf ==
  ASSUME NEW boxes, NEW p \in Plans(boxes, Candidates), NEW b \in 1 .. Len(boxes),
         NEW h \in DOMAIN p.unused
  PROVE  /\ ToSet(Claim(p, b, h).reused) = ToSet(p.reused) \union {<<b, p.unused[h]>>}
         /\ \A i, j \in DOMAIN Claim(p, b, h).unused :
              i < j => \E k, l \in DOMAIN p.unused :
                         /\ k < l /\ Claim(p, b, h).unused[i] = p.unused[k]
                         /\ Claim(p, b, h).unused[j] = p.unused[l]
         /\ \A k \in DOMAIN p.unused :
              k # h => \E i \in DOMAIN Claim(p, b, h).unused : Claim(p, b, h).unused[i] = p.unused[k]
<1> DEFINE re == p.reused
           un == p.unused
           pair == <<b, un[h]>>
           more == Append(re, pair)
           rest == RemoveAt(un, h)
           n == Len(un)
<1>1. /\ re \in Seq((1 .. Len(boxes)) \X Actor) /\ un \in Seq(Actor)
      /\ pair \in (1 .. Len(boxes)) \X Actor
      /\ h \in 1 .. n /\ DOMAIN un = 1 .. n /\ n \in Nat
  BY DEF Plans
<1>2. /\ DOMAIN more = 1 .. (Len(re) + 1) /\ \A i \in 1 .. Len(re) : more[i] = re[i]
      /\ more[Len(re) + 1] = pair /\ Len(re) \in Nat /\ DOMAIN re = 1 .. Len(re)
  BY <1>1, Appended
<1>3. /\ rest \in Seq(Actor) /\ DOMAIN rest = 1 .. (n - 1)
      /\ \A j \in 1 .. (n - 1) : /\ j < h => rest[j] = un[j]
                                 /\ ~ (j < h) => rest[j] = un[j + 1]
  <2>1. /\ rest \in Seq(Actor) /\ Len(rest) = Len(un) - 1
        /\ \A j \in 1 .. (Len(un) - 1) : /\ j < h => rest[j] = un[j]
                                         /\ ~ (j < h) => rest[j] = un[j + 1]
    <3> HIDE DEF un
    <3> QED BY <1>1, Removed, Zenon DEF rest, n
  <2> HIDE DEF rest
  <2> QED BY <2>1, LenProperties
<1>4. Claim(p, b, h).reused = more /\ Claim(p, b, h).unused = rest
  BY DEF Claim
<1> HIDE DEF re, un, pair, more, rest, n
<1>5. ToSet(more) = ToSet(re) \union {pair}
  <2>1. \A i \in DOMAIN more : i \in DOMAIN re \/ i = Len(re) + 1
    BY <1>2
  <2>2. \A i \in DOMAIN re : i \in DOMAIN more /\ more[i] = re[i]
    BY <1>2
  <2>3. Len(re) + 1 \in DOMAIN more
    BY <1>2
  <2> QED BY <1>2, <2>1, <2>2, <2>3 DEF ToSet
<1>6. ASSUME NEW i \in DOMAIN rest, NEW j \in DOMAIN rest, i < j
      PROVE  \E k, l \in DOMAIN un : k < l /\ rest[i] = un[k] /\ rest[j] = un[l]
  <2>1. i \in 1 .. (n - 1) /\ j \in 1 .. (n - 1)
    BY <1>3
  <2>2. i \in DOMAIN un /\ i + 1 \in DOMAIN un /\ j \in DOMAIN un /\ j + 1 \in DOMAIN un
    BY <1>1, <2>1
  <2>3. CASE j < h
    BY <1>1, <1>3, <1>6, <2>1, <2>2, <2>3
  <2>4. CASE ~ (j < h) /\ i < h
    BY <1>1, <1>3, <1>6, <2>1, <2>2, <2>4
  <2>5. CASE ~ (j < h) /\ ~ (i < h)
    BY <1>1, <1>3, <1>6, <2>1, <2>2, <2>5
  <2> QED BY <2>3, <2>4, <2>5
<1>7. ASSUME NEW k \in DOMAIN un, k # h PROVE \E i \in DOMAIN rest : rest[i] = un[k]
  <2>1. CASE k < h
    <3>1. k \in 1 .. (n - 1)
      BY <1>1, <2>1
    <3> QED BY <1>3, <2>1, <3>1
  <2>2. CASE ~ (k < h)
    <3>1. k - 1 \in 1 .. (n - 1) /\ ~ (k - 1 < h) /\ (k - 1) + 1 = k
      BY <1>1, <1>7, <2>2
    <3> QED BY <1>3, <3>1
  <2> QED BY <2>1, <2>2
<1> QED BY <1>4, <1>5, <1>6, <1>7 DEF re, un, pair

\* The first spare actor that matches is taken, if the box is still free and there is one.
LEMMA TurnOf ==
  ASSUME NEW boxes, NEW p \in Plans(boxes, Candidates), NEW m \in 1 .. 4, NEW b \in 1 .. Len(boxes)
  PROVE  \/ /\ Turn(boxes, p, <<m, b>>) = p
            /\ \E i \in DOMAIN p.reused : p.reused[i][1] = b
         \/ /\ Turn(boxes, p, <<m, b>>) = p
            /\ \A j \in DOMAIN p.unused : ~ Matches(view[p.unused[j]], m, boxes[b])
         \/ \E h \in DOMAIN p.unused :
              /\ Turn(boxes, p, <<m, b>>) = Claim(p, b, h)
              /\ Matches(view[p.unused[h]], m, boxes[b])
              /\ \A j \in DOMAIN p.unused :
                   Matches(view[p.unused[j]], m, boxes[b]) => h <= j
<1> DEFINE hits == {i \in 1 .. Len(p.unused) : Matches(view[p.unused[i]], m, boxes[b])}
           hit == IF hits # {} THEN Min(hits) ELSE 0
<1>1. DOMAIN p.unused = 1 .. Len(p.unused)
  BY DEF Plans
<1>2. hits = {} \/ (Min(hits) \in hits /\ \A j \in hits : Min(hits) <= j)
  <2>1. hits \in SUBSET Nat
    OBVIOUS
  <2> HIDE DEF hits
  <2> QED BY <2>1, MinOfNat, Zenon
<1>3. Turn(boxes, p, <<m, b>>) = IF hit = 0 \/ \E i \in DOMAIN p.reused : p.reused[i][1] = b THEN p
                                 ELSE Claim(p, b, hit)
  BY DEF Turn, SelectInSeq
<1>4. CASE hits = {}
  BY <1>1, <1>3, <1>4
<1>5. CASE hits # {}
  <2>1. hit = Min(hits) /\ hit \in hits /\ \A j \in hits : hit <= j
    BY <1>2, <1>5
  <2>2. hit # 0 /\ hit \in DOMAIN p.unused /\ Matches(view[p.unused[hit]], m, boxes[b])
    BY <1>1, <2>1
  <2>3. \A j \in DOMAIN p.unused : Matches(view[p.unused[j]], m, boxes[b]) => hit <= j
    BY <1>1, <2>1
  <2> HIDE DEF hit, hits
  <2>4. CASE \E i \in DOMAIN p.reused : p.reused[i][1] = b
    BY <1>3, <2>4
  <2>5. CASE ~ \E i \in DOMAIN p.reused : p.reused[i][1] = b
    BY <1>3, <2>2, <2>3, <2>5
  <2> QED BY <2>4, <2>5
<1> QED BY <1>4, <1>5

\* A turn settles its box, and unsettles none.
LEMMA TurnSettles ==
  ASSUME Places, NEW boxes, NEW n \in Nat, n = Len(boxes), NEW m \in 1 .. 4, NEW b \in 1 .. n,
         NEW k \in 1 .. (4 * n), k = (m - 1) * n + b,
         NEW p, Staged(boxes, n, k - 1, p)
  PROVE  Staged(boxes, n, k, Turn(boxes, p, <<m, b>>))
<1> DEFINE q == Turn(boxes, p, <<m, b>>)
           R == ToSet(p.reused)
           RR == ToSet(q.reused)
<1>1. /\ p \in Plans(boxes, Candidates)
      /\ \A a \in Alive : \/ \E j \in DOMAIN p.unused : p.unused[j] = a
                          \/ \E d : <<d, a>> \in R
      /\ \A i, j \in DOMAIN p.unused :
           i < j /\ p.unused[j] \in ToSet(live) => p.unused[i] \in ToSet(live)
      /\ \A i \in DOMAIN p.reused :
           /\ \A l \in 1 .. 3 :
                k - 1 <= l * n => Matches(view[p.reused[i][2]], l, boxes[p.reused[i][1]])
           /\ k - 1 <= n => p.reused[i][1] <= k - 1
      /\ \A l \in 1 .. 3, d \in 1 .. n : (l - 1) * n + d <= k - 1 => Settled(boxes, R, d, l)
  BY DEF Staged
<1>2. /\ \A l \in 1 .. 3, d \in 1 .. n : (l - 1) * n + d <= k =>
           (l - 1) * n + d <= k - 1 \/ (l = m /\ d = b)
      /\ \A l \in 1 .. 3 : k <= l * n => m <= l /\ k - 1 <= l * n
      /\ m # 4 => k - 1 <= m * n
      /\ k <= n => m = 1 /\ b = k
      /\ m = 1 => k = b /\ k - 1 <= n
  BY TurnsBefore
<1>3. b \in 1 .. Len(boxes)
  OBVIOUS
<1>4. \/ /\ q = p
         /\ \E i \in DOMAIN p.reused : p.reused[i][1] = b
      \/ /\ q = p
         /\ \A j \in DOMAIN p.unused : ~ Matches(view[p.unused[j]], m, boxes[b])
      \/ \E h \in DOMAIN p.unused :
           /\ q = Claim(p, b, h)
           /\ Matches(view[p.unused[h]], m, boxes[b])
           /\ \A j \in DOMAIN p.unused : Matches(view[p.unused[j]], m, boxes[b]) => h <= j
  BY <1>1, <1>3, TurnOf
<1>5. q \in Plans(boxes, Candidates)
  <2>1. <<m, b>> \in (1 .. 4) \X (1 .. Len(boxes))
    BY <1>3
  <2> QED BY <1>1, <2>1, TurnAllots
<1> HIDE DEF q
<1>6. /\ DOMAIN p.unused \subseteq Nat /\ DOMAIN p.reused = 1 .. Len(p.reused)
      /\ \A i \in DOMAIN p.reused :
           /\ p.reused[i] = <<p.reused[i][1], p.reused[i][2]>>
           /\ p.reused[i] \in R /\ p.reused[i][2] \in Alive
      /\ \A j \in DOMAIN p.unused : p.unused[j] \in Alive
  <2>1. /\ p.unused \in Seq(Actor) /\ p.reused \in Seq((1 .. n) \X Actor)
        /\ Allots(boxes, Candidates, p)
    BY <1>1 DEF Plans
  <2>2. \A i \in DOMAIN p.reused : p.reused[i] \in (1 .. n) \X Actor
    BY <2>1
  <2>3. DOMAIN p.unused \subseteq Nat /\ DOMAIN p.reused = 1 .. Len(p.reused)
    BY <2>1
  <2>4. ToSet(Candidates) = Alive
    BY CandidatesOf
  <2>5. \A i \in DOMAIN p.reused : p.reused[i][2] \in Alive
    BY <2>1, <2>4 DEF Allots
  <2>6. \A j \in DOMAIN p.unused : p.unused[j] \in Alive
    BY <2>1, <2>4 DEF Allots
  <2> QED BY <2>2, <2>3, <2>5, <2>6 DEF ToSet
\* An actor with a box is not spare for a matcher whose turns are not over.
<1>7. ASSUME NEW l \in 1 .. 3, k - 1 <= l * n, NEW d, NEW a, <<d, a>> \in R
      PROVE  Matches(view[a], l, boxes[d])
  <2>1. PICK i \in DOMAIN p.reused : p.reused[i] = <<d, a>>
    BY <1>7 DEF ToSet
  <2>2. p.reused[i][1] = d /\ p.reused[i][2] = a
    BY <2>1
  <2> QED BY <1>1, <1>7, <2>2
<1>8. ASSUME NEW l \in 1 .. 3, k - 1 <= l * n, NEW a \in Spare(boxes, R, l)
      PROVE  \E j \in DOMAIN p.unused : p.unused[j] = a
  <2>1. a \in Alive /\ \A d : <<d, a>> \in R => ~ Matches(view[a], l, boxes[d])
    BY <1>8 DEF Spare
  <2>2. \A d : <<d, a>> \notin R
    BY <1>7, <1>8, <2>1
  <2> QED BY <1>1, <2>1, <2>2
\* The box has its actor.
<1>9. ASSUME q = p, NEW i \in DOMAIN p.reused, p.reused[i][1] = b, m \in 1 .. 3
      PROVE  Settled(boxes, R, b, m)
  <2>1. k - 1 <= m * n
    BY <1>2, <1>9
  <2>2. m # 1
    <3>1. k - 1 <= n => p.reused[i][1] <= k - 1
      BY <1>1, <1>9
    <3> QED BY <1>2, <1>9, <3>1
  <2>3. <<b, p.reused[i][2]>> \in R /\ p.reused[i][2] \in Alive
    BY <1>6, <1>9
  <2>4. Matches(view[p.reused[i][2]], m, boxes[b])
    BY <1>7, <1>9, <2>1, <2>3
  <2> QED BY <2>2, <2>3, <2>4 DEF Settled
\* No one is left for it.
<1>10. ASSUME \A j \in DOMAIN p.unused : ~ Matches(view[p.unused[j]], m, boxes[b]), m \in 1 .. 3
       PROVE  Settled(boxes, R, b, m)
  <2>1. k - 1 <= m * n
    BY <1>2, <1>10
  <2>2. \A a \in Spare(boxes, R, m) : ~ Matches(view[a], m, boxes[b])
    BY <1>8, <1>10, <2>1
  <2> QED BY <2>2 DEF Settled
<1>11. ASSUME q = p PROVE Staged(boxes, n, k, q)
  <2>1. m \in 1 .. 3 => Settled(boxes, R, b, m)
    <3>1. CASE \E i \in DOMAIN p.reused : p.reused[i][1] = b
      BY <1>9, <1>11, <3>1
    <3>2. CASE \A j \in DOMAIN p.unused : ~ Matches(view[p.unused[j]], m, boxes[b])
      BY <1>10, <3>2
    <3>3. CASE \E h \in DOMAIN p.unused : q = Claim(p, b, h)
      <4>1. PICK h \in DOMAIN p.unused : p = Claim(p, b, h)
        BY <1>11, <3>3
      <4>2. p.reused = Append(p.reused, <<b, p.unused[h]>>)
        BY <4>1 DEF Claim
      <4>3. Len(p.reused) \in Nat /\ Len(Append(p.reused, <<b, p.unused[h]>>)) = Len(p.reused) + 1
        <5>1. p.reused \in Seq((1 .. n) \X Actor)
          BY <1>1 DEF Plans
        <5>2. p.unused \in Seq(Actor)
          BY <1>1 DEF Plans
        <5>3. <<b, p.unused[h]>> \in (1 .. n) \X Actor
          BY <5>2
        <5> QED BY <5>1, <5>3, AppendProperties, LenProperties
      <4> QED BY <4>2, <4>3
    <3> QED BY <1>4, <3>1, <3>2, <3>3
  <2>2. \A l \in 1 .. 3, d \in 1 .. n : (l - 1) * n + d <= k => Settled(boxes, R, d, l)
    BY <1>1, <1>2, <2>1
  <2>3. \A i \in DOMAIN p.reused :
          /\ \A l \in 1 .. 3 : k <= l * n => Matches(view[p.reused[i][2]], l, boxes[p.reused[i][1]])
          /\ k <= n => p.reused[i][1] <= k
    <3> SUFFICES ASSUME NEW i \in DOMAIN p.reused
                 PROVE  /\ \A l \in 1 .. 3 : k <= l * n =>
                             Matches(view[p.reused[i][2]], l, boxes[p.reused[i][1]])
                        /\ k <= n => p.reused[i][1] <= k
      OBVIOUS
    <3>1. p.reused[i][1] \in 1 .. n
      BY <1>1 DEF Plans
    <3> QED BY <1>1, <1>2, <3>1
  <2>4. Staged(boxes, n, k, p)
    BY <1>1, <2>2, <2>3 DEF Staged
  <2> QED BY <1>11, <2>4
\* It takes one.
<1>12. ASSUME NEW h \in DOMAIN p.unused, q = Claim(p, b, h),
              Matches(view[p.unused[h]], m, boxes[b]),
              \A j \in DOMAIN p.unused : Matches(view[p.unused[j]], m, boxes[b]) => h <= j
       PROVE  Staged(boxes, n, k, q)
  <2> DEFINE a == p.unused[h]
  <2>1. /\ RR = R \union {<<b, a>>}
        /\ \A i, j \in DOMAIN q.unused :
             i < j => \E x, y \in DOMAIN p.unused :
                        x < y /\ q.unused[i] = p.unused[x] /\ q.unused[j] = p.unused[y]
        /\ \A x \in DOMAIN p.unused :
             x # h => \E i \in DOMAIN q.unused : q.unused[i] = p.unused[x]
    <3>1. /\ ToSet(Claim(p, b, h).reused) = ToSet(p.reused) \union {<<b, p.unused[h]>>}
          /\ \A i, j \in DOMAIN Claim(p, b, h).unused :
               i < j => \E x, y \in DOMAIN p.unused :
                          /\ x < y /\ Claim(p, b, h).unused[i] = p.unused[x]
                          /\ Claim(p, b, h).unused[j] = p.unused[y]
          /\ \A x \in DOMAIN p.unused :
               x # h => \E i \in DOMAIN Claim(p, b, h).unused : Claim(p, b, h).unused[i] = p.unused[x]
      BY <1>1, <1>3, ClaimOf
    <3> QED BY <1>12, <3>1
  <2>2. a \in Alive /\ <<b, a>> \in RR /\ R \subseteq RR /\ Matches(view[a], m, boxes[b])
    BY <1>6, <1>12, <2>1
  <2>3. \A c \in Alive : \/ \E j \in DOMAIN q.unused : q.unused[j] = c
                         \/ \E d : <<d, c>> \in RR
    BY <1>1, <2>1, <2>2
  <2>4. \A i, j \in DOMAIN q.unused :
          i < j /\ q.unused[j] \in ToSet(live) => q.unused[i] \in ToSet(live)
    BY <1>1, <2>1
  <2>5. ASSUME m = 1, a \notin ToSet(live), NEW v \in Spare(boxes, RR, 1) \intersect ToSet(live)
        PROVE  ~ Matches(view[v], 1, boxes[b])
    <3>1. v \in Spare(boxes, R, 1)
      BY <2>2, <2>5 DEF Spare
    <3>2. k - 1 <= 1 * n /\ 1 \in 1 .. 3
      BY <1>2, <2>5
    <3>3. PICK j \in DOMAIN p.unused : p.unused[j] = v
      BY <1>8, <3>1, <3>2
    <3>4. ~ (h < j)
      BY <1>1, <2>5, <3>3
    <3>5. h # j /\ h \in Nat /\ j \in Nat
      BY <1>6, <2>5, <3>3
    <3>6. ~ (h <= j)
      BY <3>4, <3>5
    <3> QED BY <1>12, <2>5, <3>3, <3>6
  <2>6. m \in 1 .. 3 => Settled(boxes, RR, b, m)
    <3> HIDE DEF a
    <3> QED BY <2>2, <2>5 DEF Settled
  <2>7. \A l \in 1 .. 3, d \in 1 .. n : (l - 1) * n + d <= k => Settled(boxes, RR, d, l)
    <3>1. \A l \in 1 .. 3, d \in 1 .. n : Settled(boxes, R, d, l) => Settled(boxes, RR, d, l)
      BY <2>2, SettledStays
    <3> QED BY <1>1, <1>2, <2>6, <3>1
  <2>8. \A i \in DOMAIN q.reused :
          \/ \E j \in DOMAIN p.reused : q.reused[i] = p.reused[j]
          \/ q.reused[i] = <<b, a>>
    <3> HIDE DEF a
    <3>1. \A i \in DOMAIN q.reused : q.reused[i] \in R \union {<<b, a>>}
      BY <2>1 DEF ToSet
    <3> QED BY <3>1 DEF ToSet
  <2>9. \A l \in 1 .. 3 : k <= l * n => Matches(view[a], l, boxes[b])
    <3> HIDE DEF a
    <3>1. \A l \in 1 .. 3 : m <= l => \/ m = l \/ (m = 1 /\ l \in {2, 3}) \/ (m = 2 /\ l = 3)
      OBVIOUS
    <3> QED BY <1>2, <2>2, <3>1, MatchesLess
  <2>10. \A i \in DOMAIN q.reused :
           /\ \A l \in 1 .. 3 : k <= l * n => Matches(view[q.reused[i][2]], l, boxes[q.reused[i][1]])
           /\ k <= n => q.reused[i][1] <= k
    <3> SUFFICES ASSUME NEW i \in DOMAIN q.reused
                 PROVE  /\ \A l \in 1 .. 3 : k <= l * n =>
                             Matches(view[q.reused[i][2]], l, boxes[q.reused[i][1]])
                        /\ k <= n => q.reused[i][1] <= k
      OBVIOUS
    <3> HIDE DEF a
    <3>1. CASE q.reused[i] = <<b, a>>
      <4>1. q.reused[i][1] = b /\ q.reused[i][2] = a
        BY <3>1
      <4> QED BY <1>2, <2>9, <4>1
    <3>2. ASSUME NEW j \in DOMAIN p.reused, q.reused[i] = p.reused[j]
          PROVE  /\ \A l \in 1 .. 3 : k <= l * n =>
                      Matches(view[q.reused[i][2]], l, boxes[q.reused[i][1]])
                 /\ k <= n => q.reused[i][1] <= k
      <4>1. p.reused[j][1] \in 1 .. n
        BY <1>1 DEF Plans
      <4> QED BY <1>1, <1>2, <3>2, <4>1
    <3> QED BY <2>8, <3>1, <3>2
  <2> HIDE DEF a
  <2> QED BY <1>5, <2>3, <2>4, <2>7, <2>10 DEF Staged
<1>13. Staged(boxes, n, k, q)
  BY <1>4, <1>11, <1>12
<1> QED BY <1>13 DEF q

\* The plan: the pairs and the boxes it settles.
LEMMA PlanSettles ==
  ASSUME Places, NEW boxes, Len(boxes) \in Nat
  PROVE  Staged(boxes, Len(boxes), 4 * Len(boxes), Plan(boxes, Candidates))
<1> DEFINE n == Len(boxes)
           base == [reused |-> <<>>, unused |-> Candidates]
<1>1. /\ Candidates \in Seq(Actor) /\ ToSet(Candidates) = Alive
      /\ \A i, j \in DOMAIN Candidates : Candidates[i] = Candidates[j] => i = j
  BY CandidatesOf
<1>2. PICK f :
        /\ f[0] = base /\ f[0] \in Plans(boxes, Candidates)
        /\ \A k \in 1 .. (4 * n) :
             f[k - 1] \in Plans(boxes, Candidates) =>
               /\ f[k] \in Plans(boxes, Candidates)
               /\ f[k] = Turn(boxes, f[k - 1], Rounds(n)[k])
        /\ Plan(boxes, Candidates) = f[4 * n]
  <2>1. /\ Candidates \in Seq(Actor)
        /\ \A i, j \in DOMAIN Candidates : Candidates[i] = Candidates[j] => i = j
    BY <1>1
  <2>2. PICK f : Turning(boxes, Candidates, f)
    BY <2>1, PlanTurns, Zenon
  <2> QED BY <2>2 DEF Turning
<1>3. Staged(boxes, n, 0, base)
  <2>1. base \in Plans(boxes, Candidates)
    BY <1>2
  <2>2. /\ base.reused = <<>> /\ base.unused = Candidates /\ DOMAIN base.reused = {}
    OBVIOUS
  <2>3. \A a \in Alive : \E j \in DOMAIN Candidates : Candidates[j] = a
    BY <1>1 DEF ToSet
  <2>4. \A i, j \in DOMAIN Candidates :
          i < j /\ Candidates[j] \in ToSet(live) => Candidates[i] \in ToSet(live)
    <3> SUFFICES ASSUME NEW i \in DOMAIN Candidates, NEW j \in DOMAIN Candidates,
                        i < j, Candidates[j] \in ToSet(live)
                 PROVE  Candidates[i] \in ToSet(live)
      OBVIOUS
    <3>1. /\ live \in Seq(Actor) /\ parked \in Seq(Actor) /\ ToSet(live) \intersect ToSet(parked) = {}
          /\ Len(live) \in Nat /\ Len(parked) \in Nat
          /\ DOMAIN live = 1 .. Len(live) /\ DOMAIN parked = 1 .. Len(parked)
      BY DEF Places
    <3>2. /\ DOMAIN Candidates = 1 .. (Len(live) + Len(parked))
          /\ \A l \in 1 .. Len(live) : Candidates[l] = live[l]
          /\ \A l \in 1 .. Len(parked) : Candidates[Len(live) + l] = parked[l]
      BY <3>1 DEF Candidates
    <3>3. j <= Len(live)
      <4> SUFFICES ASSUME ~ (j <= Len(live)) PROVE FALSE
        OBVIOUS
      <4>1. j - Len(live) \in 1 .. Len(parked) /\ Len(live) + (j - Len(live)) = j
        BY <3>1, <3>2
      <4>2. Candidates[j] \in ToSet(parked)
        BY <3>1, <3>2, <4>1 DEF ToSet
      <4> QED BY <3>1, <4>2
    <3>4. i \in 1 .. Len(live)
      BY <3>1, <3>2, <3>3
    <3> QED BY <3>1, <3>2, <3>4 DEF ToSet
  <2>5. \A m \in 1 .. 3, b \in 1 .. n : ~ ((m - 1) * n + b <= 0)
    <3> SUFFICES ASSUME NEW m \in 1 .. 3, NEW b \in 1 .. n PROVE ~ ((m - 1) * n + b <= 0)
      OBVIOUS
    <3>1. CASE m = 1
      BY <3>1
    <3>2. CASE m = 2
      BY <3>2
    <3>3. CASE m = 3
      BY <3>3
    <3> QED BY <3>1, <3>2, <3>3
  <2> HIDE DEF base, n
  <2> QED BY <2>1, <2>2, <2>3, <2>4, <2>5 DEF Staged
<1>4. ASSUME NEW k \in 1 .. (4 * n), Staged(boxes, n, k - 1, f[k - 1])
      PROVE  Staged(boxes, n, k, f[k])
  <2>1. f[k - 1] \in Plans(boxes, Candidates)
    BY <1>4 DEF Staged
  <2>2. f[k] = Turn(boxes, f[k - 1], Rounds(n)[k])
    BY <1>2, <2>1
  <2>3. PICK m \in 1 .. 4 : \E b \in 1 .. n : Rounds(n)[k] = <<m, b>> /\ k = (m - 1) * n + b
    BY RoundsOf
  <2>4. PICK b \in 1 .. n : Rounds(n)[k] = <<m, b>> /\ k = (m - 1) * n + b
    BY <2>3
  <2>5. Staged(boxes, n, k, Turn(boxes, f[k - 1], <<m, b>>))
    BY <1>4, <2>4, TurnSettles
  <2> QED BY <2>2, <2>4, <2>5
<1> DEFINE T == {k \in 0 .. (4 * n) : Staged(boxes, n, k, f[k])}
<1>5. 0 \in T /\ \A k \in 1 .. (4 * n) : k - 1 \in T => k \in T
  <2>1. f[0] = base /\ 0 \in 0 .. (4 * n) /\ \A k \in 1 .. (4 * n) : k \in 0 .. (4 * n)
    BY <1>2
  <2> HIDE DEF base
  <2> QED BY <1>3, <1>4, <2>1
<1>6. 4 * n \in T
  <2>1. 4 * n \in Nat /\ 4 * n \in 0 .. (4 * n)
    OBVIOUS
  <2> HIDE DEF T
  <2>2. \A k \in 0 .. (4 * n) : k \in T
    BY <1>5, <2>1, Induct
  <2> QED BY <2>1, <2>2
<1> QED BY <1>2, <1>6

-----------------------------------------------------------------------------
(* Who gets the boxes.                                                     *)

HasBox(given, b) == \E i \in DOMAIN given : given[i][1] = b

\* Boxes and actors stay matched one to one, as far as there are actors, and an actor
\* that there was is one that suits and is not unused, and has its box by the plan.
Gives(boxes, plan, given) ==
  /\ \A i, j \in DOMAIN given : given[i][1] = given[j][1] => i = j
  /\ \A i, j \in DOMAIN given : given[i][2] = given[j][2] /\ given[i][2] # NoneLeft => i = j
  /\ \A i \in DOMAIN given :
       given[i][2] \in Alive =>
         /\ \A j \in DOMAIN plan.unused : given[i][2] # plan.unused[j]
         /\ Suits(view[given[i][2]], boxes[given[i][1]])
  /\ \A i \in DOMAIN given : given[i][2] \in Alive => \E j \in DOMAIN plan.reused : given[i] = plan.reused[j]
  /\ \A j \in DOMAIN plan.reused : \E i \in DOMAIN given : given[i] = plan.reused[j]

Gifts(boxes, plan) ==
  {given \in Seq((1 .. Len(boxes)) \X (Actor \union {NoneLeft})) : Gives(boxes, plan, given)}

\* An actor that is made is no other.
LEMMA FreshIsNew ==
  ASSUME NEW given
  PROVE  \/ Fresh(given) = NoneLeft
         \/ /\ Fresh(given) \in Actor /\ Fresh(given) \notin Alive /\ Fresh(given) # NoneLeft
            /\ \A i \in DOMAIN given : given[i][2] # Fresh(given)
<1> DEFINE left == Actor \ (Alive \union {given[i][2] : i \in DOMAIN given})
<1>1. Fresh(given) = IF left = {} THEN NoneLeft ELSE CHOOSE a \in left : TRUE
  BY DEF Fresh
<1>2. left # {} => (CHOOSE a \in left : TRUE) \in left
  OBVIOUS
<1> HIDE DEF left
<1>3. Fresh(given) = NoneLeft \/ Fresh(given) \in left
  BY <1>1, <1>2
<1>4. NoneLeft \notin Actor
  BY DEF Actor, NoneLeft
<1> QED BY <1>3, <1>4 DEF left

\* The box b has its actor in the end, and no box loses one.
LEMMA CreateGives ==
  ASSUME NEW boxes, NEW plan, NEW given \in Gifts(boxes, plan), NEW b \in 1 .. Len(boxes),
         Alive \subseteq Actor
  PROVE  /\ Create(given, b) \in Gifts(boxes, plan) /\ HasBox(Create(given, b), b)
         /\ \A c : HasBox(given, c) => HasBox(Create(given, b), c)
<1>1. CASE HasBox(given, b)
  <2>1. Create(given, b) = given
    BY <1>1 DEF HasBox, Create
  <2> QED BY <1>1, <2>1
<1>2. CASE ~ HasBox(given, b)
  <2> DEFINE S == (1 .. Len(boxes)) \X (Actor \union {NoneLeft})
             a == Fresh(given)
             pair == <<b, a>>
             more == Append(given, pair)
  <2>1. Create(given, b) = more
    BY <1>2 DEF HasBox, Create
  <2>2. /\ pair \in S /\ pair[1] = b /\ pair[2] = a
        /\ \/ a = NoneLeft
           \/ a \notin Alive /\ a # NoneLeft /\ \A i \in DOMAIN given : given[i][2] # a
    <3>1. \/ a = NoneLeft
          \/ a \in Actor /\ a \notin Alive /\ a # NoneLeft /\ \A i \in DOMAIN given : given[i][2] # a
      BY FreshIsNew
    <3> HIDE DEF a
    <3> QED BY <3>1
  <2> HIDE DEF a, pair, S
  <2>3. given \in Seq(S) /\ Gives(boxes, plan, given)
    BY DEF Gifts, S
  <2>4. /\ more \in Seq(S) /\ DOMAIN more = 1 .. (Len(given) + 1)
        /\ \A i \in 1 .. Len(given) : more[i] = given[i]
        /\ more[Len(given) + 1] = pair
        /\ Len(given) \in Nat /\ DOMAIN given = 1 .. Len(given)
    BY <2>2, <2>3, Appended
  <2> HIDE DEF more
  <2>5. \A i \in DOMAIN more : (i \in DOMAIN given /\ more[i] = given[i])
                               \/ (i = Len(given) + 1 /\ more[i] = pair)
    BY <2>4
  <2>6. \A i \in DOMAIN given : given[i][1] # b
    BY <1>2 DEF HasBox
  <2>7. NoneLeft \notin Actor
    BY DEF Actor, NoneLeft
  <2>8. \A i, j \in DOMAIN more : more[i][1] = more[j][1] => i = j
    BY <2>2, <2>3, <2>5, <2>6 DEF Gives
  <2>9. \A i, j \in DOMAIN more : more[i][2] = more[j][2] /\ more[i][2] # NoneLeft => i = j
    BY <2>2, <2>3, <2>5 DEF Gives
  <2>10. \A i \in DOMAIN more :
           more[i][2] \in Alive =>
             /\ \A j \in DOMAIN plan.unused : more[i][2] # plan.unused[j]
             /\ Suits(view[more[i][2]], boxes[more[i][1]])
    BY <2>2, <2>3, <2>5, <2>7 DEF Gives
  <2>13. \A i \in DOMAIN more :
           more[i][2] \in Alive => \E j \in DOMAIN plan.reused : more[i] = plan.reused[j]
    BY <2>2, <2>3, <2>5, <2>7 DEF Gives
  <2>14. \A j \in DOMAIN plan.reused : \E i \in DOMAIN more : more[i] = plan.reused[j]
    <3>1. \A i \in DOMAIN given : i \in DOMAIN more /\ more[i] = given[i]
      BY <2>4
    <3>2. \A j \in DOMAIN plan.reused : \E i \in DOMAIN given : given[i] = plan.reused[j]
      BY <2>3 DEF Gives
    <3> QED BY <3>1, <3>2
  <2>11. more \in Gifts(boxes, plan)
    BY <2>4, <2>8, <2>9, <2>10, <2>13, <2>14 DEF Gifts, Gives, S
  <2>12. /\ HasBox(more, b)
         /\ \A c : HasBox(given, c) => HasBox(more, c)
    BY <2>2, <2>4 DEF HasBox
  <2> QED BY <2>1, <2>11, <2>12
<1> QED BY <1>1, <1>2

\* All boxes are given out.
LEMMA GivenGives ==
  ASSUME NEW boxes, Len(boxes) \in Nat, DOMAIN boxes = 1 .. Len(boxes),
         NEW plan, plan.reused \in Gifts(boxes, plan), Alive \subseteq Actor
  PROVE  /\ Given(boxes, plan) \in Gifts(boxes, plan)
         /\ \A b \in 1 .. Len(boxes) : HasBox(Given(boxes, plan), b)
<1> DEFINE n == Len(boxes)
           r == [b \in DOMAIN boxes |-> b]
           base == plan.reused
           S == Gifts(boxes, plan)
           step == [k \in 1 .. n |-> [q \in S |-> Create(q, k)]]
           Is(f) == f = [k \in 0 .. n |-> IF k = 0 THEN base
                                          ELSE CHOOSE y \in {Create(q, r[k]) : q \in {f[k - 1]}} : TRUE]
           f == CHOOSE g : Is(g)
<1>1. base \in S /\ n \in Nat
  OBVIOUS
<1>2. Len(r) = n /\ \A k \in 1 .. n : r[k] = k
  OBVIOUS
<1>3. Given(boxes, plan) = f[n]
  <2>1. Given(boxes, plan) = Fold(Create, base, r)
    BY DEF Given
  <2> QED BY <1>2, <2>1 DEF Fold, With
<1> HIDE DEF n, r, base, S
<1>4. \A k \in 1 .. n : \A q \in S :
        /\ Create(q, k) \in S /\ HasBox(Create(q, k), k)
        /\ \A c : HasBox(q, c) => HasBox(Create(q, k), c)
  BY CreateGives DEF S, n
<1>5. PICK g \in [0 .. n -> S] : Iterates(g, n, base, step)
  <2>1. Closed(S, n, step)
    BY <1>4 DEF Closed
  <2> HIDE DEF step
  <2> QED BY <1>1, <2>1, Recursion, Zenon
<1>6. \A k \in 1 .. n : g[k - 1] \in S
  <2>1. \A k \in 1 .. n : k - 1 \in 0 .. n
    BY <1>1
  <2> QED BY <1>5, <2>1
<1>7. Is(g)
  <2>1. \A k \in 1 .. n : step[k][g[k - 1]] = Create(g[k - 1], r[k])
    BY <1>2, <1>6
  <2>2. \A k \in 0 .. n : k # 0 => k \in 1 .. n
    BY <1>1
  <2> HIDE DEF step
  <2>3. g = [k \in 0 .. n |-> IF k = 0 THEN base ELSE Create(g[k - 1], r[k])]
    BY <1>5, <2>1, <2>2 DEF Iterates
  <2> QED BY <2>3
<1>8. Is(f)
  BY <1>7
<1> HIDE DEF f
<1>9. f[0] = base /\ \A k \in 1 .. n : f[k] = Create(f[k - 1], k)
  <2>1. 0 \in 0 .. n /\ \A k \in 1 .. n : k \in 0 .. n /\ k # 0
    BY <1>1
  <2> QED BY <1>2, <1>8, <2>1
<1> DEFINE T == {k \in 0 .. n : f[k] \in S /\ \A b \in 1 .. k : HasBox(f[k], b)}
<1>10. 0 \in T
  BY <1>1, <1>9
<1>11. ASSUME NEW k \in 1 .. n, k - 1 \in T PROVE k \in T
  <2>1. /\ f[k - 1] \in S /\ f[k] = Create(f[k - 1], k)
        /\ \A b \in 1 .. (k - 1) : HasBox(f[k - 1], b)
    BY <1>9, <1>11
  <2>2. /\ f[k] \in S /\ HasBox(f[k], k)
        /\ \A b \in 1 .. (k - 1) : HasBox(f[k], b)
    BY <1>4, <2>1
  <2>3. \A b \in 1 .. k : b = k \/ b \in 1 .. (k - 1)
    BY <1>1
  <2>4. k \in 0 .. n
    BY <1>1
  <2> QED BY <2>2, <2>3, <2>4
<1>12. n \in T
  <2> HIDE DEF T
  <2>1. \A k \in 0 .. n : k \in T
    BY <1>1, <1>10, <1>11, Induct
  <2> QED BY <1>1, <2>1
<1> QED BY <1>3, <1>12 DEF S, n

-----------------------------------------------------------------------------
(* What setViews makes of the wall.                                        *)

Content == (Stream \X Kind) \union {NoContent}
Sound == {"muted", "listening", "background"}
ActorState == [content : Content, spaces : SUBSET Cell, running : BOOLEAN,
               audio : Sound, saved : Sound \union {NotParked}]

\* A box that has something to show.
IsBox(box) == box.content \in Content /\ box.spaces \in (SUBSET Cell) \ {{}}

\* What is heard of an actor, now or when it comes back.
Hearing(v) == IF v.saved = NotParked THEN v.audio ELSE v.saved

\* What is saved of an actor tells its place.
Actors ==
  /\ Places
  /\ view \in [Actor -> ActorState]
  /\ \A a \in Actor \ Alive : view[a] = NoActor
  /\ \A a \in Alive : view[a].spaces # {} /\ (view[a].saved # NotParked <=> a \in ToSet(parked))

\* What SetViews makes of an actor that shows a box.
Takes(v, box) ==
  /\ v \in ActorState /\ v.content = box.content /\ v.spaces = box.spaces
  /\ v.saved = NotParked

\* The first DISPLAY of an actor, and one of an actor that the box suits.
LEMMA DisplayTakes ==
  ASSUME NEW box, IsBox(box)
  PROVE  /\ Takes(CreatedFor(box), box) /\ CreatedFor(box).audio = "muted"
         /\ \A v \in ActorState :
              Suits(v, box) => /\ Takes(Displayed(v, box), box)
                               /\ Displayed(v, box).audio = Hearing(v)
<1> USE DEF IsBox, Takes, ActorState, Sound, NotParked
<1>1. Takes(CreatedFor(box), box) /\ CreatedFor(box).audio = "muted"
  BY DEF CreatedFor, NoActor, Content
<1>2. ASSUME NEW v \in ActorState, Suits(v, box)
      PROVE  Takes(Displayed(v, box), box) /\ Displayed(v, box).audio = Hearing(v)
  <2> DEFINE shown == IF v.running \/ v.content = box.content
                      THEN [v EXCEPT !.content = box.content, !.spaces = box.spaces] ELSE v
  <2>1. /\ shown \in ActorState /\ shown.content = box.content /\ shown.spaces = box.spaces
        /\ shown.audio = v.audio
    BY <1>2 DEF Suits
  <2>2. Displayed(v, box) = [shown EXCEPT !.audio = IF v.saved = NotParked THEN @ ELSE v.saved,
                                          !.saved = NotParked]
    BY DEF Displayed
  <2> HIDE DEF shown
  <2> QED BY <2>1, <2>2 DEF Hearing
<1> QED BY <1>1, <1>2

\* A parked actor keeps what it will come back with.
LEMMA HiddenKeeps ==
  ASSUME NEW v \in ActorState
  PROVE  /\ Hidden(v) \in ActorState /\ Hidden(v).spaces = v.spaces
         /\ Hidden(v).saved # NotParked /\ Hearing(Hidden(v)) = Hearing(v)
BY DEF ActorState, Sound, NotParked, Hidden, Hearing

\* The pairs of boxes and actors that there were.
KeptBy(own) == {<<b, own[b]>> : b \in {d \in DOMAIN own : own[d] \in Alive}}

\* The boxes are on the actors of the wall, each on its own, and whoever is preferred
\* has one.
OnOwn(boxes) ==
  \E own \in [1 .. Len(boxes) -> Actor] :
    /\ ToSet(live') = {own[b] : b \in 1 .. Len(boxes)}
    /\ \A b \in 1 .. Len(boxes) : Takes(view'[own[b]], boxes[b])
    /\ \A b, d \in 1 .. Len(boxes) : own[b] = own[d] => b = d
    /\ \A m \in 1 .. 3, b \in 1 .. Len(boxes) : Settled(boxes, KeptBy(own), b, m)

\* A new layout shows the boxes, and makes nobody heard.
LEMMA SetViewsStep ==
  ASSUME Actors, NEW boxes, Len(boxes) \in Nat, DOMAIN boxes = 1 .. Len(boxes),
         \A b \in 1 .. Len(boxes) : IsBox(boxes[b]),
         NEW parkUnused \in BOOLEAN, SetViews(boxes, parkUnused)
  PROVE  /\ Actors'
         /\ \A a \in Actor : Hearing(view'[a]) \in {Hearing(view[a]), "muted"}
         /\ OnOwn(boxes) /\ (~ parkUnused => parked' = <<>>)
<1>1. /\ Candidates \in Seq(Actor) /\ ToSet(Candidates) = Alive
      /\ \A i, j \in DOMAIN Candidates : Candidates[i] = Candidates[j] => i = j
  BY CandidatesOf DEF Actors
<1>2. Alive \subseteq Actor /\ NoneLeft \notin Actor
  <2>1. NoneLeft \notin Actor
    BY DEF Actor, NoneLeft
  <2> QED BY <2>1 DEF Actors, Places, Alive, ToSet
<1>3. PICK plan, given :
        /\ plan = Plan(boxes, Candidates) /\ given = Given(boxes, plan)
        /\ live' = [i \in DOMAIN given |-> given[i][2]]
        /\ parked' = IF parkUnused THEN plan.unused ELSE <<>>
        /\ view' = [a \in Actor |-> After(boxes, given, ToSet(parked'), a)]
        /\ NoneLeft \notin ToSet(live')
  BY ZenonT(60) DEF SetViews
<1>4. plan \in Plans(boxes, Candidates)
  BY <1>3, PlanSettles DEF Staged, Actors
<1>5. plan.reused \in Gifts(boxes, plan)
  <2>1. /\ plan.reused \in Seq((1 .. Len(boxes)) \X Actor)
        /\ plan.reused \in Seq((1 .. Len(boxes)) \X (Actor \union {NoneLeft}))
    <3>1. plan.reused \in Seq((1 .. Len(boxes)) \X Actor)
      BY <1>4 DEF Plans
    <3>2. (1 .. Len(boxes)) \X Actor \subseteq (1 .. Len(boxes)) \X (Actor \union {NoneLeft})
      OBVIOUS
    <3> QED BY <3>1, <3>2, SeqMonotonic
  <2>2. Gives(boxes, plan, plan.reused)
    BY <1>4 DEF Plans, Allots, Gives
  <2> QED BY <2>1, <2>2 DEF Gifts
<1>6. given \in Gifts(boxes, plan) /\ \A b \in 1 .. Len(boxes) : HasBox(given, b)
  BY <1>2, <1>3, <1>5, GivenGives
<1>7. /\ given \in Seq((1 .. Len(boxes)) \X (Actor \union {NoneLeft})) /\ Gives(boxes, plan, given)
      /\ \A i \in DOMAIN given : given[i][2] = live'[i] /\ given[i][2] \in Actor
                                /\ given[i][1] \in 1 .. Len(boxes)
      /\ DOMAIN live' = DOMAIN given
  <2>1. given \in Seq((1 .. Len(boxes)) \X (Actor \union {NoneLeft})) /\ Gives(boxes, plan, given)
    BY <1>6 DEF Gifts
  <2>2. \A i \in DOMAIN given : given[i] \in (1 .. Len(boxes)) \X (Actor \union {NoneLeft})
    BY <2>1
  <2> QED BY <1>3, <2>1, <2>2 DEF ToSet
<1>8. ASSUME NEW a \in Actor
      PROVE  \/ /\ a \notin ToSet(live')
                /\ view'[a] = IF a \in ToSet(parked') THEN Hidden(view[a]) ELSE NoActor
             \/ \E i \in DOMAIN given :
                  /\ given[i][2] = a
                  /\ view'[a] = IF a \in Alive THEN Displayed(view[a], boxes[given[i][1]])
                                ELSE CreatedFor(boxes[given[i][1]])
  <2> DEFINE at == {i \in 1 .. Len(given) : given[i][2] = a}
             i == IF at # {} THEN Min(at) ELSE 0
  <2>1. view'[a] = IF i > 0 THEN IF a \in Alive THEN Displayed(view[a], boxes[given[i][1]])
                                 ELSE CreatedFor(boxes[given[i][1]])
                   ELSE IF a \in ToSet(parked') THEN Hidden(view[a]) ELSE NoActor
    <3>1. view'[a] = After(boxes, given, ToSet(parked'), a)
      BY <1>3
    <3>2. After(boxes, given, ToSet(parked'), a) =
            IF i > 0 THEN IF a \in Alive THEN Displayed(view[a], boxes[given[i][1]])
                          ELSE CreatedFor(boxes[given[i][1]])
            ELSE IF a \in ToSet(parked') THEN Hidden(view[a]) ELSE NoActor
      BY SMTT(30) DEF After, With, SelectInSeq
    <3> HIDE DEF i
    <3> QED BY <3>1, <3>2, Zenon
  <2>2. DOMAIN given = 1 .. Len(given)
    BY <1>7
  <2>3. CASE at = {}
    <3>1. \A j \in DOMAIN given : given[j][2] # a
      BY <2>2, <2>3
    <3>2. a \notin ToSet(live')
      BY <1>7, <3>1 DEF ToSet
    <3>3. i = 0
      BY <2>3
    <3> HIDE DEF i
    <3> QED BY <2>1, <3>2, <3>3
  <2>4. CASE at # {}
    <3>1. at \in SUBSET Nat
      OBVIOUS
    <3> HIDE DEF at
    <3>2. Min(at) \in at
      BY <2>4, <3>1, MinOfNat, Zenon
    <3>3. Min(at) \in DOMAIN given /\ given[Min(at)][2] = a /\ Min(at) > 0
      BY <2>2, <3>2 DEF at
    <3>4. i = Min(at)
      BY <2>4
    <3> HIDE DEF i
    <3> QED BY <2>1, <3>3, <3>4
  <2> QED BY <2>3, <2>4
\* The new places.
<1>9. plan.unused \in Seq(Actor) /\ Allots(boxes, Candidates, plan)
  BY <1>4 DEF Plans
<1>10. parked' \in Seq(Actor) /\ (parked' = plan.unused \/ parked' = <<>>)
  BY <1>3, <1>9
<1>11. ToSet(parked') \subseteq Alive \intersect Actor
  BY <1>1, <1>2, <1>9, <1>10 DEF Allots, ToSet
<1>12. live' \in Seq(Actor)
  <2>1. Len(given) \in Nat /\ DOMAIN given = 1 .. Len(given)
    BY <1>7
  <2> QED BY <1>3, <1>7, <2>1
<1>13. \A i, j \in DOMAIN live' : live'[i] = live'[j] => i = j
  BY <1>2, <1>7 DEF Gives
<1>14. \A i, j \in DOMAIN parked' : parked'[i] = parked'[j] => i = j
  BY <1>9, <1>10 DEF Allots
<1>15. ToSet(live') \intersect ToSet(parked') = {}
  <2>1. \A i \in DOMAIN given : given[i][2] \in Alive =>
          \A j \in DOMAIN plan.unused : given[i][2] # plan.unused[j]
    BY <1>7 DEF Gives
  <2>2. \A j \in DOMAIN parked' : \E k \in DOMAIN plan.unused : parked'[j] = plan.unused[k]
    BY <1>10
  <2> SUFFICES ASSUME NEW i \in DOMAIN live', NEW j \in DOMAIN parked', live'[i] = parked'[j]
               PROVE  FALSE
    BY DEF ToSet
  <2>3. i \in DOMAIN given /\ given[i][2] = parked'[j] /\ parked'[j] \in Alive
    BY <1>7, <1>11 DEF ToSet
  <2> QED BY <2>1, <2>2, <2>3
<1>16. Places'
  BY <1>10, <1>12, <1>13, <1>14, <1>15 DEF Places
\* The new states.
<1>17. ASSUME NEW a \in Actor, NEW i \in DOMAIN given, given[i][2] = a,
              view'[a] = IF a \in Alive THEN Displayed(view[a], boxes[given[i][1]])
                         ELSE CreatedFor(boxes[given[i][1]])
       PROVE  /\ a \in ToSet(live') /\ Takes(view'[a], boxes[given[i][1]])
              /\ view'[a].audio \in {Hearing(view[a]), "muted"}
  <2>1. IsBox(boxes[given[i][1]])
    BY <1>7
  <2>2. CASE a \in Alive
    <3>1. Suits(view[a], boxes[given[i][1]]) /\ view[a] \in ActorState
      BY <1>7, <1>17, <2>2 DEF Gives, Actors
    <3> QED BY <1>7, <1>17, <2>1, <2>2, <3>1, DisplayTakes DEF ToSet
  <2>3. CASE a \notin Alive
    BY <1>7, <1>17, <2>1, <2>3, DisplayTakes DEF ToSet
  <2> QED BY <2>2, <2>3
<1>18. ASSUME NEW a \in Actor, a \in ToSet(live')
       PROVE  \E i \in DOMAIN given :
                /\ given[i][2] = a /\ Takes(view'[a], boxes[given[i][1]])
                /\ view'[a].audio \in {Hearing(view[a]), "muted"}
  BY <1>8, <1>17, <1>18
<1>19. ASSUME NEW a \in Actor, a \notin ToSet(live')
       PROVE  view'[a] = IF a \in ToSet(parked') THEN Hidden(view[a]) ELSE NoActor
  BY <1>8, <1>17, <1>19
<1>20. view' = [a \in Actor |-> view'[a]]
  BY <1>3
<1>21. ASSUME NEW a \in Actor
       PROVE  /\ view'[a] \in ActorState
              /\ a \notin Alive' => view'[a] = NoActor
              /\ a \in Alive' =>
                   view'[a].spaces # {} /\ (view'[a].saved # NotParked <=> a \in ToSet(parked'))
              /\ Hearing(view'[a]) \in {Hearing(view[a]), "muted"}
  <2>0. Alive' = ToSet(live') \union ToSet(parked')
    BY DEF Alive
  <2>1. CASE a \in ToSet(live')
    <3>1. PICK i \in DOMAIN given :
                /\ given[i][2] = a /\ Takes(view'[a], boxes[given[i][1]])
                /\ view'[a].audio \in {Hearing(view[a]), "muted"}
      BY <1>18, <2>1
    <3>2. IsBox(boxes[given[i][1]])
      BY <1>7
    <3>3. /\ view'[a] \in ActorState /\ view'[a].saved = NotParked
          /\ view'[a].spaces = boxes[given[i][1]].spaces
          /\ Hearing(view'[a]) = view'[a].audio
      BY <3>1 DEF Takes, Hearing
    <3>4. a \notin ToSet(parked')
      BY <1>15, <2>1
    <3> QED BY <2>0, <2>1, <3>1, <3>2, <3>3, <3>4 DEF IsBox
  <2>2. CASE a \notin ToSet(live') /\ a \in ToSet(parked')
    <3>1. view'[a] = Hidden(view[a]) /\ a \in Alive /\ view[a] \in ActorState /\ view[a].spaces # {}
      BY <1>11, <1>19, <2>2 DEF Actors
    <3> QED BY <2>0, <2>2, <3>1, HiddenKeeps
  <2>3. CASE a \notin ToSet(live') /\ a \notin ToSet(parked')
    <3>1. view'[a] = NoActor
      BY <1>19, <2>3
    <3>2. NoActor \in ActorState /\ Hearing(NoActor) = "muted"
      BY DEF NoActor, ActorState, Sound, Hearing, Content
    <3> QED BY <2>0, <2>3, <3>1, <3>2
  <2> QED BY <2>1, <2>2, <2>3
<1>22. Alive' \subseteq Actor
  BY <1>16 DEF Places, Alive, ToSet
<1>23. Actors'
  <2>1. view' \in [Actor -> ActorState]
    BY <1>20, <1>21
  <2> QED BY <1>16, <1>21, <1>22, <2>1 DEF Actors
\* The boxes.
<1>24. OnOwn(boxes)
  <2> DEFINE at(b) == CHOOSE i \in DOMAIN given : given[i][1] = b
             own == [b \in 1 .. Len(boxes) |-> given[at(b)][2]]
  <2>1. \A b \in 1 .. Len(boxes) : at(b) \in DOMAIN given /\ given[at(b)][1] = b
    BY <1>6 DEF HasBox
  <2> HIDE DEF at
  <2>2. own \in [1 .. Len(boxes) -> Actor]
    BY <1>7, <2>1
  <2>3. \A i \in DOMAIN given : i = at(given[i][1])
    BY <1>7, <2>1 DEF Gives
  <2>4. ToSet(live') = {given[i][2] : i \in DOMAIN given}
    BY <1>7 DEF ToSet
  <2>5. ToSet(live') = {own[b] : b \in 1 .. Len(boxes)}
    BY <1>7, <2>1, <2>3, <2>4
  <2>6. ASSUME NEW b \in 1 .. Len(boxes) PROVE Takes(view'[own[b]], boxes[b])
    <3>1. own[b] = given[at(b)][2] /\ own[b] \in Actor /\ own[b] \in ToSet(live')
      BY <2>1, <2>2, <2>4
    <3>2. PICK i \in DOMAIN given : given[i][2] = own[b] /\ Takes(view'[own[b]], boxes[given[i][1]])
      BY <1>18, <3>1
    <3>3. i = at(b)
      BY <1>2, <1>7, <2>1, <3>1, <3>2 DEF Gives
    <3> QED BY <2>1, <3>2, <3>3
  <2>7. \A b, d \in 1 .. Len(boxes) : own[b] = own[d] => b = d
    <3> SUFFICES ASSUME NEW b \in 1 .. Len(boxes), NEW d \in 1 .. Len(boxes), own[b] = own[d]
                 PROVE  b = d
      OBVIOUS
    <3>1. /\ given[at(b)][2] = given[at(d)][2] /\ at(b) \in DOMAIN given /\ at(d) \in DOMAIN given
          /\ given[at(b)][2] \in Actor /\ given[at(b)][1] = b /\ given[at(d)][1] = d
      BY <1>7, <2>1
    <3>2. at(b) = at(d)
      BY <1>2, <1>7, <3>1 DEF Gives
    <3> QED BY <3>1, <3>2
  <2>8. KeptBy(own) = ToSet(plan.reused)
    <3>1. DOMAIN own = 1 .. Len(boxes)
      OBVIOUS
    <3>2. ASSUME NEW b \in 1 .. Len(boxes), own[b] \in Alive
          PROVE  <<b, own[b]>> \in ToSet(plan.reused)
      <4>1. /\ own[b] = given[at(b)][2] /\ at(b) \in DOMAIN given /\ given[at(b)][1] = b
            /\ given[at(b)] \in (1 .. Len(boxes)) \X (Actor \union {NoneLeft})
        BY <1>7, <2>1
      <4>2. given[at(b)] = <<b, own[b]>>
        BY <4>1
      <4>3. \E j \in DOMAIN plan.reused : given[at(b)] = plan.reused[j]
        BY <1>7, <3>2, <4>1 DEF Gives
      <4> QED BY <4>2, <4>3 DEF ToSet
    <3>3. ASSUME NEW j \in DOMAIN plan.reused
          PROVE  /\ plan.reused[j][1] \in 1 .. Len(boxes)
                 /\ own[plan.reused[j][1]] \in Alive
                 /\ plan.reused[j] = <<plan.reused[j][1], own[plan.reused[j][1]]>>
      <4>1. PICK i \in DOMAIN given : given[i] = plan.reused[j]
        BY <1>7 DEF Gives
      <4>2. /\ given[i] \in (1 .. Len(boxes)) \X (Actor \union {NoneLeft})
            /\ i = at(given[i][1])
        BY <1>7, <2>3
      <4>3. own[given[i][1]] = given[i][2]
        BY <4>2
      <4>4. plan.reused[j][2] \in Alive
        BY <1>1, <1>9 DEF Allots
      <4> QED BY <4>1, <4>2, <4>3, <4>4
    <3> HIDE DEF own
    <3> QED BY <3>1, <3>2, <3>3 DEF KeptBy, ToSet
  <2>9. \A m \in 1 .. 3, b \in 1 .. Len(boxes) : Settled(boxes, KeptBy(own), b, m)
    <3>1. \A m \in 1 .. 3, b \in 1 .. Len(boxes) :
            (m - 1) * Len(boxes) + b <= 4 * Len(boxes) => Settled(boxes, ToSet(plan.reused), b, m)
      BY <1>3, PlanSettles DEF Staged, Actors
    <3>2. ASSUME NEW m \in 1 .. 3, NEW b \in 1 .. Len(boxes)
          PROVE  (m - 1) * Len(boxes) + b <= 4 * Len(boxes)
      <4>1. m = 1 \/ m = 2 \/ m = 3
        OBVIOUS
      <4>2. CASE m = 1
        BY <4>2
      <4>3. CASE m = 2
        BY <4>3
      <4>4. CASE m = 3
        BY <4>4
      <4> QED BY <4>1, <4>2, <4>3, <4>4
    <3> HIDE DEF own
    <3> QED BY <2>8, <3>1, <3>2
  <2> HIDE DEF own
  <2> QED BY <2>2, <2>5, <2>6, <2>7, <2>9 DEF OnOwn
<1> QED BY <1>3, <1>21, <1>23, <1>24

-----------------------------------------------------------------------------
(* The boxes of a grid.                                                    *)

\* The cells of a grid of w columns and h rows are those of its columns and rows.
LEMMA CellsOf ==
  ASSUME NEW w \in Nat \ {0}, NEW h \in Nat \ {0}
  PROVE  /\ \A a \in 0 .. (w - 1), b \in 0 .. (h - 1) : At(w, a, b) \in Cells(w, h)
         /\ \A i \in Cells(w, h) : /\ XOf(w, i) \in 0 .. (w - 1) /\ YOf(w, i) \in 0 .. (h - 1)
                                   /\ i = At(w, XOf(w, i), YOf(w, i))
<1>1. ASSUME NEW a \in 0 .. (w - 1), NEW b \in 0 .. (h - 1) PROVE At(w, a, b) \in Cells(w, h)
  <2>1. w * b <= w * (h - 1)
    OBVIOUS
  <2>2. w * b + a \in Nat /\ w * b + a <= w * (h - 1) + (w - 1)
    BY <2>1
  <2>3. w * (h - 1) + (w - 1) = w * h - 1
    OBVIOUS
  <2> QED BY <2>2, <2>3 DEF At, Cells
<1>2. ASSUME NEW i \in Cells(w, h)
      PROVE  /\ XOf(w, i) \in 0 .. (w - 1) /\ YOf(w, i) \in 0 .. (h - 1)
             /\ i = At(w, XOf(w, i), YOf(w, i))
  BY DEF Cells, At, XOf, YOf
<1> QED BY <1>1, <1>2

\* A smaller grid has only cells that a larger one has.
LEMMA CellsGrow ==
  ASSUME NEW w \in Nat, NEW h \in Nat, NEW ww \in Nat, NEW hh \in Nat, w <= ww, h <= hh
  PROVE  Cells(w, h) \subseteq Cells(ww, hh)
<1>1. w * h <= ww * h /\ ww * h <= ww * hh
  OBVIOUS
<1> QED BY <1>1 DEF Cells

\* How far a run goes.
LEMMA RunOf ==
  ASSUME NEW n \in Nat \ {0}, NEW good
  PROVE  Run(n, good) \in 1 .. n /\ 1 .. (Run(n, good) - 1) \subseteq good
<1> DEFINE ends == {k \in 1 .. n : k = n \/ k \notin good}
<1>1. ends \in SUBSET Nat /\ ends # {}
  OBVIOUS
<1>2. PICK k \in ends : \A j \in ends : k <= j
  <2> HIDE DEF ends
  <2> QED BY <1>1, Least, Zenon
<1>3. k \in 1 .. n /\ 1 .. (k - 1) \subseteq good /\ (k < n => k \notin good)
  BY <1>2
<1> QED BY <1>3 DEF Run

\* A box is a rectangle of cells of the grid.
Rectangle(w, h, box) ==
  /\ box.w # 0 /\ box.h # 0 /\ box.x + box.w <= w /\ box.y + box.h <= h
  /\ box.spaces = {At(w, a, b) : a \in box.x .. (box.x + box.w - 1), b \in box.y .. (box.y + box.h - 1)}

\* The cells of a box have one content, and no earlier box has any.
LEMMA LargestBoxOf ==
  ASSUME NEW w \in Nat \ {0}, NEW h \in Nat \ {0}, NEW content, NEW visited,
         NEW i \in Cells(w, h), i \notin visited
  PROVE  LET box == LargestBox(w, h, content, visited, i)
         IN  /\ box \in [content : {content[i]}, x : Nat, y : Nat, w : Nat, h : Nat,
                         spaces : SUBSET Cells(w, h)]
             /\ i \in box.spaces /\ Rectangle(w, h, box)
             /\ \A c \in box.spaces : c \notin visited /\ content[c] = content[i]
<1> DEFINE x == XOf(w, i)
           y == YOf(w, i)
           free(a, b) == At(w, a, b) \notin visited /\ content[At(w, a, b)] = content[i]
           down == {j \in 1 .. (h - y - 1) : free(x, y + j)}
           tall == Run(h - y, down)
           right == {j \in 1 .. (w - x - 1) : \A d \in 0 .. (tall - 1) : free(x + j, y + d)}
           wide == Run(w - x, right)
           spaces == {At(w, a, b) : a \in x .. (x + wide - 1), b \in y .. (y + tall - 1)}
<1>1. LargestBox(w, h, content, visited, i) =
        [content |-> content[i], x |-> x, y |-> y, w |-> wide, h |-> tall, spaces |-> spaces]
  BY DEF LargestBox
<1>2. x \in 0 .. (w - 1) /\ y \in 0 .. (h - 1) /\ i = At(w, x, y) /\ free(x, y)
  BY CellsOf
<1> HIDE DEF x, y, free
<1>3. h - y \in Nat \ {0} /\ w - x \in Nat \ {0}
  BY <1>2
<1>4. tall \in 1 .. (h - y) /\ 1 .. (tall - 1) \subseteq down
  <2> HIDE DEF down
  <2> QED BY <1>3, RunOf
<1>5. \A d \in 1 .. (tall - 1) : free(x, y + d)
  BY <1>4
<1> HIDE DEF tall
<1>6. wide \in 1 .. (w - x) /\ 1 .. (wide - 1) \subseteq right
  <2> HIDE DEF right
  <2> QED BY <1>3, RunOf
<1>7. \A j \in 1 .. (wide - 1) : \A d \in 0 .. (tall - 1) : free(x + j, y + d)
  BY <1>6
<1> HIDE DEF wide
<1>8. ASSUME NEW a \in x .. (x + wide - 1), NEW b \in y .. (y + tall - 1)
      PROVE  free(a, b) /\ At(w, a, b) \in Cells(w, h)
  <2>1. a \in 0 .. (w - 1) /\ b \in 0 .. (h - 1)
    BY <1>2, <1>4, <1>6
  <2>2. At(w, a, b) \in Cells(w, h)
    BY <2>1, CellsOf
  <2>3. CASE a = x
    <3>1. CASE b = y
      BY <1>2, <2>2, <2>3, <3>1
    <3>2. CASE b # y
      <4>1. b - y \in 1 .. (tall - 1) /\ y + (b - y) = b
        BY <1>2, <1>4, <3>2
      <4>2. free(x, y + (b - y))
        BY <1>5, <4>1
      <4> QED BY <2>2, <2>3, <4>1, <4>2
    <3> QED BY <3>1, <3>2
  <2>4. CASE a # x
    <3>1. /\ a - x \in 1 .. (wide - 1) /\ x + (a - x) = a
          /\ b - y \in 0 .. (tall - 1) /\ y + (b - y) = b
      BY <1>2, <1>4, <1>6, <2>4
    <3>2. free(x + (a - x), y + (b - y))
      BY <1>7, <3>1
    <3> QED BY <2>2, <3>1, <3>2
  <2> QED BY <2>3, <2>4
<1>9. /\ spaces \in SUBSET Cells(w, h) /\ i \in spaces
      /\ \A c \in spaces : c \notin visited /\ content[c] = content[i]
  <2>1. i \in spaces
    <3>1. x \in x .. (x + wide - 1) /\ y \in y .. (y + tall - 1)
      BY <1>2, <1>4, <1>6
    <3> QED BY <1>2, <3>1
  <2>2. \A c \in spaces : c \in Cells(w, h) /\ c \notin visited /\ content[c] = content[i]
    BY <1>8 DEF free
  <2> QED BY <2>1, <2>2
<1>10. /\ x \in Nat /\ y \in Nat /\ wide \in Nat \ {0} /\ tall \in Nat \ {0}
       /\ x + wide <= w /\ y + tall <= h
  BY <1>2, <1>4, <1>6
<1>11. Rectangle(w, h, LargestBox(w, h, content, visited, i))
  <2> DEFINE box == LargestBox(w, h, content, visited, i)
  <2>1. box.x = x /\ box.y = y /\ box.w = wide /\ box.h = tall /\ box.spaces = spaces
    <3> HIDE DEF spaces
    <3> QED BY <1>1
  <2> HIDE DEF box
  <2>2. Rectangle(w, h, box)
    BY <1>10, <2>1 DEF Rectangle
  <2> QED BY <2>2 DEF box
<1> HIDE DEF spaces
<1> QED BY <1>1, <1>9, <1>10, <1>11

\* Boxes of one content each, of which no two share a cell.
BoxIn(w, h, content) ==
  {box \in [content : {content[i] : i \in Cells(w, h)}, x : Nat, y : Nat, w : Nat, h : Nat,
            spaces : SUBSET Cells(w, h)] : Rectangle(w, h, box)}

Apart(content, boxes) ==
  /\ \A b \in DOMAIN boxes :
       /\ boxes[b].spaces # {} /\ boxes[b].content # NoContent
       /\ \A c \in boxes[b].spaces : content[c] = boxes[b].content
  /\ \A b, d \in DOMAIN boxes : boxes[b].spaces \intersect boxes[d].spaces # {} => b = d

Tilings(w, h, content) == {boxes \in Seq(BoxIn(w, h, content)) : Apart(content, boxes)}

\* A cell that is looked at is in a box, if it has content, and stays in one.
LEMMA AddBoxTiles ==
  ASSUME NEW w \in Nat \ {0}, NEW h \in Nat \ {0}, NEW content,
         NEW boxes \in Tilings(w, h, content), NEW i \in Cells(w, h)
  PROVE  LET more == AddBox(w, h, content, boxes, i)
         IN  /\ more \in Tilings(w, h, content)
             /\ Visited(boxes) \subseteq Visited(more)
             /\ content[i] # NoContent => i \in Visited(more)
<1> DEFINE B == BoxIn(w, h, content)
           box == LargestBox(w, h, content, Visited(boxes), i)
           more == Append(boxes, box)
<1>1. CASE i \in Visited(boxes) \/ content[i] = NoContent
  <2>1. AddBox(w, h, content, boxes, i) = boxes
    BY <1>1 DEF AddBox
  <2> QED BY <1>1, <2>1
<1>2. CASE i \notin Visited(boxes) /\ content[i] # NoContent
  <2>1. AddBox(w, h, content, boxes, i) = more
    BY <1>2 DEF AddBox
  <2>2. /\ box \in [content : {content[i]}, x : Nat, y : Nat, w : Nat, h : Nat,
                    spaces : SUBSET Cells(w, h)]
        /\ i \in box.spaces /\ Rectangle(w, h, box)
        /\ \A c \in box.spaces : c \notin Visited(boxes) /\ content[c] = content[i]
    BY <1>2, LargestBoxOf
  <2> HIDE DEF box
  <2>3. box \in B /\ box.content = content[i]
    BY <2>2 DEF BoxIn
  <2>4. boxes \in Seq(B) /\ Apart(content, boxes)
    BY DEF Tilings
  <2> HIDE DEF B
  <2>5. /\ more \in Seq(B) /\ DOMAIN more = 1 .. (Len(boxes) + 1)
        /\ \A b \in 1 .. Len(boxes) : more[b] = boxes[b]
        /\ more[Len(boxes) + 1] = box
        /\ Len(boxes) \in Nat /\ DOMAIN boxes = 1 .. Len(boxes)
    BY <2>3, <2>4, Appended
  <2> HIDE DEF more
  <2>6. \A b \in DOMAIN more : (b \in DOMAIN boxes /\ more[b] = boxes[b])
                               \/ (b = Len(boxes) + 1 /\ more[b] = box)
    BY <2>5
  <2>7. \A b \in DOMAIN boxes : boxes[b].spaces \intersect box.spaces = {}
    BY <2>2 DEF Visited
  <2>8. \A b \in DOMAIN more :
          /\ more[b].spaces # {} /\ more[b].content # NoContent
          /\ \A c \in more[b].spaces : content[c] = more[b].content
    BY <1>2, <2>2, <2>3, <2>4, <2>6 DEF Apart
  <2>9. \A b, d \in DOMAIN more : more[b].spaces \intersect more[d].spaces # {} => b = d
    BY <2>4, <2>6, <2>7 DEF Apart
  <2>10. more \in Tilings(w, h, content)
    BY <2>5, <2>8, <2>9 DEF Tilings, Apart, B
  <2>11. Visited(boxes) \subseteq Visited(more) /\ i \in Visited(more)
    <3>1. \A b \in DOMAIN boxes : b \in DOMAIN more /\ more[b].spaces = boxes[b].spaces
      BY <2>5
    <3>2. Len(boxes) + 1 \in DOMAIN more
      BY <2>5
    <3> QED BY <2>2, <2>5, <3>1, <3>2 DEF Visited
  <2> QED BY <2>1, <2>10, <2>11
<1> QED BY <1>1, <1>2

\* The boxes of a grid have all of its content and nothing else.
LEMMA BoxesTile ==
  ASSUME NEW w \in Nat \ {0}, NEW h \in Nat \ {0}, NEW content
  PROVE  /\ Boxes(w, h, content) \in Tilings(w, h, content)
         /\ \A i \in Cells(w, h) : content[i] # NoContent => i \in Visited(Boxes(w, h, content))
<1> DEFINE n == w * h
           r == [k \in 1 .. (w * h) |-> k - 1]
           S == Tilings(w, h, content)
           step == [k \in 1 .. n |-> [q \in S |-> AddBox(w, h, content, q, k - 1)]]
           Is(f) == f = [k \in 0 .. n |-> IF k = 0 THEN <<>>
                          ELSE CHOOSE y \in {AddBox(w, h, content, q, r[k]) : q \in {f[k - 1]}} : TRUE]
           f == CHOOSE g : Is(g)
<1>1. n \in Nat
  OBVIOUS
<1>2. Len(r) = n /\ \A k \in 1 .. n : r[k] = k - 1
  <2> HIDE DEF n
  <2>1. r = [k \in 1 .. n |-> k - 1]
    BY DEF n
  <2> HIDE DEF r
  <2> QED BY <1>1, <2>1
<1>3. Boxes(w, h, content) = f[n]
  <2>1. Boxes(w, h, content) = Fold(LAMBDA q, i : AddBox(w, h, content, q, i), <<>>, r)
    BY DEF Boxes, With
  <2> QED BY <1>2, <2>1 DEF Fold, With
<1>4. <<>> \in S
  BY DEF Tilings, Apart
<1>5. \A k \in 1 .. n : k - 1 \in Cells(w, h)
  BY <1>1 DEF Cells
<1>6. \A k \in 1 .. n : \A q \in S :
        /\ AddBox(w, h, content, q, k - 1) \in S
        /\ Visited(q) \subseteq Visited(AddBox(w, h, content, q, k - 1))
        /\ content[k - 1] # NoContent => k - 1 \in Visited(AddBox(w, h, content, q, k - 1))
  BY <1>5, AddBoxTiles
<1> HIDE DEF n, r, S
<1>7. PICK g \in [0 .. n -> S] : Iterates(g, n, <<>>, step)
  <2>1. Closed(S, n, step)
    BY <1>6 DEF Closed
  <2> HIDE DEF step
  <2> QED BY <1>1, <1>4, <2>1, Recursion, Zenon
<1>8. \A k \in 1 .. n : g[k - 1] \in S
  <2>1. \A k \in 1 .. n : k - 1 \in 0 .. n
    BY <1>1
  <2> QED BY <1>7, <2>1
<1>9. Is(g)
  <2>1. \A k \in 1 .. n : step[k][g[k - 1]] = AddBox(w, h, content, g[k - 1], r[k])
    BY <1>2, <1>8
  <2>2. \A k \in 0 .. n : k # 0 => k \in 1 .. n
    BY <1>1
  <2> HIDE DEF step
  <2>3. g = [k \in 0 .. n |-> IF k = 0 THEN <<>> ELSE AddBox(w, h, content, g[k - 1], r[k])]
    BY <1>7, <2>1, <2>2 DEF Iterates
  <2> QED BY <2>3
<1>10. Is(f)
  BY <1>9
<1> HIDE DEF f
<1>11. f[0] = <<>> /\ \A k \in 1 .. n : f[k] = AddBox(w, h, content, f[k - 1], k - 1)
  <2>1. 0 \in 0 .. n /\ \A k \in 1 .. n : k \in 0 .. n /\ k # 0
    BY <1>1
  <2> QED BY <1>2, <1>10, <2>1
<1> DEFINE T == {k \in 0 .. n : f[k] \in S /\ \A i \in 0 .. (k - 1) :
                                                 content[i] # NoContent => i \in Visited(f[k])}
<1>12. 0 \in T
  BY <1>1, <1>4, <1>11
<1>13. ASSUME NEW k \in 1 .. n, k - 1 \in T PROVE k \in T
  <2>1. /\ f[k - 1] \in S /\ f[k] = AddBox(w, h, content, f[k - 1], k - 1)
        /\ \A i \in 0 .. (k - 2) : content[i] # NoContent => i \in Visited(f[k - 1])
    BY <1>11, <1>13
  <2>2. /\ f[k] \in S /\ Visited(f[k - 1]) \subseteq Visited(f[k])
        /\ content[k - 1] # NoContent => k - 1 \in Visited(f[k])
    BY <1>6, <2>1
  <2>3. \A i \in 0 .. (k - 1) : i = k - 1 \/ i \in 0 .. (k - 2)
    BY <1>1
  <2>4. k \in 0 .. n
    BY <1>1
  <2> QED BY <2>1, <2>2, <2>3, <2>4
<1>14. n \in T
  <2> HIDE DEF T
  <2>1. \A k \in 0 .. n : k \in T
    BY <1>1, <1>12, <1>13, Induct
  <2> QED BY <1>1, <2>1
<1>15. Cells(w, h) = 0 .. (n - 1)
  BY DEF Cells, n
<1> QED BY <1>3, <1>14, <1>15 DEF S

-----------------------------------------------------------------------------
(* The document stays on the grid.                                         *)

Configured ==
  /\ cols \in Width /\ rows \in Height
  /\ assign \in [Cell -> Stream \union {NoStream}]
  /\ streams \in [Stream -> Kind \union {NoKind}]

\* Nothing is assigned to a cell off the grid.
Clean == \A i \in Cell \ Cells(cols, rows) : assign[i] = NoStream

\* At most one actor is heard, now or when it comes back.
OneHeard ==
  \A a, b \in Actor : Hearing(view[a]) = "listening" /\ Hearing(view[b]) = "listening" => a = b

\* What every grid that is allowed has.
LEMMA GridOf ==
  ASSUME NEW w \in Width, NEW h \in Height
  PROVE  w \in Nat \ {0} /\ h \in Nat \ {0} /\ Cells(w, h) \subseteq Cell
<1>1. MaxCols \in Nat /\ MaxRows \in Nat
  BY WallBoundsAssumption
<1>2. w \in Nat \ {0} /\ h \in Nat \ {0} /\ w <= MaxCols /\ h <= MaxRows
  BY <1>1 DEF Width, Height
<1> QED BY <1>1, <1>2, CellsGrow DEF Cell

\* The boxes of the wall: what the document says, on the grid.
LEMMA WallBoxesTile ==
  ASSUME Configured', fullscreenViewIdx' \in Cell \union {NoCell}
  PROVE  /\ WallBoxes' \in Seq(BoxIn(cols', rows', ToShow')) /\ Apart(ToShow', WallBoxes')
         /\ \A i \in Cells(cols', rows') : ToShow'[i] # NoContent => i \in Visited(WallBoxes')
         /\ Len(WallBoxes') \in Nat /\ DOMAIN WallBoxes' = 1 .. Len(WallBoxes')
         /\ \A b \in 1 .. Len(WallBoxes') :
              /\ IsBox(WallBoxes'[b]) /\ WallBoxes'[b].spaces # {}
              /\ WallBoxes'[b].spaces \subseteq Cells(cols', rows')
              /\ WallBoxes'[b].spaces \subseteq Cell
<1>1. PICK w, h, content, boxes :
        w = cols' /\ h = rows' /\ content = ToShow' /\ boxes = WallBoxes'
  OBVIOUS
<1>2. w \in Nat \ {0} /\ h \in Nat \ {0} /\ Cells(w, h) \subseteq Cell
  BY <1>1, GridOf DEF Configured
<1>3. \A i \in Cell : Wanted'[i] \in Content
  BY DEF Configured, Wanted, ContentOf, Content
<1>4. \A i \in Cell : content[i] \in Content
  BY <1>1, <1>3 DEF ToShow, Expanded
<1>5. boxes = Boxes(w, h, content)
  BY <1>1 DEF WallBoxes
<1>6. /\ boxes \in Seq(BoxIn(w, h, content)) /\ Apart(content, boxes)
      /\ \A i \in Cells(w, h) : content[i] # NoContent => i \in Visited(boxes)
  BY <1>2, <1>5, BoxesTile DEF Tilings
<1>7. Len(boxes) \in Nat /\ DOMAIN boxes = 1 .. Len(boxes)
  BY <1>6
<1>8. \A b \in 1 .. Len(boxes) :
        /\ IsBox(boxes[b]) /\ boxes[b].spaces # {}
        /\ boxes[b].spaces \subseteq Cells(w, h) /\ boxes[b].spaces \subseteq Cell
  <2>1. \A b \in 1 .. Len(boxes) : boxes[b] \in BoxIn(w, h, content) /\ boxes[b].spaces # {}
    BY <1>6, <1>7 DEF Apart
  <2> QED BY <1>2, <1>4, <2>1 DEF BoxIn, IsBox
<1> QED BY <1>1, <1>6, <1>7, <1>8

\* What the wall derives from the document is what it shows, on actors of which none
\* is heard that was not heard before.
LEMMA UpdateStep ==
  ASSUME Actors, Configured', Clean', NEW f,
         f \in Cells(cols', rows') \union {NoCell}, UpdateViewsFromStateDoc(f)
  PROVE  /\ Actors' /\ ShowsDocument' /\ NoGhosts'
         /\ fullscreenViewIdx' \in Cell \union {NoCell}
         /\ \A a \in Actor : Hearing(view'[a]) \in {Hearing(view[a]), "muted"}
<1>1. PICK w, h, content, boxes :
        /\ w = cols' /\ h = rows' /\ content = ToShow' /\ boxes = WallBoxes'
        /\ SetViews(boxes, Expanded')
  BY DEF UpdateViewsFromStateDoc
<1>2. w \in Nat \ {0} /\ h \in Nat \ {0} /\ Cells(w, h) \subseteq Cell
  BY <1>1, GridOf DEF Configured
<1>3. /\ fullscreenViewIdx' = IF f # NoCell /\ Wanted'[f] # NoContent THEN f ELSE NoCell
      /\ fullscreenViewIdx' \in Cell \union {NoCell}
  BY <1>1, <1>2 DEF UpdateViewsFromStateDoc
<1>4. NoGhosts'
  BY <1>1, <1>3 DEF NoGhosts, Clean, Expanded
<1>7. /\ Apart(content, boxes)
      /\ \A i \in Cells(w, h) : content[i] # NoContent => i \in Visited(boxes)
  BY <1>1, <1>3, WallBoxesTile
<1>8. Len(boxes) \in Nat /\ DOMAIN boxes = 1 .. Len(boxes)
  BY <1>1, <1>3, WallBoxesTile
<1>9. \A b \in 1 .. Len(boxes) :
        IsBox(boxes[b]) /\ boxes[b].spaces # {} /\ boxes[b].spaces \subseteq Cells(w, h)
  BY <1>1, <1>3, WallBoxesTile
<1>10. Expanded' \in BOOLEAN
  BY DEF Expanded
<1>11. /\ Actors'
       /\ \A a \in Actor : Hearing(view'[a]) \in {Hearing(view[a]), "muted"}
       /\ OnOwn(boxes) /\ (~ Expanded' => parked' = <<>>)
  BY <1>1, <1>8, <1>9, <1>10, SetViewsStep
<1>12. PICK own \in [1 .. Len(boxes) -> Actor] :
         /\ ToSet(live') = {own[b] : b \in 1 .. Len(boxes)}
         /\ \A b \in 1 .. Len(boxes) : Takes(view'[own[b]], boxes[b])
  BY <1>11 DEF OnOwn
<1>13. \A b \in 1 .. Len(boxes) : /\ view'[own[b]].spaces = boxes[b].spaces
                                  /\ view'[own[b]].content = boxes[b].content
  BY <1>12 DEF Takes
<1>14. ASSUME NEW i \in Cells(w, h)
       PROVE  LET covering == {a \in ToSet(live') : i \in view'[a].spaces}
              IN  /\ content[i] = NoContent => covering = {}
                  /\ content[i] # NoContent =>
                       \E a \in covering : covering = {a} /\ view'[a].content = content[i]
  <2> DEFINE covering == {a \in ToSet(live') : i \in view'[a].spaces}
  <2>1. \A a \in covering : \E b \in 1 .. Len(boxes) : a = own[b] /\ i \in boxes[b].spaces
    BY <1>12, <1>13
  <2>2. \A b \in 1 .. Len(boxes) :
          i \in boxes[b].spaces => boxes[b].content # NoContent /\ content[i] = boxes[b].content
    BY <1>7, <1>8 DEF Apart
  <2>3. content[i] = NoContent => covering = {}
    BY <2>1, <2>2
  <2>4. ASSUME content[i] # NoContent
        PROVE  \E a \in covering : covering = {a} /\ view'[a].content = content[i]
    <3>1. PICK b \in 1 .. Len(boxes) : i \in boxes[b].spaces
      BY <1>7, <1>8, <2>4 DEF Visited
    <3>2. own[b] \in covering /\ view'[own[b]].content = content[i]
      BY <1>12, <1>13, <2>2, <3>1
    <3>3. \A d \in 1 .. Len(boxes) : i \in boxes[d].spaces => d = b
      BY <1>7, <1>8, <3>1 DEF Apart
    <3>4. covering = {own[b]}
      BY <2>1, <3>2, <3>3
    <3> HIDE DEF covering
    <3> QED BY <3>2, <3>4
  <2> QED BY <2>3, <2>4
<1>15. \A a \in ToSet(live') : view'[a].spaces # {} /\ view'[a].spaces \subseteq Cells(w, h)
  BY <1>9, <1>12, <1>13
<1>16. ShowsDocument'
  <2>1. parked' # <<>> => Expanded'
    BY <1>11
  <2> QED BY <1>1, <1>14, <1>15, <2>1 DEF ShowsDocument
<1> QED BY <1>3, <1>4, <1>11, <1>16

-----------------------------------------------------------------------------
(* What edits of the document make of it.                                  *)

\* The greatest number of a set has that set in 0 .. n.
LEMMA MaxOfNat ==
  ASSUME NEW n \in Nat, NEW T \in SUBSET (0 .. n), T # {}
  PROVE  Max(T) \in T /\ \A k \in T : k <= Max(T)
<1> DEFINE R == {n - k : k \in T}
<1>1. R \in SUBSET Nat /\ R # {}
  OBVIOUS
<1>2. PICK m \in R : \A k \in R : m <= k
  <2> HIDE DEF R
  <2> QED BY <1>1, Least, Zenon
<1>3. PICK x \in T : m = n - x
  OBVIOUS
<1>4. \A k \in T : x >= k
  <2> SUFFICES ASSUME NEW k \in T PROVE x >= k
    OBVIOUS
  <2>1. n - k \in R
    OBVIOUS
  <2>2. n - x <= n - k /\ x \in 0 .. n /\ k \in 0 .. n
    BY <1>2, <1>3, <2>1
  <2> QED BY <2>2
<1>5. Max(T) \in T /\ \A k \in T : Max(T) >= k
  BY <1>4, Zenon DEF Max
<1> QED BY <1>5

\* A shift keeps what is on 0 .. n - 1 there.
LEMMA ShiftStays ==
  ASSUME NEW n \in Nat \ {0}, NEW T \in SUBSET (0 .. (n - 1)), T # {},
         NEW from \in 0 .. (n - 1), NEW to \in 0 .. (n - 1)
  PROVE  \A k \in T : k + Shift(T, n, from, to) \in 0 .. (n - 1)
<1>1. Min(T) \in T /\ \A k \in T : Min(T) <= k
  <2>1. T \in SUBSET Nat
    OBVIOUS
  <2> QED BY <2>1, MinOfNat, Zenon
<1>2. Max(T) \in T /\ \A k \in T : k <= Max(T)
  <2>1. n - 1 \in Nat
    OBVIOUS
  <2> QED BY <2>1, MaxOfNat
<1>3. Min(T) \in 0 .. (n - 1) /\ Max(T) \in 0 .. (n - 1)
  BY <1>1, <1>2
<1> DEFINE d == to - from
<1>4. CASE Min(T) + d < 0
  <2>1. Shift(T, n, from, to) = - Min(T)
    BY <1>4 DEF Shift
  <2> QED BY <1>1, <1>3, <2>1
<1>5. CASE ~ (Min(T) + d < 0) /\ Max(T) + d > n - 1
  <2>1. Shift(T, n, from, to) = n - 1 - Max(T)
    BY <1>5 DEF Shift
  <2> QED BY <1>2, <1>3, <2>1
<1>6. CASE ~ (Min(T) + d < 0) /\ ~ (Max(T) + d > n - 1)
  <2>1. Shift(T, n, from, to) = d
    BY <1>6 DEF Shift
  <2> QED BY <1>1, <1>2, <1>3, <1>6, <2>1
<1> QED BY <1>4, <1>5, <1>6

\* The columns and the lines of cells of a grid.
LEMMA AxesOf ==
  ASSUME NEW w \in Nat \ {0}, NEW h \in Nat \ {0}, NEW S \in SUBSET Cells(w, h), S # {}
  PROVE  /\ Columns(w, S) \in SUBSET (0 .. (w - 1)) /\ Columns(w, S) # {}
         /\ Lines(w, S) \in SUBSET (0 .. (h - 1)) /\ Lines(w, S) # {}
         /\ Max(Columns(w, S)) \in 0 .. (w - 1) /\ Max(Lines(w, S)) \in 0 .. (h - 1)
<1>1. \A i \in S : XOf(w, i) \in 0 .. (w - 1) /\ YOf(w, i) \in 0 .. (h - 1)
  BY CellsOf
<1>2. /\ Columns(w, S) \in SUBSET (0 .. (w - 1)) /\ Columns(w, S) # {}
      /\ Lines(w, S) \in SUBSET (0 .. (h - 1)) /\ Lines(w, S) # {}
  BY <1>1 DEF Columns, Lines
<1>3. w - 1 \in Nat /\ h - 1 \in Nat
  OBVIOUS
<1>4. Max(Columns(w, S)) \in Columns(w, S) /\ Max(Lines(w, S)) \in Lines(w, S)
  BY <1>2, <1>3, MaxOfNat
<1> QED BY <1>2, <1>4

\* A tile that is moved stays on the grid.
LEMMA TranslatedStays ==
  ASSUME NEW w \in Nat \ {0}, NEW h \in Nat \ {0}, NEW S \in SUBSET Cells(w, h), S # {},
         NEW from \in Cells(w, h), NEW to \in Cells(w, h)
  PROVE  Translated(w, h, S, from, to) \subseteq Cells(w, h)
<1> DEFINE dx == Shift(Columns(w, S), w, XOf(w, from), XOf(w, to))
           dy == Shift(Lines(w, S), h, YOf(w, from), YOf(w, to))
<1>1. /\ \A k \in Columns(w, S) : k + dx \in 0 .. (w - 1)
      /\ \A k \in Lines(w, S) : k + dy \in 0 .. (h - 1)
  BY AxesOf, CellsOf, ShiftStays
<1>2. Translated(w, h, S, from, to) = {At(w, XOf(w, i) + dx, YOf(w, i) + dy) : i \in S}
  BY DEF Translated
<1> HIDE DEF dx, dy
<1>3. \A i \in S : XOf(w, i) + dx \in 0 .. (w - 1) /\ YOf(w, i) + dy \in 0 .. (h - 1)
  BY <1>1 DEF Columns, Lines
<1>4. \A i \in S : At(w, XOf(w, i) + dx, YOf(w, i) + dy) \in Cells(w, h)
  BY <1>3, CellsOf
<1> QED BY <1>2, <1>4

\* And so does one that is resized.
LEMMA ResizedStays ==
  ASSUME NEW w \in Nat \ {0}, NEW h \in Nat \ {0}, NEW S \in SUBSET Cells(w, h), S # {},
         NEW anchor \in Cells(w, h), NEW hover \in Cells(w, h), NEW handle
  PROVE  ResizeBox(w, anchor, hover, handle, S) \subseteq Cells(w, h)
<1> DEFINE right == IF handle = "s" THEN Max(Columns(w, S))
                    ELSE Max({XOf(w, anchor), XOf(w, hover)})
           bottom == IF handle = "e" THEN Max(Lines(w, S))
                     ELSE Max({YOf(w, anchor), YOf(w, hover)})
<1>1. /\ XOf(w, anchor) \in 0 .. (w - 1) /\ YOf(w, anchor) \in 0 .. (h - 1)
      /\ XOf(w, hover) \in 0 .. (w - 1) /\ YOf(w, hover) \in 0 .. (h - 1)
  BY CellsOf
<1>2. \A n \in Nat \ {0} : \A x, y \in 0 .. (n - 1) : Max({x, y}) \in 0 .. (n - 1)
  <2> SUFFICES ASSUME NEW n \in Nat \ {0}, NEW x \in 0 .. (n - 1), NEW y \in 0 .. (n - 1)
               PROVE  Max({x, y}) \in 0 .. (n - 1)
    OBVIOUS
  <2>1. n - 1 \in Nat /\ {x, y} \in SUBSET (0 .. (n - 1)) /\ {x, y} # {}
    OBVIOUS
  <2>2. Max({x, y}) \in {x, y}
    BY <2>1, MaxOfNat
  <2> QED BY <2>1, <2>2
<1>3. right \in 0 .. (w - 1) /\ bottom \in 0 .. (h - 1)
  BY <1>1, <1>2, AxesOf
<1>4. ResizeBox(w, anchor, hover, handle, S) =
        {At(w, x, y) : x \in XOf(w, anchor) .. right, y \in YOf(w, anchor) .. bottom}
  BY DEF ResizeBox
<1> HIDE DEF right, bottom
<1>5. \A x \in XOf(w, anchor) .. right, y \in YOf(w, anchor) .. bottom :
        At(w, x, y) \in Cells(w, h)
  <2>1. /\ XOf(w, anchor) .. right \subseteq 0 .. (w - 1)
        /\ YOf(w, anchor) .. bottom \subseteq 0 .. (h - 1)
    BY <1>1, <1>3
  <2> QED BY <2>1, CellsOf
<1> QED BY <1>4, <1>5

\* The document that a gesture leaves, on the cells of the grid.
Written(w, h, ids) ==
  /\ ids \in [Cell -> Stream \union {NoStream}]
  /\ \A i \in Cell \ Cells(w, h) : ids[i] = NoStream

\* Giving cells of the grid a stream keeps the document on it.
LEMMA AssignedStays ==
  ASSUME NEW w, NEW h, NEW ids, Written(w, h, ids), NEW S \in SUBSET Cells(w, h),
         NEW s \in Stream \union {NoStream}
  PROVE  Written(w, h, Assigned(ids, S, s))
<1>1. DOMAIN ids = Cell
  BY DEF Written
<1>2. Assigned(ids, S, s) = [i \in Cell |-> IF i \in S THEN s ELSE ids[i]]
  BY <1>1 DEF Assigned
<1> QED BY <1>2 DEF Written

\* A swap keeps the document on the grid.
LEMMA SwappedStays ==
  ASSUME NEW w \in Width, NEW h \in Height, NEW ids, Written(w, h, ids),
         NEW tile \in [Cell -> SUBSET Cells(w, h)],
         NEW from \in Cells(w, h), NEW to \in Cells(w, h)
  PROVE  Written(w, h, Swapped(w, h, ids, NoStream, tile, from, to))
<1> DEFINE own(i) == IF tile[i] = {} THEN {i} ELSE tile[i]
           held(i) == IF tile[i] = {} THEN NoStream ELSE ids[i]
<1>1. w \in Nat \ {0} /\ h \in Nat \ {0} /\ from \in Cell /\ to \in Cell
  BY GridOf
<1>2. tile[from] \in SUBSET Cells(w, h) /\ tile[to] \in SUBSET Cells(w, h)
  BY <1>1
<1>3. ids[from] \in Stream \union {NoStream} /\ ids[to] \in Stream \union {NoStream}
  BY <1>1 DEF Written
<1>4. CASE tile[from] # {} /\ tile[to] = {}
  <2>1. Swapped(w, h, ids, NoStream, tile, from, to) =
          Assigned(Assigned(ids, tile[from], NoStream),
                   Translated(w, h, tile[from], from, to), ids[from])
    BY <1>4 DEF Swapped
  <2>2. Translated(w, h, tile[from], from, to) \in SUBSET Cells(w, h)
    BY <1>1, <1>2, <1>4, TranslatedStays
  <2>3. Written(w, h, Assigned(ids, tile[from], NoStream))
    BY <1>2, AssignedStays
  <2> QED BY <1>3, <2>1, <2>2, <2>3, AssignedStays
<1>5. CASE ~ (tile[from] # {} /\ tile[to] = {})
  <2>1. Swapped(w, h, ids, NoStream, tile, from, to) =
          Assigned(Assigned(ids, own(from), held(to)), own(to), held(from))
    BY <1>5 DEF Swapped
  <2>2. /\ own(from) \in SUBSET Cells(w, h) /\ own(to) \in SUBSET Cells(w, h)
        /\ held(from) \in Stream \union {NoStream} /\ held(to) \in Stream \union {NoStream}
    BY <1>2, <1>3
  <2> HIDE DEF own, held
  <2>3. Written(w, h, Assigned(ids, own(from), held(to)))
    BY <2>2, AssignedStays
  <2> QED BY <2>1, <2>2, <2>3, AssignedStays
<1> QED BY <1>4, <1>5

\* A resize of the grid keeps what it keeps on the new one.
LEMMA RemapStays ==
  ASSUME NEW w \in Width, NEW h \in Height, NEW nw \in Width, NEW nh \in Height,
         NEW ids, Written(w, h, ids)
  PROVE  /\ Written(nw, nh, Remap(Cell, w, h, nw, nh, ids, NoStream))
         /\ \A i \in Cell \union {NoCell} :
              RemapCell(w, h, nw, nh, i) \in Cells(nw, nh) \union {NoCell}
<1>1. /\ w \in Nat \ {0} /\ h \in Nat \ {0} /\ nw \in Nat \ {0} /\ nh \in Nat \ {0}
      /\ Cells(w, h) \subseteq Cell /\ Cells(nw, nh) \subseteq Cell
  BY GridOf
<1>2. ASSUME NEW i \in Cells(nw, nh), XOf(nw, i) < w, YOf(nw, i) < h
      PROVE  ids[At(w, XOf(nw, i), YOf(nw, i))] \in Stream \union {NoStream}
  <2>1. XOf(nw, i) \in 0 .. (w - 1) /\ YOf(nw, i) \in 0 .. (h - 1)
    <3>1. XOf(nw, i) \in 0 .. (nw - 1) /\ YOf(nw, i) \in 0 .. (nh - 1)
      BY <1>1, CellsOf
    <3> QED BY <1>1, <1>2, <3>1
  <2>2. At(w, XOf(nw, i), YOf(nw, i)) \in Cell
    BY <1>1, <2>1, CellsOf
  <2> QED BY <2>2 DEF Written
<1>3. Written(nw, nh, Remap(Cell, w, h, nw, nh, ids, NoStream))
  BY <1>2 DEF Written, Remap
<1>4. ASSUME NEW i \in Cell \union {NoCell}
      PROVE  RemapCell(w, h, nw, nh, i) \in Cells(nw, nh) \union {NoCell}
  <2>1. CASE i \in Cells(w, h) /\ XOf(w, i) < nw /\ YOf(w, i) < nh
    <3>1. XOf(w, i) \in 0 .. (nw - 1) /\ YOf(w, i) \in 0 .. (nh - 1)
      <4>1. XOf(w, i) \in 0 .. (w - 1) /\ YOf(w, i) \in 0 .. (h - 1)
        BY <1>1, <2>1, CellsOf
      <4> QED BY <1>1, <2>1, <4>1
    <3>2. At(nw, XOf(w, i), YOf(w, i)) \in Cells(nw, nh)
      BY <1>1, <3>1, CellsOf
    <3> QED BY <2>1, <3>2 DEF RemapCell
  <2>2. CASE ~ (i \in Cells(w, h) /\ XOf(w, i) < nw /\ YOf(w, i) < nh)
    BY <2>2 DEF RemapCell
  <2> QED BY <2>1, <2>2
<1> QED BY <1>3, <1>4

-----------------------------------------------------------------------------
(* The invariant.                                                          *)

\* The presets are documents that were on their grids.
Saved ==
  /\ presets \in Seq(PresetType) /\ Len(presets) <= MaxPresets
  /\ \A p \in DOMAIN presets : Written(presets[p].cols, presets[p].rows, presets[p].views)

WallInv ==
  /\ Configured /\ Clean /\ Saved
  /\ fullscreenViewIdx \in Cell \union {NoCell} /\ NoGhosts
  /\ Actors /\ OneHeard /\ ShowsDocument

\* A wall with nothing on it, of a document whose streams are not there yet.
NothingShown ==
  /\ Configured /\ streams = [s \in Stream |-> NoKind] /\ fullscreenViewIdx = NoCell
  /\ live = <<>> /\ parked = <<>> /\ view = [a \in Actor |-> NoActor]

\* It is as it should be.
LEMMA EmptyWallShows == NothingShown => Actors /\ OneHeard /\ ShowsDocument
<1> SUFFICES ASSUME NothingShown PROVE Actors /\ OneHeard /\ ShowsDocument
  OBVIOUS
<1> USE DEF NothingShown
<1>1. NoActor \in ActorState /\ Hearing(NoActor) = "muted"
  BY DEF NoActor, ActorState, Sound, Content, NotParked, Hearing
<1>2. Actors
  BY <1>1 DEF Actors, Places, Alive, ToSet
<1>3. OneHeard
  BY <1>1 DEF OneHeard
<1>4. \A i \in Cells(cols, rows) : ToShow[i] = NoContent
  BY GridOf DEF Configured, ToShow, Expanded, Wanted, ContentOf
<1>5. ToSet(live) = {}
  BY DEF ToSet
<1>6. ShowsDocument
  BY <1>4, <1>5 DEF ShowsDocument
<1> QED BY <1>2, <1>3, <1>6

\* At the start.
LEMMA WallStarts == WallInit => WallInv
<1> SUFFICES ASSUME WallInit PROVE WallInv
  OBVIOUS
<1> USE DEF WallInit
<1>1. Configured /\ Clean
  BY DEF Configured, Clean
<1>2. Saved
  BY WallBoundsAssumption DEF Saved
<1>3. fullscreenViewIdx \in Cell \union {NoCell} /\ NoGhosts
  BY <1>1 DEF NoGhosts, Clean, Expanded
<1>4. Actors /\ OneHeard /\ ShowsDocument
  BY <1>1, EmptyWallShows DEF NothingShown
<1> QED BY <1>1, <1>2, <1>3, <1>4 DEF WallInv

\* Whatever ends in updateViewsFromStateDoc keeps the invariant, if the document does.
LEMMA UpdateKeeps ==
  ASSUME WallInv, Configured', Clean', Saved', NEW f,
         f \in Cells(cols', rows') \union {NoCell}, UpdateViewsFromStateDoc(f)
  PROVE  WallInv'
<1>1. /\ Actors' /\ ShowsDocument' /\ NoGhosts'
      /\ fullscreenViewIdx' \in Cell \union {NoCell}
      /\ \A a \in Actor : Hearing(view'[a]) \in {Hearing(view[a]), "muted"}
  BY UpdateStep DEF WallInv
<1>2. OneHeard'
  BY <1>1 DEF WallInv, OneHeard
<1> QED BY <1>1, <1>2 DEF WallInv

\* The expanded cell is one of the grid.
LEMMA ExpandedCell ==
  ASSUME WallInv
  PROVE  fullscreenViewIdx \in Cells(cols, rows) \union {NoCell}
BY DEF WallInv, NoGhosts, Expanded

\* Each action keeps the invariant.
LEMMA StreamsUpdateKeeps ==
  ASSUME WallInv, NEW s \in Stream, NEW k \in Kind \union {NoKind}, StreamsUpdate(s, k)
  PROVE  WallInv'
<1>1. Configured' /\ Clean' /\ Saved'
  BY DEF WallInv, StreamsUpdate, doc, Configured, Clean, Saved
<1>2. fullscreenViewIdx \in Cells(cols', rows') \union {NoCell}
  BY ExpandedCell DEF StreamsUpdate, doc
<1> QED BY <1>1, <1>2, UpdateKeeps DEF StreamsUpdate

\* An edit keeps the invariant if it leaves the document on the grid.
LEMMA EditKeeps ==
  ASSUME WallInv, Edited, Written(cols, rows, assign')
  PROVE  WallInv'
<1>1. Configured' /\ Clean' /\ Saved'
  BY DEF WallInv, Edited, Configured, Clean, Saved, Written
<1>2. fullscreenViewIdx \in Cells(cols', rows') \union {NoCell}
  BY ExpandedCell DEF Edited
<1> QED BY <1>1, <1>2, UpdateKeeps DEF Edited

\* A stream put into a cell of the grid, or none.
LEMMA PlaceKeeps ==
  ASSUME WallInv, NEW i \in Cells(cols, rows), NEW s \in Stream \union {NoStream}, Place(i, s)
  PROVE  WallInv'
<1>1. i \in Cell
  BY GridOf DEF WallInv, Configured
<1>2. Written(cols, rows, assign')
  BY <1>1 DEF WallInv, Configured, Clean, Written, Place
<1> QED BY <1>2, EditKeeps DEF Place

\* A tile dragged.
LEMMA DragKeeps ==
  ASSUME WallInv, NEW i \in Cells(cols, rows), NEW j \in Cells(cols, rows), Drag(i, j)
  PROVE  WallInv'
<1>1. PICK tile : tile = Tile /\ assign' = Swapped(cols, rows, assign, NoStream, tile, i, j)
  BY DEF Drag
<1>2. tile \in [Cell -> SUBSET Cells(cols, rows)]
  BY <1>1 DEF WallInv, ShowsDocument, Tile
<1>3. Written(cols, rows, assign) /\ cols \in Width /\ rows \in Height
  BY DEF WallInv, Configured, Clean, Written
<1>4. Written(cols, rows, assign')
  BY <1>1, <1>2, <1>3, SwappedStays
<1> QED BY <1>4, EditKeeps DEF Drag

\* The anchor of a tile is one of its cells, and on the grid.
LEMMA AnchorOf ==
  ASSUME WallInv, NEW a \in ToSet(live)
  PROVE  /\ view[a].spaces \in SUBSET Cells(cols, rows) /\ view[a].spaces # {}
         /\ Min(view[a].spaces) \in Cells(cols, rows)
<1>1. view[a].spaces \in SUBSET Cells(cols, rows) /\ view[a].spaces # {}
  BY DEF WallInv, ShowsDocument
<1>2. Cells(cols, rows) \subseteq Nat
  BY DEF Cells
<1>3. view[a].spaces \in SUBSET Nat
  BY <1>1, <1>2
<1> QED BY <1>1, <1>3, MinOfNat

\* A tile resized.
LEMMA StretchKeeps ==
  ASSUME WallInv, NEW i \in Cells(cols, rows), NEW a \in ToSet(live), NEW d, Stretch(a, i, d)
  PROVE  WallInv'
<1> DEFINE S == view[a].spaces
           anchor == Min(S)
           box == ResizeBox(cols, anchor, i, d, S)
<1>1. S \in SUBSET Cells(cols, rows) /\ S # {} /\ anchor \in Cells(cols, rows)
  BY AnchorOf
<1>2. assign' = Assigned(Assigned(assign, S, NoStream), box, assign[anchor]) /\ Edited
  BY DEF Stretch, Stretched
<1> HIDE DEF S, anchor
<1>3. /\ Written(cols, rows, assign) /\ cols \in Nat \ {0} /\ rows \in Nat \ {0}
      /\ Cells(cols, rows) \subseteq Cell
  BY GridOf DEF WallInv, Configured, Clean, Written
<1>4. box \in SUBSET Cells(cols, rows) /\ assign[anchor] \in Stream \union {NoStream}
  BY <1>1, <1>3, ResizedStays DEF Written
<1> HIDE DEF box
<1>5. Written(cols, rows, Assigned(assign, S, NoStream))
  BY <1>1, <1>3, AssignedStays
<1>6. Written(cols, rows, assign')
  BY <1>2, <1>4, <1>5, AssignedStays
<1> QED BY <1>2, <1>6, EditKeeps

\* The grid resized.
LEMMA SetGridSizeKeeps ==
  ASSUME WallInv, NEW w \in Width, NEW h \in Height, SetGridSize(w, h)
  PROVE  WallInv'
<1>1. Written(cols, rows, assign) /\ cols \in Width /\ rows \in Height
  BY DEF WallInv, Configured, Clean, Written
<1>2. cols' = w /\ rows' = h /\ assign' = Remap(Cell, cols, rows, w, h, assign, NoStream)
  BY DEF SetGridSize
<1>3. /\ Written(w, h, assign')
      /\ RemapCell(cols, rows, w, h, fullscreenViewIdx) \in Cells(w, h) \union {NoCell}
  BY <1>1, <1>2, RemapStays DEF WallInv
<1>4. Configured' /\ Clean'
  BY <1>2, <1>3 DEF WallInv, Configured, Clean, Written, SetGridSize
<1>5. Saved'
  BY DEF WallInv, Saved, SetGridSize
<1>6. RemapFullscreen(w, h) \in Cells(cols', rows') \union {NoCell}
  BY <1>2, <1>3 DEF RemapFullscreen
<1>7. UpdateViewsFromStateDoc(RemapFullscreen(w, h))
  BY DEF SetGridSize
<1> QED BY <1>4, <1>5, <1>6, <1>7, UpdateKeeps

\* A tile expanded, or none.
LEMMA SetViewFullscreenKeeps ==
  ASSUME WallInv, NEW a \in Alive, NEW b \in BOOLEAN, SetViewFullscreen(a, b)
  PROVE  WallInv'
<1> DEFINE f == IF b /\ a \in ToSet(live) THEN Min(view[a].spaces) ELSE NoCell
<1>1. Configured' /\ Clean' /\ Saved'
  BY DEF WallInv, SetViewFullscreen, doc, Configured, Clean, Saved
<1>2. f \in Cells(cols', rows') \union {NoCell}
  BY AnchorOf DEF SetViewFullscreen, doc
<1>3. UpdateViewsFromStateDoc(f)
  BY DEF SetViewFullscreen
<1> HIDE DEF f
<1> QED BY <1>1, <1>2, <1>3, UpdateKeeps

\* What does not touch the wall keeps the invariant, if the presets do.
LEMMA PresetsKeep ==
  ASSUME WallInv, Saved', UNCHANGED <<doc, streams, fullscreenViewIdx, wall>>
  PROVE  WallInv'
<1>1. UNCHANGED <<cols, rows, assign, streams, fullscreenViewIdx, live, parked, view>>
  BY DEF doc, wall
<1>2. Configured' /\ Clean' /\ fullscreenViewIdx' \in Cell \union {NoCell}
  BY <1>1 DEF WallInv, Configured, Clean
<1>3. NoGhosts' /\ ShowsDocument'
  <2>1. ToShow' = ToShow /\ Wanted' = Wanted /\ (Expanded' <=> Expanded)
    BY <1>1 DEF ToShow, Wanted, ContentOf, Expanded
  <2>2. NoGhosts'
    BY <1>1, <2>1 DEF WallInv, NoGhosts
  <2>3. ShowsDocument'
    BY <1>1, <2>1 DEF WallInv, ShowsDocument
  <2> QED BY <2>2, <2>3
<1>4. Actors' /\ OneHeard'
  BY <1>1 DEF WallInv, Actors, Places, Alive, OneHeard
<1> QED BY <1>2, <1>3, <1>4 DEF WallInv

\* A preset saved.
LEMMA SaveLayoutPresetKeeps ==
  ASSUME WallInv, SaveLayoutPreset
  PROVE  WallInv'
<1> DEFINE new == [cols |-> cols, rows |-> rows, views |-> assign]
           all == Append(presets, new)
           On(p) == Written(p.cols, p.rows, p.views)
<1>1. /\ presets \in Seq(PresetType) /\ Len(presets) <= MaxPresets
      /\ \A p \in DOMAIN presets : On(presets[p])
  BY DEF WallInv, Saved
<1>2. new \in PresetType /\ On(new)
  BY DEF WallInv, Configured, Clean, Written, PresetType
<1> HIDE DEF new
<1>3. /\ all \in Seq(PresetType) /\ DOMAIN all = 1 .. (Len(presets) + 1)
      /\ \A p \in 1 .. Len(presets) : all[p] = presets[p]
      /\ all[Len(presets) + 1] = new
      /\ Len(presets) \in Nat /\ DOMAIN presets = 1 .. Len(presets)
  BY <1>1, <1>2, Appended
<1>4. presets' = IF Len(all) > MaxPresets THEN Tail(all) ELSE all
  BY DEF SaveLayoutPreset, new
<1> HIDE DEF all, On
<1>5. /\ Len(all) = Len(presets) + 1
      /\ \A p \in DOMAIN all : p \in DOMAIN presets \/ p = Len(presets) + 1
  BY <1>3
<1>6. \A p \in DOMAIN all : On(all[p])
  BY <1>1, <1>2, <1>3, <1>5
<1>7. /\ Tail(all) \in Seq(PresetType) /\ Len(Tail(all)) = Len(presets)
      /\ \A p \in DOMAIN Tail(all) : p + 1 \in DOMAIN all /\ Tail(all)[p] = all[p + 1]
  BY <1>3, <1>5
<1>8. \A p \in DOMAIN presets' : On(presets'[p])
  BY <1>4, <1>6, <1>7
<1>9. presets' \in Seq(PresetType) /\ Len(presets') <= MaxPresets
  BY <1>1, <1>3, <1>4, <1>5, <1>7, WallBoundsAssumption
<1>10. Saved'
  BY <1>8, <1>9 DEF Saved, On
<1> QED BY <1>10, PresetsKeep DEF SaveLayoutPreset

\* A preset deleted.
LEMMA DeleteLayoutPresetKeeps ==
  ASSUME WallInv, NEW p \in DOMAIN presets, DeleteLayoutPreset(p)
  PROVE  WallInv'
<1> DEFINE On(q) == Written(q.cols, q.rows, q.views)
           rest == RemoveAt(presets, p)
<1>1. /\ presets \in Seq(PresetType) /\ Len(presets) <= MaxPresets
      /\ \A q \in DOMAIN presets : On(presets[q])
  BY DEF WallInv, Saved
<1>2. p \in 1 .. Len(presets) /\ DOMAIN presets = 1 .. Len(presets) /\ Len(presets) \in Nat
  BY <1>1
<1>3. /\ rest \in Seq(PresetType) /\ Len(rest) = Len(presets) - 1
      /\ \A j \in 1 .. (Len(presets) - 1) : /\ j < p => rest[j] = presets[j]
                                            /\ ~ (j < p) => rest[j] = presets[j + 1]
  BY <1>1, <1>2, Removed
<1> HIDE DEF rest, On
<1>4. \A j \in DOMAIN rest : j \in 1 .. (Len(presets) - 1)
  BY <1>3
<1>5. \A j \in DOMAIN rest : On(rest[j])
  <2> SUFFICES ASSUME NEW j \in DOMAIN rest PROVE On(rest[j])
    OBVIOUS
  <2>1. j \in 1 .. (Len(presets) - 1)
    BY <1>4
  <2>2. CASE j < p
    BY <1>1, <1>2, <1>3, <2>1, <2>2
  <2>3. CASE ~ (j < p)
    <3>1. j + 1 \in DOMAIN presets /\ rest[j] = presets[j + 1]
      BY <1>2, <1>3, <2>1, <2>3
    <3> QED BY <1>1, <3>1
  <2> QED BY <2>2, <2>3
<1>6. presets' = rest
  BY DEF DeleteLayoutPreset, rest
<1>7. Len(rest) <= MaxPresets
  BY <1>1, <1>2, <1>3, WallBoundsAssumption
<1>8. Saved'
  BY <1>3, <1>5, <1>6, <1>7 DEF Saved, On
<1> QED BY <1>8, PresetsKeep DEF DeleteLayoutPreset

\* A preset applied.
LEMMA LoadLayoutPresetKeeps ==
  ASSUME WallInv, NEW p \in DOMAIN presets, LoadLayoutPreset(p)
  PROVE  WallInv'
<1>1. presets[p] \in PresetType /\ Written(presets[p].cols, presets[p].rows, presets[p].views)
  BY DEF WallInv, Saved
<1>2. cols' = presets[p].cols /\ rows' = presets[p].rows /\ assign' = presets[p].views
  BY DEF LoadLayoutPreset
<1>3. Configured' /\ Clean'
  BY <1>1, <1>2 DEF WallInv, LoadLayoutPreset, Configured, Clean, Written, PresetType
<1>4. Saved'
  BY DEF WallInv, LoadLayoutPreset, Saved
<1>5. UpdateViewsFromStateDoc(NoCell)
  BY DEF LoadLayoutPreset
<1> QED BY <1>3, <1>4, <1>5, UpdateKeeps

\* What only changes what actors sound like, or whether they run, keeps the invariant
\* if it leaves one heard.
LEMMA ActorsKeep ==
  ASSUME WallInv, UNCHANGED <<doc, streams, fullscreenViewIdx, live, parked, presets>>,
         view' \in [Actor -> ActorState], OneHeard',
         \A a \in Actor : /\ view'[a].spaces = view[a].spaces
                          /\ view'[a].content = view[a].content
                          /\ a \in Alive =>
                               (view'[a].saved # NotParked <=> view[a].saved # NotParked)
                          /\ a \notin Alive => view'[a] = view[a]
  PROVE  WallInv'
<1>1. UNCHANGED <<cols, rows, assign, streams, fullscreenViewIdx, live, parked, presets>>
  BY DEF doc
<1>2. Configured' /\ Clean' /\ Saved' /\ fullscreenViewIdx' \in Cell \union {NoCell}
  BY <1>1 DEF WallInv, Configured, Clean, Saved
<1>3. NoGhosts'
  BY <1>1 DEF WallInv, NoGhosts, Wanted, ContentOf, Expanded
<1>4. Actors'
  <2>1. Places' /\ Alive' = Alive
    BY <1>1 DEF WallInv, Actors, Places, Alive
  <2>2. Alive \subseteq Actor
    BY DEF WallInv, Actors, Places, Alive, ToSet
  <2> QED BY <1>1, <2>1, <2>2 DEF WallInv, Actors
<1>5. ShowsDocument'
  <2>1. ToSet(live) \subseteq Actor /\ ToSet(live') = ToSet(live)
    BY <1>1 DEF WallInv, Actors, Places, ToSet
  <2>2. \A i \in Cell : {a \in ToSet(live') : i \in view'[a].spaces} =
                        {a \in ToSet(live) : i \in view[a].spaces}
    BY <2>1
  <2>3. ToShow' = ToShow /\ (Expanded' <=> Expanded)
    BY <1>1 DEF ToShow, Wanted, ContentOf, Expanded
  <2>4. Cells(cols, rows) \subseteq Cell
    BY GridOf DEF WallInv, Configured
  <2>5. ASSUME NEW i \in Cells(cols, rows)
        PROVE  LET covering == {a \in ToSet(live') : i \in view'[a].spaces}
               IN  IF ToShow'[i] = NoContent THEN covering = {}
                   ELSE \E a \in covering : covering = {a} /\ view'[a].content = ToShow'[i]
    <3> DEFINE covering == {a \in ToSet(live) : i \in view[a].spaces}
    <3>1. IF ToShow[i] = NoContent THEN covering = {}
          ELSE \E a \in covering : covering = {a} /\ view[a].content = ToShow[i]
      BY DEF WallInv, ShowsDocument
    <3>2. \A a \in covering : view'[a].content = view[a].content
      BY <2>1
    <3>3. covering = {a \in ToSet(live') : i \in view'[a].spaces}
      BY <2>2, <2>4
    <3> HIDE DEF covering
    <3> QED BY <2>3, <3>1, <3>2, <3>3
  <2>6. \A a \in ToSet(live) : view'[a].spaces # {} /\ view'[a].spaces \subseteq Cells(cols, rows)
    BY <2>1 DEF WallInv, ShowsDocument
  <2>7. parked' # <<>> => Expanded'
    BY <1>1, <2>3 DEF WallInv, ShowsDocument
  <2> QED BY <1>1, <2>1, <2>5, <2>6, <2>7 DEF ShowsDocument
<1> QED BY <1>2, <1>3, <1>4, <1>5 DEF WallInv

\* A selection is heard of the actor selected, and of no other.
LEMMA SelectionOf ==
  ASSUME NEW a, NEW v \in ActorState, NEW selected
  PROVE  /\ v.saved = NotParked =>
              LET heard == Heard(a, v, selected)
              IN  /\ heard \in ActorState /\ heard.saved = NotParked
                  /\ heard.spaces = v.spaces /\ heard.content = v.content
                  /\ Hearing(heard) = "listening" => a = selected
         /\ v.saved # NotParked =>
              LET recorded == Recorded(a, v, selected)
              IN  /\ recorded \in ActorState /\ recorded.saved # NotParked
                  /\ recorded.spaces = v.spaces /\ recorded.content = v.content
                  /\ Hearing(recorded) = "listening" => a = selected
<1> USE DEF ActorState, Sound, NotParked, Hearing
<1>1. ASSUME v.saved = NotParked, v.audio = "background" /\ v.running /\ a # selected
      PROVE  Heard(a, v, selected) = v /\ Hearing(v) = "background"
  BY <1>1 DEF Heard
<1>2. ASSUME ~ (v.audio = "background" /\ v.running /\ a # selected)
      PROVE  Heard(a, v, selected) =
               [v EXCEPT !.audio = IF a = selected THEN "listening" ELSE "muted"]
  BY <1>2, Zenon DEF Heard
<1>3. ASSUME v.saved # NotParked, v.saved = "background"
      PROVE  Recorded(a, v, selected) = v /\ Hearing(v) = "background"
  BY <1>3 DEF Recorded
<1>4. ASSUME v.saved # "background"
      PROVE  Recorded(a, v, selected) =
               [v EXCEPT !.saved = IF a = selected THEN "listening" ELSE "muted"]
  BY <1>4 DEF Recorded
<1> QED BY <1>1, <1>2, <1>3, <1>4

\* A tile selected to be heard.
LEMMA SetListeningViewKeeps ==
  ASSUME WallInv, NEW selected, SetListeningView(selected)
  PROVE  WallInv'
<1>1. /\ view \in [Actor -> ActorState]
      /\ \A a \in Actor \ Alive : view[a] = NoActor
      /\ \A a \in Alive : view[a].saved # NotParked <=> a \in ToSet(parked)
      /\ ToSet(live) \intersect ToSet(parked) = {}
  BY DEF WallInv, Actors, Places
<1>2. ASSUME NEW a \in Actor, a \in ToSet(live)
      PROVE  /\ view'[a] = Heard(a, view[a], selected) /\ view[a].saved = NotParked
             /\ a \in Alive
  BY <1>1, <1>2 DEF SetListeningView, Alive
<1>3. ASSUME NEW a \in Actor, a \in ToSet(parked)
      PROVE  /\ view'[a] = Recorded(a, view[a], selected) /\ view[a].saved # NotParked
             /\ a \in Alive
  BY <1>1, <1>3 DEF SetListeningView, Alive
<1>4. ASSUME NEW a \in Actor, a \notin Alive PROVE view'[a] = view[a] /\ view[a] = NoActor
  BY <1>1, <1>4 DEF SetListeningView, Alive
<1>5. ASSUME NEW a \in Actor
      PROVE  /\ view'[a] \in ActorState
             /\ view'[a].spaces = view[a].spaces /\ view'[a].content = view[a].content
             /\ a \in Alive => (view'[a].saved # NotParked <=> view[a].saved # NotParked)
             /\ a \notin Alive => view'[a] = view[a]
             /\ Hearing(view'[a]) = "listening" => a = selected
  <2>1. CASE a \in ToSet(live)
    <3>1. view[a] \in ActorState /\ a \in Alive
      BY <1>1, <1>2, <2>1
    <3> QED BY <1>2, <2>1, <3>1, SelectionOf
  <2>2. CASE a \in ToSet(parked)
    <3>1. view[a] \in ActorState /\ a \in Alive
      BY <1>1, <1>3, <2>2
    <3> QED BY <1>3, <2>2, <3>1, SelectionOf
  <2>3. CASE a \notin Alive
    BY <1>1, <1>4, <2>3 DEF NoActor, NotParked, Hearing
  <2> QED BY <2>1, <2>2, <2>3 DEF Alive
<1>6. view' \in [Actor -> ActorState]
  <2>1. \A a \in Actor : view'[a] \in ActorState
    BY <1>5
  <2>2. view' = [a \in Actor |-> view'[a]]
    BY DEF SetListeningView
  <2> QED BY <2>1, <2>2, Zenon
<1>7. OneHeard'
  BY <1>5 DEF OneHeard
<1>8. UNCHANGED <<doc, streams, fullscreenViewIdx, live, parked, presets>>
  BY DEF SetListeningView
<1> QED BY <1>5, <1>6, <1>7, <1>8, ActorsKeep

\* A tile heard in the background.
LEMMA SetViewBackgroundListeningKeeps ==
  ASSUME WallInv, NEW a \in ToSet(live), NEW b \in BOOLEAN, SetViewBackgroundListening(a, b)
  PROVE  WallInv'
<1> USE DEF ActorState, Sound, NotParked
<1>1. view \in [Actor -> ActorState] /\ a \in Actor /\ a \in Alive
  BY DEF WallInv, Actors, Places, Alive, ToSet
<1>2. view' = [view EXCEPT ![a].audio = IF b THEN "background" ELSE "muted"]
  BY DEF SetViewBackgroundListening
<1>3. \A v \in Actor : /\ view'[v] \in ActorState
                       /\ view'[v].spaces = view[v].spaces
                       /\ view'[v].content = view[v].content
                       /\ view'[v].saved = view[v].saved
                       /\ v # a => view'[v] = view[v]
  BY <1>1, <1>2
<1>4. view' \in [Actor -> ActorState]
  BY <1>1, <1>2
<1>5. view'[a].audio # "listening"
  BY <1>1, <1>2
<1>6. \A v \in Actor : Hearing(view'[v]) = "listening" => Hearing(view[v]) = "listening"
  BY <1>1, <1>3, <1>5 DEF Hearing
<1>7. OneHeard'
  BY <1>6 DEF WallInv, OneHeard
<1>8. UNCHANGED <<doc, streams, fullscreenViewIdx, live, parked, presets>>
  BY DEF SetViewBackgroundListening
<1> QED BY <1>1, <1>3, <1>4, <1>7, <1>8, ActorsKeep

\* An actor that reaches running, or leaves it.
LEMMA RunsKeeps ==
  ASSUME WallInv, NEW a \in Alive, Runs(a)
  PROVE  WallInv'
<1> USE DEF ActorState
<1>1. view \in [Actor -> ActorState] /\ a \in Actor
  BY DEF WallInv, Actors, Places, Alive, ToSet
<1>2. view' = [view EXCEPT ![a].running = ~ @]
  BY DEF Runs
<1>3. (~ view[a].running) \in BOOLEAN
  OBVIOUS
<1>4. \A v \in Actor : /\ view'[v].spaces = view[v].spaces
                       /\ view'[v].content = view[v].content
                       /\ view'[v].audio = view[v].audio
                       /\ view'[v].saved = view[v].saved
                       /\ v # a => view'[v] = view[v]
  BY <1>1, <1>2
<1>5. view' \in [Actor -> ActorState]
  BY <1>1, <1>2, <1>3
<1>6. OneHeard'
  BY <1>4 DEF WallInv, OneHeard, Hearing
<1>7. UNCHANGED <<doc, streams, fullscreenViewIdx, live, parked, presets>>
  BY DEF Runs
<1> QED BY <1>4, <1>5, <1>6, <1>7, ActorsKeep

\* A restart.
LEMMA RestartKeeps ==
  ASSUME WallInv, NEW w \in Width, NEW h \in Height, Restart(w, h)
  PROVE  WallInv'
<1>1. /\ cols' = w /\ rows' = h /\ assign' = Pruned(w, h)
      /\ streams' = [s \in Stream |-> NoKind]
      /\ fullscreenViewIdx' = NoCell /\ live' = <<>> /\ parked' = <<>>
      /\ view' = [a \in Actor |-> NoActor] /\ presets' = presets
  BY DEF Restart
<1>2. Configured' /\ Clean' /\ Saved'
  BY <1>1 DEF WallInv, Configured, Clean, Saved, Pruned
<1>3. fullscreenViewIdx' \in Cell \union {NoCell} /\ NoGhosts'
  BY <1>1, <1>2 DEF NoGhosts, Clean, Expanded
<1>4. NothingShown'
  BY <1>1, <1>2 DEF NothingShown
<1>5. Actors' /\ OneHeard' /\ ShowsDocument'
  BY <1>4, EmptyWallShows, PTL
<1> QED BY <1>2, <1>3, <1>5 DEF WallInv

-----------------------------------------------------------------------------
(* The theorems.                                                           *)

\* Every step keeps the invariant.
LEMMA WallStepKeeps == WallInv /\ [WallNext]_wallVars => WallInv'
<1> SUFFICES ASSUME WallInv, [WallNext]_wallVars PROVE WallInv'
  OBVIOUS
<1>1. CASE Assignments
  BY <1>1, StreamsUpdateKeeps, PlaceKeeps DEF Assignments
<1>2. CASE Gestures
  BY <1>2, DragKeeps, StretchKeeps DEF Gestures
<1>3. CASE Resizing
  BY <1>3, SetGridSizeKeeps DEF Resizing
<1>4. CASE Expanding
  BY <1>4, SetViewFullscreenKeeps DEF Expanding
<1>5. CASE Loading
  BY <1>5, RunsKeeps DEF Loading
<1>6. CASE Presets
  BY <1>6, SaveLayoutPresetKeeps, LoadLayoutPresetKeeps, DeleteLayoutPresetKeeps DEF Presets
<1>7. CASE Audio
  BY <1>7, SetListeningViewKeeps, SetViewBackgroundListeningKeeps DEF Audio
<1>8. CASE Restarts
  BY <1>8, RestartKeeps DEF Restarts
<1>9. CASE UNCHANGED wallVars
  <2>1. Saved' /\ UNCHANGED <<doc, streams, fullscreenViewIdx, wall>>
    BY <1>9 DEF wallVars, WallInv, Saved
  <2> QED BY <2>1, PresetsKeep
<1> QED BY <1>1, <1>2, <1>3, <1>4, <1>5, <1>6, <1>7, <1>8, <1>9 DEF WallNext

\* The wall is always as the invariant says.
THEOREM WallInvariant == WallSpec => []WallInv
BY WallStarts, WallStepKeeps, PTL DEF WallSpec

\* The types of the wall follow from the invariant.
LEMMA WallTyped == WallInv => WallTypeOK
<1> SUFFICES ASSUME WallInv PROVE WallTypeOK
  OBVIOUS
<1>1. /\ cols \in Width /\ rows \in Height
      /\ assign \in [Cell -> Stream \union {NoStream}]
      /\ streams \in [Stream -> Kind \union {NoKind}]
      /\ fullscreenViewIdx \in Cell \union {NoCell}
      /\ presets \in Seq(PresetType) /\ Len(presets) <= MaxPresets
  BY DEF WallInv, Configured, Saved
<1>2. live \o parked \in Seq(Actor) /\ IsInjective(live \o parked)
  BY CandidatesOf DEF WallInv, Actors, Candidates, IsInjective
<1>3. ASSUME NEW a \in Actor
      PROVE  /\ view[a].spaces \subseteq Cell /\ view[a].running \in BOOLEAN
             /\ view[a].audio \in Sound
             /\ view[a].saved # NotParked <=> a \in ToSet(parked)
             /\ view[a] = NoActor <=> a \notin Alive
  <2>1. view[a] \in ActorState
    BY DEF WallInv, Actors
  <2>2. NoActor.spaces = {} /\ NoActor.saved = NotParked
    BY DEF NoActor
  <2>3. CASE a \in Alive
    BY <2>1, <2>2, <2>3 DEF WallInv, Actors, ActorState
  <2>4. CASE a \notin Alive
    BY <2>1, <2>2, <2>4 DEF WallInv, Actors, ActorState, Alive
  <2> QED BY <2>3, <2>4
<1> QED BY <1>1, <1>2, <1>3 DEF WallTypeOK, Sound

\* The state has its types, and every actor is in one place: on the wall or parked, and
\* never twice, as planViewLayout takes for granted (viewLayoutPlan.ts:87).
THEOREM WallTypeCorrect == WallSpec => []WallTypeOK
BY WallInvariant, WallTyped, PTL

\* The operator listens to one tile at most, whatever is parked, brought back, moved or
\* disposed of in between.
THEOREM ListensToOne == WallSpec => []OneListening
<1>1. WallInv => OneListening
  <2> SUFFICES ASSUME WallInv, NEW a \in Alive, NEW b \in Alive,
                      {"listening"} = {Hearing(view[v]) : v \in {a, b}}
               PROVE  a = b
    BY DEF OneListening, Hearing
  <2>1. a \in Actor /\ b \in Actor
    BY DEF WallInv, Actors, Places, Alive, ToSet
  <2>2. Hearing(view[a]) = "listening" /\ Hearing(view[b]) = "listening"
    OBVIOUS
  <2> QED BY <2>1, <2>2 DEF WallInv, OneHeard
<1> QED BY <1>1, WallInvariant, PTL

-----------------------------------------------------------------------------
(* What runs goes on running.                                              *)

\* A new layout: what the boxes are, and whose.
Laid(boxes, own) ==
  /\ boxes = WallBoxes' /\ DOMAIN boxes = 1 .. Len(boxes) /\ own \in [1 .. Len(boxes) -> Actor]
  /\ ToSet(live') = {own[b] : b \in 1 .. Len(boxes)}
  /\ \A b \in 1 .. Len(boxes) : /\ view'[own[b]].content = boxes[b].content
                                /\ view'[own[b]].spaces = boxes[b].spaces
                                /\ boxes[b].spaces # {}
  /\ \A b, d \in 1 .. Len(boxes) : own[b] = own[d] => b = d
  /\ \A b, d \in 1 .. Len(boxes) : boxes[b].spaces \intersect boxes[d].spaces # {} => b = d
  /\ \A m \in 1 .. 3, b \in 1 .. Len(boxes) : Settled(boxes, KeptBy(own), b, m)

\* Whatever ends in updateViewsFromStateDoc makes one.
LEMMA LayoutStep ==
  ASSUME WallInv, WallInv', NEW f, UpdateViewsFromStateDoc(f)
  PROVE  \E boxes, own : Laid(boxes, own)
<1>1. PICK boxes : boxes = WallBoxes' /\ SetViews(boxes, Expanded')
  BY DEF UpdateViewsFromStateDoc
<1>2. /\ Len(boxes) \in Nat /\ DOMAIN boxes = 1 .. Len(boxes) /\ Apart(ToShow', boxes)
      /\ \A b \in 1 .. Len(boxes) : IsBox(boxes[b])
  BY <1>1, WallBoxesTile DEF WallInv
<1>3. Expanded' \in BOOLEAN
  BY DEF Expanded
<1>4. OnOwn(boxes)
  BY <1>1, <1>2, <1>3, SetViewsStep DEF WallInv
<1>5. PICK own \in [1 .. Len(boxes) -> Actor] :
        /\ ToSet(live') = {own[b] : b \in 1 .. Len(boxes)}
        /\ \A b \in 1 .. Len(boxes) : Takes(view'[own[b]], boxes[b])
        /\ \A b, d \in 1 .. Len(boxes) : own[b] = own[d] => b = d
        /\ \A m \in 1 .. 3, b \in 1 .. Len(boxes) : Settled(boxes, KeptBy(own), b, m)
  BY <1>4 DEF OnOwn
<1>6. \A b \in 1 .. Len(boxes) : /\ view'[own[b]].content = boxes[b].content
                                 /\ view'[own[b]].spaces = boxes[b].spaces
                                 /\ boxes[b].spaces # {}
  BY <1>2, <1>5 DEF Takes, Apart
<1>7. \A b, d \in 1 .. Len(boxes) : boxes[b].spaces \intersect boxes[d].spaces # {} => b = d
  BY <1>2 DEF Apart
<1>8. Laid(boxes, own)
  BY <1>1, <1>2, <1>5, <1>6, <1>7 DEF Laid
<1> QED BY <1>8

\* An actor that matches a box by m, and has no box of its own that it matches by m, would
\* have been preferred to one that does not.
LEMMA Preferred ==
  ASSUME NEW boxes, NEW own, Laid(boxes, own), NEW m \in {2, 3}, NEW b \in 1 .. Len(boxes),
         NEW a \in Alive, Matches(view[a], m, boxes[b]),
         \A d \in 1 .. Len(boxes) : own[d] = a => ~ Matches(view[a], m, boxes[d])
  PROVE  own[b] \in Alive /\ Matches(view[own[b]], m, boxes[b])
<1>1. /\ Settled(boxes, KeptBy(own), b, m) /\ DOMAIN own = 1 .. Len(boxes)
  BY DEF Laid
<1>2. \A d, v : <<d, v>> \in KeptBy(own) => d \in 1 .. Len(boxes) /\ v = own[d] /\ v \in Alive
  BY <1>1 DEF KeptBy
<1>3. a \in Spare(boxes, KeptBy(own), m)
  BY <1>2 DEF Spare
<1>4. \E v \in Alive : <<b, v>> \in KeptBy(own) /\ Matches(view[v], m, boxes[b])
  BY <1>1, <1>3 DEF Settled
<1> QED BY <1>2, <1>4

\* Those who show a content take its boxes as far as they go, and a loaded one is not
\* passed over for one that loads.
LEMMA KeptOfContent ==
  ASSUME NEW boxes, NEW own, Laid(boxes, own), NEW c
  PROVE  LET showing == Showing(c)
             wanted == OnWall(c)'
         IN  /\ showing \subseteq wanted \/ wanted \subseteq showing
             /\ \A a \in showing \ wanted, w \in showing \intersect wanted :
                  view[a].running => view[w].running
<1> DEFINE showing == Showing(c)
           wanted == OnWall(c)'
<1>1. ASSUME NEW a \in showing, a \notin wanted, NEW w \in wanted
      PROVE  \E b \in 1 .. Len(boxes) :
               /\ w = own[b] /\ boxes[b].content = c
               /\ a \in Alive /\ view[a].content = c
               /\ \A d \in 1 .. Len(boxes) : own[d] = a => boxes[d].content # c
  <2>1. a \in Alive /\ view[a].content = c
    BY DEF Showing
  <2>2. w \in ToSet(live') /\ view'[w].content = c
    BY DEF OnWall
  <2>3. \A d \in 1 .. Len(boxes) : own[d] = a => boxes[d].content # c
    BY <1>1 DEF Laid, OnWall
  <2>4. PICK b \in 1 .. Len(boxes) : w = own[b]
    BY <2>2 DEF Laid
  <2>5. boxes[b].content = c
    BY <2>2, <2>4 DEF Laid
  <2> QED BY <2>1, <2>3, <2>4, <2>5
<1>2. ASSUME NEW a \in showing, a \notin wanted, NEW w \in wanted PROVE w \in showing
  <2>1. PICK b \in 1 .. Len(boxes) :
          /\ w = own[b] /\ boxes[b].content = c /\ a \in Alive /\ view[a].content = c
          /\ \A d \in 1 .. Len(boxes) : own[d] = a => boxes[d].content # c
    BY <1>1, <1>2
  <2>2. /\ Matches(view[a], 3, boxes[b])
        /\ \A d \in 1 .. Len(boxes) : own[d] = a => ~ Matches(view[a], 3, boxes[d])
    BY <2>1 DEF Matches
  <2>3. own[b] \in Alive /\ Matches(view[own[b]], 3, boxes[b])
    BY <2>1, <2>2, Preferred
  <2> QED BY <2>1, <2>3 DEF Matches, Showing
<1>3. ASSUME NEW a \in showing, a \notin wanted, NEW w \in wanted, view[a].running
      PROVE  view[w].running
  <2>1. PICK b \in 1 .. Len(boxes) :
          /\ w = own[b] /\ boxes[b].content = c /\ a \in Alive /\ view[a].content = c
          /\ \A d \in 1 .. Len(boxes) : own[d] = a => boxes[d].content # c
    BY <1>1, <1>3
  <2>2. /\ Matches(view[a], 2, boxes[b])
        /\ \A d \in 1 .. Len(boxes) : own[d] = a => ~ Matches(view[a], 2, boxes[d])
    BY <1>3, <2>1 DEF Matches
  <2>3. own[b] \in Alive /\ Matches(view[own[b]], 2, boxes[b])
    BY <2>1, <2>2, Preferred
  <2> QED BY <2>1, <2>3 DEF Matches
<1> HIDE DEF showing, wanted
<1>4. showing \subseteq wanted \/ wanted \subseteq showing
  BY <1>2
<1>5. \A a \in showing \ wanted, w \in showing \intersect wanted : view[a].running => view[w].running
  BY <1>3
<1> QED BY <1>4, <1>5 DEF showing, wanted

\* A running tile stays where it is if a box of the new layout is its own.
LEMMA SteadyLayout ==
  ASSUME WallInv, NEW boxes, NEW own, Laid(boxes, own), NEW a \in ToSet(live), view[a].running,
         NEW b \in 1 .. Len(boxes),
         boxes[b].content = view[a].content, boxes[b].spaces = view[a].spaces
  PROVE  a \in ToSet(live') /\ view'[a].spaces = view[a].spaces
<1> SUFFICES ASSUME own[b] # a PROVE FALSE
  BY DEF Laid
<1>1. /\ Settled(boxes, KeptBy(own), b, 1) /\ DOMAIN own = 1 .. Len(boxes)
      /\ boxes[b].spaces # {}
      /\ \A d \in 1 .. Len(boxes) : boxes[b].spaces \intersect boxes[d].spaces # {} => b = d
  BY DEF Laid
<1>2. \A d, v : <<d, v>> \in KeptBy(own) => d \in 1 .. Len(boxes) /\ v = own[d] /\ v \in Alive
  BY <1>1 DEF KeptBy
<1>3. a \in Alive
  BY DEF Alive
<1>4. Matches(view[a], 1, boxes[b])
  BY <1>1 DEF Matches
<1>5. \A d \in 1 .. Len(boxes) : own[d] = a => ~ Matches(view[a], 1, boxes[d])
  BY <1>1 DEF Matches
<1>6. a \in Spare(boxes, KeptBy(own), 1) \intersect ToSet(live)
  BY <1>2, <1>3, <1>5 DEF Spare
<1>7. PICK v \in Alive : /\ <<b, v>> \in KeptBy(own) /\ Matches(view[v], 1, boxes[b])
                         /\ v \in ToSet(live)
  BY <1>1, <1>4, <1>6, Zenon DEF Settled
<1>8. PICK i \in view[a].spaces : i \in view[v].spaces
  BY <1>7 DEF Matches
<1>9. i \in Cells(cols, rows)
  BY DEF WallInv, ShowsDocument
<1>10. v = a
  <2> DEFINE covering == {x \in ToSet(live) : i \in view[x].spaces}
  <2>1. a \in covering /\ v \in covering
    BY <1>7, <1>8
  <2>2. covering = {} \/ \E x \in covering : covering = {x}
    BY <1>9 DEF WallInv, ShowsDocument
  <2> HIDE DEF covering
  <2> QED BY <2>1, <2>2
<1> QED BY <1>2, <1>7, <1>10

\* Steps that make no layout leave the actors where they are, a restart apart.
Quiet ==
  /\ UNCHANGED <<live, parked>>
  /\ \A a \in Alive : view'[a].content = view[a].content /\ view'[a].spaces = view[a].spaces

\* A step of the wall makes a layout, or leaves the actors where they are, or ends with a
\* Start Over.
LEMMA StepKinds ==
  ASSUME WallInv, [WallNext]_wallVars
  PROVE  \/ \E f : UpdateViewsFromStateDoc(f)
         \/ Quiet
         \/ \E w \in Width, h \in Height : Restart(w, h)
<1>1. /\ view \in [Actor -> ActorState] /\ Alive \subseteq Actor
      /\ \A a \in Alive : view[a].saved # NotParked <=> a \in ToSet(parked)
      /\ ToSet(live) \intersect ToSet(parked) = {}
  <2>1. Alive \subseteq Actor
    BY DEF WallInv, Actors, Places, Alive, ToSet
  <2> QED BY <2>1 DEF WallInv, Actors, Places
<1>2. CASE Assignments
  BY <1>2 DEF Assignments, StreamsUpdate, Place, Edited
<1>3. CASE Gestures
  BY <1>3 DEF Gestures, Drag, Stretch, Edited
<1>4. CASE Resizing
  BY <1>4 DEF Resizing, SetGridSize
<1>5. CASE Expanding
  BY <1>5 DEF Expanding, SetViewFullscreen
<1>6. CASE Loading
  <2>1. PICK a \in Alive : Runs(a)
    BY <1>6 DEF Loading
  <2>2. view' = [view EXCEPT ![a].running = ~ @] /\ UNCHANGED <<live, parked>>
    BY <2>1 DEF Runs
  <2>3. \A v \in Actor : view'[v].content = view[v].content /\ view'[v].spaces = view[v].spaces
    BY <1>1, <2>2 DEF ActorState
  <2> QED BY <1>1, <2>2, <2>3 DEF Quiet
<1>7. CASE Presets
  <2>1. CASE \E p \in DOMAIN presets : LoadLayoutPreset(p)
    BY <2>1 DEF LoadLayoutPreset
  <2>2. CASE UNCHANGED wall
    BY <2>2 DEF wall, Quiet
  <2> QED BY <1>7, <2>1, <2>2 DEF Presets, SaveLayoutPreset, DeleteLayoutPreset
<1>8. CASE Audio
  <2>1. ASSUME NEW selected, SetListeningView(selected) PROVE Quiet
    <3>1. UNCHANGED <<live, parked>>
      BY <2>1 DEF SetListeningView
    <3>2. ASSUME NEW a \in Alive
          PROVE  view'[a].content = view[a].content /\ view'[a].spaces = view[a].spaces
      <4>1. view[a] \in ActorState /\ a \in Actor
        BY <1>1
      <4>2. CASE a \in ToSet(live)
        <5>1. view'[a] = Heard(a, view[a], selected) /\ view[a].saved = NotParked
          BY <1>1, <2>1, <4>1, <4>2 DEF SetListeningView
        <5> QED BY <4>1, <5>1, SelectionOf
      <4>3. CASE a \in ToSet(parked) /\ a \notin ToSet(live)
        <5>1. view'[a] = Recorded(a, view[a], selected) /\ view[a].saved # NotParked
          BY <1>1, <2>1, <4>1, <4>3 DEF SetListeningView
        <5> QED BY <4>1, <5>1, SelectionOf
      <4> QED BY <4>2, <4>3 DEF Alive
    <3> QED BY <3>1, <3>2 DEF Quiet
  <2>2. ASSUME NEW a \in ToSet(live), NEW b \in BOOLEAN, SetViewBackgroundListening(a, b)
        PROVE  Quiet
    <3>1. /\ view' = [view EXCEPT ![a].audio = IF b THEN "background" ELSE "muted"]
          /\ UNCHANGED <<live, parked>>
      BY <2>2 DEF SetViewBackgroundListening
    <3>2. \A v \in Actor : view'[v].content = view[v].content /\ view'[v].spaces = view[v].spaces
      BY <1>1, <3>1 DEF ActorState
    <3> QED BY <1>1, <3>1, <3>2 DEF Quiet
  <2> QED BY <1>8, <2>1, <2>2 DEF Audio
<1>9. CASE Restarts
  BY <1>9 DEF Restarts
<1>10. CASE UNCHANGED wallVars
  BY <1>10 DEF wallVars, wall, Quiet
<1> QED BY <1>2, <1>3, <1>4, <1>5, <1>6, <1>7, <1>8, <1>9, <1>10 DEF WallNext

\* A set of actors is finite, and so is what two have in common.
LEMMA CommonOfTwo ==
  ASSUME NEW showing \in SUBSET Actor, NEW wanted \in SUBSET Actor,
         showing \subseteq wanted \/ wanted \subseteq showing
  PROVE  Cardinality(showing \intersect wanted) >= Min({Cardinality(showing), Cardinality(wanted)})
<1>1. IsFiniteSet(Actor)
  <2>1. 1 \in Int /\ MaxActors \in Int
    BY WallBoundsAssumption
  <2> QED BY <2>1, FS_Interval DEF Actor
<1>2. IsFiniteSet(showing) /\ IsFiniteSet(wanted)
  BY <1>1, FS_Subset
<1>3. Cardinality(showing) \in Nat /\ Cardinality(wanted) \in Nat
  BY <1>2, FS_CardinalityType
<1>4. showing \intersect wanted = showing \/ showing \intersect wanted = wanted
  OBVIOUS
<1> DEFINE m == Cardinality(showing)
           n == Cardinality(wanted)
<1>5. {m, n} \in SUBSET Nat /\ {m, n} # {}
  BY <1>3
<1>6. Min({m, n}) \in {m, n} /\ \A k \in {m, n} : Min({m, n}) <= k
  BY <1>5, MinOfNat, Zenon
<1>7. Cardinality(showing \intersect wanted) = m \/ Cardinality(showing \intersect wanted) = n
  BY <1>4
<1> QED BY <1>3, <1>6, <1>7

\* The step that KeepsRunning is about.
LEMMA RunningStep ==
  ASSUME WallInv, WallInv', [WallNext]_wallVars, NEW c \in Stream \X Kind
  PROVE  LET showing == Showing(c)
             wanted == OnWall(c)'
             kept == showing \intersect wanted
         IN  /\ Cardinality(kept) >= Min({Cardinality(showing), Cardinality(wanted)})
             /\ <<live, parked>>' # <<live, parked>> =>
                  \A a \in showing \ kept, b \in kept : view[a].running => view[b].running
<1> DEFINE showing == Showing(c)
           wanted == OnWall(c)'
<1>1. showing \in SUBSET Actor /\ wanted \in SUBSET Actor
  BY DEF Showing, OnWall, WallInv, Actors, Places, Alive, ToSet
<1>2. /\ showing \subseteq wanted \/ wanted \subseteq showing
      /\ <<live, parked>>' # <<live, parked>> =>
           \A a \in showing \ wanted, w \in showing \intersect wanted :
             view[a].running => view[w].running
  <2>1. CASE \E f : UpdateViewsFromStateDoc(f)
    <3>1. PICK boxes, own : Laid(boxes, own)
      BY <2>1, LayoutStep
    <3> QED BY <3>1, KeptOfContent
  <2>2. CASE Quiet
    BY <2>2 DEF Quiet, Showing, OnWall, Alive
  <2>3. CASE \E w \in Width, h \in Height : Restart(w, h)
    <3>1. live' = <<>>
      BY <2>3 DEF Restart
    <3>2. wanted = {}
      BY <3>1 DEF OnWall, ToSet
    <3> QED BY <3>2
  <2> QED BY <2>1, <2>2, <2>3, StepKinds
<1>3. Cardinality(showing \intersect wanted) >= Min({Cardinality(showing), Cardinality(wanted)})
  BY <1>1, <1>2, CommonOfTwo
<1> HIDE DEF showing, wanted
<1>4. showing \ (showing \intersect wanted) = showing \ wanted
  OBVIOUS
<1> QED BY <1>2, <1>3, <1>4 DEF showing, wanted

\* The step that Steady is about.
LEMMA SteadyStep ==
  ASSUME WallInv, WallInv', [WallNext]_wallVars,
         NEW a \in ToSet(live), view[a].running,
         ~ (a \in ToSet(live') /\ view'[a].spaces = view[a].spaces),
         NEW b \in ToSet(WallBoxes')
  PROVE  ~ (b.content = view[a].content /\ b.spaces = view[a].spaces)
<1>1. CASE \E f : UpdateViewsFromStateDoc(f)
  <2>1. PICK boxes, own : Laid(boxes, own)
    BY <1>1, LayoutStep
  <2>2. PICK d \in 1 .. Len(boxes) : b = boxes[d]
    BY <2>1 DEF Laid, ToSet
  <2> QED BY <2>1, <2>2, SteadyLayout
<1>2. CASE Quiet
  BY <1>2 DEF Quiet, Alive
<1>3. CASE \E w \in Width, h \in Height : Restart(w, h)
  <2>1. streams' = [s \in Stream |-> NoKind] /\ fullscreenViewIdx' = NoCell
    BY <1>3 DEF Restart
  <2>2. /\ DOMAIN WallBoxes' = 1 .. Len(WallBoxes') /\ Apart(ToShow', WallBoxes')
        /\ \A d \in 1 .. Len(WallBoxes') : WallBoxes'[d].spaces \subseteq Cell
    BY WallBoxesTile DEF WallInv
  <2>3. \A i \in Cell : ToShow'[i] = NoContent
    BY <2>1 DEF WallInv, Configured, ToShow, Expanded, Wanted, ContentOf
  <2>4. \A d \in DOMAIN WallBoxes' : FALSE
    BY <2>2, <2>3 DEF Apart
  <2> QED BY <2>4 DEF ToSet
<1> QED BY <1>1, <1>2, <1>3, StepKinds

\* Whatever the operators, the data sources and the streams do, a stream that runs goes on
\* running wherever it can: it is only lost if there are fewer boxes for it, and only moved
\* if none is its own (#15, #369).
THEOREM StreamsKept == WallSpec => StreamsSurvive
<1>1. WallInv /\ WallInv' /\ [WallNext]_wallVars =>
        [ wall' # wall =>
            \A c \in Stream \X Kind :
              \A showing \in {Showing(c)}, wanted \in {OnWall(c)'} :
                LET kept == showing \intersect wanted
                IN  /\ Cardinality(kept) >= Min({Cardinality(showing), Cardinality(wanted)})
                    /\ <<live, parked>>' # <<live, parked>> =>
                         \A a \in showing \ kept, b \in kept : view[a].running => view[b].running ]_wallVars
  <2> SUFFICES ASSUME WallInv, WallInv', [WallNext]_wallVars, NEW c \in Stream \X Kind
               PROVE  LET kept == Showing(c) \intersect OnWall(c)'
                      IN  /\ Cardinality(kept) >= Min({Cardinality(Showing(c)), Cardinality(OnWall(c)')})
                          /\ <<live, parked>>' # <<live, parked>> =>
                               \A a \in Showing(c) \ kept, b \in kept :
                                 view[a].running => view[b].running
    OBVIOUS
  <2> QED BY RunningStep, Zenon
<1>2. WallInv /\ WallInv' /\ [WallNext]_wallVars =>
        [ \A a \in ToSet(live) :
            view[a].running /\ ~(a \in ToSet(live)' /\ view'[a].spaces = view[a].spaces) =>
              \A b \in ToSet(WallBoxes') :
                ~(b.content = view[a].content /\ b.spaces = view[a].spaces) ]_wallVars
  BY SteadyStep
<1> QED BY <1>1, <1>2, WallInvariant, PTL DEF StreamsSurvive, KeepsRunning, Steady, WallSpec

-----------------------------------------------------------------------------
(* The panel.                                                              *)

Id == Stream \union {NoStream}

\* A document that has the cells of its grid and no others.
IsDocument(m) ==
  /\ m = [cols |-> m.cols, rows |-> m.rows, ids |-> m.ids]
  /\ m.cols \in Width /\ m.rows \in Height /\ m.ids \in [Cells(m.cols, m.rows) -> Id]

\* A panel that is current has the cells of the document, and what it says of those
\* nobody else wrote to.
Documents ==
  /\ IsDocument(main)
  /\ seen.cols \in Width /\ seen.rows \in Height /\ seen.tile \in [Cell -> SUBSET Cell]
  /\ DOMAIN copy \subseteq Cell /\ copy \in [DOMAIN copy -> Id] /\ unseen \subseteq Cell
  /\ current \in BOOLEAN
  /\ current => /\ DOMAIN copy = DOMAIN main.ids
                /\ \A i \in DOMAIN copy \ unseen : copy[i] = main.ids[i]

Hands ==
  /\ swapStart \in Cell \union {NoCell} /\ moveStart \in Cell \union {NoCell}
  /\ resize.spaces \subseteq Cell /\ resize.id \in Id

PanelInv == Documents /\ Hands

\* What a panel sees of a document.
LEMMA LookOf ==
  ASSUME NEW m, IsDocument(m)
  PROVE  /\ Look(m).cols = m.cols /\ Look(m).rows = m.rows
         /\ Look(m).tile \in [Cell -> SUBSET Cell]
<1>1. /\ m.cols \in Nat \ {0} /\ m.rows \in Nat \ {0} /\ Cells(m.cols, m.rows) \subseteq Cell
  BY GridOf DEF IsDocument
<1>2. \A b \in BoxesOf(m) : b.spaces \subseteq Cell
  <2> DEFINE content == [i \in Cells(m.cols, m.rows) |->
                           IF IdAt(m.ids, i) = NoStream THEN NoContent ELSE m.ids[i]]
             boxes == Boxes(m.cols, m.rows, content)
  <2>1. BoxesOf(m) = ToSet(boxes)
    BY DEF BoxesOf
  <2>2. boxes \in Seq(BoxIn(m.cols, m.rows, content))
    <3> HIDE DEF content
    <3> QED BY <1>1, BoxesTile DEF Tilings
  <2> HIDE DEF boxes, content
  <2>3. \A b \in ToSet(boxes) : b \in BoxIn(m.cols, m.rows, content)
    BY <2>2 DEF ToSet
  <2> QED BY <1>1, <2>1, <2>3 DEF BoxIn
<1>3. Look(m) = [cols |-> m.cols, rows |-> m.rows,
                 tile |-> [i \in Cell |-> UNION {b.spaces : b \in {c \in BoxesOf(m) : i \in c.spaces}}]]
  BY DEF Look, With
<1> QED BY <1>2, <1>3

\* A resize leaves a document.
LEMMA ResizedOf ==
  ASSUME NEW m, IsDocument(m), NEW w \in Width, NEW h \in Height
  PROVE  IsDocument(Resized(m, w, h)) /\ Resized(m, w, h).cols = w /\ Resized(m, w, h).rows = h
<1> DEFINE ids == Remap(Cell, m.cols, m.rows, w, h, Total(m.ids), NoStream)
<1>1. Cells(w, h) \subseteq Cell /\ Cells(m.cols, m.rows) \subseteq Cell
  BY GridOf DEF IsDocument
<1>2. Written(m.cols, m.rows, Total(m.ids))
  BY DEF IsDocument, Id, Written, Total, IdAt
<1>3. Written(w, h, ids)
  BY <1>2, RemapStays DEF IsDocument
<1>4. Resized(m, w, h) = [cols |-> w, rows |-> h, ids |-> [i \in Cells(w, h) |-> ids[i]]]
  BY DEF Resized
<1> HIDE DEF ids
<1> QED BY <1>1, <1>3, <1>4 DEF IsDocument, Written, Id

\* All cells, as the panel has them.
LEMMA TotalOf ==
  ASSUME Documents
  PROVE  Total(copy) \in [Cell -> Id] /\ \A i \in Cell : IdAt(copy, i) = Total(copy)[i]
BY DEF Documents, Total, IdAt, Id

\* Writing keeps the documents as they are to be.
LEMMA WriteKeeps ==
  ASSUME Documents, NEW cells, NEW ids \in [Cell -> Id], Write(cells, ids)
  PROVE  Documents'
<1>1. PICK lost \in SUBSET (unseen \intersect cells) :
        main' = IF current
                THEN [main EXCEPT !.ids =
                        [i \in DOMAIN @ |-> IF i \in cells \ lost THEN ids[i] ELSE @[i]]]
                ELSE main
  BY DEF Write
<1>2. /\ copy' = [i \in DOMAIN copy |-> IF i \in cells THEN ids[i] ELSE copy[i]]
      /\ seen' = seen /\ current' = current /\ unseen' = unseen
  BY DEF Write
<1>3. /\ main = [cols |-> main.cols, rows |-> main.rows, ids |-> main.ids]
      /\ main.cols \in Width /\ main.rows \in Height
      /\ main.ids \in [Cells(main.cols, main.rows) -> Id]
      /\ Cells(main.cols, main.rows) \subseteq Cell
  BY GridOf DEF Documents, IsDocument
<1>4. DOMAIN copy' = DOMAIN copy /\ copy' \in [DOMAIN copy -> Id]
  BY <1>2 DEF Documents
<1>5. CASE ~ current
  BY <1>1, <1>2, <1>4, <1>5 DEF Documents
<1>6. CASE current
  <2> DEFINE new == [i \in Cells(main.cols, main.rows) |->
                       IF i \in cells \ lost THEN ids[i] ELSE main.ids[i]]
  <2>1. main' = [main EXCEPT !.ids = new]
    BY <1>1, <1>3, <1>6
  <2>2. new \in [Cells(main.cols, main.rows) -> Id]
    BY <1>3
  <2>3. \A i \in DOMAIN copy \ unseen : copy'[i] = new[i]
    BY <1>2, <1>3, <1>6 DEF Documents
  <2> HIDE DEF new
  <2>4. main' = [cols |-> main.cols, rows |-> main.rows, ids |-> new]
    BY <1>3, <2>1
  <2>5. IsDocument(main')
    BY <1>3, <2>2, <2>4 DEF IsDocument
  <2>6. DOMAIN copy = DOMAIN main.ids
    BY <1>6 DEF Documents
  <2>7. DOMAIN copy' = DOMAIN main'.ids /\ \A i \in DOMAIN copy' \ unseen' : copy'[i] = main'.ids[i]
    BY <1>2, <1>3, <1>4, <2>2, <2>3, <2>4, <2>6
  <2> QED BY <1>2, <1>4, <2>5, <2>7 DEF Documents
<1> QED BY <1>5, <1>6

\* Giving cells a stream.
LEMMA AssignedIds ==
  ASSUME NEW ids \in [Cell -> Id], NEW S, NEW s \in Id
  PROVE  Assigned(ids, S, s) = [i \in Cell |-> IF i \in S THEN s ELSE ids[i]]
         /\ Assigned(ids, S, s) \in [Cell -> Id]
BY DEF Assigned

\* What a drag and what a resize write.
LEMMA SwapKeeps ==
  ASSUME Documents, NEW from \in Cell, NEW to \in Cell, SwapBoxes(from, to)
  PROVE  Documents'
<1> DEFINE ids == Total(copy)
           tile == seen.tile
           own(i) == IF tile[i] = {} THEN {i} ELSE tile[i]
           held(i) == IF tile[i] = {} THEN NoStream ELSE ids[i]
           new == Swapped(seen.cols, seen.rows, ids, NoStream, tile, from, to)
<1>1. ids \in [Cell -> Id] /\ NoStream \in Id
  BY TotalOf DEF Id
<1> HIDE DEF ids
<1>2. ids[from] \in Id /\ ids[to] \in Id /\ held(from) \in Id /\ held(to) \in Id
  BY <1>1
<1>3. new \in [Cell -> Id]
  <2>1. CASE tile[from] # {} /\ tile[to] = {}
    <3>1. new = Assigned(Assigned(ids, tile[from], NoStream),
                         Translated(seen.cols, seen.rows, tile[from], from, to), ids[from])
      BY <2>1 DEF Swapped
    <3> QED BY <1>1, <1>2, <3>1, AssignedIds
  <2>2. CASE ~ (tile[from] # {} /\ tile[to] = {})
    <3>1. new = Assigned(Assigned(ids, own(from), held(to)), own(to), held(from))
      BY <2>2 DEF Swapped
    <3> HIDE DEF held, own
    <3> QED BY <1>1, <1>2, <3>1, AssignedIds
  <2> QED BY <2>1, <2>2
<1>4. CASE from = to
  BY <1>4 DEF SwapBoxes, WriteNothing, known, Documents
<1>5. CASE from # to
  <2>1. Write(Traded(from, to), new)
    BY <1>5 DEF SwapBoxes, ids
  <2> HIDE DEF new
  <2> QED BY <1>3, <2>1, WriteKeeps
<1> QED BY <1>4, <1>5

\* A resize that is committed gives keys to cells of the grid only.
LEMMA CommitKeeps ==
  ASSUME Documents, NEW r, r.id \in Id, NEW hover, CommitResize(r, hover)
  PROVE  Documents'
<1> DEFINE box == Stretching(r, hover)
           new == Assigned(Assigned(Total(copy), r.spaces, NoStream), box, r.id)
<1>1. Write(box \union r.spaces, new)
  BY DEF CommitResize
<1>2. new \in [Cell -> Id]
  <2> HIDE DEF box
  <2>1. NoStream \in Id /\ Total(copy) \in [Cell -> Id]
    BY TotalOf DEF Id
  <2>2. Assigned(Total(copy), r.spaces, NoStream) \in [Cell -> Id]
    BY <2>1, AssignedIds
  <2> QED BY <2>2, AssignedIds
<1> HIDE DEF box, new
<1> QED BY <1>1, <1>2, WriteKeeps

\* The tile that a resize is about.
LEMMA ResizableOf ==
  ASSUME Documents, NEW i \in Cell, NEW handle
  PROVE  Resizable(i, handle).spaces \subseteq Cell /\ Resizable(i, handle).id \in Id
<1>1. \A x : IdAt(copy, x) \in Id
  BY DEF Documents, IdAt, Id
<1>2. seen.tile[i] \subseteq Cell
  BY DEF Documents
<1> QED BY <1>1, <1>2 DEF Resizable

\* The state at the start.
LEMMA PanelStarts == PanelInit => PanelInv
<1> SUFFICES ASSUME PanelInit PROVE PanelInv
  OBVIOUS
<1> USE DEF PanelInit
<1>1. PICK w \in Width, h \in Height :
        \E ids \in [Cells(w, h) -> Id] : main = [cols |-> w, rows |-> h, ids |-> ids]
  BY DEF Id
<1>2. IsDocument(main) /\ Cells(w, h) \subseteq Cell
  BY <1>1, GridOf DEF IsDocument
<1>3. seen.cols \in Width /\ seen.rows \in Height /\ seen.tile \in [Cell -> SUBSET Cell]
  BY <1>2, LookOf DEF IsDocument
<1>4. Documents
  BY <1>1, <1>2, <1>3 DEF Documents
<1>5. Hands
  BY DEF Hands, NoResize, Id
<1> QED BY <1>4, <1>5 DEF PanelInv

\* A click or a key that writes to the document, or begins a gesture.
LEMMA InputsKeep ==
  ASSUME PanelInv, Inputs
  PROVE  PanelInv'
<1>1. SeenCells \subseteq Cell
  BY GridOf DEF PanelInv, Documents, SeenCells
<1>2. ASSUME NEW i \in Cell, NEW s \in Id, Type(i, s) PROVE PanelInv'
  <2>1. [Total(copy) EXCEPT ![i] = s] \in [Cell -> Id]
    BY TotalOf DEF PanelInv
  <2>2. Documents'
    BY <1>2, <2>1, WriteKeeps DEF Type, PanelInv
  <2>3. Hands'
    BY <1>2 DEF Type, gesture, PanelInv, Hands
  <2> QED BY <2>2, <2>3 DEF PanelInv
<1>3. CASE \E i \in SeenCells, s \in Stream \union {NoStream} : Type(i, s)
  BY <1>1, <1>2, <1>3 DEF Id
<1>4. CASE \E s \in Stream : ClickId(s)
  <2>1. PICK s \in Stream : ClickId(s)
    BY <1>4
  <2>2. PICK i \in SeenCells : Type(i, s)
    BY <2>1 DEF ClickId
  <2> QED BY <1>1, <1>2, <2>2 DEF Id
<1> QED BY <1>3, <1>4 DEF Inputs

\* The pointer.
LEMMA PointingKeeps ==
  ASSUME PanelInv, Pointing
  PROVE  PanelInv'
<1> USE DEF PanelInv
<1>1. PICK i \in Cell :
        \/ SwapView(i) \/ PressSwap(i) \/ PressMove(i) \/ EndMove(i)
        \/ \E handle \in Handle : StartResize(i, handle)
        \/ \E confirmed \in BOOLEAN : EndResize(i, confirmed)
  BY DEF Pointing
<1>2. ASSUME UNCHANGED <<main, known>> PROVE Documents'
  BY <1>2 DEF Documents, known
<1>3. CASE SwapView(i)
  BY <1>2, <1>3 DEF SwapView, Hands
<1>4. CASE PressSwap(i)
  <2>1. swapStart \in Cell
    BY <1>4 DEF PressSwap, Hands
  <2>2. Documents'
    BY <1>4, <2>1, SwapKeeps DEF PressSwap
  <2> QED BY <1>4, <2>2 DEF PressSwap, Hands
<1>5. CASE PressMove(i)
  BY <1>2, <1>5 DEF PressMove, Hands
<1>6. CASE EndMove(i)
  <2>1. moveStart \in Cell
    BY <1>6 DEF EndMove, Hands
  <2>2. Documents'
    BY <1>6, <2>1, SwapKeeps DEF EndMove
  <2> QED BY <1>6, <2>2 DEF EndMove, Hands
<1>7. ASSUME NEW handle \in Handle, StartResize(i, handle) PROVE PanelInv'
  <2>1. Resizable(i, handle).spaces \subseteq Cell /\ Resizable(i, handle).id \in Id
    BY ResizableOf
  <2> QED BY <1>2, <1>7, <2>1 DEF StartResize, Hands
<1>8. ASSUME NEW confirmed \in BOOLEAN, EndResize(i, confirmed) PROVE PanelInv'
  <2>1. Documents'
    BY <1>8, CommitKeeps DEF EndResize, Hands
  <2>2. Hands'
    BY <1>8 DEF EndResize, Hands, NoResize, Id
  <2> QED BY <2>1, <2>2
<1> QED BY <1>1, <1>3, <1>4, <1>5, <1>6, <1>7, <1>8

\* The keyboard, and the size of the grid.
LEMMA KeysKeep ==
  ASSUME PanelInv, Keys
  PROVE  PanelInv'
<1> USE DEF PanelInv
<1>1. CASE Abort
  BY <1>1 DEF Abort, Documents, Hands, known, NoResize, Id
<1>2. ASSUME NEW i \in SeenCells, NEW handle \in Handle, NEW shift \in BOOLEAN,
             KeyResize(i, handle, shift)
      PROVE  PanelInv'
  <2>1. i \in Cell
    BY GridOf DEF Documents, SeenCells
  <2>2. PICK hover : CommitResize(Resizable(i, handle), hover)
    BY <1>2 DEF KeyResize
  <2>3. Documents'
    BY <2>1, <2>2, ResizableOf, CommitKeeps
  <2>4. Hands'
    BY <1>2 DEF KeyResize, gesture, Hands
  <2> QED BY <2>3, <2>4
<1>3. ASSUME NEW w \in Width, NEW h \in Height, NEW confirmed \in BOOLEAN,
             AskGridSize(w, h, confirmed)
      PROVE  PanelInv'
  <2>1. main' = Resized(main, w, h) /\ IsDocument(main')
    BY <1>3, ResizedOf DEF AskGridSize, Documents
  <2>2. Documents'
    BY <1>3, <2>1 DEF AskGridSize, Documents
  <2>3. Hands'
    BY <1>3 DEF AskGridSize, gesture, Hands
  <2> QED BY <2>2, <2>3
<1> QED BY <1>1, <1>2, <1>3 DEF Keys

\* What others do, and what the panel hears of.
LEMMA OthersKeep ==
  ASSUME PanelInv, Others
  PROVE  PanelInv'
<1> USE DEF PanelInv
<1>1. Hands' /\ UNCHANGED <<seen, copy>>
  BY DEF Others, gesture, Hands
<1>2. ASSUME NEW i \in DOMAIN main.ids, NEW s \in Id, main' = [main EXCEPT !.ids[i] = s],
             unseen' = IF current THEN unseen \union {i} ELSE unseen, current' = current
      PROVE  Documents'
  <2>1. /\ main = [cols |-> main.cols, rows |-> main.rows, ids |-> main.ids]
        /\ main.cols \in Width /\ main.rows \in Height
        /\ main.ids \in [Cells(main.cols, main.rows) -> Id]
        /\ Cells(main.cols, main.rows) \subseteq Cell
    BY GridOf DEF Documents, IsDocument
  <2> DEFINE new == [main.ids EXCEPT ![i] = s]
  <2>2. main' = [cols |-> main.cols, rows |-> main.rows, ids |-> new]
    BY <1>2, <2>1
  <2>3. /\ new \in [Cells(main.cols, main.rows) -> Id]
        /\ \A j \in Cells(main.cols, main.rows) \ {i} : new[j] = main.ids[j]
    BY <2>1
  <2> HIDE DEF new
  <2>4. IsDocument(main')
    BY <2>1, <2>2, <2>3 DEF IsDocument
  <2>5. current => /\ DOMAIN copy = DOMAIN main'.ids
                   /\ \A j \in DOMAIN copy \ unseen' : copy[j] = main'.ids[j]
    BY <1>2, <2>1, <2>2, <2>3 DEF Documents
  <2>6. unseen' \subseteq Cell
    BY <1>2, <2>1 DEF Documents
  <2> QED BY <1>1, <1>2, <2>4, <2>5, <2>6 DEF Documents
<1>3. ASSUME NEW w \in Width, NEW h \in Height, main' = Resized(main, w, h),
             current' = FALSE, unseen' = unseen
      PROVE  Documents'
  <2>1. IsDocument(main')
    BY <1>3, ResizedOf DEF Documents
  <2> QED BY <1>1, <1>3, <2>1 DEF Documents
<1> QED BY <1>1, <1>2, <1>3 DEF Others, Id

\* What arrives at the panel is a grid and a document the desktop had.
LEMMA SeesKeep ==
  ASSUME PanelInv, SeeState \/ SeeDocument
  PROVE  PanelInv'
<1> USE DEF PanelInv
<1>1. CASE SeeState
  <2>1. seen'.cols \in Width /\ seen'.rows \in Height /\ seen'.tile \in [Cell -> SUBSET Cell]
    BY <1>1, LookOf DEF SeeState, Documents, IsDocument
  <2> QED BY <1>1, <2>1 DEF SeeState, Documents, gesture, Hands
<1>2. CASE SeeDocument
  <2>1. DOMAIN main.ids \subseteq Cell /\ main.ids \in [DOMAIN main.ids -> Id]
    BY GridOf DEF Documents, IsDocument
  <2> QED BY <1>2, <2>1 DEF SeeDocument, Documents, gesture, Hands
<1> QED BY <1>1, <1>2

\* Every step of the panel, and of anyone else, keeps what is to be of it.
LEMMA PanelStepKeeps == PanelInv /\ [PanelNext]_panelVars => PanelInv'
<1> SUFFICES ASSUME PanelInv, [PanelNext]_panelVars PROVE PanelInv'
  OBVIOUS
<1>1. CASE UNCHANGED panelVars
  BY <1>1 DEF panelVars, known, gesture, PanelInv, Documents, Hands
<1> QED BY <1>1, InputsKeep, PointingKeeps, KeysKeep, OthersKeep, SeesKeep DEF PanelNext

\* The wall and the panel next to it.
THEOREM PanelInvariant == PanelSpec => [](WallInv /\ PanelInv)
<1>1. WallInit /\ PanelInit => WallInv /\ PanelInv
  BY WallStarts, PanelStarts
<1>2. WallInv /\ PanelInv
        /\ [(WallNext /\ UNCHANGED panelVars) \/ (PanelNext /\ UNCHANGED wallVars)]_<<wallVars, panelVars>>
      => WallInv' /\ PanelInv'
  BY WallStepKeeps, PanelStepKeeps
<1> QED BY <1>1, <1>2, PTL DEF PanelSpec

\* The state of the panel has its types, and a panel that has heard of everything has the
\* document of the desktop.
THEOREM PanelTypeCorrect == PanelSpec => []PanelTypeOK
<1>1. PanelInv => PanelTypeOK
  <2> SUFFICES ASSUME PanelInv PROVE PanelTypeOK
    OBVIOUS
  <2>1. Range(main.ids) \subseteq Id
    BY DEF PanelInv, Documents, IsDocument, Range
  <2>2. ASSUME current, unseen = {} PROVE copy = main.ids
    <3>1. /\ DOMAIN copy = DOMAIN main.ids /\ copy \in [DOMAIN copy -> Id]
          /\ main.ids \in [DOMAIN copy -> Id] /\ \A i \in DOMAIN copy : copy[i] = main.ids[i]
      BY <2>2 DEF PanelInv, Documents, IsDocument
    <3> QED BY <3>1
  <2> QED BY <2>1, <2>2 DEF PanelInv, Documents, IsDocument, Hands, PanelTypeOK, Id
<1> QED BY <1>1, PanelInvariant, PTL

\* The wall has the document on it, all of it and nothing else, and the document has the
\* cells of its grid, though gestures end that began on a larger one (#17).
THEOREM OnlyDocumentShown == PanelSpec => []ShowsOnlyDocument
<1>1. WallInv /\ PanelInv => ShowsOnlyDocument
  <2>1. WallInv => ShowsDocument /\ NoGhosts
    BY DEF WallInv
  <2>2. PanelInv => KeysOfGrid
    BY DEF PanelInv, Documents, IsDocument, KeysOfGrid
  <2> QED BY <2>1, <2>2 DEF ShowsOnlyDocument
<1> QED BY <1>1, PanelInvariant, PTL

-----------------------------------------------------------------------------
(* No gesture and no resize loses a stream.                                *)

\* A cell is at its column and row, and at no other.
LEMMA AtOf ==
  ASSUME NEW w \in Nat \ {0}, NEW h \in Nat \ {0},
         NEW a \in 0 .. (w - 1), NEW b \in 0 .. (h - 1)
  PROVE  XOf(w, At(w, a, b)) = a /\ YOf(w, At(w, a, b)) = b
<1> DEFINE i == At(w, a, b)
           x == XOf(w, i)
           y == YOf(w, i)
<1>1. i \in Cells(w, h)
  BY CellsOf
<1>2. x \in 0 .. (w - 1) /\ y \in 0 .. (h - 1) /\ i = At(w, x, y)
  BY <1>1, CellsOf
<1> HIDE DEF x, y
<1>3. w * y + x = w * b + a
  BY <1>2 DEF At
<1>4. w * (y - b) = a - x
  BY <1>2, <1>3
<1>5. CASE y > b
  <2>1. w * (y - b) >= w
    BY <1>2, <1>5
  <2> QED BY <1>2, <1>4, <2>1
<1>6. CASE y < b
  <2>1. w * (b - y) >= w
    BY <1>2, <1>6
  <2>2. w * (b - y) = x - a
    BY <1>2, <1>3
  <2> QED BY <1>2, <2>1, <2>2
<1>7. CASE y = b
  BY <1>2, <1>3, <1>7 DEF x, y
<1> QED BY <1>2, <1>5, <1>6, <1>7

\* The lesser of two numbers is what is below both.
LEMMA MinOfTwo ==
  ASSUME NEW m \in Nat, NEW n \in Nat
  PROVE  \A k \in Int : k < Min({m, n}) <=> k < m /\ k < n
<1>1. {m, n} \in SUBSET Nat /\ {m, n} # {}
  OBVIOUS
<1>2. Min({m, n}) \in {m, n} /\ \A k \in {m, n} : Min({m, n}) <= k
  BY <1>1, MinOfNat, Zenon
<1> QED BY <1>2

\* A resize of the grid leaves each stream at its column and row, if the grid still has
\* them, and so the expansion.
LEMMA ResizeStep ==
  ASSUME WallInv, NEW w \in Width, NEW h \in Height, SetGridSize(w, h)
  PROVE  LET both == {p \in (0 .. MaxCols - 1) \X (0 .. MaxRows - 1) :
                        p[1] < Min({cols, w}) /\ p[2] < Min({rows, h})}
         IN  /\ \A p \in both : assign'[At(w, p[1], p[2])] = assign[At(cols, p[1], p[2])]
             /\ \A i \in Cell \ {At(w, p[1], p[2]) : p \in both} : assign'[i] = NoStream
             /\ \A p \in both : fullscreenViewIdx = At(cols, p[1], p[2]) =>
                                   fullscreenViewIdx' = At(w, p[1], p[2])
<1> DEFINE both == {p \in (0 .. MaxCols - 1) \X (0 .. MaxRows - 1) :
                      p[1] < Min({cols, w}) /\ p[2] < Min({rows, h})}
<1>1. /\ w \in Nat \ {0} /\ h \in Nat \ {0} /\ cols \in Nat \ {0} /\ rows \in Nat \ {0}
      /\ Cells(w, h) \subseteq Cell /\ Cells(cols, rows) \subseteq Cell
      /\ cols <= MaxCols /\ rows <= MaxRows /\ MaxCols \in Nat /\ MaxRows \in Nat
  BY GridOf, WallBoundsAssumption DEF WallInv, Configured, Width, Height
<1>2. \A p \in both : /\ p[1] \in 0 .. (w - 1) /\ p[1] \in 0 .. (cols - 1)
                      /\ p[2] \in 0 .. (h - 1) /\ p[2] \in 0 .. (rows - 1)
  BY <1>1, MinOfTwo
<1>3. ASSUME NEW a \in 0 .. (w - 1), a < cols, NEW b \in 0 .. (h - 1), b < rows
      PROVE  <<a, b>> \in both
  <2>1. a < Min({cols, w}) /\ b < Min({rows, h})
    BY <1>1, <1>3, MinOfTwo
  <2>2. a \in 0 .. MaxCols - 1 /\ b \in 0 .. MaxRows - 1
    BY <1>1, <1>3
  <2> QED BY <2>1, <2>2
<1> HIDE DEF both
<1>4. ASSUME NEW p \in both
      PROVE  /\ At(w, p[1], p[2]) \in Cells(w, h) /\ At(cols, p[1], p[2]) \in Cells(cols, rows)
             /\ XOf(w, At(w, p[1], p[2])) = p[1] /\ YOf(w, At(w, p[1], p[2])) = p[2]
             /\ XOf(cols, At(cols, p[1], p[2])) = p[1] /\ YOf(cols, At(cols, p[1], p[2])) = p[2]
  <2>1. /\ p[1] \in 0 .. (w - 1) /\ p[1] \in 0 .. (cols - 1)
        /\ p[2] \in 0 .. (h - 1) /\ p[2] \in 0 .. (rows - 1)
    BY <1>2
  <2>2. At(w, p[1], p[2]) \in Cells(w, h) /\ At(cols, p[1], p[2]) \in Cells(cols, rows)
    BY <1>1, <2>1, CellsOf
  <2>3. XOf(w, At(w, p[1], p[2])) = p[1] /\ YOf(w, At(w, p[1], p[2])) = p[2]
    BY <1>1, <2>1, AtOf
  <2>4. XOf(cols, At(cols, p[1], p[2])) = p[1] /\ YOf(cols, At(cols, p[1], p[2])) = p[2]
    BY <1>1, <2>1, AtOf
  <2> QED BY <2>2, <2>3, <2>4
<1>5. assign' = [i \in Cell |->
                   IF i \in Cells(w, h) /\ XOf(w, i) < cols /\ YOf(w, i) < rows
                   THEN assign[At(cols, XOf(w, i), YOf(w, i))] ELSE NoStream]
  BY DEF SetGridSize, Remap
<1>6. ASSUME NEW p \in both
      PROVE  assign'[At(w, p[1], p[2])] = assign[At(cols, p[1], p[2])]
  <2>1. p[1] < cols /\ p[2] < rows
    BY <1>1, <1>2
  <2> QED BY <1>1, <1>4, <1>5, <2>1
<1>7. ASSUME NEW i \in Cell, assign'[i] # NoStream
      PROVE  \E p \in both : i = At(w, p[1], p[2])
  <2>1. i \in Cells(w, h) /\ XOf(w, i) < cols /\ YOf(w, i) < rows
    BY <1>5, <1>7
  <2>2. /\ XOf(w, i) \in 0 .. (w - 1) /\ YOf(w, i) \in 0 .. (h - 1)
        /\ i = At(w, XOf(w, i), YOf(w, i))
    BY <1>1, <2>1, CellsOf
  <2>3. <<XOf(w, i), YOf(w, i)>> \in both
    BY <1>3, <2>1, <2>2
  <2> QED BY <2>2, <2>3
<1>8. ASSUME NEW p \in both, fullscreenViewIdx = At(cols, p[1], p[2])
      PROVE  fullscreenViewIdx' = At(w, p[1], p[2])
  <2> DEFINE f == At(w, p[1], p[2])
  <2>1. /\ f \in Cell /\ f # NoCell
        /\ fullscreenViewIdx \in Cells(cols, rows) /\ fullscreenViewIdx # NoCell
    BY <1>1, <1>4, <1>8, NoCellAssumption DEF Cell
  <2>2. p[1] < w /\ p[2] < h
    BY <1>1, <1>2
  <2>3. RemapFullscreen(w, h) = f
    BY <1>4, <1>8, <2>1, <2>2 DEF RemapFullscreen, RemapCell, Expanded
  <2>4. Wanted[fullscreenViewIdx] # NoContent
    BY <2>1 DEF WallInv, NoGhosts, Expanded
  <2>5. Wanted'[f] = Wanted[fullscreenViewIdx]
    <3>1. assign'[f] = assign[fullscreenViewIdx] /\ streams' = streams
      BY <1>6, <1>8 DEF SetGridSize
    <3>2. Wanted[fullscreenViewIdx] = ContentOf(assign[fullscreenViewIdx])
      BY <1>1, <2>1 DEF Wanted
    <3> HIDE DEF f
    <3>3. \A i \in Cell : Wanted'[i] =
            IF assign'[i] = NoStream \/ streams'[assign'[i]] = NoKind THEN NoContent
            ELSE <<assign'[i], streams'[assign'[i]]>>
      BY DEF Wanted, ContentOf
    <3> QED BY <2>1, <3>1, <3>2, <3>3 DEF ContentOf
  <2>6. fullscreenViewIdx' = IF RemapFullscreen(w, h) # NoCell
                                  /\ Wanted'[RemapFullscreen(w, h)] # NoContent
                             THEN RemapFullscreen(w, h) ELSE NoCell
    BY DEF SetGridSize, UpdateViewsFromStateDoc
  <2> HIDE DEF f
  <2>7. fullscreenViewIdx' = f
    BY <2>1, <2>3, <2>4, <2>5, <2>6
  <2> QED BY <2>7 DEF f
<1> QED BY <1>6, <1>7, <1>8 DEF both

\* The cells of a grid are finitely many.
LEMMA CellsFinite ==
  ASSUME NEW w \in Width, NEW h \in Height
  PROVE  IsFiniteSet(Cells(w, h)) /\ IsFiniteSet(Cell)
<1>1. \A a, b \in Nat : IsFiniteSet(Cells(a, b))
  <2> SUFFICES ASSUME NEW a \in Nat, NEW b \in Nat PROVE IsFiniteSet(Cells(a, b))
    OBVIOUS
  <2>1. 0 \in Int /\ a * b - 1 \in Int
    OBVIOUS
  <2> QED BY <2>1, FS_Interval DEF Cells
<1> QED BY <1>1, GridOf, WallBoundsAssumption DEF Cell

\* A tile that is moved has room for all of its cells.
LEMMA TranslatedRoom ==
  ASSUME NEW w \in Width, NEW h \in Height, NEW S \in SUBSET Cells(w, h), S # {},
         NEW from \in Cells(w, h), NEW to \in Cells(w, h),
         NEW T, IsFiniteSet(T), Translated(w, h, S, from, to) \subseteq T
  PROVE  Cardinality(S) <= Cardinality(T)
<1> DEFINE dx == Shift(Columns(w, S), w, XOf(w, from), XOf(w, to))
           dy == Shift(Lines(w, S), h, YOf(w, from), YOf(w, to))
<1>1. w \in Nat \ {0} /\ h \in Nat \ {0}
  BY GridOf
<1>2. \A k \in Columns(w, S) : k + dx \in 0 .. (w - 1)
  BY <1>1, AxesOf, CellsOf, ShiftStays
<1>3. \A k \in Lines(w, S) : k + dy \in 0 .. (h - 1)
  BY <1>1, AxesOf, CellsOf, ShiftStays
<1>4. Translated(w, h, S, from, to) = {At(w, XOf(w, i) + dx, YOf(w, i) + dy) : i \in S}
  BY DEF Translated
<1>5. dx \in Int /\ dy \in Int
  <2>1. /\ Columns(w, S) \in SUBSET (0 .. (w - 1)) /\ Columns(w, S) # {}
        /\ Lines(w, S) \in SUBSET (0 .. (h - 1)) /\ Lines(w, S) # {}
    BY <1>1, AxesOf
  <2>2. \A n \in Nat \ {0} : \A K \in SUBSET (0 .. (n - 1)) :
          K # {} => Min(K) \in 0 .. (n - 1) /\ Max(K) \in 0 .. (n - 1)
    <3> SUFFICES ASSUME NEW n \in Nat \ {0}, NEW K \in SUBSET (0 .. (n - 1)), K # {}
                 PROVE  Min(K) \in 0 .. (n - 1) /\ Max(K) \in 0 .. (n - 1)
      OBVIOUS
    <3>1. K \in SUBSET Nat /\ n - 1 \in Nat
      OBVIOUS
    <3>2. Min(K) \in K /\ Max(K) \in K
      BY <3>1, MinOfNat, MaxOfNat
    <3> QED BY <3>2
  <2>3. /\ XOf(w, from) \in 0 .. (w - 1) /\ XOf(w, to) \in 0 .. (w - 1)
        /\ YOf(w, from) \in 0 .. (h - 1) /\ YOf(w, to) \in 0 .. (h - 1)
    BY <1>1, CellsOf
  <2>4. /\ Min(Columns(w, S)) \in 0 .. (w - 1) /\ Max(Columns(w, S)) \in 0 .. (w - 1)
        /\ Min(Lines(w, S)) \in 0 .. (h - 1) /\ Max(Lines(w, S)) \in 0 .. (h - 1)
    BY <1>1, <2>1, <2>2
  <2> QED BY <1>1, <2>3, <2>4 DEF Shift
<1> HIDE DEF dx, dy
<1>6. \A i \in S : /\ XOf(w, i) \in 0 .. (w - 1) /\ YOf(w, i) \in 0 .. (h - 1)
                   /\ i = At(w, XOf(w, i), YOf(w, i))
                   /\ XOf(w, i) + dx \in 0 .. (w - 1) /\ YOf(w, i) + dy \in 0 .. (h - 1)
  BY <1>1, <1>2, <1>3, CellsOf DEF Columns, Lines
<1> DEFINE moved(i) == At(w, XOf(w, i) + dx, YOf(w, i) + dy)
           f == [i \in S |-> moved(i)]
<1>7. ASSUME NEW i \in S, NEW j \in S, moved(i) = moved(j) PROVE i = j
  <2>1. \A k \in S : XOf(w, moved(k)) = XOf(w, k) + dx /\ YOf(w, moved(k)) = YOf(w, k) + dy
    <3> SUFFICES ASSUME NEW k \in S
                 PROVE  XOf(w, moved(k)) = XOf(w, k) + dx /\ YOf(w, moved(k)) = YOf(w, k) + dy
      OBVIOUS
    <3>1. PICK a \in 0 .. (w - 1), b \in 0 .. (h - 1) : a = XOf(w, k) + dx /\ b = YOf(w, k) + dy
      BY <1>6
    <3>2. XOf(w, At(w, a, b)) = a /\ YOf(w, At(w, a, b)) = b
      BY <1>1, AtOf
    <3> QED BY <3>1, <3>2
  <2> HIDE DEF moved
  <2>2. XOf(w, i) + dx = XOf(w, j) + dx /\ YOf(w, i) + dy = YOf(w, j) + dy
    BY <1>7, <2>1
  <2>3. \A k \in S : XOf(w, k) \in Int /\ YOf(w, k) \in Int
    BY <1>1, <1>6
  <2>4. \A m, n, d \in Int : m + d = n + d => m = n
    OBVIOUS
  <2>5. XOf(w, i) = XOf(w, j) /\ YOf(w, i) = YOf(w, j)
    BY <1>5, <2>2, <2>3, <2>4
  <2> QED BY <1>6, <2>5
<1>8. \A i \in S : moved(i) \in T
  BY <1>4
<1> HIDE DEF moved
<1>9. f \in Injection(S, T)
  BY <1>7, <1>8 DEF Injection, IsInjective
<1> QED BY <1>9, FS_Injection

\* What a drag does to the streams of the document.
LEMMA DragStep ==
  ASSUME WallInv, ~ Expanded, cols' = cols, rows' = rows,
         NEW i \in Cells(cols, rows), NEW j \in Cells(cols, rows), Tile[i] # {},
         assign' = Swapped(cols, rows, assign, NoStream, Tile, i, j)
  PROVE  IF Tile[j] = {}
         THEN Cardinality({c \in Cell : assign'[c] = assign[i]}) >= Cardinality(Tile[i])
         ELSE {assign[i], assign[j]} \subseteq Range(assign')
<1>1. /\ cols \in Width /\ rows \in Height /\ cols \in Nat \ {0} /\ rows \in Nat \ {0}
      /\ Cells(cols, rows) \subseteq Cell /\ DOMAIN assign = Cell
  BY GridOf DEF WallInv, Configured
<1>2. \A c \in Cell :
        Tile[c] = UNION {view[a].spaces : a \in {b \in ToSet(live) : c \in view[b].spaces}}
  BY DEF Tile
<1>3. \A c \in Cell : Tile[c] \subseteq Cells(cols, rows)
  BY <1>2 DEF WallInv, ShowsDocument
<1>4. \A S, s, ids : DOMAIN ids = Cell =>
        Assigned(ids, S, s) = [c \in Cell |-> IF c \in S THEN s ELSE ids[c]]
  BY DEF Assigned
<1>5. CASE Tile[j] = {}
  <2> DEFINE moved == Translated(cols, rows, Tile[i], i, j)
             there == {c \in Cell : assign'[c] = assign[i]}
  <2>1. assign' = Assigned(Assigned(assign, Tile[i], NoStream), moved, assign[i])
    BY <1>5 DEF Swapped
  <2>2. moved \subseteq Cells(cols, rows)
    BY <1>1, <1>3, TranslatedStays
  <2> HIDE DEF moved
  <2>3. moved \subseteq there
    BY <1>1, <1>4, <2>1, <2>2
  <2>4. IsFiniteSet(there)
    <3>1. there \in SUBSET Cell
      OBVIOUS
    <3> QED BY <1>1, <3>1, CellsFinite, FS_Subset
  <2>5. Cardinality(Tile[i]) <= Cardinality(there)
    <3> HIDE DEF there
    <3>1. Tile[i] \in SUBSET Cells(cols, rows)
      BY <1>1, <1>3
    <3> QED BY <1>1, <2>3, <2>4, <3>1, TranslatedRoom DEF moved
  <2>6. Cardinality(Tile[i]) \in Nat /\ Cardinality(there) \in Nat
    <3>1. Tile[i] \in SUBSET Cell
      BY <1>1, <1>3
    <3>2. IsFiniteSet(Tile[i])
      BY <1>1, <3>1, CellsFinite, FS_Subset
    <3> HIDE DEF there
    <3> QED BY <2>4, <3>2, FS_CardinalityType
  <2> HIDE DEF there
  <2>7. Cardinality(there) >= Cardinality(Tile[i])
    BY <2>5, <2>6
  <2> QED BY <1>5, <2>7 DEF there
<1>6. CASE Tile[j] # {}
  <2>1. assign' = Assigned(Assigned(assign, Tile[i], assign[j]), Tile[j], assign[i])
    BY <1>6 DEF Swapped
  <2>2. assign' = [c \in Cell |-> IF c \in Tile[j] THEN assign[i]
                                  ELSE IF c \in Tile[i] THEN assign[j] ELSE assign[c]]
    BY <1>1, <1>4, <2>1
  <2>3. assign[i] \in Range(assign')
    <3>1. PICK c \in Tile[j] : c \in Cell
      BY <1>1, <1>3, <1>6
    <3> QED BY <2>2, <3>1 DEF Range
  <2>4. CASE \E c \in Tile[i] : c \notin Tile[j]
    <3>1. PICK c \in Tile[i] : c \notin Tile[j] /\ c \in Cell
      BY <1>1, <1>3, <2>4
    <3>2. assign'[c] = assign[j]
      BY <2>2, <3>1
    <3> QED BY <1>6, <2>2, <2>3, <3>1, <3>2 DEF Range
  <2>5. CASE Tile[i] \subseteq Tile[j]
    <3>1. PICK a \in ToSet(live) : i \in view[a].spaces
      BY <1>1, <1>2
    <3>2. i \in Tile[j]
      BY <1>1, <1>2, <2>5, <3>1
    <3>3. PICK b \in ToSet(live) : j \in view[b].spaces /\ i \in view[b].spaces
      BY <1>1, <1>2, <3>2
    <3>4. ASSUME NEW c \in {i, j}
          PROVE  ToShow[c] # NoContent /\ view[b].content = ToShow[c]
      <4> DEFINE covering == {d \in ToSet(live) : c \in view[d].spaces}
      <4>1. IF ToShow[c] = NoContent THEN covering = {}
            ELSE \E d \in covering : covering = {d} /\ view[d].content = ToShow[c]
        BY DEF WallInv, ShowsDocument
      <4>2. b \in covering
        BY <3>3
      <4> HIDE DEF covering
      <4> QED BY <4>1, <4>2
    <3>5. \A c \in {i, j} : ToShow[c] = ContentOf(assign[c])
      BY <1>1 DEF ToShow, Wanted
    <3>6. assign[i] = assign[j]
      BY <3>4, <3>5 DEF ContentOf
    <3> QED BY <1>6, <2>3, <3>6
  <2> QED BY <2>4, <2>5
<1> QED BY <1>5, <1>6

\* The tile of a cell that has a stream: it has the cell, and only cells with its stream,
\* whose tile it is too.
LEMMA TilesOf ==
  ASSUME NEW m, IsDocument(m), NEW c \in Cells(m.cols, m.rows)
  PROVE  LET tile == Look(m).tile
         IN  /\ tile[c] \subseteq Cells(m.cols, m.rows)
             /\ m.ids[c] = NoStream => tile[c] = {}
             /\ m.ids[c] # NoStream => c \in tile[c]
             /\ \A d \in tile[c] : m.ids[d] = m.ids[c] /\ tile[d] = tile[c]
<1> DEFINE grid == Cells(m.cols, m.rows)
           content == [i \in grid |-> IF IdAt(m.ids, i) = NoStream THEN NoContent ELSE m.ids[i]]
           boxes == Boxes(m.cols, m.rows, content)
           tile == Look(m).tile
<1>1. m.cols \in Nat \ {0} /\ m.rows \in Nat \ {0} /\ grid \subseteq Cell
  BY GridOf DEF IsDocument
<1>2. /\ boxes \in Seq(BoxIn(m.cols, m.rows, content)) /\ Apart(content, boxes)
      /\ \A i \in grid : content[i] # NoContent => i \in Visited(boxes)
  <2> HIDE DEF content
  <2> QED BY <1>1, BoxesTile DEF Tilings
<1>3. \A i \in grid : /\ content[i] = IF m.ids[i] = NoStream THEN NoContent ELSE m.ids[i]
                      /\ content[i] = NoContent <=> m.ids[i] = NoStream
  BY NoContentAssumption DEF IsDocument, IdAt, Id
<1>4. \A i \in Cell : tile[i] = UNION {b.spaces : b \in {d \in ToSet(boxes) : i \in d.spaces}}
  <2>1. Look(m) = [cols |-> m.cols, rows |-> m.rows,
                   tile |-> [i \in Cell |->
                               UNION {b.spaces : b \in {d \in BoxesOf(m) : i \in d.spaces}}]]
    BY DEF Look, With
  <2>2. BoxesOf(m) = ToSet(boxes)
    BY DEF BoxesOf
  <2> HIDE DEF boxes
  <2> QED BY <2>1, <2>2
<1> HIDE DEF content, boxes, tile
<1>5. \A i \in Cell : \A d \in tile[i] :
        \E b \in DOMAIN boxes : i \in boxes[b].spaces /\ d \in boxes[b].spaces
  BY <1>4 DEF ToSet
<1>6. \A i \in Cell : \A b \in DOMAIN boxes : i \in boxes[b].spaces => boxes[b].spaces \subseteq tile[i]
  BY <1>4 DEF ToSet
<1>7. \A b \in DOMAIN boxes : boxes[b].spaces \subseteq grid
  <2>1. \A b \in DOMAIN boxes : boxes[b] \in BoxIn(m.cols, m.rows, content)
    BY <1>2
  <2> QED BY <2>1 DEF BoxIn
<1>8. tile[c] \subseteq grid
  BY <1>1, <1>5, <1>7
<1>9. m.ids[c] = NoStream => tile[c] = {}
  BY <1>1, <1>2, <1>3, <1>5 DEF Apart
<1>10. m.ids[c] # NoStream => c \in tile[c]
  BY <1>1, <1>2, <1>3, <1>6 DEF Visited
<1>11. ASSUME NEW d \in tile[c] PROVE m.ids[d] = m.ids[c] /\ tile[d] = tile[c]
  <2>1. PICK b \in DOMAIN boxes : c \in boxes[b].spaces /\ d \in boxes[b].spaces
    BY <1>1, <1>5, <1>11
  <2>2. d \in grid /\ d \in Cell
    BY <1>1, <1>7, <2>1
  <2>3. content[c] = content[d] /\ content[c] # NoContent
    BY <1>2, <2>1 DEF Apart
  <2>4. m.ids[d] = m.ids[c]
    BY <1>3, <2>2, <2>3
  <2>5. \A i \in {c, d} : tile[i] = boxes[b].spaces
    <3> SUFFICES ASSUME NEW i \in {c, d} PROVE tile[i] = boxes[b].spaces
      OBVIOUS
    <3>1. i \in Cell /\ i \in boxes[b].spaces
      BY <1>1, <2>1, <2>2
    <3>2. \A a \in DOMAIN boxes : i \in boxes[a].spaces => a = b
      BY <1>2, <2>1, <3>1 DEF Apart
    <3>3. tile[i] \subseteq boxes[b].spaces
      BY <1>5, <3>1, <3>2
    <3> QED BY <1>6, <2>1, <3>1, <3>3
  <2> QED BY <2>4, <2>5
<1> QED BY <1>8, <1>9, <1>10, <1>11 DEF tile

\* What a drag or a swap writes, in step.
LEMMA SwapStays ==
  ASSUME PanelInv, InStep, NEW from \in DOMAIN main.ids, NEW i \in DOMAIN main.ids,
         SwapBoxes(from, i)
  PROVE  {main.ids[from], main.ids[i]} \ {NoStream} \subseteq Range(main'.ids)
<1> DEFINE ids == main.ids
           grid == Cells(main.cols, main.rows)
           tile == seen.tile
           new == Swapped(seen.cols, seen.rows, Total(copy), NoStream, tile, from, i)
<1>1. /\ IsDocument(main) /\ seen = Look(main) /\ seen.cols = main.cols /\ seen.rows = main.rows
      /\ copy = ids /\ current /\ unseen = {}
  BY LookOf DEF PanelInv, Documents, InStep
<1>2. /\ DOMAIN ids = grid /\ grid \subseteq Cell /\ from \in grid /\ i \in grid
      /\ main.cols \in Nat \ {0} /\ main.rows \in Nat \ {0}
      /\ main = [cols |-> main.cols, rows |-> main.rows, ids |-> ids]
  BY <1>1, GridOf DEF IsDocument
<1>3. \A c \in grid : Total(copy)[c] = ids[c]
  BY <1>1, <1>2 DEF Total, IdAt
<1>4. Total(copy) \in [Cell -> Id]
  BY TotalOf DEF PanelInv
<1>5. \A c \in grid : /\ tile[c] \subseteq grid /\ (ids[c] = NoStream => tile[c] = {})
                      /\ ids[c] # NoStream => c \in tile[c]
                      /\ \A d \in tile[c] : ids[d] = ids[c] /\ tile[d] = tile[c]
  BY <1>1, TilesOf
<1>6. CASE from = i
  <2>1. main' = main
    BY <1>6 DEF SwapBoxes, WriteNothing
  <2> QED BY <2>1 DEF Range
<1>7. ASSUME from # i
      PROVE  main'.ids = [c \in grid |-> IF c \in Traded(from, i) THEN new[c] ELSE ids[c]]
  <2> HIDE DEF new
  <2>1. Write(Traded(from, i), new)
    BY <1>7 DEF SwapBoxes, new
  <2>2. main' = [main EXCEPT !.ids =
                   [c \in DOMAIN @ |-> IF c \in Traded(from, i) THEN new[c] ELSE @[c]]]
    BY <1>1, <2>1 DEF Write
  <2> QED BY <1>2, <2>2
<1>8. ASSUME from # i, NEW c \in grid, c \in Traded(from, i), NEW s, new[c] = s
      PROVE  s \in Range(main'.ids)
  BY <1>7, <1>8 DEF Range
<1>9. CASE from # i /\ tile[from] # {} /\ tile[i] = {}
  <2> DEFINE moved == Translated(seen.cols, seen.rows, tile[from], from, i)
             left == Assigned(Total(copy), tile[from], NoStream)
  <2>1. moved \subseteq grid /\ moved # {}
    <3>1. moved \subseteq grid
      BY <1>1, <1>2, <1>5, <1>9, TranslatedStays
    <3>2. moved # {}
      BY <1>9 DEF Translated
    <3> QED BY <3>1, <3>2
  <2>2. new = Assigned(left, moved, ids[from])
    BY <1>2, <1>3, <1>9 DEF Swapped
  <2>3. left \in [Cell -> Id] /\ ids[from] \in Id
    BY <1>2, <1>3, <1>4, AssignedIds DEF Id
  <2>4. moved \subseteq Traded(from, i)
    BY <1>9 DEF Traded
  <2> HIDE DEF moved, left
  <2>5. PICK c \in moved : c \in grid /\ c \in Cell
    BY <1>2, <2>1
  <2>6. new[c] = ids[from]
    BY <2>2, <2>3, <2>5, AssignedIds
  <2>7. ids[from] \in Range(main'.ids)
    BY <1>8, <1>9, <2>4, <2>5, <2>6
  <2>8. ids[i] = NoStream
    BY <1>2, <1>5, <1>9
  <2> QED BY <2>7, <2>8
<1>10. CASE from # i /\ ~ (tile[from] # {} /\ tile[i] = {})
  <2> DEFINE own(c) == IF tile[c] = {} THEN {c} ELSE tile[c]
             held(c) == IF tile[c] = {} THEN NoStream ELSE Total(copy)[c]
             left == Assigned(Total(copy), own(from), held(i))
  <2>1. new = Assigned(left, own(i), held(from))
    BY <1>10 DEF Swapped
  <2>2. Traded(from, i) = own(from) \union own(i)
    BY <1>10 DEF Traded
  <2>3. \A c \in {from, i} : held(c) = ids[c] /\ held(c) \in Id /\ c \in own(c)
    BY <1>2, <1>3, <1>4, <1>5 DEF Id
  <2>4. /\ left = [c \in Cell |-> IF c \in own(from) THEN ids[i] ELSE Total(copy)[c]]
        /\ left \in [Cell -> Id]
    <3> HIDE DEF own, held
    <3> QED BY <1>4, <2>3, AssignedIds
  <2>5. new = [c \in Cell |-> IF c \in own(i) THEN ids[from] ELSE left[c]]
    <3> HIDE DEF own, held, left
    <3> QED BY <2>1, <2>3, <2>4, AssignedIds
  <2>6. ids[from] \in Range(main'.ids)
    <3> HIDE DEF own, held, left
    <3>1. new[i] = ids[from]
      BY <1>2, <2>3, <2>5
    <3> QED BY <1>2, <1>8, <1>10, <2>2, <2>3, <3>1
  <2>7. CASE from \notin own(i)
    <3> HIDE DEF own, held, left
    <3>1. new[from] = ids[i]
      BY <1>2, <2>3, <2>4, <2>5, <2>7
    <3>2. ids[i] \in Range(main'.ids)
      BY <1>2, <1>8, <1>10, <2>2, <2>3, <3>1
    <3> QED BY <2>6, <3>2
  <2>8. CASE from \in own(i)
    <3>1. from \in tile[i]
      BY <1>10, <2>8
    <3>2. ids[from] = ids[i]
      BY <1>2, <1>5, <3>1
    <3> QED BY <2>6, <3>2
  <2> QED BY <2>7, <2>8
<1> QED BY <1>6, <1>9, <1>10

\* A smaller grid that the operator was not asked about keeps all streams.
LEMMA ResizeDropsNone ==
  ASSUME PanelInv, InStep, NEW w \in Width, NEW h \in Height, AskGridSize(w, h, FALSE),
         NEW s \in Stream
  PROVE  Held(main'.ids, s) = Held(main.ids, s)
<1> DEFINE ids == main.ids
           S == {i \in DOMAIN ids : ids[i] = s}
           T == {i \in DOMAIN main'.ids : main'.ids[i] = s}
           moved(i) == At(w, XOf(main.cols, i), YOf(main.cols, i))
           f == [i \in S |-> moved(i)]
<1>1. /\ IsDocument(main) /\ seen.cols = main.cols /\ copy = ids
      /\ main' = Resized(main, w, h) /\ ~ WouldDrop(w, h)
  BY LookOf DEF PanelInv, Documents, InStep, AskGridSize
<1>2. /\ main.cols \in Nat \ {0} /\ main.rows \in Nat \ {0} /\ w \in Nat \ {0} /\ h \in Nat \ {0}
      /\ main.cols \in Width /\ main.rows \in Height
      /\ DOMAIN ids = Cells(main.cols, main.rows)
      /\ Cells(main.cols, main.rows) \subseteq Cell /\ Cells(w, h) \subseteq Cell
  BY <1>1, GridOf DEF IsDocument
<1>3. main'.ids = [j \in Cells(w, h) |->
                     IF XOf(w, j) < main.cols /\ YOf(w, j) < main.rows
                     THEN IdAt(ids, At(main.cols, XOf(w, j), YOf(w, j))) ELSE NoStream]
  <2>1. \A j \in Cells(w, h) : XOf(w, j) < main.cols /\ YOf(w, j) < main.rows =>
          At(main.cols, XOf(w, j), YOf(w, j)) \in Cell
    <3> SUFFICES ASSUME NEW j \in Cells(w, h), XOf(w, j) < main.cols, YOf(w, j) < main.rows
                 PROVE  At(main.cols, XOf(w, j), YOf(w, j)) \in Cell
      OBVIOUS
    <3>1. XOf(w, j) \in 0 .. (w - 1) /\ YOf(w, j) \in 0 .. (h - 1)
      BY <1>2, CellsOf
    <3>2. XOf(w, j) \in 0 .. (main.cols - 1) /\ YOf(w, j) \in 0 .. (main.rows - 1)
      BY <1>2, <3>1
    <3> QED BY <1>2, <3>2, CellsOf
  <2>2. main'.ids = [j \in Cells(w, h) |->
                       Remap(Cell, main.cols, main.rows, w, h, Total(ids), NoStream)[j]]
    BY <1>1 DEF Resized
  <2> QED BY <1>2, <2>1, <2>2 DEF Remap, Total
<1>4. ASSUME NEW i \in S
      PROVE  /\ XOf(main.cols, i) \in 0 .. (w - 1) /\ YOf(main.cols, i) \in 0 .. (h - 1)
             /\ XOf(main.cols, i) \in 0 .. (main.cols - 1)
             /\ YOf(main.cols, i) \in 0 .. (main.rows - 1)
             /\ i = At(main.cols, XOf(main.cols, i), YOf(main.cols, i))
             /\ i \in Cells(main.cols, main.rows)
  <2>1. /\ XOf(main.cols, i) \in 0 .. (main.cols - 1)
        /\ YOf(main.cols, i) \in 0 .. (main.rows - 1)
        /\ i = At(main.cols, XOf(main.cols, i), YOf(main.cols, i))
        /\ i \in Cells(main.cols, main.rows)
    BY <1>2, CellsOf
  <2>2. ~ (XOf(main.cols, i) >= w) /\ ~ (YOf(main.cols, i) >= h)
    BY <1>1, NoStreamAssumption DEF WouldDrop
  <2> QED BY <1>2, <2>1, <2>2
<1>5. ASSUME NEW i \in S
      PROVE  /\ moved(i) \in T
             /\ XOf(w, moved(i)) = XOf(main.cols, i) /\ YOf(w, moved(i)) = YOf(main.cols, i)
  <2>1. PICK a \in 0 .. (w - 1), b \in 0 .. (h - 1) :
          a = XOf(main.cols, i) /\ b = YOf(main.cols, i)
    BY <1>4
  <2>2. /\ At(w, a, b) \in Cells(w, h)
        /\ XOf(w, At(w, a, b)) = a /\ YOf(w, At(w, a, b)) = b
    <3>1. At(w, a, b) \in Cells(w, h)
      BY <1>2, CellsOf
    <3>2. XOf(w, At(w, a, b)) = a /\ YOf(w, At(w, a, b)) = b
      BY <1>2, AtOf
    <3> QED BY <3>1, <3>2
  <2>3. a < main.cols /\ b < main.rows /\ i = At(main.cols, a, b) /\ i \in DOMAIN ids
    BY <1>2, <1>4, <2>1
  <2>4. main'.ids[At(w, a, b)] = IdAt(ids, i)
    BY <1>3, <2>2, <2>3
  <2>5. IdAt(ids, i) = s
    BY <2>3 DEF IdAt
  <2> QED BY <1>3, <2>1, <2>2, <2>4, <2>5
<1>6. ASSUME NEW j \in T
      PROVE  \E i \in S : j = moved(i)
  <2>1. /\ j \in Cells(w, h) /\ XOf(w, j) < main.cols /\ YOf(w, j) < main.rows
        /\ IdAt(ids, At(main.cols, XOf(w, j), YOf(w, j))) = s
    BY <1>3, NoStreamAssumption
  <2>2. /\ XOf(w, j) \in 0 .. (w - 1) /\ YOf(w, j) \in 0 .. (h - 1)
        /\ j = At(w, XOf(w, j), YOf(w, j))
    BY <1>2, <2>1, CellsOf
  <2>3. PICK a \in 0 .. (main.cols - 1), b \in 0 .. (main.rows - 1) :
          a = XOf(w, j) /\ b = YOf(w, j)
    BY <1>2, <2>1, <2>2
  <2>4. /\ At(main.cols, a, b) \in DOMAIN ids
        /\ XOf(main.cols, At(main.cols, a, b)) = a /\ YOf(main.cols, At(main.cols, a, b)) = b
    <3>1. At(main.cols, a, b) \in DOMAIN ids
      BY <1>2, CellsOf
    <3>2. XOf(main.cols, At(main.cols, a, b)) = a /\ YOf(main.cols, At(main.cols, a, b)) = b
      BY <1>2, AtOf
    <3> QED BY <3>1, <3>2
  <2>5. ids[At(main.cols, a, b)] = s
    BY <2>1, <2>3, <2>4 DEF IdAt
  <2>6. At(main.cols, a, b) \in S /\ j = moved(At(main.cols, a, b))
    BY <2>2, <2>3, <2>4, <2>5
  <2> QED BY <2>6
<1>7. \A i, j \in S : moved(i) = moved(j) => i = j
  <2> HIDE DEF moved
  <2> QED BY <1>4, <1>5
<1>8. f \in Bijection(S, T)
  <2> HIDE DEF moved, S, T
  <2> QED BY <1>5, <1>6, <1>7 DEF Bijection, Injection, Surjection, IsInjective
<1>9. IsFiniteSet(S)
  <2>1. S \in SUBSET Cells(main.cols, main.rows)
    BY <1>2
  <2> HIDE DEF S
  <2> QED BY <1>2, <2>1, CellsFinite, FS_Subset
<1>10. Cardinality(T) = Cardinality(S)
  <2> HIDE DEF f, S, T
  <2> QED BY <1>8, <1>9, FS_Bijection DEF ExistsBijection
<1> QED BY <1>10 DEF Held

\* A resize that was not confirmed leaves other streams where they are.
LEMMA EndResizeStays ==
  ASSUME PanelInv, NEW i \in Cell, EndResize(i, FALSE), NEW c \in DOMAIN copy \ resize.spaces
  PROVE  copy[c] \in {NoStream, resize.id, copy'[c]}
<1> DEFINE box == Stretching(resize, i)
           left == Assigned(Total(copy), resize.spaces, NoStream)
           new == Assigned(left, box, resize.id)
<1>1. c \in Cell /\ Total(copy) \in [Cell -> Id] /\ Total(copy)[c] = copy[c]
  BY TotalOf DEF PanelInv, Documents, Total, IdAt
<1>2. ~ Overwrites(resize, i) /\ copy' = [d \in DOMAIN copy |->
                                            IF d \in box \union resize.spaces THEN new[d] ELSE copy[d]]
  BY DEF EndResize, CommitResize, Write
<1> HIDE DEF new, left, box
<1>3. CASE c \in box
  BY <1>2, <1>3 DEF Overwrites, box
<1>4. CASE c \notin box
  BY <1>2, <1>4
<1> QED BY <1>3, <1>4

\* A gesture ends as it began: streams are dragged, swapped, resized and rearranged, but
\* never lost unasked.
THEOREM TilesKept == PanelSpec => TilesKeepStreams
<1> DEFINE I == WallInv /\ PanelInv
<1>1. I => [ ~Expanded /\ assign' # assign /\ UNCHANGED <<cols, rows>> =>
               \A tile \in {Tile}, i, j \in Cells(cols, rows) :
                 tile[i] # {} /\ assign' = Swapped(cols, rows, assign, NoStream, tile, i, j) =>
                   IF tile[j] = {}
                   THEN Cardinality({c \in Cell : assign'[c] = assign[i]}) >= Cardinality(tile[i])
                   ELSE {assign[i], assign[j]} \subseteq Range(assign') ]_wallVars
  BY DragStep
<1>2. I => [ \A w \in Width, h \in Height :
               <<w, h>> # <<cols, rows>> /\ <<w, h>> = <<cols, rows>>' /\ SetGridSize(w, h) =>
               LET both == {p \in (0 .. MaxCols - 1) \X (0 .. MaxRows - 1) :
                              p[1] < Min({cols, w}) /\ p[2] < Min({rows, h})}
               IN  /\ \A p \in both : assign'[At(w, p[1], p[2])] = assign[At(cols, p[1], p[2])]
                   /\ \A i \in Cell \ {At(w, p[1], p[2]) : p \in both} : assign'[i] = NoStream
                   /\ \A p \in both : fullscreenViewIdx = At(cols, p[1], p[2]) =>
                                         fullscreenViewIdx' = At(w, p[1], p[2]) ]_wallVars
  BY ResizeStep
<1>3. I => [ \A i \in Cell :
               EndResize(i, FALSE) =>
                 \A c \in DOMAIN copy \ resize.spaces :
                   copy[c] \in {NoStream, resize.id, copy'[c]} ]_panelVars
  BY EndResizeStays
<1>4. I => [ \A i \in DOMAIN main.ids :
               \A from \in ({moveStart, swapStart} \intersect DOMAIN main.ids) :
                 InStep /\ ((from = moveStart /\ EndMove(i)) \/ (from = swapStart /\ PressSwap(i))) =>
                   {main.ids[from], main.ids[i]} \ {NoStream} \subseteq Range(main'.ids) ]_panelVars
  BY SwapStays DEF EndMove, PressSwap
<1>5. I => [ \A w \in Width, h \in Height :
               InStep /\ AskGridSize(w, h, FALSE) =>
                 \A s \in Stream : Held(main'.ids, s) = Held(main.ids, s) ]_panelVars
  BY ResizeDropsNone
<1> HIDE DEF I
<1> QED BY <1>1, <1>2, <1>3, <1>4, <1>5, PanelInvariant, PTL
        DEF I, TilesKeepStreams, DragKeepsStreams, ResizeKeepsPlaces, AsksFirst, DraggedStay, DropsAsked

-----------------------------------------------------------------------------
(* The tiles cover the window.                                             *)

\* A line of pixels, cut into n slices of which the last has the rest: the slice of a pixel.
LEMMA SliceOf ==
  ASSUME NEW n \in Nat \ {0}, NEW size \in Nat, size >= n, NEW p \in 0 .. (size - 1)
  PROVE  LET s == size \div n
             q == p \div s
             c == Min({n - 1, q})
         IN  /\ s \in Nat \ {0} /\ q \in Nat /\ s * q <= p /\ p < s * q + s
             /\ c \in 0 .. (n - 1) /\ \A j \in Int : j < c <=> j < n - 1 /\ j < q
<1> DEFINE s == size \div n
           q == p \div s
           c == Min({n - 1, q})
<1>1. s \in Nat \ {0}
  <2>1. s \in Int /\ n * s <= size /\ size < n * s + n
    BY DEF s
  <2> HIDE DEF s
  <2>2. s > 0
    <3>1. s <= 0 => n * s <= 0
      BY <2>1
    <3> QED BY <2>1, <3>1
  <2> QED BY <2>1, <2>2
<1> HIDE DEF s
<1>2. q \in Nat /\ s * q <= p /\ p < s * q + s
  BY <1>1 DEF q
<1> HIDE DEF q
<1>3. c \in 0 .. (n - 1) /\ \A j \in Int : j < c <=> j < n - 1 /\ j < q
  <2>1. n - 1 \in Nat /\ {n - 1, q} \in SUBSET Nat /\ {n - 1, q} # {}
    BY <1>2
  <2>2. c \in {n - 1, q} /\ \A j \in {n - 1, q} : c <= j
    BY <2>1, MinOfNat, Zenon DEF c
  <2> HIDE DEF c
  <2> QED BY <1>2, <2>1, <2>2
<1> HIDE DEF c
<1> QED BY <1>1, <1>2, <1>3 DEF s, q, c

\* A pixel is in a run of slices just when its slice is one of them.
LEMMA Slices ==
  ASSUME NEW n \in Nat \ {0}, NEW size \in Nat, size >= n, NEW p \in 0 .. (size - 1),
         NEW x \in Nat, NEW k \in Nat \ {0}, x + k <= n
  PROVE  LET s == size \div n
             wide == IF x + k >= n THEN size - s * x ELSE s * k
         IN  p \in (s * x) .. (s * x + wide - 1) <=> Min({n - 1, p \div s}) \in x .. (x + k - 1)
<1> DEFINE s == size \div n
           q == p \div s
           c == Min({n - 1, q})
           wide == IF x + k >= n THEN size - s * x ELSE s * k
<1>1. /\ s \in Nat \ {0} /\ q \in Nat /\ s * q <= p /\ p < s * q + s
      /\ c \in 0 .. (n - 1) /\ \A j \in Int : j < c <=> j < n - 1 /\ j < q
  BY SliceOf
<1> HIDE DEF c
<1> HIDE DEF q
<1> HIDE DEF s
<1>2. ASSUME NEW j \in Nat PROVE s * j <= p <=> j <= q
  <2>1. j <= q => s * j <= s * q
    BY <1>1
  <2>2. j > q => s * (q + 1) <= s * j
    BY <1>1
  <2>3. s * (q + 1) = s * q + s /\ s * j \in Nat /\ s * q \in Nat
    BY <1>1
  <2> QED BY <1>1, <2>1, <2>2, <2>3
<1>3. c >= x <=> s * x <= p
  <2>1. c >= x <=> q >= x
    BY <1>1
  <2> QED BY <1>1, <1>2, <2>1
<1>4. ASSUME x + k >= n PROVE p \in (s * x) .. (s * x + wide - 1) <=> c \in x .. (x + k - 1)
  <2>1. wide = size - s * x
    BY <1>4
  <2> HIDE DEF wide
  <2>2. s * x + wide - 1 = size - 1 /\ s * x \in Nat
    BY <1>1, <2>1
  <2>3. c <= x + k - 1
    BY <1>1, <1>4
  <2> QED BY <1>1, <1>3, <2>2, <2>3
<1>5. ASSUME x + k < n PROVE p \in (s * x) .. (s * x + wide - 1) <=> c \in x .. (x + k - 1)
  <2>1. wide = s * k
    BY <1>5
  <2> HIDE DEF wide
  <2>2. s * x + wide = s * (x + k) /\ s * x \in Nat /\ s * (x + k) \in Nat /\ wide \in Nat
    BY <1>1, <2>1
  <2>3. c <= x + k - 1 <=> q <= x + k - 1
    BY <1>1, <1>5
  <2>4. s * (x + k) <= p <=> x + k <= q
    BY <1>2
  <2> QED BY <1>1, <1>3, <2>2, <2>3, <2>4
<1>6. p \in (s * x) .. (s * x + wide - 1) <=> c \in x .. (x + k - 1)
  <2> HIDE DEF wide
  <2> QED BY <1>4, <1>5
<1> QED BY <1>6 DEF s, q, c

\* A cell is in a rectangle just when its column and its row are.
LEMMA InRectangle ==
  ASSUME NEW w \in Nat \ {0}, NEW h \in Nat \ {0}, NEW a \in 0 .. (w - 1), NEW b \in 0 .. (h - 1),
         NEW box, Rectangle(w, h, box), {box.x, box.y, box.w, box.h} \subseteq Nat
  PROVE  At(w, a, b) \in box.spaces
           <=> a \in box.x .. (box.x + box.w - 1) /\ b \in box.y .. (box.y + box.h - 1)
<1>1. ASSUME NEW d \in box.x .. (box.x + box.w - 1), NEW e \in box.y .. (box.y + box.h - 1),
             At(w, a, b) = At(w, d, e)
      PROVE  a = d /\ b = e
  <2>1. d \in 0 .. (w - 1) /\ e \in 0 .. (h - 1)
    BY DEF Rectangle
  <2>2. XOf(w, At(w, d, e)) = d /\ YOf(w, At(w, d, e)) = e
    BY <2>1, AtOf
  <2>3. XOf(w, At(w, a, b)) = a /\ YOf(w, At(w, a, b)) = b
    BY AtOf
  <2> QED BY <1>1, <2>2, <2>3
<1> QED BY <1>1 DEF Rectangle

\* A pixel of a window is in the rectangles of the boxes that have its cell: of one, if
\* the cell has content, and else of none.
PixelTiled(w, h, content, width, height, boxes, px, py) ==
  LET cell == At(w, Min({w - 1, px \div (width \div w)}), Min({h - 1, py \div (height \div h)}))
      on == {b \in boxes : Covers(BoxRect(w, h, width, height, b), px, py)}
  IN  /\ on = {b \in boxes : cell \in b.spaces}
      /\ Cardinality(on) = IF content[cell] = NoContent THEN 0 ELSE 1

\* The boxes of a grid tile the window, pixel by pixel.
LEMMA RectanglesTile ==
  ASSUME NEW w \in Nat \ {0}, NEW h \in Nat \ {0}, NEW content,
         NEW width \in Nat, NEW height \in Nat, width >= w, height >= h,
         NEW px \in 0 .. (width - 1), NEW py \in 0 .. (height - 1)
  PROVE  PixelTiled(w, h, content, width, height, ToSet(Boxes(w, h, content)), px, py)
<1> DEFINE boxes == Boxes(w, h, content)
           column == Min({w - 1, px \div (width \div w)})
           line == Min({h - 1, py \div (height \div h)})
           cell == At(w, column, line)
           on == {b \in ToSet(boxes) : Covers(BoxRect(w, h, width, height, b), px, py)}
<1>1. /\ boxes \in Seq(BoxIn(w, h, content)) /\ Apart(content, boxes)
      /\ \A i \in Cells(w, h) : content[i] # NoContent => i \in Visited(boxes)
  BY BoxesTile DEF Tilings
<1> HIDE DEF boxes
<1>2. ASSUME NEW box \in ToSet(boxes)
      PROVE  Rectangle(w, h, box) /\ {box.x, box.y, box.w, box.h} \subseteq Nat
  <2>1. box \in BoxIn(w, h, content)
    BY <1>1 DEF ToSet
  <2> QED BY <2>1 DEF BoxIn
<1>3. column \in 0 .. (w - 1)
  BY SliceOf
<1>4. line \in 0 .. (h - 1)
  BY SliceOf
<1>5. ASSUME NEW box \in ToSet(boxes)
      PROVE  Covers(BoxRect(w, h, width, height, box), px, py) <=> cell \in box.spaces
  <2> DEFINE r == BoxRect(w, h, width, height, box)
  <2>1. /\ box.x \in Nat /\ box.y \in Nat /\ box.w \in Nat \ {0} /\ box.h \in Nat \ {0}
        /\ box.x + box.w <= w /\ box.y + box.h <= h
    BY <1>2 DEF Rectangle
  <2>2. px \in r.left .. (r.left + r.width - 1) <=> column \in box.x .. (box.x + box.w - 1)
    BY <2>1, Slices DEF BoxRect
  <2>3. py \in r.top .. (r.top + r.height - 1) <=> line \in box.y .. (box.y + box.h - 1)
    BY <2>1, Slices DEF BoxRect
  <2> HIDE DEF r, column, line
  <2>4. cell \in box.spaces
          <=> column \in box.x .. (box.x + box.w - 1) /\ line \in box.y .. (box.y + box.h - 1)
    BY <1>2, <1>3, <1>4, InRectangle
  <2> QED BY <2>2, <2>3, <2>4 DEF Covers, r
<1> HIDE DEF column, line
<1>6. cell \in Cells(w, h)
  BY <1>3, <1>4, CellsOf
<1> HIDE DEF cell
<1>7. on = {b \in ToSet(boxes) : cell \in b.spaces}
  BY <1>5
<1> HIDE DEF on
<1>8. ASSUME content[cell] = NoContent PROVE Cardinality(on) = 0
  <2>1. \A b \in DOMAIN boxes : cell \notin boxes[b].spaces
    BY <1>1, <1>8 DEF Apart
  <2>2. on = {}
    BY <1>7, <2>1 DEF ToSet
  <2> QED BY <2>2, FS_EmptySet
<1>9. ASSUME content[cell] # NoContent PROVE Cardinality(on) = 1
  <2>1. PICK b \in DOMAIN boxes : cell \in boxes[b].spaces
    BY <1>1, <1>6, <1>9 DEF Visited
  <2>2. \A d \in DOMAIN boxes : cell \in boxes[d].spaces => d = b
    BY <1>1, <2>1 DEF Apart
  <2>3. on = {boxes[b]}
    BY <1>7, <2>1, <2>2 DEF ToSet
  <2> QED BY <2>3, FS_Singleton
<1>10. Cardinality(on) = IF content[cell] = NoContent THEN 0 ELSE 1
  BY <1>8, <1>9
<1> QED BY <1>7, <1>10 DEF PixelTiled, boxes, column, line, cell, on

\* So they are on the wall.
LEMMA WallRectangles == WallInv => Rects
<1> SUFFICES ASSUME WallInv PROVE Rects
  OBVIOUS
<1>1. /\ cols \in Nat \ {0} /\ rows \in Nat \ {0} /\ WindowWidth \in Nat /\ WindowHeight \in Nat
      /\ WindowWidth >= cols /\ WindowHeight >= rows
  BY WindowAssumption, WallBoundsAssumption DEF WallInv, Configured, Width, Height
<1>2. \A px \in 0 .. (WindowWidth - 1), py \in 0 .. (WindowHeight - 1) :
        PixelTiled(cols, rows, ToShow, WindowWidth, WindowHeight, ToSet(WallBoxes), px, py)
  BY <1>1, RectanglesTile DEF WallBoxes
<1>3. Rects <=> \A boxes \in {ToSet(WallBoxes)}, px \in 0 .. (WindowWidth - 1), py \in 0 .. (WindowHeight - 1) :
                  PixelTiled(cols, rows, ToShow, WindowWidth, WindowHeight, boxes, px, py)
  BY Zenon DEF Rects, RectsTile, PixelTiled
<1> QED BY <1>2, <1>3

\* The sessions that are explored are behaviours of wall and panel.
LEMMA SessionsAreOfThePanel == SessionSpec => PanelSpec
<1>1. SessionInit => WallInit /\ PanelInit
  BY DEF SessionInit
<1>2. [SessionNext]_sessionVars
        => [(WallNext /\ UNCHANGED panelVars) \/ (PanelNext /\ UNCHANGED wallVars)]_<<wallVars, panelVars>>
  BY DEF SessionNext, sessionVars, Layout, Editing, Commanding, WallNext
<1> QED BY <1>1, <1>2, PTL DEF SessionSpec, PanelSpec

\* The state of wall and panel has its types, and the tiles cover the window, none of them
\* over another, for any window of at least a pixel for each cell (geometry.ts, computeBoxRect).
THEOREM TilesCoverWindow == SessionSpec => []WallOK
<1>1. WallInv => WallTypeOK /\ Rects
  BY WallTyped, WallRectangles
<1> QED BY <1>1, SessionsAreOfThePanel, PanelInvariant, PanelTypeCorrect, PTL DEF WallOK
=============================================================================
