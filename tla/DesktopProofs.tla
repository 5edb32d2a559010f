---------------------------- MODULE DesktopProofs ----------------------------
(***************************************************************************)
(* The parts around the wall, for any links, commands, releases, sites and *)
(* bounds: each part has an inductive invariant of its own, and together   *)
(* they give the properties of MCDesktop.                                  *)
(***************************************************************************)
EXTENDS MCDesktop, SequenceTheorems, FiniteSetTheorems, TLAPS

-----------------------------------------------------------------------------
(* The layers (Layers).  What a page has yet to be told and what it knows  *)
(* form a chain of links, so that a clear on its way is known to come      *)
(* before the mounts that ask again; a URL that is refused is then named,  *)
(* or due, or was dropped at a limit.                                      *)

\* What the main process tells a page.
Msg == [type : {"state"}, links : SUBSET Url] \union [type : {"layer:blocked-url"}, url : Named]
IsState(m) == m.type = "state"

\* The links that a page knows and those on their way to it: no two that follow one
\* another are the same, and the last are those of the state.
Chain(q, had, links, now) ==
  /\ \A i \in 1 .. Len(q) : IsState(q[i]) /\ had /\ (\A j \in 1 .. Len(q) : j < i => ~IsState(q[j])) => q[i].links # links
  /\ \A i, j \in 1 .. Len(q) :
       i < j /\ IsState(q[i]) /\ IsState(q[j]) /\ (\A n \in 1 .. Len(q) : i < n /\ n < j => ~IsState(q[n])) =>
         q[i].links # q[j].links
  /\ \A i \in 1 .. Len(q) : IsState(q[i]) /\ (\A j \in 1 .. Len(q) : i < j => ~IsState(q[j])) => q[i].links = now
  /\ (\A i \in 1 .. Len(q) : ~IsState(q[i])) => had /\ links = now

\* No state is on its way.
Told(q) == \A i \in 1 .. Len(q) : ~IsState(q[i])

\* A state that is not the first clears the list of the wall.
Clears(q, had, j) == IsState(q[j]) /\ (had \/ \E i \in 1 .. Len(q) : i < j /\ IsState(q[i]))

\* A URL is on its way to the wall or in its list, and no clear comes after it.
Coming(q, had, u) ==
  \E i \in 1 .. Len(q) : q[i] = BlockedMsg(u) /\ \A j \in 1 .. Len(q) : i < j => ~Clears(q, had, j)

\* A URL is in the list of the wall, or would be but for the limit, and no clear comes.
Listed(q, had, list, u) ==
  (u \in list \/ Cardinality(list) = MaxUrls) /\ \A j \in 1 .. Len(q) : ~Clears(q, had, j)

\* What appending does to a sequence, index by index.
LEMMA Appended ==
  ASSUME NEW q \in Seq(Msg), NEW m \in Msg
  PROVE  /\ Append(q, m) \in Seq(Msg) /\ Len(Append(q, m)) = Len(q) + 1 /\ Len(q) \in Nat
         /\ \A i \in 1 .. Len(q) : i \in 1 .. Len(Append(q, m)) /\ Append(q, m)[i] = q[i] /\ i < Len(q) + 1
         /\ Len(q) + 1 \in 1 .. Len(Append(q, m)) /\ Append(q, m)[Len(q) + 1] = m
         /\ \A i \in 1 .. Len(Append(q, m)) : i \in 1 .. Len(q) \/ i = Len(q) + 1
OBVIOUS

\* What taking the head does to a sequence, index by index.
LEMMA Taken ==
  ASSUME NEW q \in Seq(Msg), q # <<>>
  PROVE  /\ Tail(q) \in Seq(Msg) /\ Head(q) = q[1] /\ 1 \in 1 .. Len(q) /\ Head(q) \in Msg
         /\ \A i \in 1 .. Len(Tail(q)) : i + 1 \in 1 .. Len(q) /\ Tail(q)[i] = q[i + 1]
         /\ \A i \in 1 .. Len(q) : i = 1 \/ (1 < i /\ i - 1 \in 1 .. Len(Tail(q)) /\ Tail(q)[i - 1] = q[i])
<1>1. Len(q) \in Nat /\ Len(q) > 0 /\ Head(q) = q[1]
  BY EmptySeq
<1>2. 1 \in 1 .. Len(q)
  BY <1>1
<1>3. q[1] \in Msg
  BY <1>2, ElementOfSeq
<1>4. Tail(q) \in Seq(Msg) /\ Len(Tail(q)) = Len(q) - 1 /\ \A i \in 1 .. Len(Tail(q)) : Tail(q)[i] = q[i + 1]
  OBVIOUS
<1>5. \A i \in 1 .. Len(Tail(q)) : i + 1 \in 1 .. Len(q)
  BY <1>1, <1>4
<1>6. ASSUME NEW i \in 1 .. Len(q) PROVE i = 1 \/ (1 < i /\ i - 1 \in 1 .. Len(Tail(q)) /\ Tail(q)[i - 1] = q[i])
  <2>1. CASE i # 1
    <3>1. i - 1 \in 1 .. Len(Tail(q)) /\ (i - 1) + 1 = i
      BY <1>1, <1>4, <2>1
    <3> QED BY <1>4, <3>1
  <2> QED BY <2>1
<1> QED BY <1>1, <1>2, <1>3, <1>4, <1>5, <1>6

\* A URL that follows changes nothing of the links.
LEMMA ChainBlocked ==
  ASSUME NEW q \in Seq(Msg), NEW had \in BOOLEAN, NEW links, NEW now, Chain(q, had, links, now), NEW u \in Named
  PROVE  Chain(Append(q, BlockedMsg(u)), had, links, now) /\ (Told(Append(q, BlockedMsg(u))) <=> Told(q))
<1>1. BlockedMsg(u) \in Msg /\ ~IsState(BlockedMsg(u))
  BY DEF Msg, BlockedMsg, IsState
<1> DEFINE r == Append(q, BlockedMsg(u))
<1>2. /\ r \in Seq(Msg) /\ Len(q) \in Nat
      /\ \A i \in 1 .. Len(q) : i \in 1 .. Len(r) /\ r[i] = q[i] /\ i < Len(q) + 1
      /\ Len(q) + 1 \in 1 .. Len(r) /\ r[Len(q) + 1] = BlockedMsg(u)
      /\ \A i \in 1 .. Len(r) : i \in 1 .. Len(q) \/ i = Len(q) + 1
  BY <1>1, Appended
<1> HIDE DEF r
<1>3. \A i \in 1 .. Len(r) : IsState(r[i]) => i \in 1 .. Len(q) /\ r[i] = q[i]
  BY <1>1, <1>2
<1>4. \A i \in 1 .. Len(q) : IsState(r[i]) <=> IsState(q[i])
  BY <1>2
<1>5. \A i \in 1 .. Len(r) : IsState(r[i]) /\ had /\ (\A j \in 1 .. Len(r) : j < i => ~IsState(r[j])) => r[i].links # links
  BY <1>2, <1>3, <1>4 DEF Chain
<1>6. \A i, j \in 1 .. Len(r) :
        i < j /\ IsState(r[i]) /\ IsState(r[j]) /\ (\A n \in 1 .. Len(r) : i < n /\ n < j => ~IsState(r[n])) =>
          r[i].links # r[j].links
  BY <1>2, <1>3, <1>4 DEF Chain
<1>7. \A i \in 1 .. Len(r) : IsState(r[i]) /\ (\A j \in 1 .. Len(r) : i < j => ~IsState(r[j])) => r[i].links = now
  BY <1>2, <1>3, <1>4 DEF Chain
<1>8. Told(r) <=> Told(q)
  BY <1>2, <1>3, <1>4 DEF Told
<1>9. (\A i \in 1 .. Len(r) : ~IsState(r[i])) => had /\ links = now
  BY <1>8 DEF Told, Chain
<1> QED BY <1>5, <1>6, <1>7, <1>8, <1>9 DEF Chain, r

\* An edit is another set of links than the last.
LEMMA ChainEdit ==
  ASSUME NEW q \in Seq(Msg), NEW had \in BOOLEAN, NEW links, NEW now, Chain(q, had, links, now),
         NEW new \in SUBSET Url, new # now
  PROVE  Chain(Append(q, StateMsg(new)), had, links, new) /\ ~Told(Append(q, StateMsg(new)))
<1>1. StateMsg(new) \in Msg /\ IsState(StateMsg(new)) /\ StateMsg(new).links = new
  BY DEF Msg, StateMsg, IsState
<1> DEFINE r == Append(q, StateMsg(new))
<1>2. /\ r \in Seq(Msg) /\ Len(q) \in Nat
      /\ \A i \in 1 .. Len(q) : i \in 1 .. Len(r) /\ r[i] = q[i] /\ i < Len(q) + 1
      /\ Len(q) + 1 \in 1 .. Len(r) /\ r[Len(q) + 1] = StateMsg(new)
      /\ \A i \in 1 .. Len(r) : i \in 1 .. Len(q) \/ i = Len(q) + 1
  BY <1>1, Appended
<1> HIDE DEF r
<1>4. \A i \in 1 .. Len(q) : IsState(r[i]) <=> IsState(q[i])
  BY <1>2
<1>5. ASSUME NEW i \in 1 .. Len(r), IsState(r[i]), had, \A j \in 1 .. Len(r) : j < i => ~IsState(r[j])
      PROVE  r[i].links # links
  <2>1. CASE i \in 1 .. Len(q)
    BY <1>2, <1>4, <1>5, <2>1 DEF Chain
  <2>2. CASE i = Len(q) + 1
    <3>1. \A j \in 1 .. Len(q) : ~IsState(q[j])
      BY <1>2, <1>4, <1>5, <2>2
    <3>2. links = now
      BY <3>1 DEF Chain
    <3> QED BY <1>1, <1>2, <2>2, <3>2
  <2> QED BY <1>2, <2>1, <2>2
<1>6. ASSUME NEW i \in 1 .. Len(r), NEW j \in 1 .. Len(r), i < j, IsState(r[i]), IsState(r[j]),
             \A n \in 1 .. Len(r) : i < n /\ n < j => ~IsState(r[n])
      PROVE  r[i].links # r[j].links
  <2>1. CASE j \in 1 .. Len(q)
    <3>1. i \in 1 .. Len(q)
      BY <1>2, <1>6, <2>1
    <3> QED BY <1>2, <1>4, <1>6, <2>1, <3>1 DEF Chain
  <2>2. CASE j = Len(q) + 1
    <3>1. i \in 1 .. Len(q) /\ IsState(q[i]) /\ r[i] = q[i]
      BY <1>2, <1>6, <2>2
    <3>2. \A n \in 1 .. Len(q) : i < n => ~IsState(q[n])
      BY <1>2, <1>4, <1>6, <2>2
    <3>3. q[i].links = now
      BY <3>1, <3>2 DEF Chain
    <3> QED BY <1>1, <1>2, <2>2, <3>1, <3>3
  <2> QED BY <1>2, <2>1, <2>2
<1>7. ASSUME NEW i \in 1 .. Len(r), IsState(r[i]), \A j \in 1 .. Len(r) : i < j => ~IsState(r[j])
      PROVE  r[i].links = new
  <2>1. i = Len(q) + 1
    BY <1>1, <1>2, <1>7
  <2> QED BY <1>1, <1>2, <2>1
<1>8. ~Told(r)
  BY <1>1, <1>2 DEF Told
<1> QED BY <1>5, <1>6, <1>7, <1>8 DEF Chain, Told, r

\* A URL that is taken changes nothing of the links.
LEMMA ChainPasses ==
  ASSUME NEW q \in Seq(Msg), NEW had \in BOOLEAN, NEW links, NEW now, Chain(q, had, links, now),
         q # <<>>, ~IsState(Head(q))
  PROVE  Chain(Tail(q), had, links, now) /\ (Told(Tail(q)) <=> Told(q))
<1> DEFINE r == Tail(q)
<1>2. /\ Head(q) = q[1] /\ 1 \in 1 .. Len(q)
      /\ \A i \in 1 .. Len(r) : i + 1 \in 1 .. Len(q) /\ r[i] = q[i + 1]
      /\ \A i \in 1 .. Len(q) : i = 1 \/ (1 < i /\ i - 1 \in 1 .. Len(r) /\ r[i - 1] = q[i])
  BY Taken
<1> HIDE DEF r
<1>c. \A a, b \in 1 .. Len(q) :
        a < b /\ IsState(q[a]) /\ IsState(q[b]) /\ (\A n \in 1 .. Len(q) : a < n /\ n < b => ~IsState(q[n])) =>
          q[a].links # q[b].links
  BY DEF Chain
<1>3. \A i \in 1 .. Len(q) : IsState(q[i]) => i - 1 \in 1 .. Len(r) /\ r[i - 1] = q[i]
  BY <1>2
<1>5. ASSUME NEW i \in 1 .. Len(r), IsState(r[i]), had, \A j \in 1 .. Len(r) : j < i => ~IsState(r[j])
      PROVE  r[i].links # links
  <2>1. \A j \in 1 .. Len(q) : j < i + 1 => ~IsState(q[j])
    BY <1>3, <1>5
  <2> QED BY <1>2, <1>5, <2>1 DEF Chain
<1>6. ASSUME NEW i \in 1 .. Len(r), NEW j \in 1 .. Len(r), i < j, IsState(r[i]), IsState(r[j]),
             \A n \in 1 .. Len(r) : i < n /\ n < j => ~IsState(r[n])
      PROVE  r[i].links # r[j].links
  <2>1. \A n \in 1 .. Len(q) : i + 1 < n /\ n < j + 1 => ~IsState(q[n])
    BY <1>3, <1>6
  <2>2. i + 1 < j + 1
    BY <1>6
  <2>3. /\ i + 1 \in 1 .. Len(q) /\ q[i + 1] = r[i] /\ j + 1 \in 1 .. Len(q) /\ q[j + 1] = r[j]
        /\ IsState(r[i]) /\ IsState(r[j])
    BY <1>2, <1>6
  <2>4. q[i + 1].links # q[j + 1].links
    BY <1>c, <2>1, <2>2, <2>3
  <2> QED BY <2>3, <2>4
<1>7. ASSUME NEW i \in 1 .. Len(r), IsState(r[i]), \A j \in 1 .. Len(r) : i < j => ~IsState(r[j])
      PROVE  r[i].links = now
  <2>1. \A n \in 1 .. Len(q) : i + 1 < n => ~IsState(q[n])
    BY <1>3, <1>7
  <2> QED BY <1>2, <1>7, <2>1 DEF Chain
<1>8. Told(r) <=> Told(q)
  BY <1>2, <1>3 DEF Told
<1>9. (\A i \in 1 .. Len(r) : ~IsState(r[i])) => had /\ links = now
  BY <1>8 DEF Told, Chain
<1> QED BY <1>5, <1>6, <1>7, <1>8, <1>9 DEF Chain, r

\* Links that are taken are others than those the page knew.
LEMMA ChainTakes ==
  ASSUME NEW q \in Seq(Msg), NEW had \in BOOLEAN, NEW links, NEW now, Chain(q, had, links, now),
         q # <<>>, IsState(Head(q))
  PROVE  /\ Chain(Tail(q), TRUE, Head(q).links, now)
         /\ had => Head(q).links # links
         /\ Told(Tail(q)) => Head(q).links = now
<1> DEFINE r == Tail(q)
           h == Head(q)
<1>2. /\ h = q[1] /\ 1 \in 1 .. Len(q)
      /\ \A i \in 1 .. Len(r) : i + 1 \in 1 .. Len(q) /\ r[i] = q[i + 1]
      /\ \A i \in 1 .. Len(q) : i = 1 \/ (1 < i /\ i - 1 \in 1 .. Len(r) /\ r[i - 1] = q[i])
  BY Taken
<1> HIDE DEF r, h
<1>c. \A a, b \in 1 .. Len(q) :
        a < b /\ IsState(q[a]) /\ IsState(q[b]) /\ (\A n \in 1 .. Len(q) : a < n /\ n < b => ~IsState(q[n])) =>
          q[a].links # q[b].links
  BY DEF Chain
<1>3. IsState(h)
  BY DEF h
<1>4. had => h.links # links
  BY <1>2, <1>3 DEF Chain
<1>5. ASSUME NEW i \in 1 .. Len(r), IsState(r[i]), \A j \in 1 .. Len(r) : j < i => ~IsState(r[j])
      PROVE  r[i].links # h.links
  <2>1. \A n \in 1 .. Len(q) : 1 < n /\ n < i + 1 => ~IsState(q[n])
    BY <1>2, <1>5
  <2>2. 1 < i + 1
    OBVIOUS
  <2>3. i + 1 \in 1 .. Len(q) /\ q[i + 1] = r[i] /\ q[1] = h /\ 1 \in 1 .. Len(q)
    BY <1>2
  <2>4. q[1].links # q[i + 1].links
    BY <1>c, <1>3, <1>5, <2>1, <2>2, <2>3
  <2> QED BY <2>3, <2>4
<1>6. ASSUME NEW i \in 1 .. Len(r), NEW j \in 1 .. Len(r), i < j, IsState(r[i]), IsState(r[j]),
             \A n \in 1 .. Len(r) : i < n /\ n < j => ~IsState(r[n])
      PROVE  r[i].links # r[j].links
  <2>1. \A n \in 1 .. Len(q) : i + 1 < n /\ n < j + 1 => ~IsState(q[n])
    BY <1>2, <1>6
  <2>2. i + 1 < j + 1
    BY <1>6
  <2>3. /\ i + 1 \in 1 .. Len(q) /\ q[i + 1] = r[i] /\ j + 1 \in 1 .. Len(q) /\ q[j + 1] = r[j]
        /\ IsState(r[i]) /\ IsState(r[j])
    BY <1>2, <1>6
  <2>4. q[i + 1].links # q[j + 1].links
    BY <1>c, <2>1, <2>2, <2>3
  <2> QED BY <2>3, <2>4
<1>7. ASSUME NEW i \in 1 .. Len(r), IsState(r[i]), \A j \in 1 .. Len(r) : i < j => ~IsState(r[j])
      PROVE  r[i].links = now
  <2>1. \A n \in 1 .. Len(q) : i + 1 < n => ~IsState(q[n])
    BY <1>2, <1>7
  <2> QED BY <1>2, <1>7, <2>1 DEF Chain
<1>8. Told(r) => h.links = now
  <2> SUFFICES ASSUME Told(r) PROVE h.links = now
    OBVIOUS
  <2>1. \A n \in 1 .. Len(q) : 1 < n => ~IsState(q[n])
    BY <1>2 DEF Told
  <2> QED BY <1>2, <1>3, <2>1 DEF Chain
<1> QED BY <1>4, <1>5, <1>6, <1>7, <1>8 DEF Chain, Told, r, h

\* A page that loads gets what was held for it, and the state: the first it knows.
LEMMA ChainBegins ==
  ASSUME NEW q \in Seq(Msg), Told(q), NEW now \in SUBSET Url, NEW links
  PROVE  /\ Chain(q \o <<StateMsg(now)>>, FALSE, links, now)
         /\ q \o <<StateMsg(now)>> \in Seq(Msg) /\ ~Told(q \o <<StateMsg(now)>>)
         /\ \A u \in Named : (\E i \in 1 .. Len(q) : q[i] = BlockedMsg(u)) => Coming(q \o <<StateMsg(now)>>, FALSE, u)
<1>1. StateMsg(now) \in Msg /\ IsState(StateMsg(now)) /\ StateMsg(now).links = now
  BY DEF Msg, StateMsg, IsState
<1> DEFINE r == Append(q, StateMsg(now))
<1>0. q \o <<StateMsg(now)>> = r
  BY <1>1
<1>2. /\ r \in Seq(Msg) /\ Len(q) \in Nat
      /\ \A i \in 1 .. Len(q) : i \in 1 .. Len(r) /\ r[i] = q[i] /\ i < Len(q) + 1
      /\ Len(q) + 1 \in 1 .. Len(r) /\ r[Len(q) + 1] = StateMsg(now)
      /\ \A i \in 1 .. Len(r) : i \in 1 .. Len(q) \/ i = Len(q) + 1
  BY <1>1, Appended
<1> HIDE DEF r
<1>3. \A i \in 1 .. Len(r) : IsState(r[i]) <=> i = Len(q) + 1
  BY <1>1, <1>2 DEF Told
<1>4. Chain(r, FALSE, links, now) /\ ~Told(r)
  BY <1>1, <1>2, <1>3 DEF Chain, Told
<1>5. \A j \in 1 .. Len(r) : ~Clears(r, FALSE, j)
  BY <1>2, <1>3 DEF Clears
<1>6. \A u \in Named : (\E i \in 1 .. Len(q) : q[i] = BlockedMsg(u)) => Coming(r, FALSE, u)
  BY <1>2, <1>5 DEF Coming
<1> QED BY <1>0, <1>2, <1>4, <1>6

\* A URL that is reported comes after every clear, and puts none before itself.
LEMMA ComingBlocked ==
  ASSUME NEW q \in Seq(Msg), NEW had \in BOOLEAN, NEW list, NEW u \in Named, NEW v \in Named
  PROVE  /\ Coming(Append(q, BlockedMsg(u)), had, u)
         /\ Coming(q, had, v) => Coming(Append(q, BlockedMsg(u)), had, v)
         /\ Listed(q, had, list, v) => Listed(Append(q, BlockedMsg(u)), had, list, v)
<1>1. BlockedMsg(u) \in Msg /\ ~IsState(BlockedMsg(u))
  BY DEF Msg, BlockedMsg, IsState
<1> DEFINE r == Append(q, BlockedMsg(u))
<1>2. /\ r \in Seq(Msg) /\ Len(r) = Len(q) + 1 /\ Len(q) \in Nat
      /\ \A i \in 1 .. Len(q) : i \in 1 .. Len(r) /\ r[i] = q[i] /\ i < Len(q) + 1
      /\ Len(q) + 1 \in 1 .. Len(r) /\ r[Len(q) + 1] = BlockedMsg(u)
      /\ \A i \in 1 .. Len(r) : i \in 1 .. Len(q) \/ i = Len(q) + 1
  BY <1>1, Appended
<1> HIDE DEF r
<1>3. \A i \in 1 .. Len(r) : IsState(r[i]) => i \in 1 .. Len(q) /\ r[i] = q[i]
  BY <1>1, <1>2
<1>4. \A j \in 1 .. Len(r) : Clears(r, had, j) => j \in 1 .. Len(q) /\ Clears(q, had, j)
  BY <1>3 DEF Clears
<1>5. Coming(r, had, u)
  <2>1. \A j \in 1 .. Len(r) : ~(Len(q) + 1 < j)
    BY <1>2
  <2> QED BY <1>2, <2>1 DEF Coming
<1>6. Coming(q, had, v) => Coming(r, had, v)
  BY <1>2, <1>4 DEF Coming
<1>7. Listed(q, had, list, v) => Listed(r, had, list, v)
  BY <1>4 DEF Listed
<1> QED BY <1>5, <1>6, <1>7 DEF r

\* A URL that the wall takes is listed, or finds the list full; those behind it come nearer.
LEMMA ComingPasses ==
  ASSUME NEW q \in Seq(Msg), NEW had \in BOOLEAN, NEW list, NEW u \in Named, q # <<>>, ~IsState(Head(q)),
         Cardinality(list) <= MaxUrls, Cardinality(list) \in Nat,
         Coming(q, had, u) \/ Listed(q, had, list, u),
         NEW new, new = IF Cardinality(list) < MaxUrls THEN list \union {Head(q).url} ELSE list
  PROVE  Coming(Tail(q), had, u) \/ Listed(Tail(q), had, new, u)
<1> DEFINE r == Tail(q)
<1>2. /\ Head(q) = q[1] /\ 1 \in 1 .. Len(q)
      /\ \A i \in 1 .. Len(r) : i + 1 \in 1 .. Len(q) /\ r[i] = q[i + 1]
      /\ \A i \in 1 .. Len(q) : i = 1 \/ (1 < i /\ i - 1 \in 1 .. Len(r) /\ r[i - 1] = q[i])
  BY Taken
<1> HIDE DEF r
<1>3. \A j \in 1 .. Len(r) : Clears(r, had, j) => Clears(q, had, j + 1) /\ j + 1 \in 1 .. Len(q)
  <2> TAKE j \in 1 .. Len(r)
  <2>1. (\E i \in 1 .. Len(r) : i < j /\ IsState(r[i])) => \E i \in 1 .. Len(q) : i < j + 1 /\ IsState(q[i])
    BY <1>2
  <2> QED BY <1>2, <2>1 DEF Clears
<1>m. MaxUrls \in Nat
  BY BoundAssumption
<1>4. CASE Coming(q, had, u)
  <2>1. PICK i \in 1 .. Len(q) : q[i] = BlockedMsg(u) /\ \A j \in 1 .. Len(q) : i < j => ~Clears(q, had, j)
    BY <1>4 DEF Coming
  <2>2. CASE i = 1
    <3>1. \A j \in 1 .. Len(r) : ~Clears(r, had, j)
      <4> TAKE j \in 1 .. Len(r)
      <4>1. 1 < j + 1
        OBVIOUS
      <4> QED BY <1>3, <2>1, <2>2, <4>1
    <3>2. Head(q).url = u
      BY <1>2, <2>1, <2>2 DEF BlockedMsg
    <3>3. u \in new \/ Cardinality(new) = MaxUrls
      BY <1>m, <3>2
    <3> QED BY <3>1, <3>3 DEF Listed, r
  <2>3. CASE i # 1
    <3>1. i - 1 \in 1 .. Len(r) /\ r[i - 1] = BlockedMsg(u)
      BY <1>2, <2>1, <2>3
    <3>2. \A j \in 1 .. Len(r) : i - 1 < j => ~Clears(r, had, j)
      <4> TAKE j \in 1 .. Len(r)
      <4>1. i - 1 < j => i < j + 1
        OBVIOUS
      <4> QED BY <1>3, <2>1, <4>1
    <3> QED BY <3>1, <3>2 DEF Coming, r
  <2> QED BY <2>2, <2>3
<1>5. CASE Listed(q, had, list, u)
  <2>1. \A j \in 1 .. Len(r) : ~Clears(r, had, j)
    BY <1>3, <1>5 DEF Listed
  <2>2. u \in new \/ Cardinality(new) = MaxUrls
    BY <1>5, <1>m DEF Listed
  <2> QED BY <2>1, <2>2 DEF Listed, r
<1> QED BY <1>4, <1>5

\* What comes after the last clear, or is listed with none to come, outlives the links
\* that the wall takes.
LEMMA ComingTakes ==
  ASSUME NEW q \in Seq(Msg), NEW had \in BOOLEAN, NEW list, NEW u \in Named, q # <<>>, IsState(Head(q)),
         Coming(q, had, u) \/ Listed(q, had, list, u),
         NEW new, new = IF had THEN {} ELSE list
  PROVE  Coming(Tail(q), TRUE, u) \/ Listed(Tail(q), TRUE, new, u)
<1> DEFINE r == Tail(q)
<1>2. /\ Head(q) = q[1] /\ 1 \in 1 .. Len(q)
      /\ \A i \in 1 .. Len(r) : i + 1 \in 1 .. Len(q) /\ r[i] = q[i + 1]
      /\ \A i \in 1 .. Len(q) : i = 1 \/ (1 < i /\ i - 1 \in 1 .. Len(r) /\ r[i - 1] = q[i])
  BY Taken
<1> HIDE DEF r
<1>3. \A j \in 1 .. Len(r) : Clears(r, TRUE, j) => Clears(q, had, j + 1) /\ j + 1 \in 1 .. Len(q)
  <2> TAKE j \in 1 .. Len(r)
  <2>1. 1 < j + 1
    OBVIOUS
  <2> QED BY <1>2, <2>1 DEF Clears
<1>4. CASE Coming(q, had, u)
  <2>1. PICK i \in 1 .. Len(q) : q[i] = BlockedMsg(u) /\ \A j \in 1 .. Len(q) : i < j => ~Clears(q, had, j)
    BY <1>4 DEF Coming
  <2>2. i # 1
    BY <1>2, <2>1 DEF BlockedMsg, IsState
  <2>3. i - 1 \in 1 .. Len(r) /\ r[i - 1] = BlockedMsg(u)
    BY <1>2, <2>1, <2>2
  <2>4. \A j \in 1 .. Len(r) : i - 1 < j => ~Clears(r, TRUE, j)
    <3> TAKE j \in 1 .. Len(r)
    <3>1. i - 1 < j => i < j + 1
      OBVIOUS
    <3> QED BY <1>3, <2>1, <3>1
  <2> QED BY <2>3, <2>4 DEF Coming, r
<1>5. CASE Listed(q, had, list, u)
  <2>1. ~had
    BY <1>2, <1>5 DEF Listed, Clears
  <2>2. \A j \in 1 .. Len(r) : ~Clears(r, TRUE, j)
    BY <1>3, <1>5 DEF Listed
  <2> QED BY <1>5, <2>1, <2>2 DEF Listed, r
<1> QED BY <1>4, <1>5

\* The types of the layers, with their bounds.
LayerTypes ==
  /\ streams \subseteq Url /\ linksKey \in {Unknown, streams}
  /\ IsFiniteSet(urls) /\ urls \subseteq Named /\ Cardinality(urls) <= MaxUrls
  /\ clearCount \in Nat /\ lists \in Nat
  /\ pendingBlockedURLs \in Seq(Named) /\ Len(pendingBlockedURLs) <= MaxPending
  /\ page \in [Layer -> [loaded : BOOLEAN, known : BOOLEAN, links : SUBSET Url, mounts : Nat]]
  /\ toPage \in [Layer -> Seq(Msg)]
  /\ requested \subseteq [layer : Layer, url : Url, mount : Nat]
  /\ IsFiniteSet(seen) /\ seen \subseteq Named /\ Cardinality(seen) <= MaxUrls

\* As long as the desktop is not started again, generations are lists, and what is
\* dismissed was dismissed in the list that stands there.
ClientInv ==
  /\ client \in [urls : SUBSET Named, generation : Nat, list : Nat, dismissed : [generation : Nat, urls : SUBSET Named]]
  /\ client.dismissed.urls \subseteq client.urls
  /\ restarts \in Nat
  /\ restarts = 0 => /\ lists = clearCount /\ client.generation = client.list
                     /\ client.dismissed.generation = client.generation
                     /\ \A u \in client.dismissed.urls : <<client.list, u>> \in told

\* Every page is on its way to the links there are.
LinksInv ==
  \A l \in Layer : IF page[l].loaded THEN Chain(toPage[l], page[l].known, page[l].links, streams)
                   ELSE toPage[l] = <<>> /\ ~page[l].known

\* The verdict on a URL is due; a report is on its way to the wall, or has come.
Due(u) == \E r \in requested : r.url = u
Arrives(u) ==
  IF page["overlay"].loaded
  THEN Coming(toPage["overlay"], page["overlay"].known, u) \/ Listed(toPage["overlay"], page["overlay"].known, seen, u)
  ELSE \E i \in 1 .. Len(pendingBlockedURLs) : pendingBlockedURLs[i] = u

\* Once a page has mounted the links there are, what is refused is named, or will be.
NamedInv ==
  \A l \in Layer : page[l].loaded /\ Told(toPage[l]) =>
    \A u \in streams \intersect Of(l) \intersect Private :
      /\ u \in urls \/ Cardinality(urls) = MaxUrls \/ Due(u)
      /\ Due(u) \/ dropped \/ Arrives(u)

LayersInv == LayerTypes /\ ClientInv /\ LinksInv /\ NamedInv

\* The probe is not a link, and no set of links is unknown.
LEMMA LayerNames == Probe \in Named /\ Url \subseteq Named /\ Unknown \notin SUBSET Url
BY LayerAssumption DEF Named, Url, Unknown

\* A state whose links are not new is not cleared.
LEMMA NotCleared ==
  ASSUME LayerTypes, NEW list, UpdateState(streams, list)
  PROVE  streams' = streams /\ linksKey' = streams /\ urls' = list /\ UNCHANGED <<clearCount, lists>>
BY DEF LayerTypes, UpdateState

\* A report is in the list or finds it full, and is on its way to the wall, or is lost.
LEMMA Reported ==
  ASSUME LayerTypes, NEW u \in Named, Report(u)
  PROVE  /\ UNCHANGED <<streams, clearCount, lists>> /\ linksKey' \in {Unknown, streams}
         /\ IsFiniteSet(urls') /\ urls' \subseteq Named /\ Cardinality(urls') <= MaxUrls
         /\ urls \subseteq urls' /\ (Cardinality(urls) = MaxUrls => urls' = urls)
         /\ u \in urls' \/ Cardinality(urls') = MaxUrls
         /\ IF page["overlay"].loaded
            THEN /\ toPage' = [toPage EXCEPT !["overlay"] = Append(@, BlockedMsg(u))]
                 /\ pendingBlockedURLs' = pendingBlockedURLs /\ (dropped => dropped')
            ELSE /\ toPage' = toPage
                 /\ \/ /\ pendingBlockedURLs' = Append(pendingBlockedURLs, u) /\ Len(pendingBlockedURLs) < MaxPending
                       /\ dropped => dropped'
                    \/ pendingBlockedURLs' = pendingBlockedURLs /\ dropped'
<1>0. /\ IsFiniteSet(urls) /\ Cardinality(urls) <= MaxUrls /\ Cardinality(urls) \in Nat /\ MaxUrls \in Nat
      /\ urls \subseteq Named /\ linksKey \in {Unknown, streams}
  BY FS_CardinalityType, BoundAssumption DEF LayerTypes
<1>2. IF page["overlay"].loaded
      THEN /\ toPage' = [toPage EXCEPT !["overlay"] = Append(@, BlockedMsg(u))]
           /\ pendingBlockedURLs' = pendingBlockedURLs /\ (dropped => dropped')
      ELSE /\ toPage' = toPage
           /\ \/ /\ pendingBlockedURLs' = Append(pendingBlockedURLs, u) /\ Len(pendingBlockedURLs) < MaxPending
                 /\ dropped => dropped'
              \/ pendingBlockedURLs' = pendingBlockedURLs /\ dropped'
  BY DEF Report, Send
<1>1. CASE Cardinality(urls) < MaxUrls /\ u \notin urls
  <2>1. UpdateState(streams, urls \union {u})
    BY <1>1 DEF Report
  <2>2. streams' = streams /\ linksKey' = streams /\ urls' = urls \union {u} /\ UNCHANGED <<clearCount, lists>>
    BY <2>1, NotCleared
  <2>3. IsFiniteSet(urls \union {u}) /\ Cardinality(urls \union {u}) = Cardinality(urls) + 1
    BY <1>0, <1>1, FS_AddElement
  <2>4. Cardinality(urls') <= MaxUrls /\ Cardinality(urls) # MaxUrls
    BY <1>0, <1>1, <2>2, <2>3
  <2> QED BY <1>0, <2>2, <2>3, <2>4, <1>2
<1>3. CASE ~(Cardinality(urls) < MaxUrls /\ u \notin urls)
  <2>1. UNCHANGED <<streams, linksKey, urls, clearCount, lists>>
    BY <1>3 DEF Report
  <2>2. u \in urls \/ Cardinality(urls) = MaxUrls
    BY <1>0, <1>3
  <2> QED BY <1>0, <1>2, <2>1, <2>2
<1> QED BY <1>1, <1>3

\* A report leaves the links alone, and what is named will be.
LEMMA ReportKeeps ==
  ASSUME LayersInv, NEW u \in Named, Report(u), requested' \subseteq requested,
         \A r \in requested : r \in requested' \/ r.url = u,
         UNCHANGED <<page, seen, client, restarts, told>>
  PROVE  LayersInv'
<1>0. LayerTypes /\ ClientInv /\ LinksInv /\ NamedInv
  BY DEF LayersInv
<1>1. /\ UNCHANGED <<streams, clearCount, lists>> /\ linksKey' \in {Unknown, streams}
      /\ IsFiniteSet(urls') /\ urls' \subseteq Named /\ Cardinality(urls') <= MaxUrls
      /\ urls \subseteq urls' /\ (Cardinality(urls) = MaxUrls => urls' = urls)
      /\ u \in urls' \/ Cardinality(urls') = MaxUrls
  BY <1>0, Reported
<1>2. IF page["overlay"].loaded
      THEN /\ toPage' = [toPage EXCEPT !["overlay"] = Append(@, BlockedMsg(u))]
           /\ pendingBlockedURLs' = pendingBlockedURLs /\ (dropped => dropped')
      ELSE /\ toPage' = toPage
           /\ \/ /\ pendingBlockedURLs' = Append(pendingBlockedURLs, u) /\ Len(pendingBlockedURLs) < MaxPending
                 /\ dropped => dropped'
              \/ pendingBlockedURLs' = pendingBlockedURLs /\ dropped'
  BY <1>0, Reported
<1>3. /\ page \in [Layer -> [loaded : BOOLEAN, known : BOOLEAN, links : SUBSET Url, mounts : Nat]]
      /\ toPage \in [Layer -> Seq(Msg)] /\ pendingBlockedURLs \in Seq(Named) /\ Len(pendingBlockedURLs) \in Nat
      /\ Len(pendingBlockedURLs) <= MaxPending /\ MaxPending \in Nat /\ "overlay" \in Layer
  BY <1>0, BoundAssumption DEF LayerTypes, Layer
<1>4. BlockedMsg(u) \in Msg
  BY DEF Msg, BlockedMsg
<1>5. /\ toPage' \in [Layer -> Seq(Msg)]
      /\ \A l \in Layer : toPage'[l] = IF page["overlay"].loaded /\ l = "overlay" THEN Append(toPage[l], BlockedMsg(u))
                                       ELSE toPage[l]
  <2>1. Append(toPage["overlay"], BlockedMsg(u)) \in Seq(Msg)
    BY <1>3, <1>4
  <2>2. CASE page["overlay"].loaded
    BY <1>2, <1>3, <2>1, <2>2
  <2>3. CASE ~page["overlay"].loaded
    BY <1>2, <1>3, <2>3
  <2> QED BY <2>2, <2>3
<1>6. pendingBlockedURLs' \in Seq(Named) /\ Len(pendingBlockedURLs') <= MaxPending
  <2>1. /\ Append(pendingBlockedURLs, u) \in Seq(Named)
        /\ Len(Append(pendingBlockedURLs, u)) = Len(pendingBlockedURLs) + 1
    BY <1>3
  <2>2. CASE pendingBlockedURLs' = pendingBlockedURLs
    BY <1>3, <2>2
  <2>3. CASE pendingBlockedURLs' = Append(pendingBlockedURLs, u) /\ Len(pendingBlockedURLs) < MaxPending
    BY <1>3, <2>1, <2>3
  <2> QED BY <1>2, <2>2, <2>3
<1>7. LayerTypes'
  BY <1>0, <1>1, <1>5, <1>6 DEF LayerTypes
<1>8. ClientInv'
  BY <1>0, <1>1 DEF ClientInv
<1>9. LinksInv'
  <2>1. ASSUME NEW l \in Layer, page[l].loaded PROVE Chain(toPage'[l], page[l].known, page[l].links, streams)
    <3>1. Chain(toPage[l], page[l].known, page[l].links, streams)
      BY <1>0, <2>1 DEF LinksInv
    <3>2. toPage[l] \in Seq(Msg) /\ page[l].known \in BOOLEAN
      BY <1>3
    <3> QED BY <1>5, <3>1, <3>2, ChainBlocked
  <2>2. ASSUME NEW l \in Layer, ~page[l].loaded PROVE toPage'[l] = <<>> /\ ~page[l].known
    BY <1>0, <1>5, <2>2 DEF LinksInv
  <2> QED BY <1>1, <2>1, <2>2 DEF LinksInv
<1>10. NamedInv'
  <2> SUFFICES ASSUME NEW l \in Layer, page[l].loaded, Told(toPage'[l]),
                      NEW x \in streams, x \in Of(l), x \in Private
               PROVE  /\ x \in urls' \/ Cardinality(urls') = MaxUrls \/ Due(x)'
                      /\ Due(x)' \/ dropped' \/ Arrives(x)'
    BY <1>1 DEF NamedInv
  <2>1. Told(toPage[l])
    <3>1. Chain(toPage[l], page[l].known, page[l].links, streams)
      BY <1>0 DEF LinksInv
    <3>2. toPage[l] \in Seq(Msg) /\ page[l].known \in BOOLEAN
      BY <1>3
    <3>3. Told(Append(toPage[l], BlockedMsg(u))) <=> Told(toPage[l])
      BY <3>1, <3>2, ChainBlocked
    <3>4. CASE toPage'[l] = toPage[l]
      BY <3>4
    <3>5. CASE toPage'[l] = Append(toPage[l], BlockedMsg(u))
      BY <3>3, <3>5
    <3> QED BY <1>5, <3>4, <3>5
  <2>2. /\ x \in urls \/ Cardinality(urls) = MaxUrls \/ Due(x)
        /\ Due(x) \/ dropped \/ Arrives(x)
    BY <1>0, <2>1 DEF NamedInv
  <2>3. Due(x) => Due(x)' \/ x = u
    BY DEF Due
  <2>4. x \in urls' \/ Cardinality(urls') = MaxUrls \/ Due(x)'
    BY <1>1, <2>2, <2>3
  <2>5. x \in Named
    BY <1>0, LayerNames DEF LayerTypes
  <2>6. (x = u \/ Arrives(x)) => dropped' \/ Arrives(x)'
    <3>1. CASE page["overlay"].loaded
      <4>1. toPage'["overlay"] = Append(toPage["overlay"], BlockedMsg(u)) /\ toPage["overlay"] \in Seq(Msg)
            /\ page["overlay"].known \in BOOLEAN
        BY <1>3, <1>5, <3>1
      <4>2. Coming(toPage["overlay"]', page["overlay"].known, u)
        BY <4>1, ComingBlocked
      <4>3. Coming(toPage["overlay"], page["overlay"].known, x) => Coming(toPage["overlay"]', page["overlay"].known, x)
        BY <2>5, <4>1, ComingBlocked
      <4>4. Listed(toPage["overlay"], page["overlay"].known, seen, x)
              => Listed(toPage["overlay"]', page["overlay"].known, seen, x)
        BY <2>5, <4>1, ComingBlocked
      <4> QED BY <3>1, <4>2, <4>3, <4>4 DEF Arrives
    <3>2. CASE ~page["overlay"].loaded
      <4>1. CASE pendingBlockedURLs' = Append(pendingBlockedURLs, u)
        <5>1. /\ \A i \in 1 .. Len(pendingBlockedURLs) :
                   i \in 1 .. Len(pendingBlockedURLs') /\ pendingBlockedURLs'[i] = pendingBlockedURLs[i]
              /\ Len(pendingBlockedURLs) + 1 \in 1 .. Len(pendingBlockedURLs')
              /\ pendingBlockedURLs'[Len(pendingBlockedURLs) + 1] = u
          BY <1>3, <4>1
        <5> QED BY <3>2, <5>1 DEF Arrives
      <4>2. CASE dropped'
        BY <4>2
      <4> QED BY <1>2, <3>2, <4>1, <4>2
    <3> QED BY <3>1, <3>2
  <2>7. dropped => dropped'
    BY <1>2
  <2> QED BY <2>2, <2>3, <2>4, <2>6, <2>7
<1> QED BY <1>7, <1>8, <1>9, <1>10 DEF LayersInv

\* An edit is told to both pages, as far as they have loaded.
LEMMA EditKeeps ==
  ASSUME LayersInv, NEW new \in SUBSET Url, EditLinks(new)
  PROVE  LayersInv'
<1>0. LayerTypes /\ ClientInv /\ LinksInv /\ NamedInv
  BY DEF LayersInv
<1>1. /\ new # streams /\ UpdateState(new, urls)
      /\ toPage' = Send(Send(toPage, "background", StateMsg(new)), "overlay", StateMsg(new))
      /\ UNCHANGED <<pendingBlockedURLs, page, requested, seen, client, restarts, told>>
  BY DEF EditLinks
<1>2. streams' = new /\ linksKey' = new /\ urls' \in {urls, {}}
      /\ ((lists' = lists /\ clearCount' = clearCount) \/ (lists' = lists + 1 /\ clearCount' = clearCount + 1))
  BY <1>1 DEF UpdateState
<1>3. /\ page \in [Layer -> [loaded : BOOLEAN, known : BOOLEAN, links : SUBSET Url, mounts : Nat]]
      /\ toPage \in [Layer -> Seq(Msg)]
  BY <1>0 DEF LayerTypes
<1>4. StateMsg(new) \in Msg
  BY DEF Msg, StateMsg
<1>5. /\ toPage' \in [Layer -> Seq(Msg)]
      /\ \A l \in Layer : toPage'[l] = IF page[l].loaded THEN Append(toPage[l], StateMsg(new)) ELSE toPage[l]
  <2> DEFINE m == StateMsg(new)
             first == Send(toPage, "background", m)
  <2>1. "background" \in Layer /\ "overlay" \in Layer /\ "background" # "overlay"
        /\ \A l \in Layer : l = "background" \/ l = "overlay"
    BY DEF Layer
  <2>2. \A l \in Layer : toPage[l] \in Seq(Msg) /\ Append(toPage[l], m) \in Seq(Msg)
    BY <1>3, <1>4
  <2> HIDE DEF m
  <2>3. /\ first \in [Layer -> Seq(Msg)] /\ first["overlay"] = toPage["overlay"]
        /\ first["background"] = IF page["background"].loaded THEN Append(toPage["background"], m)
                                 ELSE toPage["background"]
    BY <1>3, <2>1, <2>2 DEF Send
  <2> HIDE DEF first
  <2>4. toPage' = Send(first, "overlay", m)
    BY <1>1 DEF first, m
  <2>5. /\ toPage' \in [Layer -> Seq(Msg)] /\ toPage'["background"] = first["background"]
        /\ toPage'["overlay"] = IF page["overlay"].loaded THEN Append(toPage["overlay"], m) ELSE toPage["overlay"]
    BY <2>1, <2>2, <2>3, <2>4 DEF Send
  <2> QED BY <2>1, <2>3, <2>5 DEF m
<1>6. LayerTypes'
  <2>1. IsFiniteSet(urls') /\ urls' \subseteq Named /\ Cardinality(urls') <= MaxUrls
    <3>1. CASE urls' = urls
      BY <1>0, <3>1 DEF LayerTypes
    <3>2. CASE urls' = {}
      <4>1. IsFiniteSet(urls') /\ Cardinality(urls') = 0
        BY <3>2, FS_EmptySet
      <4> QED BY <3>2, <4>1, BoundAssumption
    <3> QED BY <1>2, <3>1, <3>2
  <2>2. lists' \in Nat /\ clearCount' \in Nat
    BY <1>0, <1>2 DEF LayerTypes
  <2> QED BY <1>0, <1>1, <1>2, <1>5, <2>1, <2>2 DEF LayerTypes
<1>7. ClientInv'
  <2>1. lists = clearCount => lists' = clearCount'
    BY <1>2
  <2> QED BY <1>0, <1>1, <2>1 DEF ClientInv
<1>8. \A l \in Layer : page[l].loaded =>
        Chain(toPage'[l], page[l].known, page[l].links, new) /\ ~Told(toPage'[l])
  <2> SUFFICES ASSUME NEW l \in Layer, page[l].loaded
               PROVE  Chain(toPage'[l], page[l].known, page[l].links, new) /\ ~Told(toPage'[l])
    OBVIOUS
  <2>1. Chain(toPage[l], page[l].known, page[l].links, streams)
    BY <1>0 DEF LinksInv
  <2>2. toPage[l] \in Seq(Msg) /\ page[l].known \in BOOLEAN
    BY <1>3
  <2> QED BY <1>1, <1>5, <2>1, <2>2, ChainEdit
<1>9. LinksInv'
  <2>1. \A l \in Layer : ~page[l].loaded => toPage'[l] = <<>> /\ ~page[l].known
    BY <1>0, <1>5 DEF LinksInv
  <2> QED BY <1>1, <1>2, <1>8, <2>1 DEF LinksInv
<1>10. NamedInv'
  BY <1>1, <1>8 DEF NamedInv
<1> QED BY <1>6, <1>7, <1>9, <1>10 DEF LayersInv

\* A page that loads is told the links, and the wall what was held for it.
LEMMA LoadKeeps ==
  ASSUME LayersInv, NEW l \in Layer, Load(l)
  PROVE  LayersInv'
<1>0. LayerTypes /\ ClientInv /\ LinksInv /\ NamedInv
  BY DEF LayersInv
<1> DEFINE held == IF l = "overlay" THEN [i \in DOMAIN pendingBlockedURLs |-> BlockedMsg(pendingBlockedURLs[i])] ELSE <<>>
           msgs == held \o <<StateMsg(streams)>>
<1>1. /\ ~page[l].loaded /\ page' = [page EXCEPT ![l].loaded = TRUE]
      /\ pendingBlockedURLs' = IF l = "overlay" THEN <<>> ELSE pendingBlockedURLs
      /\ UNCHANGED <<streams, linksKey, urls, clearCount, requested, seen, client, restarts, lists, told, dropped>>
  BY DEF Load
<1>2. toPage[l] = <<>> /\ ~page[l].known
  BY <1>0, <1>1 DEF LinksInv
<1>3. /\ page \in [Layer -> [loaded : BOOLEAN, known : BOOLEAN, links : SUBSET Url, mounts : Nat]]
      /\ toPage \in [Layer -> Seq(Msg)] /\ pendingBlockedURLs \in Seq(Named) /\ streams \in SUBSET Url
      /\ page[l].known \in BOOLEAN
  BY <1>0 DEF LayerTypes
<1>4. held \in Seq(Msg) /\ Told(held)
      /\ (l = "overlay" => \A u : (\E i \in 1 .. Len(pendingBlockedURLs) : pendingBlockedURLs[i] = u)
                                    => \E i \in 1 .. Len(held) : held[i] = BlockedMsg(u))
  <2>1. CASE l = "overlay"
    <3>1. DOMAIN pendingBlockedURLs = 1 .. Len(pendingBlockedURLs) /\ Len(pendingBlockedURLs) \in Nat
      BY <1>3
    <3>2. \A i \in 1 .. Len(pendingBlockedURLs) : BlockedMsg(pendingBlockedURLs[i]) \in Msg
            /\ ~IsState(BlockedMsg(pendingBlockedURLs[i]))
      BY <1>3 DEF Msg, BlockedMsg, IsState
    <3>3. held = [i \in 1 .. Len(pendingBlockedURLs) |-> BlockedMsg(pendingBlockedURLs[i])]
      BY <2>1, <3>1
    <3>4. held \in [1 .. Len(pendingBlockedURLs) -> Msg]
      BY <3>2, <3>3
    <3>5. held \in Seq(Msg) /\ Len(held) = Len(pendingBlockedURLs)
      <4> HIDE DEF held
      <4>1. held \in Seq(Msg)
        BY <3>1, <3>4, SeqDef
      <4>2. DOMAIN held = 1 .. Len(held) /\ Len(held) \in Nat
        BY <4>1, LenProperties
      <4>3. DOMAIN held = 1 .. Len(pendingBlockedURLs)
        BY <3>4
      <4>4. \A a, b \in Nat : 1 .. a = 1 .. b => a = b
        <5> SUFFICES ASSUME NEW a \in Nat, NEW b \in Nat, 1 .. a = 1 .. b, a # b
                     PROVE  FALSE
          OBVIOUS
        <5>1. a \in 1 .. a <=> a \in 1 .. b
          OBVIOUS
        <5>2. b \in 1 .. a <=> b \in 1 .. b
          OBVIOUS
        <5> QED BY <5>1, <5>2
      <4> QED BY <3>1, <4>1, <4>2, <4>3, <4>4
    <3> QED BY <3>2, <3>3, <3>5 DEF Told
  <2>2. CASE l # "overlay"
    BY <2>2, EmptySeq DEF Told
  <2> QED BY <2>1, <2>2
<1>5. /\ toPage' = [toPage EXCEPT ![l] = (toPage[l] \o held) \o <<StateMsg(streams)>>]
  BY DEF Load
<1>6. toPage[l] \o held = held
  BY <1>2, <1>4, ConcatEmptySeq
<1>7. toPage' = [toPage EXCEPT ![l] = msgs]
  BY <1>5, <1>6
<1>8. /\ Chain(msgs, page[l].known, page[l].links, streams) /\ msgs \in Seq(Msg) /\ ~Told(msgs)
      /\ \A u \in Named : (\E i \in 1 .. Len(held) : held[i] = BlockedMsg(u)) => Coming(msgs, page[l].known, u)
  <2>1. page[l].known = FALSE
    BY <1>2, <1>3
  <2> HIDE DEF held
  <2>2. /\ Chain(msgs, FALSE, page[l].links, streams) /\ msgs \in Seq(Msg) /\ ~Told(msgs)
        /\ \A u \in Named : (\E i \in 1 .. Len(held) : held[i] = BlockedMsg(u)) => Coming(msgs, FALSE, u)
    BY <1>3, <1>4, ChainBegins
  <2> QED BY <2>1, <2>2
<1> HIDE DEF held, msgs
<1>9. /\ page' \in [Layer -> [loaded : BOOLEAN, known : BOOLEAN, links : SUBSET Url, mounts : Nat]]
      /\ page'[l].loaded /\ page'[l].known = page[l].known /\ page'[l].links = page[l].links
      /\ \A k \in Layer : k # l => page'[k] = page[k] /\ toPage'[k] = toPage[k]
      /\ toPage' \in [Layer -> Seq(Msg)] /\ toPage'[l] = msgs
  BY <1>1, <1>3, <1>7, <1>8
<1>10. LayerTypes'
  <2>1. pendingBlockedURLs' \in Seq(Named) /\ Len(pendingBlockedURLs') <= MaxPending
    <3>1. <<>> \in Seq(Named) /\ Len(<<>>) = 0 /\ MaxPending \in Nat
      BY EmptySeq, BoundAssumption
    <3>2. Len(pendingBlockedURLs) <= MaxPending
      BY <1>0 DEF LayerTypes
    <3> QED BY <1>1, <1>3, <3>1, <3>2
  <2> QED BY <1>0, <1>1, <1>9, <2>1 DEF LayerTypes
<1>11. ClientInv'
  BY <1>0, <1>1 DEF ClientInv
<1>12. LinksInv'
  <2>1. ASSUME NEW k \in Layer PROVE IF page'[k].loaded THEN Chain(toPage'[k], page'[k].known, page'[k].links, streams)
                                     ELSE toPage'[k] = <<>> /\ ~page'[k].known
    <3>1. CASE k = l
      BY <1>8, <1>9, <3>1
    <3>2. CASE k # l
      BY <1>0, <1>9, <3>2 DEF LinksInv
    <3> QED BY <3>1, <3>2
  <2> QED BY <1>1, <2>1 DEF LinksInv
<1>13. NamedInv'
  <2> SUFFICES ASSUME NEW k \in Layer, page'[k].loaded, Told(toPage'[k]),
                      NEW x \in streams, x \in Of(k), x \in Private
               PROVE  /\ x \in urls \/ Cardinality(urls) = MaxUrls \/ Due(x)'
                      /\ Due(x)' \/ dropped \/ Arrives(x)'
    BY <1>1 DEF NamedInv
  <2>1. k # l
    BY <1>8, <1>9
  <2>2. Due(x)' <=> Due(x)
    BY <1>1 DEF Due
  <2>3. /\ x \in urls \/ Cardinality(urls) = MaxUrls \/ Due(x)
        /\ Due(x) \/ dropped \/ Arrives(x)
    BY <1>0, <1>9, <2>1 DEF NamedInv
  <2>4. x \in Named
    BY <1>3, LayerNames
  <2>5. Arrives(x) => Arrives(x)'
    <3>1. CASE l = "overlay"
      <4>1. ~page["overlay"].loaded /\ page'["overlay"].loaded
        BY <1>1, <1>9, <3>1
      <4>2. Arrives(x) => \E i \in 1 .. Len(held) : held[i] = BlockedMsg(x)
        BY <1>4, <3>1, <4>1 DEF Arrives
      <4>3. Arrives(x) => Coming(toPage'["overlay"], page'["overlay"].known, x)
        BY <1>8, <1>9, <2>4, <3>1, <4>2
      <4> QED BY <4>1, <4>3 DEF Arrives
    <3>2. CASE l # "overlay"
      <4>1. page'["overlay"] = page["overlay"] /\ toPage'["overlay"] = toPage["overlay"]
            /\ pendingBlockedURLs' = pendingBlockedURLs
        BY <1>1, <1>9, <3>2 DEF Layer
      <4> QED BY <1>1, <4>1 DEF Arrives
    <3> QED BY <3>1, <3>2
  <2> QED BY <2>2, <2>3, <2>5
<1> QED BY <1>10, <1>11, <1>12, <1>13 DEF LayersInv

\* A page that takes links mounts them, and asks for every one that will be refused.
LEMMA TakeKeeps ==
  ASSUME LayersInv, NEW l \in Layer, TakeState(l)
  PROVE  LayersInv'
<1>0. LayerTypes /\ ClientInv /\ LinksInv /\ NamedInv
  BY DEF LayersInv
<1> DEFINE q == toPage[l]
           links == Head(q).links
<1>1. /\ q # <<>> /\ IsState(Head(q)) /\ toPage' = [toPage EXCEPT ![l] = Tail(@)]
      /\ UNCHANGED <<streams, linksKey, urls, clearCount, pendingBlockedURLs, client, restarts, lists, told, dropped>>
  BY DEF TakeState, IsState
<1>2. /\ page \in [Layer -> [loaded : BOOLEAN, known : BOOLEAN, links : SUBSET Url, mounts : Nat]]
      /\ toPage \in [Layer -> Seq(Msg)] /\ q \in Seq(Msg) /\ page[l].known \in BOOLEAN
  BY <1>0 DEF LayerTypes
<1>3. page[l].loaded /\ Chain(q, page[l].known, page[l].links, streams)
  BY <1>0, <1>1 DEF LinksInv
<1>4. /\ Chain(Tail(q), TRUE, links, streams) /\ (page[l].known => links # page[l].links)
      /\ Told(Tail(q)) => links = streams
  BY <1>1, <1>2, <1>3, ChainTakes
<1>5. links \in SUBSET Url /\ Tail(q) \in Seq(Msg)
  <2>1. Head(q) \in Msg /\ Tail(q) \in Seq(Msg)
    BY <1>1, <1>2, Taken
  <2> QED BY <1>1, <2>1 DEF Msg, IsState
<1> HIDE DEF q, links
<1>6. /\ page' = [page EXCEPT ![l].links = links, ![l].known = TRUE, ![l].mounts = @ + 1]
      /\ requested' = requested \union Requests(l, links, page[l].mounts + 1)
      /\ seen' = IF l = "overlay" /\ page[l].known THEN {} ELSE seen
  BY <1>4 DEF TakeState, q, links
<1>7. /\ page' \in [Layer -> [loaded : BOOLEAN, known : BOOLEAN, links : SUBSET Url, mounts : Nat]]
      /\ page'[l].loaded /\ page'[l].known = TRUE /\ page'[l].links = links
      /\ \A k \in Layer : k # l => page'[k] = page[k] /\ toPage'[k] = toPage[k]
      /\ toPage' \in [Layer -> Seq(Msg)] /\ toPage'[l] = Tail(q)
  <2>1. page[l] \in [loaded : BOOLEAN, known : BOOLEAN, links : SUBSET Url, mounts : Nat]
    BY <1>2
  <2>2. page' = [page EXCEPT ![l] = [page[l] EXCEPT !.links = links, !.known = TRUE, !.mounts = @ + 1]]
    BY <1>2, <1>6
  <2>3. [page[l] EXCEPT !.links = links, !.known = TRUE, !.mounts = @ + 1]
          \in [loaded : BOOLEAN, known : BOOLEAN, links : SUBSET Url, mounts : Nat]
    <3>1. page[l].mounts + 1 \in Nat /\ page[l].loaded \in BOOLEAN
      BY <2>1
    <3>2. [page[l] EXCEPT !.links = links]
            \in [loaded : BOOLEAN, known : BOOLEAN, links : SUBSET Url, mounts : Nat]
      BY <1>5, <2>1
    <3>3. [page[l] EXCEPT !.links = links, !.known = TRUE]
            \in [loaded : BOOLEAN, known : BOOLEAN, links : SUBSET Url, mounts : Nat]
      BY <3>2
    <3> QED BY <2>1, <3>1, <3>3
  <2>4. page'[l] = [page[l] EXCEPT !.links = links, !.known = TRUE, !.mounts = @ + 1]
    BY <1>2, <2>2
  <2>5. page'[l].loaded /\ page'[l].known = TRUE /\ page'[l].links = links
    BY <1>3, <2>1, <2>4
  <2>6. toPage' = [toPage EXCEPT ![l] = Tail(q)]
    BY <1>1 DEF q
  <2> QED BY <1>2, <1>5, <2>2, <2>3, <2>5, <2>6
<1>8. requested' \subseteq [layer : Layer, url : Url, mount : Nat] /\ requested \subseteq requested'
  <2>1. page[l].mounts + 1 \in Nat
    BY <1>2
  <2>2. Requests(l, links, page[l].mounts + 1) \subseteq [layer : Layer, url : Url, mount : Nat]
    BY <1>5, <2>1 DEF Requests
  <2> QED BY <1>0, <1>6, <2>2 DEF LayerTypes
<1>9. LayerTypes'
  <2>1. IsFiniteSet(seen') /\ seen' \subseteq Named /\ Cardinality(seen') <= MaxUrls
    BY <1>0, <1>6, FS_EmptySet, BoundAssumption DEF LayerTypes
  <2> QED BY <1>0, <1>1, <1>7, <1>8, <2>1 DEF LayerTypes
<1>10. ClientInv'
  BY <1>0, <1>1 DEF ClientInv
<1>11. LinksInv'
  <2>1. ASSUME NEW k \in Layer PROVE IF page'[k].loaded THEN Chain(toPage'[k], page'[k].known, page'[k].links, streams)
                                     ELSE toPage'[k] = <<>> /\ ~page'[k].known
    <3>1. CASE k = l
      BY <1>4, <1>7, <3>1
    <3>2. CASE k # l
      BY <1>0, <1>7, <3>2 DEF LinksInv
    <3> QED BY <3>1, <3>2
  <2> QED BY <1>1, <2>1 DEF LinksInv
<1>12. NamedInv'
  <2> SUFFICES ASSUME NEW k \in Layer, page'[k].loaded, Told(toPage'[k]),
                      NEW x \in streams, x \in Of(k), x \in Private
               PROVE  /\ x \in urls \/ Cardinality(urls) = MaxUrls \/ Due(x)'
                      /\ Due(x)' \/ dropped \/ Arrives(x)'
    BY <1>1 DEF NamedInv
  <2>1. CASE k = l
    <3>1. links = streams
      BY <1>4, <1>7, <2>1
    <3>2. [layer |-> l, url |-> x, mount |-> page[l].mounts + 1] \in requested'
      BY <1>6, <2>1, <3>1 DEF Requests
    <3>3. Due(x)'
      BY <3>2 DEF Due
    <3> QED BY <3>3
  <2>2. CASE k # l
    <3>1. /\ x \in urls \/ Cardinality(urls) = MaxUrls \/ Due(x)
          /\ Due(x) \/ dropped \/ Arrives(x)
      BY <1>0, <1>7, <2>2 DEF NamedInv
    <3>2. Due(x) => Due(x)'
      BY <1>8 DEF Due
    <3>3. x \in Named
      BY <1>0, LayerNames DEF LayerTypes
    <3>4. Arrives(x) => Arrives(x)'
      <4>1. CASE l = "overlay"
        <5>1. Arrives(x) => Coming(q, page[l].known, x) \/ Listed(q, page[l].known, seen, x)
          BY <1>3, <4>1 DEF Arrives, q
        <5>2. q # <<>> /\ IsState(Head(q)) /\ seen' = IF page[l].known THEN {} ELSE seen
          BY <1>1, <1>6, <4>1 DEF q
        <5>3. Arrives(x) => Coming(Tail(q), TRUE, x) \/ Listed(Tail(q), TRUE, seen', x)
          BY <1>2, <3>3, <5>1, <5>2, ComingTakes
        <5> QED BY <1>7, <4>1, <5>3 DEF Arrives
      <4>2. CASE l # "overlay"
        <5>1. page'["overlay"] = page["overlay"] /\ toPage'["overlay"] = toPage["overlay"] /\ seen' = seen
          BY <1>6, <1>7, <4>2 DEF Layer
        <5> QED BY <1>1, <5>1 DEF Arrives
      <4> QED BY <4>1, <4>2
    <3> QED BY <3>1, <3>2, <3>4
  <2> QED BY <2>1, <2>2
<1> QED BY <1>9, <1>10, <1>11, <1>12 DEF LayersInv

\* The wall lists what it is told, as far as its list has room.
LEMMA TakeBlockedKeeps ==
  ASSUME LayersInv, TakeBlocked
  PROVE  LayersInv'
<1>0. LayerTypes /\ ClientInv /\ LinksInv /\ NamedInv
  BY DEF LayersInv
<1> DEFINE q == toPage["overlay"]
<1>1. /\ q # <<>> /\ Head(q).type = "layer:blocked-url" /\ toPage' = [toPage EXCEPT !["overlay"] = Tail(@)]
      /\ seen' = IF Cardinality(seen) < MaxUrls THEN seen \union {Head(q).url} ELSE seen
      /\ UNCHANGED <<streams, linksKey, urls, clearCount, pendingBlockedURLs, page, requested, client,
                     restarts, lists, told, dropped>>
  BY DEF TakeBlocked
<1>2. /\ page \in [Layer -> [loaded : BOOLEAN, known : BOOLEAN, links : SUBSET Url, mounts : Nat]]
      /\ toPage \in [Layer -> Seq(Msg)] /\ q \in Seq(Msg) /\ page["overlay"].known \in BOOLEAN /\ "overlay" \in Layer
      /\ IsFiniteSet(seen) /\ seen \subseteq Named /\ Cardinality(seen) <= MaxUrls
  BY <1>0 DEF LayerTypes, Layer
<1>3. page["overlay"].loaded /\ Chain(q, page["overlay"].known, page["overlay"].links, streams)
  BY <1>0, <1>1, <1>2 DEF LinksInv
<1>4. Head(q) \in Msg /\ Tail(q) \in Seq(Msg) /\ ~IsState(Head(q))
  BY <1>1, <1>2, Taken DEF IsState
<1>5. Head(q).url \in Named
  BY <1>1, <1>4 DEF Msg
<1> HIDE DEF q
<1>6. Chain(Tail(q), page["overlay"].known, page["overlay"].links, streams) /\ (Told(Tail(q)) <=> Told(q))
  BY <1>1, <1>2, <1>3, <1>4, ChainPasses
<1>7. /\ toPage' \in [Layer -> Seq(Msg)] /\ toPage'["overlay"] = Tail(q)
      /\ \A k \in Layer : k # "overlay" => toPage'[k] = toPage[k]
  <2>1. toPage' = [toPage EXCEPT !["overlay"] = Tail(q)]
    BY <1>1 DEF q
  <2> QED BY <1>2, <1>4, <2>1
<1>8. LayerTypes'
  <2>1. IsFiniteSet(seen') /\ seen' \subseteq Named /\ Cardinality(seen') <= MaxUrls
    <3>1. Cardinality(seen) \in Nat /\ MaxUrls \in Nat
      BY <1>2, FS_CardinalityType, BoundAssumption
    <3>2. IsFiniteSet(seen \union {Head(q).url}) /\ Cardinality(seen \union {Head(q).url}) <= Cardinality(seen) + 1
      <4>1. CASE Head(q).url \in seen
        <5>1. seen \union {Head(q).url} = seen
          BY <4>1
        <5>2. Cardinality(seen \union {Head(q).url}) = Cardinality(seen) /\ IsFiniteSet(seen \union {Head(q).url})
          BY <1>2, <5>1
        <5> QED BY <3>1, <5>2
      <4>2. CASE Head(q).url \notin seen
        <5>1. /\ IsFiniteSet(seen \union {Head(q).url})
              /\ Cardinality(seen \union {Head(q).url}) = Cardinality(seen) + 1
          BY <1>2, <4>2, FS_AddElement
        <5> QED BY <3>1, <5>1
      <4> QED BY <4>1, <4>2
    <3>3. Cardinality(seen \union {Head(q).url}) \in Nat
      BY <3>2, FS_CardinalityType
    <3>4. CASE Cardinality(seen) < MaxUrls
      <4>1. seen' = seen \union {Head(q).url}
        BY <1>1, <3>4
      <4> QED BY <1>2, <1>5, <3>1, <3>2, <3>3, <3>4, <4>1
    <3>5. CASE ~(Cardinality(seen) < MaxUrls)
      BY <1>1, <1>2, <3>5
    <3> QED BY <3>4, <3>5
  <2> QED BY <1>0, <1>1, <1>7, <2>1 DEF LayerTypes
<1>9. ClientInv'
  BY <1>0, <1>1 DEF ClientInv
<1>10. LinksInv'
  <2>1. ASSUME NEW k \in Layer PROVE IF page[k].loaded THEN Chain(toPage'[k], page[k].known, page[k].links, streams)
                                     ELSE toPage'[k] = <<>> /\ ~page[k].known
    <3>1. CASE k = "overlay"
      BY <1>3, <1>6, <1>7, <3>1
    <3>2. CASE k # "overlay"
      BY <1>0, <1>7, <3>2 DEF LinksInv
    <3> QED BY <3>1, <3>2
  <2> QED BY <1>1, <2>1 DEF LinksInv
<1>11. NamedInv'
  <2> SUFFICES ASSUME NEW k \in Layer, page[k].loaded, Told(toPage'[k]),
                      NEW x \in streams, x \in Of(k), x \in Private
               PROVE  /\ x \in urls \/ Cardinality(urls) = MaxUrls \/ Due(x)'
                      /\ Due(x)' \/ dropped \/ Arrives(x)'
    BY <1>1 DEF NamedInv
  <2>1. Told(toPage[k])
    <3>1. CASE k = "overlay"
      BY <1>6, <1>7, <3>1 DEF q
    <3>2. CASE k # "overlay"
      BY <1>7, <3>2
    <3> QED BY <3>1, <3>2
  <2>2. /\ x \in urls \/ Cardinality(urls) = MaxUrls \/ Due(x)
        /\ Due(x) \/ dropped \/ Arrives(x)
    BY <1>0, <2>1 DEF NamedInv
  <2>3. Due(x)' <=> Due(x)
    BY <1>1 DEF Due
  <2>4. x \in Named
    BY <1>0, LayerNames DEF LayerTypes
  <2>5. Arrives(x) => Arrives(x)'
    <3>1. Arrives(x) => Coming(q, page["overlay"].known, x) \/ Listed(q, page["overlay"].known, seen, x)
      BY <1>3 DEF Arrives, q
    <3>2. q # <<>> /\ Cardinality(seen) \in Nat
          /\ seen' = IF Cardinality(seen) < MaxUrls THEN seen \union {Head(q).url} ELSE seen
      BY <1>1, <1>2, FS_CardinalityType DEF q
    <3>3. Arrives(x) => Coming(Tail(q), page["overlay"].known, x) \/ Listed(Tail(q), page["overlay"].known, seen', x)
      BY <1>2, <1>4, <2>4, <3>1, <3>2, ComingPasses
    <3> QED BY <1>1, <1>3, <1>7, <3>3 DEF Arrives
  <2> QED BY <2>2, <2>3, <2>5
<1> QED BY <1>8, <1>9, <1>10, <1>11 DEF LayersInv

\* A control page takes the state of the moment, or dismisses what it shows.
LEMMA NoticeKeeps ==
  ASSUME LayersInv, Receive \/ Dismiss
  PROVE  LayersInv'
<1>0. LayerTypes /\ ClientInv /\ LinksInv /\ NamedInv
  BY DEF LayersInv
<1>1. UNCHANGED <<streams, linksKey, urls, clearCount, pendingBlockedURLs, page, toPage, requested, seen,
                  restarts, lists, dropped>>
  BY DEF Receive, Dismiss
<1>2. LayerTypes' /\ LinksInv'
  BY <1>0, <1>1 DEF LayerTypes, LinksInv
<1>3. NamedInv'
  BY <1>0, <1>1 DEF NamedInv, Due, Arrives
<1>4. /\ urls \subseteq Named /\ lists \in Nat /\ clearCount \in Nat
      /\ client \in [urls : SUBSET Named, generation : Nat, list : Nat,
                     dismissed : [generation : Nat, urls : SUBSET Named]]
      /\ client.dismissed.urls \subseteq client.urls
  BY <1>0 DEF LayerTypes, ClientInv
<1>5. CASE Receive
  <2> DEFINE d == StillDismissed(client.dismissed, urls, clearCount)
  <2>1. client' = [urls |-> urls, generation |-> clearCount, list |-> lists, dismissed |-> d] /\ told' = told
    BY <1>5 DEF Receive
  <2>2. d \in [generation : Nat, urls : SUBSET Named] /\ d.urls \subseteq urls /\ d.generation = clearCount
        /\ d.urls \subseteq client.dismissed.urls /\ (d.urls # {} => client.dismissed.generation = clearCount)
    BY <1>4 DEF StillDismissed
  <2> HIDE DEF d
  <2>3. /\ client' \in [urls : SUBSET Named, generation : Nat, list : Nat,
                        dismissed : [generation : Nat, urls : SUBSET Named]]
        /\ client'.dismissed.urls \subseteq client'.urls
        /\ client'.dismissed = d /\ client'.generation = clearCount /\ client'.list = lists
    BY <1>4, <2>1, <2>2
  <2>4. restarts = 0 => \A u \in d.urls : <<lists, u>> \in told
    BY <1>0, <2>2 DEF ClientInv
  <2>5. ClientInv'
    BY <1>0, <1>1, <2>1, <2>2, <2>3, <2>4 DEF ClientInv
  <2> QED BY <1>2, <1>3, <2>5 DEF LayersInv
<1>6. CASE Dismiss
  <2> DEFINE d == [generation |-> client.generation, urls |-> client.urls]
  <2>1. client' = [client EXCEPT !.dismissed = d] /\ told' = told \union {<<client.list, u>> : u \in client.urls}
    BY <1>6 DEF Dismiss
  <2>2. /\ client' \in [urls : SUBSET Named, generation : Nat, list : Nat,
                        dismissed : [generation : Nat, urls : SUBSET Named]]
        /\ client'.dismissed.urls = client.urls /\ client'.dismissed.generation = client.generation
        /\ client'.urls = client.urls /\ client'.generation = client.generation /\ client'.list = client.list
    BY <1>4, <2>1
  <2>3. \A u \in client.urls : <<client.list, u>> \in told'
    BY <2>1
  <2>4. ClientInv'
    BY <1>0, <1>1, <2>2, <2>3 DEF ClientInv
  <2> QED BY <1>2, <1>3, <2>4 DEF LayersInv
<1> QED BY <1>5, <1>6

\* Every step of the layers keeps the invariant.
LEMMA LayersKeep == LayersInv /\ [LayersNext]_layerVars => LayersInv'
<1> SUFFICES ASSUME LayersInv, [LayersNext]_layerVars PROVE LayersInv'
  OBVIOUS
<1>0. LayerTypes /\ ClientInv /\ LinksInv /\ NamedInv
  BY DEF LayersInv
<1>1. CASE OtherUpdate
  <2>1. UpdateState(streams, urls)
        /\ UNCHANGED <<pendingBlockedURLs, page, toPage, requested, seen, client, restarts, told, dropped>>
    BY <1>1 DEF OtherUpdate
  <2>2. streams' = streams /\ linksKey' = streams /\ urls' = urls /\ UNCHANGED <<clearCount, lists>>
    BY <1>0, <2>1, NotCleared
  <2>3. LayerTypes' /\ ClientInv' /\ LinksInv' /\ NamedInv'
    BY <1>0, <2>1, <2>2 DEF LayerTypes, ClientInv, LinksInv, NamedInv, Due, Arrives
  <2> QED BY <2>3 DEF LayersInv
<1>2. ASSUME NEW r \in requested, Verdict(r) PROVE LayersInv'
  <2>1. Report(r.url) /\ requested' = requested \ {r} /\ UNCHANGED <<page, seen, client, restarts, told>>
    BY <1>2 DEF Verdict
  <2>2. r.url \in Named
    BY <1>0, LayerNames DEF LayerTypes
  <2>3. requested' \subseteq requested /\ \A x \in requested : x \in requested' \/ x.url = r.url
    BY <2>1
  <2> QED BY <2>1, <2>2, <2>3, ReportKeeps
<1>3. ASSUME NEW l \in Layer, ProbeRefused(l) PROVE LayersInv'
  <2>1. Report(Probe) /\ requested' = requested /\ UNCHANGED <<page, seen, client, restarts, told>>
    BY <1>3 DEF ProbeRefused
  <2>2. Probe \in Named
    BY LayerNames
  <2>3. requested' \subseteq requested /\ \A x \in requested : x \in requested' \/ x.url = Probe
    BY <2>1
  <2> QED BY <2>1, <2>2, <2>3, ReportKeeps
<1>4. CASE Restart
  <2>1. /\ restarts' = restarts + 1
        /\ streams' = {} /\ linksKey' = Unknown /\ urls' = {} /\ clearCount' = 0 /\ pendingBlockedURLs' = <<>>
        /\ page' = NoPages /\ toPage' = NoMessages /\ requested' = {} /\ seen' = {} /\ lists' = lists + 1
        /\ UNCHANGED <<client, told>>
    BY <1>4 DEF Restart
  <2>2. /\ page' \in [Layer -> [loaded : BOOLEAN, known : BOOLEAN, links : SUBSET Url, mounts : Nat]]
        /\ \A l \in Layer : ~page'[l].loaded /\ ~page'[l].known /\ toPage'[l] = <<>>
        /\ toPage' \in [Layer -> Seq(Msg)]
    BY <2>1, EmptySeq DEF NoPages, NoPage, NoMessages
  <2>3. /\ IsFiniteSet(urls') /\ Cardinality(urls') <= MaxUrls /\ IsFiniteSet(seen') /\ Cardinality(seen') <= MaxUrls
        /\ pendingBlockedURLs' \in Seq(Named) /\ Len(pendingBlockedURLs') <= MaxPending /\ lists' \in Nat
    <3>1. IsFiniteSet(urls') /\ Cardinality(urls') = 0 /\ IsFiniteSet(seen') /\ Cardinality(seen') = 0
      BY <2>1, FS_EmptySet
    <3>2. pendingBlockedURLs' \in Seq(Named) /\ Len(pendingBlockedURLs') = 0
      BY <2>1, EmptySeq
    <3>3. lists' \in Nat
      BY <1>0, <2>1 DEF LayerTypes
    <3> QED BY <3>1, <3>2, <3>3, BoundAssumption
  <2>4. LayerTypes'
    BY <2>1, <2>2, <2>3 DEF LayerTypes
  <2>5. restarts' \in Nat /\ restarts' # 0
    BY <1>0, <2>1 DEF ClientInv
  <2>6. ClientInv'
    BY <1>0, <2>1, <2>5 DEF ClientInv
  <2>7. LinksInv' /\ NamedInv'
    BY <2>2 DEF LinksInv, NamedInv
  <2> QED BY <2>4, <2>6, <2>7 DEF LayersInv
<1>5. CASE UNCHANGED layerVars
  <2>1. LayerTypes' /\ ClientInv' /\ LinksInv' /\ NamedInv'
    BY <1>0, <1>5 DEF LayerTypes, ClientInv, LinksInv, NamedInv, Due, Arrives, layerVars
  <2> QED BY <2>1 DEF LayersInv
<1> QED BY <1>1, <1>2, <1>3, <1>4, <1>5, EditKeeps, LoadKeeps, TakeKeeps, TakeBlockedKeeps, NoticeKeeps DEF LayersNext

\* At the start no page has loaded and nothing is refused.
LEMMA LayersStart == LayersInit => LayersInv
<1> SUFFICES ASSUME LayersInit PROVE LayersInv
  OBVIOUS
<1>1. /\ streams = {} /\ linksKey = Unknown /\ urls = {} /\ clearCount = 0 /\ pendingBlockedURLs = <<>>
      /\ page = NoPages /\ toPage = NoMessages /\ requested = {} /\ seen = {}
      /\ client = [urls |-> {}, generation |-> 0, list |-> 0, dismissed |-> [generation |-> 0, urls |-> {}]]
      /\ restarts = 0 /\ lists = 0 /\ told = {}
  BY DEF LayersInit
<1>2. /\ page \in [Layer -> [loaded : BOOLEAN, known : BOOLEAN, links : SUBSET Url, mounts : Nat]]
      /\ \A l \in Layer : ~page[l].loaded /\ ~page[l].known /\ toPage[l] = <<>>
      /\ toPage \in [Layer -> Seq(Msg)]
  BY <1>1, EmptySeq DEF NoPages, NoPage, NoMessages
<1>3. /\ IsFiniteSet(urls) /\ Cardinality(urls) <= MaxUrls /\ IsFiniteSet(seen) /\ Cardinality(seen) <= MaxUrls
      /\ pendingBlockedURLs \in Seq(Named) /\ Len(pendingBlockedURLs) <= MaxPending
  <2>1. IsFiniteSet(urls) /\ Cardinality(urls) = 0 /\ IsFiniteSet(seen) /\ Cardinality(seen) = 0
    BY <1>1, FS_EmptySet
  <2>2. pendingBlockedURLs \in Seq(Named) /\ Len(pendingBlockedURLs) = 0
    BY <1>1, EmptySeq
  <2> QED BY <2>1, <2>2, BoundAssumption
<1>4. LayerTypes
  BY <1>1, <1>2, <1>3 DEF LayerTypes
<1>5. ClientInv
  BY <1>1 DEF ClientInv
<1>6. LinksInv /\ NamedInv
  BY <1>2 DEF LinksInv, NamedInv
<1> QED BY <1>4, <1>5, <1>6 DEF LayersInv

\* What is hidden was dismissed, what is still refused is named once nothing is on its
\* way, and the types.
LEMMA LayersSound == LayersInv => RefusedAreNamed /\ LayersTypeOK
<1> SUFFICES ASSUME LayersInv PROVE RefusedAreNamed /\ LayersTypeOK
  OBVIOUS
<1>0. LayerTypes /\ ClientInv /\ LinksInv /\ NamedInv
  BY DEF LayersInv
<1>1. HiddenWasDismissed
  <2>1. client.urls \ Visible = client.urls \intersect client.dismissed.urls
    BY DEF Visible
  <2> QED BY <1>0, <2>1 DEF HiddenWasDismissed, ClientInv
<1>2. StillRefusedIsNamed
  <2> SUFFICES ASSUME Quiet, NEW u \in streams, u \in Private
               PROVE  /\ u \in urls \/ Cardinality(urls) = MaxUrls
                      /\ u \in seen \/ Cardinality(seen) = MaxUrls \/ dropped
    BY DEF StillRefusedIsNamed
  <2>1. \A l \in Layer : page[l].loaded /\ toPage[l] = <<>> /\ Told(toPage[l])
    BY EmptySeq DEF Quiet, Told
  <2>2. PICK l \in Layer : u \in Of(l)
    BY <1>0 DEF LayerTypes, Url, Layer, Of
  <2>3. ~Due(u)
    BY DEF Quiet, Due
  <2>4. /\ u \in urls \/ Cardinality(urls) = MaxUrls \/ Due(u)
        /\ Due(u) \/ dropped \/ Arrives(u)
    BY <1>0, <2>1, <2>2 DEF NamedInv
  <2>5. Arrives(u) => u \in seen \/ Cardinality(seen) = MaxUrls
    <3>1. "overlay" \in Layer
      BY DEF Layer
    <3>2. page["overlay"].loaded /\ Len(toPage["overlay"]) = 0
      BY <2>1, <3>1, EmptySeq
    <3> QED BY <3>2 DEF Arrives, Coming, Listed
  <2> QED BY <2>3, <2>4, <2>5
<1>3. LayersTypeOK
  <2>1. linksKey \in (SUBSET Url) \union {Unknown}
    <3>1. streams \in SUBSET Url /\ (linksKey = Unknown \/ linksKey = streams)
      BY <1>0 DEF LayerTypes
    <3> QED BY <3>1
  <2>2. \A l \in Layer : page[l].links \subseteq Url /\ (~page[l].loaded => toPage[l] = <<>>)
    BY <1>0 DEF LayerTypes, LinksInv
  <2>3. client.urls \subseteq Named /\ client.dismissed.urls \subseteq client.urls
    BY <1>0 DEF ClientInv
  <2> QED BY <1>0, <2>1, <2>2, <2>3 DEF LayersTypeOK, LayerTypes
<1> QED BY <1>1, <1>2, <1>3 DEF RefusedAreNamed

\* Every URL that the layers are refused is in sight, until its operator says otherwise:
\* a clear that came after the report of a frame is followed by another mount of it.
THEOREM RefusedInSight == LayersSpec => []RefusedAreNamed /\ []LayersTypeOK
BY LayersStart, LayersKeep, LayersSound, PTL DEF LayersSpec

-----------------------------------------------------------------------------
(* The storage, the quit and the windows (Desktop).                        *)

\* What was saved last is the data of the app, and goes to the file in its order.
WriterInv ==
  /\ backed \in BOOLEAN /\ lost \in BOOLEAN /\ mem \in Data /\ disk \in Data
  /\ writing = Idle \/ writing \in Data
  /\ queued = Idle \/ (queued \in Data /\ writing # Idle)
  /\ writing # Idle => backed
  /\ backed => /\ IF queued # Idle THEN queued = mem
                  ELSE IF writing # Idle THEN writing = mem ELSE lost \/ disk = mem
               /\ disk.doc <= mem.doc
               /\ writing # Idle => disk.doc <= writing.doc /\ writing.doc <= mem.doc

\* The data lack only a document whose save is due.
ThrottleInv ==
  /\ doc \in 0 .. MaxChanges /\ favorites \subseteq FavUrl
  /\ timer \in BOOLEAN /\ due \in BOOLEAN /\ (due => timer)
  /\ mem.favorites = favorites /\ mem.doc <= doc /\ (~due => mem.doc = doc)

\* A flush waits for a write that has what the document was when the quit began.
QuitInv ==
  /\ isQuitting \in BOOLEAN /\ storageFlushed \in BOOLEAN /\ leaving \in BOOLEAN
  /\ flush \subseteq {"idle writer", "queued", "second"}
  /\ storageFlushed \/ flush # {} => isQuitting
  /\ leaving => storageFlushed
  /\ flush # {} => writing # Idle
  /\ "queued" \in flush => queued # Idle
  /\ owed \in 0 .. MaxChanges
  /\ isQuitting /\ backed => owed <= mem.doc
  /\ "idle writer" \in flush \/ "second" \in flush \/ storageFlushed =>
       (writing # Idle => owed <= writing.doc)
  /\ storageFlushed /\ backed => lost \/ owed <= disk.doc

\* On macOS only what is not a window makes the app quit.
WindowInv ==
  /\ darwin \in BOOLEAN /\ phase \in {"up", "exited", "failed", "crashed"}
  /\ window \in [Window -> {"open", "hidden", "closed"}]
  /\ darwin /\ isQuitting => quitAsked
  /\ phase = "exited" => leaving

\* Data that are those of the app lack nothing.
LEMMA Fresh ==
  ASSUME doc' \in 0 .. MaxChanges, favorites' \subseteq FavUrl, timer' \in BOOLEAN, due' = FALSE,
         mem'.favorites = favorites', mem'.doc = doc'
  PROVE  ThrottleInv'
<1>1. due' \in BOOLEAN /\ ~due'
  OBVIOUS
<1>2. mem'.doc <= doc'
  BY ChangesAssumption
<1> QED BY <1>1, <1>2 DEF ThrottleInv

DesktopInv == WriterInv /\ ThrottleInv /\ QuitInv /\ WindowInv

\* The writer takes data that are not older than those of the app.
LEMMA Saved ==
  ASSUME WriterInv, NEW data \in Data, mem.doc <= data.doc, Save(data), UNCHANGED <<backed, disk, lost>>
  PROVE  /\ WriterInv' /\ mem' = data
         /\ \/ ~backed /\ UNCHANGED <<writing, queued>>
            \/ backed /\ writing = Idle /\ writing' = data /\ queued' = queued
            \/ backed /\ writing # Idle /\ writing' = writing /\ queued' = data
<1>1. /\ backed \in BOOLEAN /\ lost \in BOOLEAN /\ mem \in Data /\ disk \in Data
      /\ writing = Idle \/ writing \in Data
      /\ queued = Idle \/ (queued \in Data /\ writing # Idle)
  BY DEF WriterInv
<1>2. Idle \notin Data /\ data # Idle
  BY IdleAssumption DEF Data
<1>3. \A x \in Data : x.doc \in Nat
  BY DEF Data
<1>4. mem' = data /\ Write(data)
  BY DEF Save
<1>5. CASE ~backed
  <2>1. UNCHANGED <<writing, queued>>
    BY <1>4, <1>5 DEF Write
  <2> QED BY <1>1, <1>4, <1>5, <2>1 DEF WriterInv
<1>6. CASE backed /\ writing = Idle
  <2>1. writing' = data /\ queued' = queued /\ queued = Idle
    BY <1>1, <1>4, <1>6 DEF Write
  <2>2. disk.doc <= mem.doc /\ disk.doc <= data.doc
    <3>1. disk.doc <= mem.doc
      BY <1>6 DEF WriterInv
    <3> QED BY <1>1, <1>3, <3>1
  <2> QED BY <1>1, <1>2, <1>3, <1>4, <1>6, <2>1, <2>2 DEF WriterInv
<1>7. CASE backed /\ writing # Idle
  <2>1. writing' = writing /\ queued' = data
    BY <1>4, <1>7 DEF Write
  <2>2. disk.doc <= mem.doc /\ disk.doc <= writing.doc /\ writing.doc <= mem.doc /\ writing \in Data
    BY <1>1, <1>7 DEF WriterInv
  <2>3. disk.doc <= data.doc /\ writing.doc <= data.doc
    BY <1>1, <1>3, <2>2
  <2> QED BY <1>1, <1>2, <1>4, <1>7, <2>1, <2>2, <2>3 DEF WriterInv
<1> QED BY <1>1, <1>5, <1>6, <1>7

\* A flush that is under way waits for the same write, whatever else is saved.
LEMMA FlushWaits ==
  ASSUME WriterInv, QuitInv, NEW data \in Data, mem.doc <= data.doc, Save(data), UNCHANGED <<backed, disk, lost>>,
         UNCHANGED <<isQuitting, storageFlushed, flush, leaving, owed>>
  PROVE  QuitInv'
<1>1. /\ mem' = data
      /\ \/ ~backed /\ UNCHANGED <<writing, queued>>
         \/ backed /\ writing = Idle /\ writing' = data /\ queued' = queued
         \/ backed /\ writing # Idle /\ writing' = writing /\ queued' = data
  BY Saved
<1>2. mem \in Data /\ data # Idle /\ data.doc \in Nat /\ mem.doc \in Nat /\ owed \in Nat
  <2>1. mem \in Data /\ owed \in 0 .. MaxChanges
    BY DEF WriterInv, QuitInv
  <2>2. data # Idle
    BY IdleAssumption DEF Data
  <2> QED BY <2>1, <2>2 DEF Data
<1>3. isQuitting /\ backed => owed <= data.doc
  <2>1. isQuitting /\ backed => owed <= mem.doc
    BY DEF QuitInv
  <2> QED BY <1>2, <2>1
<1>4. flush # {} => writing' # Idle
  BY <1>1, <1>2 DEF QuitInv
<1>5. "queued" \in flush => queued' # Idle
  BY <1>1, <1>2 DEF QuitInv
<1>6. "idle writer" \in flush \/ "second" \in flush \/ storageFlushed => (writing' # Idle => owed <= writing'.doc)
  <2>1. CASE writing' = writing
    BY <2>1 DEF QuitInv
  <2>2. CASE backed /\ writing' = data
    BY <1>3, <2>2 DEF QuitInv
  <2> QED BY <1>1, <2>1, <2>2
<1> QED BY <1>1, <1>3, <1>4, <1>5, <1>6 DEF QuitInv

\* A quit that is asked for, or follows from a close, saves what is due and waits for it.
LEMMA QuitKeeps ==
  ASSUME WriterInv, ThrottleInv, QuitInv, Quit, UNCHANGED <<backed, disk, lost, doc, favorites>>
  PROVE  WriterInv' /\ ThrottleInv' /\ QuitInv' /\ isQuitting'
<1>0. /\ mem \in Data /\ Idle \notin Data /\ backed \in BOOLEAN /\ doc \in Nat /\ mem.doc \in Nat
      /\ doc \in 0 .. MaxChanges /\ mem.doc <= doc /\ (~due => mem.doc = doc)
  BY IdleAssumption, ChangesAssumption DEF WriterInv, ThrottleInv, Data
<1>1. isQuitting' = TRUE /\ owed' = IF isQuitting THEN owed ELSE doc
  BY DEF Quit
<1>2. CASE storageFlushed \/ ~backed
  <2>1. storageFlushed' = TRUE /\ leaving' = TRUE /\ UNCHANGED <<flush, mem, timer, due, writing, queued>>
    BY <1>2 DEF Quit
  <2>2. WriterInv' /\ ThrottleInv'
    BY <2>1 DEF WriterInv, ThrottleInv
  <2>3. CASE storageFlushed
    <3>1. isQuitting /\ owed' = owed
      BY <1>1, <2>3 DEF QuitInv
    <3>2. QuitInv'
      BY <1>1, <2>1, <2>3, <3>1 DEF QuitInv
    <3> QED BY <1>1, <2>2, <3>2
  <2>4. CASE ~backed
    <3>1. writing = Idle
      BY <2>4 DEF WriterInv
    <3>2. owed' \in 0 .. MaxChanges
      BY <1>0, <1>1 DEF QuitInv
    <3>3. QuitInv'
      BY <1>1, <2>1, <2>4, <3>1, <3>2 DEF QuitInv
    <3> QED BY <1>1, <2>2, <3>3
  <2> QED BY <1>2, <2>3, <2>4
<1>3. CASE ~storageFlushed /\ backed
  <2> DEFINE data == IF due THEN [mem EXCEPT !.doc = doc] ELSE mem
  <2>1. /\ timer' = FALSE /\ due' = FALSE /\ Save(data) /\ flush' = flush \union {Awaited}
        /\ UNCHANGED <<storageFlushed, leaving>>
    BY <1>3 DEF Quit, FlushStorage
  <2>2. data \in Data /\ data.doc = doc /\ mem.doc <= data.doc /\ data.favorites = mem.favorites
    BY <1>0 DEF Data
  <2> HIDE DEF data
  <2>3. /\ WriterInv' /\ mem' = data
        /\ \/ writing = Idle /\ writing' = data /\ queued' = queued
           \/ writing # Idle /\ writing' = writing /\ queued' = data
    BY <1>3, <2>1, <2>2, Saved
  <2>4. ThrottleInv'
    <3>1. mem'.doc = doc /\ mem'.favorites = favorites /\ favorites \subseteq FavUrl
      BY <2>2, <2>3 DEF ThrottleInv
    <3> QED BY <1>0, <2>1, <3>1, Fresh, Zenon
  <2>5. owed' \in 0 .. MaxChanges /\ owed' <= doc
    <3>1. isQuitting => owed <= mem.doc /\ owed \in 0 .. MaxChanges
      BY <1>3 DEF QuitInv
    <3> QED BY <1>0, <1>1, <3>1
  <2>6. data # Idle /\ writing' # Idle
    BY <1>0, <2>2, <2>3
  <2>7. CASE writing = Idle
    <3>1. flush' = flush \union {"idle writer"} /\ flush = {} /\ writing' = data
      BY <2>1, <2>3, <2>7 DEF Awaited, QuitInv
    <3>2. QuitInv'
      BY <1>1, <1>3, <2>1, <2>2, <2>3, <2>5, <2>6, <3>1 DEF QuitInv
    <3> QED BY <1>1, <2>3, <2>4, <3>2
  <2>8. CASE writing # Idle
    <3>1. flush' = flush \union {"queued"} /\ writing' = writing /\ queued' = data
      BY <2>1, <2>3, <2>8 DEF Awaited
    <3>2. "idle writer" \in flush \/ "second" \in flush => owed' <= writing.doc
      <4>1. flush # {} => isQuitting
        BY DEF QuitInv
      <4> QED BY <1>1, <2>8, <4>1 DEF QuitInv
    <3>3. QuitInv'
      BY <1>1, <1>3, <2>1, <2>2, <2>3, <2>5, <2>6, <3>1, <3>2 DEF QuitInv
    <3> QED BY <1>1, <2>3, <2>4, <3>3
  <2> QED BY <2>7, <2>8
<1> QED BY <1>0, <1>2, <1>3 DEF QuitInv

\* A write that ends brings the file forward, and with it a flush that waited for it.
LEMMA WriteKeeps ==
  ASSUME DesktopInv, NEW ok \in BOOLEAN, WriteEnds(ok)
  PROVE  DesktopInv' /\ disk'.doc >= disk.doc
<1>0. /\ mem \in Data /\ disk \in Data /\ Idle \notin Data /\ writing \in Data /\ backed
      /\ queued = Idle \/ queued \in Data
      /\ owed \in Nat /\ \A x \in Data : x.doc \in Nat
  <2>1. writing # Idle
    BY DEF WriteEnds
  <2>2. Idle \notin Data /\ \A x \in Data : x.doc \in Nat
    BY IdleAssumption DEF Data
  <2>3. /\ mem \in Data /\ disk \in Data /\ writing \in Data /\ backed
        /\ queued = Idle \/ queued \in Data
    BY <2>1 DEF DesktopInv, WriterInv
  <2>4. owed \in Nat
    <3>1. owed \in 0 .. MaxChanges
      BY DEF DesktopInv, QuitInv
    <3> QED BY <3>1
  <2> QED BY <2>2, <2>3, <2>4
<1>1. /\ disk' = IF ok THEN writing ELSE disk
      /\ lost' = ~ok /\ writing' = queued /\ queued' = Idle
      /\ UNCHANGED <<phase, backed, doc, favorites, mem, timer, due, isQuitting, owed, quitAsked, window, darwin>>
  BY DEF WriteEnds
<1>2. /\ IF queued # Idle THEN queued = mem ELSE writing = mem
      /\ disk.doc <= mem.doc /\ disk.doc <= writing.doc /\ writing.doc <= mem.doc
  BY <1>0 DEF DesktopInv, WriterInv
<1>3. disk' \in Data /\ disk.doc <= disk'.doc /\ disk'.doc <= mem.doc
  BY <1>0, <1>1, <1>2
<1>4. WriterInv'
  <2>1. queued # Idle => disk'.doc <= queued.doc /\ queued.doc <= mem.doc
    BY <1>0, <1>2, <1>3
  <2>2. queued = Idle => lost' \/ disk' = mem
    BY <1>1, <1>2
  <2> QED BY <1>0, <1>1, <1>2, <1>3, <2>1, <2>2 DEF WriterInv
<1>5. ThrottleInv' /\ WindowInv'
  <2>1. leaving => leaving'
    BY DEF WriteEnds, DesktopInv, QuitInv
  <2> QED BY <1>1, <2>1 DEF DesktopInv, ThrottleInv, WindowInv
<1>6. QuitInv'
  <2> DEFINE settled == "second" \in flush \/ ("idle writer" \in flush /\ queued = Idle)
  <2>1. /\ storageFlushed' = (storageFlushed \/ settled) /\ leaving' = (leaving \/ settled)
        /\ flush' = {f \in flush : f = "idle writer" /\ queued # Idle} \union {"second" : f \in flush \intersect {"queued"}}
    BY DEF WriteEnds
  <2>2. /\ isQuitting \in BOOLEAN /\ storageFlushed \in BOOLEAN /\ leaving \in BOOLEAN
        /\ (storageFlushed => isQuitting) /\ (flush # {} => isQuitting) /\ (leaving => storageFlushed)
        /\ "queued" \in flush => queued # Idle
        /\ owed \in 0 .. MaxChanges
        /\ isQuitting => owed <= mem.doc
        /\ "idle writer" \in flush \/ "second" \in flush \/ storageFlushed => owed <= writing.doc
        /\ storageFlushed => lost \/ owed <= disk.doc
    BY <1>0 DEF DesktopInv, QuitInv
  <2>3. settled => flush # {}
    OBVIOUS
  <2>4. storageFlushed' \in BOOLEAN /\ leaving' \in BOOLEAN /\ (leaving' => storageFlushed')
    BY <2>1, <2>2
  <2>5. flush' \subseteq {"idle writer", "queued", "second"} /\ "queued" \notin flush'
    BY <2>1
  <2>6. flush' # {} => flush # {} /\ queued # Idle
    BY <2>1, <2>2
  <2>7. storageFlushed' \/ flush' # {} => isQuitting
    BY <2>1, <2>2, <2>3, <2>6
  <2>8. isQuitting /\ queued # Idle => owed <= queued.doc
    BY <1>2, <2>2
  <2>9. storageFlushed' => lost' \/ owed <= disk'.doc
    <3>1. storageFlushed' => owed <= writing.doc
      BY <2>1, <2>2
    <3> QED BY <1>1, <3>1
  <2>10. writing' # Idle /\ (storageFlushed' \/ flush' # {}) => owed <= writing'.doc
    BY <1>1, <2>7, <2>8
  <2>11. isQuitting' /\ backed' => owed' <= mem'.doc
    BY <1>1, <2>2
  <2> HIDE DEF settled
  <2> QED BY <1>0, <1>1, <2>2, <2>4, <2>5, <2>6, <2>7, <2>9, <2>10, <2>11 DEF QuitInv
<1> QED BY <1>0, <1>3, <1>4, <1>5, <1>6 DEF DesktopInv

\* Every operation of the desktop keeps the invariant, and the file as new as it is.
LEMMA DesktopKeeps == DesktopInv /\ [DesktopNext]_desktopVars => DesktopInv' /\ disk'.doc >= disk.doc
<1> SUFFICES ASSUME DesktopInv, [DesktopNext]_desktopVars PROVE DesktopInv' /\ disk'.doc >= disk.doc
  OBVIOUS
<1>0. WriterInv /\ ThrottleInv /\ QuitInv /\ WindowInv
  BY DEF DesktopInv
<1>d. /\ mem \in Data /\ disk \in Data /\ disk.doc \in Nat /\ mem.doc \in Nat /\ doc \in Nat
      /\ doc \in 0 .. MaxChanges /\ mem.doc <= doc
  BY <1>0 DEF WriterInv, ThrottleInv, Data
<1>1. CASE ChangeDocument
  <2>1. /\ doc < MaxChanges /\ doc' = doc + 1
        /\ UNCHANGED <<phase, backed, favorites, disk, lost, quitting, window, darwin>>
    BY <1>1 DEF ChangeDocument
  <2>2. WindowInv'
    BY <1>0, <2>1 DEF WindowInv, quitting
  <2>3. doc' \in 0 .. MaxChanges
    BY <1>d, <2>1, ChangesAssumption
  <2>4. CASE PersistStateDoc /\ timer' = TRUE /\ due' = FALSE
    <3> DEFINE data == [mem EXCEPT !.doc = doc']
    <3>1. Save(data)
      BY <2>4 DEF PersistStateDoc
    <3>2. data \in Data /\ data.doc = doc' /\ data.favorites = mem.favorites /\ mem.doc <= data.doc
      BY <1>d, <2>1, <2>3 DEF Data
    <3> HIDE DEF data
    <3>3. WriterInv' /\ mem' = data /\ QuitInv'
      BY <1>0, <2>1, <3>1, <3>2, Saved, FlushWaits DEF quitting
    <3>4. mem'.doc = doc' /\ mem'.favorites = favorites' /\ favorites' \subseteq FavUrl
      BY <1>0, <2>1, <3>2, <3>3 DEF ThrottleInv
    <3>5. ThrottleInv'
      BY <2>3, <2>4, <3>4, Fresh, Zenon
    <3> QED BY <1>d, <2>1, <2>2, <3>3, <3>5 DEF DesktopInv
  <2>5. CASE timer' = TRUE /\ due' = TRUE /\ UNCHANGED <<mem, writing, queued>>
    <3>1. WriterInv' /\ QuitInv'
      BY <1>0, <2>1, <2>5 DEF WriterInv, QuitInv, quitting
    <3>2. mem.doc <= doc'
      BY <1>d, <2>1
    <3>3. ThrottleInv'
      BY <1>0, <2>1, <2>3, <2>5, <3>2 DEF ThrottleInv
    <3> QED BY <1>d, <2>1, <2>2, <3>1, <3>3 DEF DesktopInv
  <2> QED BY <1>1, <2>4, <2>5 DEF ChangeDocument
<1>2. CASE TimerEnds
  <2>1. /\ timer' = FALSE /\ due' = FALSE /\ UNCHANGED doc
        /\ UNCHANGED <<phase, backed, favorites, disk, lost, quitting, window, darwin>>
        /\ (due /\ PersistStateDoc) \/ (~due /\ UNCHANGED <<mem, writing, queued>>)
    BY <1>2 DEF TimerEnds
  <2>2. WindowInv'
    BY <1>0, <2>1 DEF WindowInv, quitting
  <2>4. CASE due /\ PersistStateDoc
    <3> DEFINE data == [mem EXCEPT !.doc = doc']
    <3>1. Save(data)
      BY <2>4 DEF PersistStateDoc
    <3>2. data \in Data /\ data.doc = doc' /\ data.favorites = mem.favorites /\ mem.doc <= data.doc
      BY <1>d, <2>1 DEF Data
    <3> HIDE DEF data
    <3>3. WriterInv' /\ mem' = data /\ QuitInv'
      BY <1>0, <2>1, <3>1, <3>2, Saved, FlushWaits DEF quitting
    <3>4. mem'.doc = doc' /\ mem'.favorites = favorites' /\ favorites' \subseteq FavUrl
      BY <1>0, <2>1, <3>2, <3>3 DEF ThrottleInv
    <3>5. ThrottleInv'
      BY <1>d, <2>1, <3>4, Fresh, Zenon
    <3> QED BY <1>d, <2>1, <2>2, <3>3, <3>5 DEF DesktopInv
  <2>5. CASE ~due /\ UNCHANGED <<mem, writing, queued>>
    <3>1. WriterInv' /\ QuitInv'
      BY <1>0, <2>1, <2>5 DEF WriterInv, QuitInv, quitting
    <3>3. ThrottleInv'
      BY <1>0, <2>1, <2>5 DEF ThrottleInv
    <3> QED BY <1>d, <2>1, <2>2, <3>1, <3>3 DEF DesktopInv
  <2> QED BY <2>1, <2>4, <2>5
<1>3. ASSUME NEW new \in SUBSET FavUrl, SetFavorites(new) PROVE DesktopInv' /\ disk'.doc >= disk.doc
  <2>1. /\ favorites' = new /\ Save([mem EXCEPT !.favorites = new])
        /\ UNCHANGED <<phase, backed, doc, timer, due, disk, lost, quitting, window, darwin>>
    BY <1>3 DEF SetFavorites
  <2> DEFINE data == [mem EXCEPT !.favorites = new]
  <2>2. data \in Data /\ data.doc = mem.doc /\ data.favorites = new /\ mem.doc <= data.doc
    BY <1>d DEF Data
  <2>s. Save(data)
    BY <2>1
  <2> HIDE DEF data
  <2>3. WriterInv' /\ mem' = data /\ QuitInv'
    BY <1>0, <2>1, <2>2, <2>s, Saved, FlushWaits DEF quitting
  <2>4. WindowInv'
    BY <1>0, <2>1 DEF WindowInv, quitting
  <2>5. mem'.doc = mem.doc /\ mem'.favorites = favorites'
    BY <2>1, <2>2, <2>3
  <2>6. ThrottleInv'
    BY <1>0, <2>1, <2>5 DEF ThrottleInv
  <2> QED BY <1>d, <2>1, <2>3, <2>4, <2>6 DEF DesktopInv
<1>4. CASE QuitAsked
  <2>1. /\ quitAsked' = TRUE /\ Quit
        /\ UNCHANGED <<phase, backed, doc, favorites, disk, lost, window, darwin>>
    BY <1>4 DEF QuitAsked
  <2>2. WriterInv' /\ ThrottleInv' /\ QuitInv'
    BY <1>0, <2>1, QuitKeeps
  <2>3. phase = "up"
    BY <1>4 DEF QuitAsked, Up
  <2>4. WindowInv'
    BY <1>0, <2>1, <2>3 DEF WindowInv
  <2> QED BY <1>d, <2>1, <2>2, <2>4 DEF DesktopInv
<1>5. ASSUME NEW w \in Window, Close(w) PROVE DesktopInv' /\ disk'.doc >= disk.doc
  <2>1. /\ phase = "up" /\ UNCHANGED <<phase, backed, doc, favorites, disk, lost, quitAsked, darwin>>
        /\ window' = [window EXCEPT ![w] = IF Hides THEN "hidden" ELSE "closed"]
    BY <1>5 DEF Close, Up
  <2>2. window' \in [Window -> {"open", "hidden", "closed"}]
    BY <1>0, <2>1 DEF WindowInv
  <2>3. CASE Hides
    <3>1. /\ leaving' = FALSE /\ ~isQuitting
          /\ UNCHANGED <<isQuitting, storageFlushed, flush, owed, mem, timer, due, writing, queued>>
      BY <1>5, <2>3 DEF Close, Hides
    <3>2. WriterInv' /\ ThrottleInv' /\ QuitInv'
      BY <1>0, <2>1, <3>1 DEF WriterInv, ThrottleInv, QuitInv
    <3>3. WindowInv'
      BY <1>0, <2>1, <2>2, <3>1 DEF WindowInv
    <3> QED BY <1>d, <2>1, <3>2, <3>3 DEF DesktopInv
  <2>4. CASE ~Hides /\ leaving
    <3>1. UNCHANGED <<isQuitting, storageFlushed, flush, leaving, owed, mem, timer, due, writing, queued>>
      BY <1>5, <2>4 DEF Close
    <3>2. WriterInv' /\ ThrottleInv' /\ QuitInv'
      BY <1>0, <2>1, <3>1 DEF WriterInv, ThrottleInv, QuitInv
    <3>3. WindowInv'
      BY <1>0, <2>1, <2>2, <3>1 DEF WindowInv
    <3> QED BY <1>d, <2>1, <3>2, <3>3 DEF DesktopInv
  <2>5. CASE ~Hides /\ ~leaving
    <3>1. Quit
      BY <1>5, <2>5 DEF Close
    <3>2. WriterInv' /\ ThrottleInv' /\ QuitInv'
      BY <1>0, <2>1, <3>1, QuitKeeps
    <3>3. darwin => isQuitting
      BY <2>5 DEF Hides
    <3>4. WindowInv'
      BY <1>0, <2>1, <2>2, <3>3 DEF WindowInv
    <3> QED BY <1>d, <2>1, <3>2, <3>4 DEF DesktopInv
  <2> QED BY <2>3, <2>4, <2>5
<1>6. CASE Activate
  <2>1. /\ window' = [w \in Window |-> "open"]
        /\ UNCHANGED <<phase, backed, doc, favorites, storage, quitting, darwin>>
    BY <1>6 DEF Activate
  <2>2. WriterInv' /\ ThrottleInv' /\ QuitInv' /\ WindowInv'
    BY <1>0, <2>1 DEF WriterInv, ThrottleInv, QuitInv, WindowInv, storage, quitting
  <2> QED BY <1>d, <2>1, <2>2 DEF DesktopInv, storage
<1>7. CASE Exit \/ StreamsArrive \/ Crash
  <2>1. /\ phase' \in {"failed", "crashed"} \/ (phase' = "exited" /\ leaving)
        /\ UNCHANGED <<backed, doc, favorites, storage, quitting, window, darwin>>
    BY <1>7 DEF Exit, StreamsArrive, Crash, Ends
  <2>2. WriterInv' /\ ThrottleInv' /\ QuitInv'
    BY <1>0, <2>1 DEF WriterInv, ThrottleInv, QuitInv, storage, quitting
  <2>3. WindowInv'
    BY <1>0, <2>1 DEF WindowInv, quitting
  <2> QED BY <1>d, <2>1, <2>2, <2>3 DEF DesktopInv, storage
<1>8. ASSUME NEW readable \in BOOLEAN, Start(readable) PROVE DesktopInv' /\ disk'.doc >= disk.doc
  <2> DEFINE data == IF readable THEN disk ELSE Nothing
  <2>1. /\ phase' = "up" /\ backed' = readable
        /\ doc' = data.doc /\ favorites' = data.favorites /\ mem' = data
        /\ timer' = FALSE /\ due' = FALSE /\ writing' = Idle /\ queued' = Idle /\ lost' = FALSE
        /\ isQuitting' = FALSE /\ storageFlushed' = FALSE /\ flush' = {} /\ leaving' = FALSE
        /\ owed' = 0 /\ quitAsked' = FALSE
        /\ window' = [w \in Window |-> "open"]
        /\ UNCHANGED <<disk, darwin>>
    BY <1>8 DEF Start, Loaded
  <2>2. data \in Data /\ (readable => data = disk) /\ 0 \in 0 .. MaxChanges
    BY <1>d, ChangesAssumption DEF Nothing, Data
  <2>3. data.doc \in 0 .. MaxChanges /\ data.favorites \subseteq FavUrl
    BY <2>2 DEF Data
  <2> HIDE DEF data
  <2>4. WriterInv'
    <3>1. mem' \in Data /\ disk' \in Data /\ writing' = Idle /\ queued' = Idle
      BY <1>d, <2>1, <2>2
    <3>2. backed' => disk' = mem' /\ disk'.doc <= mem'.doc
      BY <1>d, <2>1, <2>2
    <3>3. backed' \in BOOLEAN /\ lost' \in BOOLEAN
      BY <2>1
    <3> QED BY <3>1, <3>2, <3>3 DEF WriterInv
  <2>5. ThrottleInv'
    BY <2>1, <2>2, <2>3, Fresh, Zenon
  <2>6. QuitInv'
    BY <2>1, <2>2 DEF QuitInv
  <2>7. WindowInv'
    BY <1>0, <2>1 DEF WindowInv
  <2> QED BY <1>d, <2>1, <2>4, <2>5, <2>6, <2>7 DEF DesktopInv
<1>9. CASE UNCHANGED desktopVars
  <2>1. UNCHANGED <<phase, backed, doc, favorites, storage, quitting, window, darwin>>
    BY <1>9 DEF desktopVars
  <2>2. WriterInv' /\ ThrottleInv' /\ QuitInv' /\ WindowInv'
    BY <1>0, <2>1 DEF WriterInv, ThrottleInv, QuitInv, WindowInv, storage, quitting
  <2> QED BY <1>d, <2>1, <2>2 DEF DesktopInv, storage
<1>10. ASSUME NEW url \in FavUrl, AddFavorite(url) \/ RemoveFavorite(url) PROVE DesktopInv' /\ disk'.doc >= disk.doc
  <2>1. favorites \union {url} \in SUBSET FavUrl /\ favorites \ {url} \in SUBSET FavUrl
    BY <1>0 DEF ThrottleInv
  <2> QED BY <1>3, <1>10, <2>1 DEF AddFavorite, RemoveFavorite
<1> QED BY <1>1, <1>2, <1>4, <1>5, <1>6, <1>7, <1>8, <1>9, <1>10, WriteKeeps DEF DesktopNext

\* The app starts with an empty document, all of it on disk.
LEMMA DesktopStart == DesktopInit => DesktopInv
<1> SUFFICES ASSUME DesktopInit PROVE DesktopInv
  OBVIOUS
<1>1. 0 \in 0 .. MaxChanges
  BY ChangesAssumption
<1>2. Nothing \in Data /\ Nothing.doc = 0 /\ Nothing.favorites = {}
  BY <1>1 DEF Nothing, Data
<1>3. WriterInv
  <2>1. mem \in Data /\ disk = mem /\ disk.doc <= mem.doc /\ writing = Idle /\ queued = Idle
    BY <1>2 DEF DesktopInit
  <2>2. backed \in BOOLEAN /\ lost \in BOOLEAN
    BY DEF DesktopInit
  <2> QED BY <2>1, <2>2 DEF WriterInv
<1>4. ThrottleInv
  <2>1. timer \in BOOLEAN /\ due \in BOOLEAN /\ ~due
    BY DEF DesktopInit
  <2>2. doc = 0 /\ favorites = {} /\ mem.doc = 0 /\ mem.favorites = {}
    BY <1>2 DEF DesktopInit
  <2>3. mem.doc <= doc
    BY <2>2
  <2> QED BY <1>1, <2>1, <2>2, <2>3 DEF ThrottleInv
<1>5. QuitInv
  BY <1>1 DEF DesktopInit, QuitInv
<1>6. WindowInv
  BY DEF DesktopInit, WindowInv
<1> QED BY <1>3, <1>4, <1>5, <1>6 DEF DesktopInv

\* The invariant says what is promised of the file, of a quit and of macOS.
LEMMA DesktopSound == DesktopInv => SettledIsSaved /\ QuitSaves /\ HidesOnMac /\ DesktopTypeOK
<1> SUFFICES ASSUME DesktopInv PROVE SettledIsSaved /\ QuitSaves /\ HidesOnMac /\ DesktopTypeOK
  OBVIOUS
<1>0. WriterInv /\ ThrottleInv /\ QuitInv /\ WindowInv
  BY DEF DesktopInv
<1>1. SettledIsSaved
  <2> SUFFICES ASSUME backed, ~due, writing = Idle, ~lost PROVE disk.doc = doc /\ disk.favorites = favorites
    BY DEF SettledIsSaved
  <2>1. disk = mem
    BY <1>0 DEF WriterInv
  <2> QED BY <1>0, <2>1 DEF ThrottleInv
<1>2. QuitSaves
  <2> SUFFICES ASSUME phase = "exited", backed, ~lost PROVE disk.doc >= owed
    BY DEF QuitSaves
  <2>1. storageFlushed
    BY <1>0 DEF WindowInv, QuitInv
  <2>2. owed <= disk.doc
    BY <1>0, <2>1 DEF QuitInv
  <2> QED BY <2>2
<1>3. HidesOnMac
  BY <1>0 DEF HidesOnMac, WindowInv, QuitInv
<1>4. /\ darwin \in BOOLEAN /\ phase \in {"up", "exited", "failed", "crashed"}
      /\ doc \in 0 .. MaxChanges /\ favorites \subseteq FavUrl
      /\ mem \in Data /\ disk \in Data
      /\ writing = Idle \/ writing \in Data
      /\ queued = Idle \/ (queued \in Data /\ writing # Idle)
      /\ due => timer
      /\ flush \subseteq {"idle writer", "queued", "second"} /\ (flush # {} => writing # Idle)
      /\ window \in [Window -> {"open", "hidden", "closed"}]
  BY <1>0 DEF WriterInv, ThrottleInv, QuitInv, WindowInv
<1>5. storageFlushed \/ leaving => isQuitting
  BY <1>0 DEF QuitInv
<1> QED BY <1>1, <1>2, <1>3, <1>4, <1>5 DEF DesktopTypeOK

\* What is settled is on disk, a quit keeps what it found, a window alone does not end the
\* app on macOS, and the file never goes back.
THEOREM DesktopSaves == DesktopSpec => []DesktopTypeOK /\ [](SettledIsSaved /\ QuitSaves /\ HidesOnMac) /\ NeverBack
<1>1. DesktopInv /\ [DesktopNext]_desktopVars => [disk.doc' >= disk.doc]_desktopVars
  BY DesktopKeeps
<1> QED BY DesktopStart, DesktopKeeps, DesktopSound, <1>1, PTL DEF DesktopSpec, NeverBack

-----------------------------------------------------------------------------
(* The services (Services).                                                *)

\* Commands on their way come after the one carried out, each after the one before.
Rising(q, from, upTo) ==
  /\ q \in Seq(Nat)
  /\ \A i \in 1 .. Len(q) : from < q[i] /\ q[i] <= upTo
  /\ \A i, j \in 1 .. Len(q) : i < j => q[i] < q[j]

\* The newest status on its way is the service's, and what is shown is the newest that came.
DelayInv ==
  /\ open \in BOOLEAN /\ served \in Nat /\ issued \in Nat /\ served <= issued
  /\ Rising(enqueued, served, issued) /\ Len(enqueued) <= MaxEnqueued /\ (enqueued # <<>> => ~open)
  /\ Rising(toService, served, issued) /\ toClient \in Seq(Nat)
  /\ toService # <<>> \/ toClient # <<>> => open
  /\ open => IF toClient = <<>> THEN shown = [status |-> served, isConnected |-> TRUE]
             ELSE toClient[Len(toClient)] = served

\* A queue goes on rising when a new command joins it.
LEMMA RisingAppend ==
  ASSUME NEW q, NEW s \in Nat, NEW n \in Nat, s <= n, Rising(q, s, n)
  PROVE  Rising(Append(q, n + 1), s, n + 1) /\ Rising(q, s, n + 1)
<1>0. \A i \in 1 .. Len(q) : q[i] \in Nat /\ s < q[i] /\ q[i] <= n
  BY DEF Rising
<1>1. Rising(q, s, n + 1)
  BY <1>0 DEF Rising
<1>2. DEFINE r == Append(q, n + 1)
<1>3. r \in Seq(Nat) /\ Len(r) = Len(q) + 1 /\ Len(q) \in Nat /\ r[Len(q) + 1] = n + 1 /\ \A i \in 1 .. Len(q) : r[i] = q[i]
  BY DEF Rising
<1> HIDE DEF r
<1>4. \A i \in 1 .. Len(r) : (i \in 1 .. Len(q) /\ r[i] = q[i]) \/ (i = Len(q) + 1 /\ r[i] = n + 1)
  BY <1>3
<1>5. \A i, j \in 1 .. Len(q) : i < j => q[i] < q[j]
  BY DEF Rising
<1>7. ASSUME NEW i \in 1 .. Len(r), NEW j \in 1 .. Len(r), i < j PROVE r[i] < r[j]
  <2>1. i \in 1 .. Len(q) /\ r[i] = q[i] /\ q[i] \in Nat /\ q[i] <= n
    BY <1>0, <1>3, <1>7
  <2>2. CASE j \in 1 .. Len(q)
    BY <1>3, <1>5, <1>7, <2>1, <2>2
  <2>3. CASE j = Len(q) + 1
    BY <1>3, <2>1, <2>3
  <2> QED BY <1>4, <2>2, <2>3
<1>8. \A i \in 1 .. Len(r) : s < r[i] /\ r[i] <= n + 1
  BY <1>0, <1>4
<1>6. Rising(r, s, n + 1)
  BY <1>3, <1>7, <1>8 DEF Rising
<1> QED BY <1>1, <1>6 DEF r

\* A queue that has been served one command rises from that one.
LEMMA RisingTail ==
  ASSUME NEW q, NEW s \in Nat, NEW n \in Nat, Rising(q, s, n), q # <<>>
  PROVE  /\ Head(q) \in Nat /\ s < Head(q) /\ Head(q) <= n
         /\ Rising(Tail(q), Head(q), n)
<1>1. q \in Seq(Nat) /\ Len(q) \in Nat /\ Len(q) > 0 /\ Head(q) = q[1]
  BY EmptySeq DEF Rising
<1>2. Tail(q) \in Seq(Nat) /\ Len(Tail(q)) = Len(q) - 1 /\ \A i \in 1 .. Len(Tail(q)) : Tail(q)[i] = q[i + 1]
  BY <1>1
<1>3. Head(q) \in Nat /\ s < Head(q) /\ Head(q) <= n
  BY <1>1 DEF Rising
<1>4. \A i \in 1 .. Len(Tail(q)) : i + 1 \in 1 .. Len(q) /\ 1 < i + 1
  BY <1>1, <1>2
<1>5. \A i \in 1 .. Len(Tail(q)) : Head(q) < Tail(q)[i] /\ Tail(q)[i] <= n
  BY <1>1, <1>2, <1>4 DEF Rising
<1>6. \A i, j \in 1 .. Len(Tail(q)) : i < j => Tail(q)[i] < Tail(q)[j]
  BY <1>1, <1>2, <1>4 DEF Rising
<1> QED BY <1>2, <1>3, <1>5, <1>6 DEF Rising

\* What is last in the sequence once an element has been taken from its front, or joined it.
LEMMA LastOne ==
  ASSUME NEW q \in Seq(Nat)
  PROVE  /\ q # <<>> => /\ Tail(q) \in Seq(Nat) /\ Head(q) \in Nat
                        /\ IF Tail(q) = <<>> THEN Head(q) = q[Len(q)]
                           ELSE Tail(q)[Len(Tail(q))] = q[Len(q)]
         /\ \A x \in Nat : Append(q, x) \in Seq(Nat) /\ Append(q, x) # <<>> /\ Append(q, x)[Len(Append(q, x))] = x
<1>1. ASSUME q # <<>> PROVE /\ Tail(q) \in Seq(Nat) /\ Head(q) \in Nat
                            /\ IF Tail(q) = <<>> THEN Head(q) = q[Len(q)]
                               ELSE Tail(q)[Len(Tail(q))] = q[Len(q)]
  <2>1. Len(q) \in Nat /\ Len(q) > 0 /\ Head(q) = q[1] /\ q[1] \in Nat
    BY <1>1, EmptySeq
  <2>2. Tail(q) \in Seq(Nat) /\ Len(Tail(q)) = Len(q) - 1 /\ \A i \in 1 .. Len(Tail(q)) : Tail(q)[i] = q[i + 1]
    BY <1>1
  <2>0. Tail(q) = <<>> <=> Len(Tail(q)) = 0
    BY <2>2, EmptySeq
  <2>3. CASE Len(q) = 1
    BY <2>0, <2>1, <2>2, <2>3
  <2>4. CASE Len(q) > 1
    <3>1. Tail(q) # <<>>
      BY <2>0, <2>2, <2>4
    <3>2. Len(q) - 1 \in 1 .. Len(Tail(q)) /\ (Len(q) - 1) + 1 = Len(q)
      BY <2>1, <2>2, <2>4
    <3> QED BY <2>1, <2>2, <3>1, <3>2
  <2> QED BY <2>1, <2>3, <2>4
<1>2. ASSUME NEW x \in Nat
      PROVE  Append(q, x) \in Seq(Nat) /\ Append(q, x) # <<>> /\ Append(q, x)[Len(Append(q, x))] = x
  OBVIOUS
<1> QED BY <1>1, <1>2

\* The clients keep their places on the way to the service and back.
LEMMA DelayKeeps ==
  ASSUME DelayInv, [DelayNext]_delayVars
  PROVE  DelayInv' /\ served' >= served
<1>0. /\ open \in BOOLEAN /\ served \in Nat /\ issued \in Nat /\ served <= issued
      /\ toClient \in Seq(Nat) /\ Rising(enqueued, served, issued) /\ Rising(toService, served, issued)
  BY DEF DelayInv
<1>e. Rising(<<>>, served, issued)
  BY <1>0 DEF Rising
<1>1. CASE Open
  <2>1. /\ open' = TRUE /\ toService' = enqueued /\ enqueued' = <<>> /\ toClient' = <<served>>
        /\ UNCHANGED <<served, issued>>
    BY <1>1 DEF Open, HeldAfterOpen
  <2>2. toClient' # <<>> /\ toClient' \in Seq(Nat) /\ toClient'[Len(toClient')] = served
    BY <1>0, <2>1
  <2>3. Rising(toService', served, issued) /\ Rising(enqueued', served, issued) /\ Len(enqueued') <= MaxEnqueued
    BY <1>0, <1>e, <2>1, EnqueuedAssumption
  <2> QED BY <1>0, <2>1, <2>2, <2>3 DEF DelayInv
<1>2. CASE SocketCloses
  <2>1. /\ open' = FALSE /\ toService' = <<>> /\ toClient' = <<>> /\ UNCHANGED <<enqueued, served, issued>>
    BY <1>2 DEF SocketCloses
  <2>2. Len(enqueued) <= MaxEnqueued
    BY DEF DelayInv
  <2>3. toClient' \in Seq(Nat) /\ open' \in BOOLEAN /\ ~open'
    BY <2>1, EmptySeq
  <2>4. Rising(enqueued', served', issued') /\ Rising(toService', served', issued')
    BY <1>0, <1>e, <2>1
  <2> QED BY <1>0, <2>1, <2>2, <2>3, <2>4 DEF DelayInv
<1>3. CASE Command
  <2>1. /\ issued' = issued + 1 /\ UNCHANGED <<open, toClient, served, shown>>
        /\ \/ open /\ toService' = Append(toService, issued + 1) /\ UNCHANGED enqueued
           \/ ~open /\ UNCHANGED <<enqueued, toService>>
           \/ /\ ~open /\ Len(enqueued) < MaxEnqueued /\ enqueued' = Append(enqueued, issued + 1)
              /\ UNCHANGED toService
    BY <1>0, <1>3 DEF Command
  <2>2. /\ Rising(Append(toService, issued + 1), served, issued + 1) /\ Rising(toService, served, issued + 1)
        /\ Rising(Append(enqueued, issued + 1), served, issued + 1) /\ Rising(enqueued, served, issued + 1)
    BY <1>0, RisingAppend
  <2>3. Rising(toService', served, issued + 1) /\ Rising(enqueued', served, issued + 1)
    BY <2>1, <2>2
  <2>4. Len(Append(enqueued, issued + 1)) = Len(enqueued) + 1 /\ Len(enqueued) \in Nat
    BY <1>0 DEF Rising
  <2>5. Len(enqueued') <= MaxEnqueued
    BY <2>1, <2>4, EnqueuedAssumption DEF DelayInv
  <2>6. /\ enqueued' # <<>> => ~open
        /\ toService' # <<>> \/ toClient # <<>> => open
    BY <2>1 DEF DelayInv
  <2>7. issued' \in Nat /\ served <= issued' /\ served \in Nat
    BY <1>0, <2>1
  <2>8. open => IF toClient' = <<>> THEN shown' = [status |-> served', isConnected |-> TRUE]
                ELSE toClient'[Len(toClient')] = served'
    BY <2>1 DEF DelayInv
  <2> QED BY <1>0, <2>1, <2>3, <2>5, <2>6, <2>7, <2>8 DEF DelayInv
<1>4. CASE Serve
  <2>1. /\ toService # <<>> /\ served' = Head(toService) /\ toService' = Tail(toService)
        /\ toClient' = Append(toClient, Head(toService)) /\ UNCHANGED <<open, enqueued, issued>>
    BY <1>4 DEF Serve
  <2>2. open /\ enqueued = <<>>
    BY <2>1 DEF DelayInv
  <2>3. /\ served' \in Nat /\ served < served' /\ served' <= issued
        /\ Rising(toService', served', issued)
    BY <1>0, <2>1, RisingTail
  <2>4. toClient' \in Seq(Nat) /\ toClient' # <<>> /\ toClient'[Len(toClient')] = served'
    BY <1>0, <2>1, <2>3, LastOne
  <2>5. Rising(enqueued', served', issued) /\ Len(enqueued') <= MaxEnqueued
    BY <2>1, <2>2, EnqueuedAssumption DEF Rising
  <2> QED BY <1>0, <2>1, <2>2, <2>3, <2>4, <2>5 DEF DelayInv
<1>5. CASE StatusArrives
  <2>1. /\ toClient # <<>> /\ status' = Head(toClient) /\ toClient' = Tail(toClient)
        /\ EmitState(open, Head(toClient)) /\ UNCHANGED <<open, enqueued, toService, served, issued>>
    BY <1>5 DEF StatusArrives
  <2>2. open /\ toClient[Len(toClient)] = served
    BY <2>1 DEF DelayInv
  <2>3. /\ toClient' \in Seq(Nat) /\ Head(toClient) \in Nat
        /\ IF toClient' = <<>> THEN Head(toClient) = served ELSE toClient'[Len(toClient')] = served
    BY <1>0, <2>1, <2>2, LastOne
  <2>4. shown' = [status |-> Head(toClient), isConnected |-> TRUE]
    BY <2>1, <2>2, <2>3, StatusAssumption DEF EmitState
  <2>5. IF toClient' = <<>> THEN shown' = [status |-> served, isConnected |-> TRUE]
        ELSE toClient'[Len(toClient')] = served
    BY <2>3, <2>4
  <2>6. Len(enqueued) <= MaxEnqueued /\ (enqueued # <<>> => ~open)
    BY DEF DelayInv
  <2>7. Rising(enqueued', served', issued') /\ Rising(toService', served', issued')
    <3>1. enqueued' = enqueued /\ toService' = toService /\ served' = served /\ issued' = issued
      BY <2>1
    <3> QED BY <1>0, <3>1
  <2>8. toService' # <<>> \/ toClient' # <<>> => open'
    BY <2>1, <2>2
  <2>9. /\ open' \in BOOLEAN /\ served' \in Nat /\ issued' \in Nat /\ served' <= issued'
        /\ Len(enqueued') <= MaxEnqueued /\ (enqueued' # <<>> => ~open') /\ served' >= served
    BY <1>0, <2>1, <2>6
  <2>10. open' => IF toClient' = <<>> THEN shown' = [status |-> served', isConnected |-> TRUE]
                  ELSE toClient'[Len(toClient')] = served'
    BY <2>1, <2>5
  <2> QED BY <2>3, <2>7, <2>8, <2>9, <2>10 DEF DelayInv
<1>6. CASE UNCHANGED delayVars
  BY <1>0, <1>6 DEF delayVars, DelayInv
<1> QED BY <1>1, <1>2, <1>3, <1>4, <1>5, <1>6 DEF DelayNext

\* Of the bot: a stream that is not listed as announced has no interval, but for those that
\* dwells which overtook an announcement have begun.
ChatInv ==
  /\ heard \in Link \union {NoLink} /\ listeningURL \in Link \union {NoLink}
  /\ dwell \in {NoLink, listeningURL} /\ entries \subseteq Link
  /\ saying \in [Link -> Nat] /\ timers \in [Link -> Nat] /\ overtaken \in [Link -> Nat]
  /\ \A l \in Link : saying[l] + timers[l] <= 1 + overtaken[l]
  /\ \A l \in Link : l \notin entries => timers[l] <= overtaken[l]

\* An announcement is one more of the stream that is heard, or there is none.
LEMMA Announced ==
  ASSUME ChatInv, Announce, NEW l \in Link, listeningURL = l
  PROVE  /\ saying' \in [Link -> Nat]
         /\ saying'[l] \in {saying[l], saying[l] + 1}
         /\ \A k \in Link : k # l => saying'[k] = saying[k]
BY DEF ChatInv, Announce

\* What happens to one stream leaves the others as they were.
LEMMA ChatElsewhere ==
  ASSUME ChatInv, NEW l \in Link,
         heard' \in Link \union {NoLink}, listeningURL' \in Link \union {NoLink},
         dwell' \in {NoLink, listeningURL'}, entries' \subseteq Link,
         saying' \in [Link -> Nat], timers' \in [Link -> Nat], overtaken' \in [Link -> Nat],
         \A k \in Link : k # l => /\ saying'[k] = saying[k] /\ timers'[k] = timers[k]
                                  /\ overtaken'[k] = overtaken[k] /\ (k \in entries' <=> k \in entries),
         saying'[l] + timers'[l] <= 1 + overtaken'[l],
         l \notin entries' => timers'[l] <= overtaken'[l]
  PROVE  ChatInv'
<1>1. \A k \in Link : saying'[k] + timers'[k] <= 1 + overtaken'[k]
  BY DEF ChatInv
<1>2. \A k \in Link : k \notin entries' => timers'[k] <= overtaken'[k]
  BY DEF ChatInv
<1> QED BY <1>1, <1>2 DEF ChatInv

\* The bot keeps one chain per stream, and one for each dwell that overtook an announcement.
LEMMA ChatKeeps ==
  ASSUME ChatInv, [ChatNext]_announceVars
  PROVE  ChatInv'
<1>0. /\ heard \in Link \union {NoLink} /\ listeningURL \in Link \union {NoLink}
      /\ dwell \in {NoLink, listeningURL} /\ entries \subseteq Link
      /\ saying \in [Link -> Nat] /\ timers \in [Link -> Nat] /\ overtaken \in [Link -> Nat]
      /\ \A l \in Link : saying[l] + timers[l] <= 1 + overtaken[l]
      /\ \A l \in Link : l \notin entries => timers[l] <= overtaken[l]
  BY DEF ChatInv
<1>1. ASSUME NEW l \in Link \union {NoLink}, Hear(l) PROVE ChatInv'
  <2>1. heard' = l /\ UNCHANGED <<entries, timers, saying, overtaken>>
    BY <1>1 DEF Hear
  <2>2. \/ UNCHANGED <<listeningURL, dwell>>
        \/ listeningURL' = l /\ dwell' = l
    BY <1>1 DEF Hear
  <2> QED BY <1>0, <2>1, <2>2 DEF ChatInv
<1>2. CASE DwellEnds
  <2>1. dwell # NoLink /\ dwell' = NoLink /\ UNCHANGED <<heard, listeningURL, entries, timers>>
    BY <1>2 DEF DwellEnds
  <2>2. dwell = listeningURL /\ dwell \in Link
    BY <1>0, <2>1
  <2>3. CASE dwell \in entries
    <3>1. UNCHANGED <<saying, overtaken>>
      BY <1>2, <2>3 DEF DwellEnds, Overtakes
    <3> QED BY <1>0, <2>1, <3>1 DEF ChatInv
  <2>4. CASE dwell \notin entries
    <3>1. Announce
      BY <1>2, <2>4 DEF DwellEnds
    <3>2. /\ saying' \in [Link -> Nat] /\ saying'[dwell] \in {saying[dwell], saying[dwell] + 1}
          /\ \A k \in Link : k # dwell => saying'[k] = saying[k]
      BY <2>2, <3>1, Announced
    <3>3. overtaken' = IF saying[dwell] > 0 THEN [overtaken EXCEPT ![dwell] = @ + 1] ELSE overtaken
      BY <1>2, <2>4 DEF DwellEnds, Overtakes
    <3>4. /\ overtaken' \in [Link -> Nat]
          /\ \A k \in Link : k # dwell => overtaken'[k] = overtaken[k]
          /\ overtaken'[dwell] = IF saying[dwell] > 0 THEN overtaken[dwell] + 1 ELSE overtaken[dwell]
      BY <1>0, <2>2, <3>3
    <3>5. timers[dwell] <= overtaken[dwell] /\ saying[dwell] + timers[dwell] <= 1 + overtaken[dwell]
      BY <1>0, <2>2, <2>4
    <3>6. saying[dwell] \in Nat /\ timers[dwell] \in Nat /\ overtaken[dwell] \in Nat
      BY <1>0, <2>2
    <3>7. saying'[dwell] + timers[dwell] <= 1 + overtaken'[dwell] /\ timers[dwell] <= overtaken'[dwell]
      BY <3>2, <3>4, <3>5, <3>6
    <3> QED BY <1>0, <2>1, <2>2, <3>2, <3>4, <3>7, ChatElsewhere
  <2> QED BY <2>3, <2>4
<1>3. ASSUME NEW l \in Link, IntervalEnds(l) PROVE ChatInv'
  <2>1. /\ timers[l] > 0 /\ timers' = [timers EXCEPT ![l] = @ - 1] /\ entries' = entries \ {l}
        /\ UNCHANGED <<heard, listeningURL, dwell, overtaken>>
    BY <1>3 DEF IntervalEnds
  <2>2. UNCHANGED saying \/ (listeningURL = l /\ Announce)
    BY <1>3 DEF IntervalEnds
  <2>3. /\ saying' \in [Link -> Nat] /\ saying'[l] \in {saying[l], saying[l] + 1}
        /\ \A k \in Link : k # l => saying'[k] = saying[k]
    BY <1>0, <2>2, Announced
  <2>4. /\ timers' \in [Link -> Nat] /\ timers'[l] = timers[l] - 1
        /\ \A k \in Link : k # l => timers'[k] = timers[k]
    BY <1>0, <2>1
  <2>5. saying[l] \in Nat /\ timers[l] \in Nat /\ overtaken[l] \in Nat
        /\ saying[l] + timers[l] <= 1 + overtaken[l]
    BY <1>0
  <2>6. saying'[l] + timers'[l] <= 1 + overtaken'[l] /\ timers'[l] <= overtaken'[l]
    BY <2>1, <2>3, <2>4, <2>5
  <2> QED BY <1>0, <2>1, <2>3, <2>4, <2>6, ChatElsewhere
<1>4. ASSUME NEW l \in Link, NEW ok \in BOOLEAN, SaySettles(l, ok) PROVE ChatInv'
  <2>1. /\ saying[l] > 0 /\ saying' = [saying EXCEPT ![l] = @ - 1]
        /\ UNCHANGED <<heard, listeningURL, dwell, overtaken>>
    BY <1>4 DEF SaySettles
  <2>2. \/ entries' = entries \union {l} /\ timers' = [timers EXCEPT ![l] = @ + 1]
        \/ UNCHANGED <<entries, timers>>
    BY <1>4 DEF SaySettles
  <2>3. /\ saying' \in [Link -> Nat] /\ saying'[l] = saying[l] - 1
        /\ \A k \in Link : k # l => saying'[k] = saying[k]
    BY <1>0, <2>1
  <2>4. /\ timers' \in [Link -> Nat] /\ entries' \subseteq Link
        /\ \A k \in Link : k # l => timers'[k] = timers[k] /\ (k \in entries' <=> k \in entries)
        /\ \/ timers'[l] = timers[l] + 1 /\ l \in entries'
           \/ timers'[l] = timers[l] /\ (l \in entries' <=> l \in entries)
    BY <1>0, <2>2
  <2>5. /\ saying[l] \in Nat /\ timers[l] \in Nat /\ overtaken[l] \in Nat
        /\ saying[l] + timers[l] <= 1 + overtaken[l]
        /\ l \notin entries => timers[l] <= overtaken[l]
    BY <1>0
  <2>6. saying'[l] + timers'[l] <= 1 + overtaken'[l] /\ (l \notin entries' => timers'[l] <= overtaken'[l])
    BY <2>1, <2>3, <2>4, <2>5
  <2> QED BY <1>0, <2>1, <2>3, <2>4, <2>6, ChatElsewhere
<1>5. CASE UNCHANGED announceVars
  BY <1>0, <1>5 DEF announceVars, ChatInv
<1> QED BY <1>1, <1>2, <1>3, <1>4, <1>5 DEF ChatNext

\* Of the votes: a tally under way has found all but those that came later.
VoteInv ==
  /\ votes \in [Idx -> Nat] /\ IsFiniteSet(Ballots)
  /\ cast \in Nat /\ counted \in Nat /\ missed \in Nat /\ late \in Nat
  /\ tally = None => late = 0
  /\ tally = None \/ (tally \in [idx : Idx, of : Nat] /\ Sum = tally.of + late)
  /\ VotesCountOnce

\* The ballots of one who votes are those there were, and one more.
LEMMA OneMore ==
  ASSUME votes \in [Idx -> Nat], NEW i \in Idx, votes' = [votes EXCEPT ![i] = @ + 1], IsFiniteSet(Ballots)
  PROVE  IsFiniteSet(Ballots)' /\ Sum' = Sum + 1 /\ Sum \in Nat
<1>1. Ballots' = Ballots \union {<<i, votes[i] + 1>>}
  <2>1. \A x : x \in Ballots <=> \E j \in Idx, n \in Nat : x = <<j, n>> /\ 1 <= n /\ n <= votes[j]
    BY Zenon, SMT DEF Ballots
  <2>2. \A x : x \in Ballots' <=> \E j \in Idx, n \in Nat : x = <<j, n>> /\ 1 <= n /\ n <= votes'[j]
    BY SMT DEF Ballots
  <2>3. \A j \in Idx : votes'[j] = IF j = i THEN votes[j] + 1 ELSE votes[j]
    OBVIOUS
  <2>4. \A j \in Idx, n \in Nat : 1 <= n /\ n <= votes'[j]
           <=> (1 <= n /\ n <= votes[j]) \/ (j = i /\ n = votes[i] + 1)
    BY <2>3
  <2>5. votes[i] + 1 \in Nat
    OBVIOUS
  <2>6. \A x : x \in Ballots' <=> x \in Ballots \/ x = <<i, votes[i] + 1>>
    BY <2>1, <2>2, <2>4, <2>5
  <2> QED BY <2>6
<1>2. <<i, votes[i] + 1>> \notin Ballots
  BY DEF Ballots
<1> QED BY <1>1, <1>2, FS_AddElement, FS_CardinalityType DEF Sum

\* Votes are kept until a tally that ends well has counted them.
LEMMA VotesKeep ==
  ASSUME VoteInv, [VoteNext]_voteVars
  PROVE  VoteInv'
<1>0. /\ votes \in [Idx -> Nat] /\ IsFiniteSet(Ballots)
      /\ cast \in Nat /\ counted \in Nat /\ missed \in Nat /\ late \in Nat
      /\ tally = None \/ (tally \in [idx : Idx, of : Nat] /\ Sum = tally.of + late)
      /\ cast = counted + Sum + missed
  BY DEF VoteInv, VotesCountOnce
<1>s. Sum \in Nat
  BY <1>0, FS_CardinalityType DEF Sum
<1>1. ASSUME NEW i \in Idx, Vote(i) PROVE VoteInv'
  <2>1. /\ votes' = [votes EXCEPT ![i] = @ + 1] /\ cast' = cast + 1 /\ UNCHANGED <<tally, counted, missed>>
        /\ late' = IF tally = None THEN 0 ELSE late + 1
    BY <1>1 DEF Vote
  <2>2. IsFiniteSet(Ballots)' /\ Sum' = Sum + 1
    BY <1>0, <2>1, OneMore
  <2>3. votes' \in [Idx -> Nat]
    BY <1>0, <2>1
  <2>4. tally' = None \/ (tally' \in [idx : Idx, of : Nat] /\ Sum' = tally'.of + late')
    <3>1. CASE tally = None
      BY <2>1, <3>1
    <3>2. CASE tally # None
      <4>1. tally \in [idx : Idx, of : Nat] /\ Sum = tally.of + late /\ tally.of \in Nat
        BY <1>0, <3>2
      <4>2. late' = late + 1 /\ tally' = tally
        BY <2>1, <3>2
      <4>3. Sum' = tally.of + late'
        BY <1>0, <2>2, <4>1, <4>2
      <4> QED BY <4>1, <4>2, <4>3
    <3> QED BY <3>1, <3>2
  <2>6. tally' = None => late' = 0
    BY <2>1
  <2>5. cast' = counted' + Sum' + missed' /\ cast' \in Nat /\ late' \in Nat
    BY <1>0, <1>s, <2>1, <2>2
  <2> QED BY <1>0, <2>1, <2>2, <2>3, <2>4, <2>5, <2>6 DEF VoteInv, VotesCountOnce
<1>2. CASE TallyVotes
  <2>1. UNCHANGED <<votes, cast, counted, missed, late>>
    BY <1>2 DEF TallyVotes
  <2>2. PICK i \in Leaders : tally' = [idx |-> i, of |-> Sum]
    BY <1>2 DEF TallyVotes
  <2>3. Ballots' = Ballots /\ Sum' = Sum
    BY <2>1 DEF Ballots, Sum
  <2>4. late = 0
    BY <1>2 DEF TallyVotes, VoteInv
  <2>5. tally' \in [idx : Idx, of : Nat] /\ tally'.of = Sum
    BY <1>s, <2>2 DEF Leaders
  <2> QED BY <1>0, <1>s, <2>1, <2>3, <2>4, <2>5 DEF VoteInv, VotesCountOnce
<1>3. ASSUME NEW ok \in BOOLEAN, TallySettles(ok) PROVE VoteInv'
  <2>1. /\ tally # None /\ tally' = None /\ late' = 0 /\ UNCHANGED cast
        /\ \/ counted' = counted + tally.of /\ votes' = NoVotes /\ missed' = missed + late
           \/ UNCHANGED <<counted, votes, missed>>
    BY <1>3 DEF TallySettles
  <2>2. CASE UNCHANGED <<counted, votes, missed>>
    <3>1. Ballots' = Ballots /\ Sum' = Sum
      BY <2>2 DEF Ballots, Sum
    <3> QED BY <1>0, <1>s, <2>1, <2>2, <3>1 DEF VoteInv, VotesCountOnce
  <2>3. CASE counted' = counted + tally.of /\ votes' = NoVotes /\ missed' = missed + late
    <3>1. Ballots' = {}
      BY <2>3 DEF Ballots, NoVotes
    <3>2. IsFiniteSet(Ballots') /\ Sum' = 0
      BY <3>1, FS_EmptySet DEF Sum
    <3>3. votes' \in [Idx -> Nat]
      BY <2>3 DEF NoVotes
    <3>4. tally.of \in Nat /\ Sum = tally.of + late
      BY <1>0, <2>1
    <3>5. counted' \in Nat /\ missed' \in Nat /\ cast' = counted' + Sum' + missed'
      BY <1>0, <2>1, <2>3, <3>2, <3>4
    <3> QED BY <1>0, <2>1, <3>2, <3>3, <3>5 DEF VoteInv, VotesCountOnce
  <2> QED BY <2>1, <2>2, <2>3
<1>4. CASE UNCHANGED voteVars
  BY <1>0, <1>4 DEF voteVars, VoteInv, VotesCountOnce, Sum, Ballots
<1> QED BY <1>1, <1>2, <1>3, <1>4 DEF VoteNext

ServicesInv == DelayInv /\ ChatInv /\ VoteInv

\* Nothing is on its way, nothing is announced and no vote is cast at the start.
LEMMA ServicesStart == ServicesInit => ServicesInv
<1> SUFFICES ASSUME ServicesInit PROVE ServicesInv
  OBVIOUS
<1>1. /\ open = FALSE /\ enqueued = <<>> /\ toService = <<>> /\ toClient = <<>> /\ served = 0 /\ issued = 0
      /\ heard = NoLink /\ listeningURL = NoLink /\ dwell = NoLink /\ entries = {}
      /\ timers = [l \in Link |-> 0] /\ saying = [l \in Link |-> 0]
      /\ overtaken = [l \in Link |-> 0]
      /\ votes = NoVotes /\ tally = None /\ counted = 0 /\ cast = 0 /\ late = 0 /\ missed = 0
  BY DEF ServicesInit
<1>2. <<>> \in Seq(Nat) /\ Len(<<>>) = 0
  BY EmptySeq
<1>3. Rising(enqueued, served, issued) /\ Rising(toService, served, issued)
  BY <1>1, <1>2 DEF Rising
<1>4. DelayInv
  <2>3. Len(enqueued) = 0
    BY <1>1, <1>2
  <2>4. MaxEnqueued \in Nat
    BY EnqueuedAssumption
  <2>5. served = 0 /\ issued = 0 /\ open = FALSE
    BY <1>1
  <2>1. open \in BOOLEAN /\ served \in Nat /\ issued \in Nat /\ served <= issued /\ Len(enqueued) <= MaxEnqueued
    <3>1. open \in BOOLEAN
      BY <2>5
    <3>2. served \in Nat /\ issued \in Nat /\ served <= issued /\ Len(enqueued) <= MaxEnqueued
      BY <2>3, <2>4, <2>5
    <3> QED BY <3>1, <3>2
  <2>2. toClient \in Seq(Nat) /\ ~open /\ toService = <<>> /\ toClient = <<>>
    BY <1>1, <1>2
  <2> QED BY <1>3, <2>1, <2>2 DEF DelayInv
<1>5. ChatInv
  BY <1>1 DEF ChatInv
<1>6. votes \in [Idx -> Nat] /\ Ballots = {}
  BY <1>1 DEF NoVotes, Ballots
<1>7. IsFiniteSet(Ballots) /\ Sum = 0
  BY <1>6, FS_EmptySet DEF Sum
<1>8. VoteInv
  BY <1>1, <1>6, <1>7 DEF VoteInv, VotesCountOnce
<1> QED BY <1>4, <1>5, <1>8 DEF ServicesInv

\* Each client keeps what is its and leaves the others alone.
LEMMA ServicesKeep == ServicesInv /\ [ServicesNext]_serviceVars => ServicesInv' /\ served' >= served
<1> SUFFICES ASSUME ServicesInv, [ServicesNext]_serviceVars PROVE ServicesInv' /\ served' >= served
  OBVIOUS
<1>0. DelayInv /\ ChatInv /\ VoteInv
  BY DEF ServicesInv
<1>1. [DelayNext]_delayVars /\ [ChatNext]_announceVars /\ [VoteNext]_voteVars
  <2>1. CASE DelayNext
    <3>1. UNCHANGED <<announceVars, voteVars>>
      BY <2>1 DEF DelayNext, Open, SocketCloses, Command, Serve, StatusArrives
    <3> QED BY <2>1, <3>1
  <2>2. CASE ChatNext
    <3>1. UNCHANGED <<delayVars, voteVars>>
      BY <2>2 DEF ChatNext, Hear, DwellEnds, IntervalEnds, SaySettles
    <3> QED BY <2>2, <3>1
  <2>3. CASE VoteNext
    <3>1. UNCHANGED <<delayVars, announceVars>>
      BY <2>3 DEF VoteNext, Vote, TallyVotes, TallySettles
    <3> QED BY <2>3, <3>1
  <2>4. CASE UNCHANGED serviceVars
    BY <2>4 DEF serviceVars
  <2> QED BY <2>1, <2>2, <2>3, <2>4 DEF ServicesNext
<1> QED BY <1>0, <1>1, DelayKeeps, ChatKeeps, VotesKeep DEF ServicesInv

\* The invariants say what the clients promise, and more than the types.
LEMMA ServicesSound == ServicesInv => ShownIsServed /\ ChainsAreFew /\ VotesCountOnce /\ ServicesTypeOK
<1> SUFFICES ASSUME ServicesInv PROVE ShownIsServed /\ ChainsAreFew /\ VotesCountOnce /\ ServicesTypeOK
  OBVIOUS
<1>0. DelayInv /\ ChatInv /\ VoteInv
  BY DEF ServicesInv
<1>1. ShownIsServed
  BY <1>0 DEF DelayInv, ShownIsServed
<1>2. /\ saying \in [Link -> Nat] /\ timers \in [Link -> Nat] /\ overtaken \in [Link -> Nat]
      /\ \A l \in Link : saying[l] + timers[l] <= 1 + overtaken[l]
  BY <1>0 DEF ChatInv
<1>3. ChainsAreFew
  BY <1>2 DEF ChainsAreFew, Chains
<1>4. VotesCountOnce
  BY <1>0 DEF VoteInv
<1>5. /\ Len(enqueued) <= MaxEnqueued /\ (enqueued # <<>> => ~open)
      /\ toService # <<>> \/ toClient # <<>> => open
      /\ served \in 0 .. issued
  BY <1>0 DEF DelayInv
<1>6. /\ heard \in Link \union {NoLink} /\ listeningURL \in Link \union {NoLink}
      /\ dwell \in {NoLink, listeningURL} /\ entries \subseteq Link
  BY <1>0 DEF ChatInv
<1>7. /\ \A l \in Link : timers[l] \in Nat /\ saying[l] \in Nat /\ overtaken[l] \in Nat
      /\ \A i \in Idx : votes[i] \in Nat
  BY <1>0, <1>2 DEF VoteInv
<1>8. ServicesTypeOK
  BY <1>5, <1>6, <1>7 DEF ServicesTypeOK
<1> QED BY <1>1, <1>3, <1>4, <1>8

\* Commands are carried out in their order and what is shown as connected is the
\* service's own, a stream has one chain of announcements and one more for each dwell that
\* overtook an announcement of it, each vote is counted once.
THEOREM ServicesAreOrderly == ServicesSpec => ServicesKeepOrder /\ []ServicesTypeOK
<1>1. ServicesInv /\ [ServicesNext]_serviceVars => [served' >= served]_serviceVars
  BY ServicesKeep
<1> QED BY ServicesStart, ServicesKeep, ServicesSound, <1>1, PTL DEF ServicesSpec, ServicesKeepOrder, ServedInOrder

-----------------------------------------------------------------------------
(* The releases (Releases).  That nothing incomplete is published is not   *)
(* inductive as it stands: between the job's reading of a release and its  *)
(* editing of it, legs may still run (a maintainer runs failed ones        *)
(* again), so what has been read must be known to hold still.  It does     *)
(* because uploads are only ever added.                                    *)

\* What a proof needs of the types.
FunctionsOK ==
  /\ release \in [Version -> {"none", "draft", "published"}]
  /\ uploaded \in [Version -> SUBSET Kind]
  /\ job \in [Version -> {"waiting", "editing", "done", "failed"}]

\* A job that is about to take a release out of draft has read a complete one.
EditedIsComplete == \A v \in Version : job[v] = "editing" => Missing(v) = {}

ReleaseInv == FunctionsOK /\ EditedIsComplete /\ PublishedIsComplete

\* Versions are positive.
LEMMA VersionsChecked == First .. MaxVersion \subseteq Version /\ 0 \notin First .. MaxVersion
BY ReleaseAssumption, SMT DEF Version

\* Nothing is released at the start.
LEMMA ReleaseInvInit == ReleasesInit => ReleaseInv
<1> SUFFICES ASSUME ReleasesInit PROVE ReleaseInv
  OBVIOUS
<1>1. FunctionsOK
  BY DEF ReleasesInit, FunctionsOK
<1>2. EditedIsComplete
  BY DEF ReleasesInit, EditedIsComplete
<1>3. PublishedIsComplete
  BY VersionsChecked DEF ReleasesInit, PublishedIsComplete
<1> QED BY <1>1, <1>2, <1>3 DEF ReleaseInv

\* Uploads are only ever added, so what was complete stays complete.
LEMMA UploadsStay ==
  ASSUME FunctionsOK, NEW v \in Version, NEW p \in Platform, NEW kinds \in SUBSET Kind, NEW how,
         LegEnds(v, p, kinds, how)
  PROVE  /\ uploaded' \in [Version -> SUBSET Kind]
         /\ \A w \in Version : uploaded[w] \subseteq uploaded'[w]
BY DEF LegEnds, FunctionsOK

\* Every step of the jobs leaves releases that are edited or published complete.
LEMMA ReleaseInvStep == ReleaseInv /\ [ReleasesNext]_releaseVars => ReleaseInv'
<1> SUFFICES ASSUME ReleaseInv, [ReleasesNext]_releaseVars PROVE ReleaseInv'
  OBVIOUS
<1> USE DEF ReleaseInv
<1>1. CASE UNCHANGED <<release, uploaded, job, byHand>>
  BY <1>1 DEF FunctionsOK, EditedIsComplete, PublishedIsComplete, Missing
<1>2. CASE \E v \in Version : Prepare(v)
  <2>1. PICK v \in Version : Prepare(v)
    BY <1>2
  <2>2. FunctionsOK'
    BY <2>1 DEF Prepare, FunctionsOK
  <2>3. EditedIsComplete'
    BY <2>1 DEF Prepare, EditedIsComplete, Missing
  <2>4. PublishedIsComplete'
    BY <2>1, VersionsChecked DEF Prepare, FunctionsOK, PublishedIsComplete, Missing
  <2> QED BY <2>2, <2>3, <2>4
<1>3. CASE \E v \in Version : Rerun(v)
  <2>1. PICK v \in Version : Rerun(v)
    BY <1>3
  <2>2. FunctionsOK'
    BY <2>1 DEF Rerun, FunctionsOK
  <2>3. EditedIsComplete'
    BY <2>1 DEF Rerun, FunctionsOK, EditedIsComplete, Missing
  <2>4. PublishedIsComplete'
    BY <2>1 DEF Rerun, PublishedIsComplete, Missing
  <2> QED BY <2>2, <2>3, <2>4
<1>4. CASE \E v \in Version : JobReads(v)
  <2>1. PICK v \in Version : JobReads(v)
    BY <1>4
  <2>2. FunctionsOK'
    BY <2>1 DEF JobReads, FunctionsOK
  <2>3. EditedIsComplete'
    BY <2>1 DEF JobReads, FunctionsOK, EditedIsComplete, ShouldPublish, Missing
  <2>4. PublishedIsComplete'
    BY <2>1 DEF JobReads, PublishedIsComplete, Missing
  <2> QED BY <2>2, <2>3, <2>4
<1>5. CASE \E v \in Version, ok \in BOOLEAN : JobEdits(v, ok)
  <2>1. PICK v \in Version, ok \in BOOLEAN : JobEdits(v, ok)
    BY <1>5
  <2>2. FunctionsOK'
    BY <2>1 DEF JobEdits, FunctionsOK
  <2>3. EditedIsComplete'
    BY <2>1 DEF JobEdits, FunctionsOK, EditedIsComplete, Missing
  <2>4. Missing(v) = {}
    BY <2>1 DEF JobEdits, EditedIsComplete
  <2>5. \A w \in Version : release'[w] = "published" => w = v \/ release[w] = "published"
    BY <2>1 DEF JobEdits, FunctionsOK
  <2>6. PublishedIsComplete'
    BY <2>1, <2>4, <2>5, VersionsChecked DEF JobEdits, PublishedIsComplete, Missing
  <2> QED BY <2>2, <2>3, <2>6
<1>6. CASE \E v \in Version : PublishByHand(v)
  <2>1. PICK v \in Version : PublishByHand(v)
    BY <1>6
  <2>2. FunctionsOK'
    BY <2>1 DEF PublishByHand, FunctionsOK
  <2>3. EditedIsComplete'
    BY <2>1 DEF PublishByHand, EditedIsComplete, Missing
  <2>4. \A w \in Version : release'[w] = "published" => w \in byHand' \/ release[w] = "published"
    BY <2>1 DEF PublishByHand, FunctionsOK
  <2>5. PublishedIsComplete'
    BY <2>1, <2>4, VersionsChecked DEF PublishByHand, PublishedIsComplete, Missing
  <2> QED BY <2>2, <2>3, <2>5
<1>7. CASE \E v \in Version, p \in Platform, kinds \in SUBSET Kind, how \in {"done", "failed"} :
             LegEnds(v, p, kinds, how)
  <2>1. PICK v \in Version, p \in Platform, kinds \in SUBSET Kind, how \in {"done", "failed"} :
               LegEnds(v, p, kinds, how)
    BY <1>7
  <2>2. /\ uploaded' \in [Version -> SUBSET Kind]
        /\ \A w \in Version : uploaded[w] \subseteq uploaded'[w]
    BY <2>1, UploadsStay
  <2>3. UNCHANGED <<release, job, byHand>>
    BY <2>1 DEF LegEnds
  <2>4. \A w \in Version : Missing(w) = {} => Missing(w)' = {}
    BY <2>2 DEF Missing
  <2>5. FunctionsOK'
    BY <2>2, <2>3 DEF FunctionsOK
  <2>6. EditedIsComplete'
    BY <2>3, <2>4 DEF EditedIsComplete
  <2>7. PublishedIsComplete'
    BY <2>3, <2>4, VersionsChecked DEF PublishedIsComplete
  <2> QED BY <2>5, <2>6, <2>7
<1>8. ReleasesNext \/ UNCHANGED releaseVars
        => \/ UNCHANGED <<release, uploaded, job, byHand>>
           \/ \E v \in Version : Prepare(v) \/ Rerun(v) \/ JobReads(v) \/ PublishByHand(v)
           \/ \E v \in Version, ok \in BOOLEAN : JobEdits(v, ok)
           \/ \E v \in Version, p \in Platform, kinds \in SUBSET Kind,
                 how \in {"done", "failed"} : LegEnds(v, p, kinds, how)
  BY DEF ReleasesNext, releaseVars, Bump, GraceEnds, PushTag, DailyRun, AttemptFails, Answers
<1> QED BY <1>1, <1>2, <1>3, <1>4, <1>5, <1>6, <1>7, <1>8

\* Whatever legs fail, are run again or report what they did not do, every release the
\* pipeline takes out of draft has every kind of artifact (publish-release.mjs, #720).
THEOREM ReleasesComplete == ReleasesSpec => []PublishedIsComplete
<1>1. ReleasesInit => ReleaseInv
  BY ReleaseInvInit
<1>2. ReleaseInv /\ [ReleasesNext]_releaseVars => ReleaseInv'
  BY ReleaseInvStep
<1>3. ReleaseInv => PublishedIsComplete
  BY DEF ReleaseInv
<1> QED BY <1>1, <1>2, <1>3, PTL DEF ReleasesSpec

\* The jobs and the daily run keep the types; what GitHub calls the latest is published.
LEMMA ReleaseTypesKeep == ReleasesTypeOK /\ [ReleasesNext]_releaseVars => ReleasesTypeOK'
<1> SUFFICES ASSUME ReleasesTypeOK, [ReleasesNext]_releaseVars PROVE ReleasesTypeOK'
  OBVIOUS
<1>0. /\ main \in Version /\ overdue \in BOOLEAN /\ tags \subseteq Version /\ latest \in Version
      /\ release \in [Version -> {"none", "draft", "published"}]
      /\ uploaded \in [Version -> SUBSET Kind] /\ leg \in [Version -> Legs]
      /\ job \in [Version -> {"waiting", "editing", "done", "failed"}]
      /\ byHand \subseteq Version /\ attempt \in 0 .. Retries /\ report \in {"none", "open"}
      /\ release[latest] = "published"
  BY DEF ReleasesTypeOK
<1> USE DEF ReleasesTypeOK
<1>1. CASE Bump \/ GraceEnds \/ PushTag
  <2>1. main' \in Version
    BY <1>0, <1>1, ReleaseAssumption DEF Bump, GraceEnds, PushTag, Version
  <2>2. tags' \subseteq Version /\ overdue' \in BOOLEAN
    BY <1>0, <1>1 DEF Bump, GraceEnds, PushTag
  <2>3. UNCHANGED <<release, uploaded, leg, job, latest, byHand, attempt, report>>
    BY <1>1 DEF Bump, GraceEnds, PushTag
  <2> QED BY <1>0, <2>1, <2>2, <2>3
<1>2. ASSUME NEW v \in Version, Prepare(v) PROVE ReleasesTypeOK'
  <2>1. /\ release[v] = "none" /\ release' = [release EXCEPT ![v] = "draft"]
        /\ UNCHANGED <<main, overdue, tags, uploaded, leg, job, latest, byHand, attempt, report>>
    BY <1>2 DEF Prepare
  <2>2. release' \in [Version -> {"none", "draft", "published"}] /\ release'[latest] = "published"
    BY <1>0, <2>1
  <2> QED BY <1>0, <2>1, <2>2
<1>3. ASSUME NEW v \in Version, Rerun(v) PROVE ReleasesTypeOK'
  <2>1. /\ leg' = [leg EXCEPT ![v] = [p \in Platform |-> IF @[p] = "failed" THEN "waiting" ELSE @[p]]]
        /\ job' = [job EXCEPT ![v] = IF @ = "failed" THEN "waiting" ELSE @]
        /\ UNCHANGED <<main, overdue, tags, release, uploaded, latest, byHand, attempt, report>>
    BY <1>3 DEF Rerun
  <2>2. leg' \in [Version -> Legs]
    <3>1. leg[v] \in Legs
      BY <1>0
    <3>2. [p \in Platform |-> IF leg[v][p] = "failed" THEN "waiting" ELSE leg[v][p]] \in Legs
      BY <3>1 DEF Legs
    <3> QED BY <1>0, <2>1, <3>2
  <2>3. job' \in [Version -> {"waiting", "editing", "done", "failed"}]
    BY <1>0, <2>1
  <2> QED BY <1>0, <2>1, <2>2, <2>3
<1>4. ASSUME NEW v \in Version, JobReads(v) PROVE ReleasesTypeOK'
  BY <1>0, <1>4 DEF JobReads
<1>5. ASSUME NEW v \in Version, NEW ok \in BOOLEAN, JobEdits(v, ok) PROVE ReleasesTypeOK'
  <2>1. /\ \/ release' = [release EXCEPT ![v] = "published"] /\ latest' = v
           \/ UNCHANGED <<release, latest>>
        /\ job' \in [Version -> {"waiting", "editing", "done", "failed"}]
        /\ UNCHANGED <<main, overdue, tags, uploaded, leg, byHand, attempt, report>>
    BY <1>0, <1>5 DEF JobEdits
  <2>2. release' \in [Version -> {"none", "draft", "published"}] /\ latest' \in Version /\ release'[latest'] = "published"
    BY <1>0, <2>1
  <2> QED BY <1>0, <2>1, <2>2
<1>6. ASSUME NEW v \in Version, PublishByHand(v) PROVE ReleasesTypeOK'
  BY <1>0, <1>6 DEF PublishByHand
<1>7. ASSUME NEW v \in Version, NEW p \in Platform, NEW kinds \in SUBSET Kind, NEW how \in {"done", "failed"},
             LegEnds(v, p, kinds, how)
      PROVE  ReleasesTypeOK'
  <2>1. /\ leg' = [leg EXCEPT ![v] = [leg[v] EXCEPT ![p] = how]]
        /\ uploaded' = [uploaded EXCEPT ![v] = @ \union kinds]
        /\ UNCHANGED <<main, overdue, tags, release, job, latest, byHand, attempt, report>>
    BY <1>0, <1>7 DEF LegEnds
  <2>2. leg' \in [Version -> Legs]
    <3>1. leg[v] \in Legs
      BY <1>0
    <3>2. [leg[v] EXCEPT ![p] = how] \in Legs
      BY <3>1 DEF Legs
    <3> QED BY <1>0, <2>1, <3>2
  <2>3. uploaded' \in [Version -> SUBSET Kind]
    BY <1>0, <2>1
  <2> QED BY <1>0, <2>1, <2>2, <2>3
<1>8. CASE DailyRun \/ AttemptFails \/ Answers
  <2>1. attempt' \in 0 .. Retries
    <3>1. \/ attempt' \in {0, 1}
          \/ attempt # Retries /\ attempt' = attempt + 1
      BY <1>8 DEF DailyRun, AttemptFails, Answers, Concludes
    <3> QED BY <1>0, <3>1, ReleaseAssumption
  <2>2. report' \in {"none", "open"}
    BY <1>0, <1>8 DEF DailyRun, AttemptFails, Answers, Concludes
  <2>3. UNCHANGED <<main, overdue, tags, release, uploaded, leg, job, latest, byHand>>
    BY <1>8 DEF DailyRun, AttemptFails, Answers
  <2> QED BY <1>0, <2>1, <2>2, <2>3
<1>9. CASE UNCHANGED releaseVars
  BY <1>0, <1>9 DEF releaseVars
<1> QED BY <1>1, <1>2, <1>3, <1>4, <1>5, <1>6, <1>7, <1>8, <1>9 DEF ReleasesNext

\* Version 0 is published at the start.
LEMMA ReleaseTypesStart == ReleasesInit => ReleasesTypeOK
<1> SUFFICES ASSUME ReleasesInit PROVE ReleasesTypeOK
  OBVIOUS
<1>1. 0 \in Version /\ 0 \in 0 .. Retries
  BY ReleaseAssumption DEF Version
<1>2. leg \in [Version -> Legs]
  BY DEF ReleasesInit, Legs, Unbuilt
<1>3. /\ release \in [Version -> {"none", "draft", "published"}] /\ release[0] = "published"
      /\ job \in [Version -> {"waiting", "editing", "done", "failed"}]
      /\ uploaded \in [Version -> SUBSET Kind]
  BY <1>1 DEF ReleasesInit
<1> QED BY <1>1, <1>2, <1>3 DEF ReleasesInit, ReleasesTypeOK

\* The types of the pipeline.
THEOREM ReleasesTypeCorrect == ReleasesSpec => []ReleasesTypeOK
BY ReleaseTypesStart, ReleaseTypesKeep, PTL DEF ReleasesSpec

-----------------------------------------------------------------------------
(* The updates (Updates).                                                  *)

\* A step of the updater, of a checker or of the page.
UpdatesNext == AppNext \/ StatusNext

\* Of the self-updater: an update in the hands of the user has a version, and no check
\* is under way beside it.
AppInv ==
  /\ newest \in Release /\ running \in Release /\ checking \in BOOLEAN
  /\ app \in [state : {"idle", "checking", "available", "downloading", "ready", "error"},
              version : {0} \union Release]
  /\ app.version # 0 <=> app.state \in {"available", "downloading", "ready"}
  /\ checking => app.state = "checking"

\* Of the checkers.
CheckerInv ==
  /\ newest \in Release
  /\ answer \in [Checker -> {0} \union Release]
  /\ linux \in {0} \union Release /\ known \in {0} \union Release
  /\ announced \in {0} \union lines

\* Of the page: requests are of sessions there have been, and a status is of this one.
StatusInv ==
  /\ known \in {0} \union Release
  /\ active \in 0 .. loads
  /\ session \in Nat /\ loads \in Nat /\ (enabled => session # 0)
  /\ requests \subseteq [id : Nat, session : Nat, version : {0} \union Release]
  /\ \A r \in requests : r.id \in 1 .. loads /\ r.session \in 1 .. session
  /\ ShownIsAsked

UpdatesInv == AppInv /\ CheckerInv /\ StatusInv

\* Nothing is offered at the start.
LEMMA UpdatesStart == UpdatesInit => UpdatesInv
<1> SUFFICES ASSUME UpdatesInit PROVE UpdatesInv
  OBVIOUS
<1>1. 0 \notin Release /\ 1 \in Release
  BY UpdateAssumption DEF Release
<1>2. AppInv
  BY <1>1 DEF UpdatesInit, AppInv, Idle0
<1>3. CheckerInv
  BY <1>1 DEF UpdatesInit, CheckerInv
<1>4. StatusInv
  BY DEF UpdatesInit, StatusInv, ShownIsAsked
<1> QED BY <1>2, <1>3, <1>4 DEF UpdatesInv

\* The self-updater keeps what is its.
LEMMA AppKeeps ==
  ASSUME AppInv, AppNext
  PROVE  AppInv'
<1> USE DEF AppInv, SetStatus
<1>0. 0 \notin Release
  BY DEF Release
<1>1. CASE NewRelease \/ DismissUpdate
  BY <1>1 DEF NewRelease, DismissUpdate, appVars
<1>2. CASE Tick
  <2>1. app.version = 0
    BY <1>2 DEF Tick
  <2>2. checking \/ app' = [state |-> "checking", version |-> 0]
    BY <1>2 DEF Tick
  <2> QED BY <1>2, <2>1, <2>2 DEF Tick
<1>3. CASE CheckAnswers
  <2>1. \/ app' = [state |-> "available", version |-> newest]
        \/ app' = [state |-> "idle", version |-> 0]
    BY <1>3, Zenon DEF CheckAnswers
  <2>2. checking' = FALSE /\ UNCHANGED <<newest, running>>
    BY <1>3 DEF CheckAnswers
  <2>3. /\ app' \in [state : {"idle", "checking", "available", "downloading", "ready", "error"},
                      version : {0} \union Release]
        /\ app'.version # 0 <=> app'.state \in {"available", "downloading", "ready"}
    BY <1>0, <2>1
  <2> QED BY <2>2, <2>3
<1>4. CASE CheckFails
  BY <1>0, <1>4 DEF CheckFails
<1>5. CASE Download
  BY <1>0, <1>5 DEF Download
<1>6. ASSUME NEW ok \in BOOLEAN, DownloadEnds(ok) PROVE AppInv'
  BY <1>0, <1>6 DEF DownloadEnds
<1>7. CASE Install
  BY <1>0, <1>7 DEF Install, Idle0
<1> QED BY <1>1, <1>2, <1>3, <1>4, <1>5, <1>6, <1>7 DEF AppNext

\* The checkers keep what is theirs.
LEMMA CheckersKeep ==
  ASSUME CheckerInv, StatusNext
  PROVE  CheckerInv'
<1> USE DEF CheckerInv
<1>1. CASE NewRelease
  BY <1>1 DEF NewRelease, checkerVars
<1>2. ASSUME NEW c \in Checker, Ask(c) \/ AskFails(c) PROVE CheckerInv'
  BY <1>2 DEF Ask, AskFails
<1>3. CASE LinuxAnswer
  BY <1>3 DEF LinuxAnswer, Checker
<1>4. CASE ServerAnswer
  BY <1>4 DEF ServerAnswer, Checker, IsNewer
<1>5. CASE UNCHANGED <<newest, checkerVars>>
  BY <1>5 DEF checkerVars
<1>6. \/ NewRelease \/ LinuxAnswer \/ ServerAnswer
      \/ \E c \in Checker : Ask(c) \/ AskFails(c)
      \/ UNCHANGED <<newest, checkerVars>>
  BY DEF StatusNext, Reload, Enable, Disable, DismissRelease, Answered, LoadFails, Take
<1> QED BY <1>1, <1>2, <1>3, <1>4, <1>5, <1>6

\* The page keeps what is its: the newest request is of this session, if any is.
LEMMA StatusKeeps ==
  ASSUME CheckerInv, StatusInv, StatusNext
  PROVE  StatusInv'
<1> USE DEF StatusInv
<1>0. known' \in {0} \union Release
  <2>1. CheckerInv'
    BY CheckersKeep
  <2> QED BY <2>1 DEF CheckerInv
<1>1. CASE UNCHANGED statusVars
  BY <1>0, <1>1 DEF statusVars, ShownIsAsked
<1>2. CASE Reload
  BY <1>0, <1>2 DEF Reload, LoadStatus, ShownIsAsked
<1>3. CASE Enable
  BY <1>0, <1>3 DEF Enable, LoadStatus, ShownIsAsked
<1>4. CASE Disable \/ DismissRelease
  BY <1>0, <1>4 DEF Disable, DismissRelease, ShownIsAsked
<1>5. ASSUME NEW r \in requests, Answered(r) PROVE StatusInv'
  <2>1. known' = known /\ UNCHANGED <<active, session, loads, enabled, serverStatus>>
    BY <1>5 DEF Answered, checkerVars
  <2>2. PICK v \in {0} \union Release : requests' = (requests \ {r}) \union {[r EXCEPT !.version = v]}
    BY <1>5, UpdateAssumption DEF Answered, Release
  <2> QED BY <1>0, <2>1, <2>2 DEF ShownIsAsked
<1>6. ASSUME NEW r \in requests, LoadFails(r) PROVE StatusInv'
  BY <1>0, <1>6 DEF LoadFails, ShownIsAsked
<1>7. ASSUME NEW r \in requests, NEW valid \in BOOLEAN, Take(r, valid) PROVE StatusInv'
  BY <1>0, <1>7 DEF Take, Wanted, ShownIsAsked
<1>8. \/ UNCHANGED statusVars
      \/ Reload \/ Enable \/ Disable \/ DismissRelease
      \/ \E r \in requests : Answered(r) \/ LoadFails(r) \/ \E valid \in BOOLEAN : Take(r, valid)
  BY DEF StatusNext, NewRelease, LinuxAnswer, ServerAnswer, Ask, AskFails
<1> QED BY <1>1, <1>2, <1>3, <1>4, <1>5, <1>6, <1>7, <1>8

\* Either half of the updates leaves the other alone.
LEMMA UpdatesKeep == UpdatesInv /\ [UpdatesNext]_updateVars => UpdatesInv'
<1> SUFFICES ASSUME UpdatesInv, [UpdatesNext]_updateVars PROVE UpdatesInv'
  OBVIOUS
<1>1. CASE AppNext
  <2>1. (UNCHANGED <<newest, checkerVars, statusVars>>) \/ NewRelease
    BY <1>1 DEF AppNext, Tick, CheckAnswers, CheckFails, Download, Install, DismissUpdate, DownloadEnds
  <2>2. CheckerInv' /\ StatusInv'
    BY <2>1 DEF NewRelease, UpdatesInv, CheckerInv, StatusInv, checkerVars, statusVars, ShownIsAsked
  <2> QED BY <1>1, <2>2, AppKeeps DEF UpdatesInv
<1>2. CASE StatusNext
  <2>1. (UNCHANGED <<newest, appVars>>) \/ NewRelease
    BY <1>2 DEF StatusNext, LinuxAnswer, ServerAnswer, Ask, AskFails, Reload, Enable, Disable, DismissRelease,
                Answered, LoadFails, Take
  <2>2. AppInv'
    BY <2>1 DEF NewRelease, UpdatesInv, AppInv, appVars
  <2> QED BY <1>2, <2>2, CheckersKeep, StatusKeeps DEF UpdatesInv
<1>3. CASE UNCHANGED updateVars
  BY <1>3 DEF updateVars, appVars, checkerVars, statusVars, UpdatesInv, AppInv, CheckerInv, StatusInv, ShownIsAsked
<1> QED BY <1>1, <1>2, <1>3 DEF UpdatesNext

\* A step of an update in the hands of the user is the user's, or ends it.
OfferStep ==
  app.state \in {"available", "downloading", "ready"} /\ app' # app =>
        \/ app.state = "available" /\ app' = [app EXCEPT !.state = "downloading"]
        \/ app.state = "downloading" /\ app' \in {[app EXCEPT !.state = "ready"], [state |-> "error", version |-> 0]}
        \/ app.state = "ready" /\ running' = app.version
\* Only the user, or the update that begins, ends an offer.
LEMMA OfferKeeps == UpdatesInv /\ [UpdatesNext]_updateVars => [OfferStep]_updateVars
<1> SUFFICES ASSUME AppInv, [UpdatesNext]_updateVars PROVE [OfferStep]_updateVars
  BY DEF UpdatesInv
<1> USE DEF AppInv, OfferStep, SetStatus
<1>1. CASE Tick \/ CheckAnswers \/ CheckFails
  BY <1>1 DEF Tick, CheckAnswers, CheckFails
<1>2. CASE Download
  BY <1>2 DEF Download
<1>3. ASSUME NEW ok \in BOOLEAN, DownloadEnds(ok) PROVE OfferStep
  BY <1>3 DEF DownloadEnds
<1>4. CASE Install
  BY <1>4 DEF Install
<1>5. CASE app' = app
  BY <1>5
<1>6. NewRelease \/ DismissUpdate \/ StatusNext \/ UNCHANGED updateVars => app' = app
  BY DEF StatusNext, LinuxAnswer, ServerAnswer, Ask, AskFails, Reload, Enable, Disable, DismissRelease,
         Answered, LoadFails, Take, NewRelease, DismissUpdate, appVars, updateVars
<1> QED BY <1>1, <1>2, <1>3, <1>4, <1>5, <1>6 DEF UpdatesNext, AppNext

\* The invariants give the types, and say whose the status is that a page shows.
LEMMA UpdatesSound == UpdatesInv => ShownIsAsked /\ UpdatesTypeOK
BY DEF UpdatesInv, AppInv, CheckerInv, StatusInv, UpdatesTypeOK

-----------------------------------------------------------------------------
(* The page script (Page).                                                 *)

\* What the operator can wish of a view's element.
Wishes == {"paused", "volume", "rotation"}
Settings == [paused : BOOLEAN \union {Unset}, volume : Volume \union {Unset}, rotation : Rotation \union {Unset}]

\* Of the search: where there is none, nothing of it is left.
SearchInv ==
  /\ search \in {"none", "waiting", "observing"}
  /\ acquisition \in {"none", "searching", "starting", "acquired", "failed"}
  /\ search # "none" <=> acquisition = "searching"
  /\ NoStrayObservers

\* Of the element: handlers are of the one acquired, which is as the page was told.
MediaInv ==
  /\ candidate \in Media \union {NoMedia} /\ current \in Media \union {NoMedia}
  /\ candidate # NoMedia <=> acquisition = "starting"
  /\ acquisition # "none" => begun
  /\ acquisition = "acquired" => current \in Media
  /\ listening \subseteq {current} /\ snapshots \subseteq listening
  /\ listening # {} => acquisition = "acquired"
  /\ width \subseteq Media
  /\ element \in [Media -> Settings]
  /\ acquisition = "acquired" =>
       /\ element[current].paused = desired.paused /\ element[current].volume = desired.volume
       /\ hasVideo => element[current].rotation = desired.rotation

\* Of the messages: the last about something says what the operator wants; where there is
\* none, the page has been told, or the reply says it.
WishInv ==
  /\ hasVideo \in BOOLEAN /\ begun \in BOOLEAN
  /\ desired \in Settings /\ want \in Settings
  /\ reply \in {Unheard, Default}
  /\ toDocument \in Seq([type : Wishes \union {"view-init"},
                         value : BOOLEAN \union Volume \union Rotation \union {Default}])
  /\ \A i \in 1 .. Len(toDocument) :
       /\ toDocument[i].type = "view-init" => toDocument[i].value = Default
       /\ toDocument[i].type = "paused" => toDocument[i].value \in BOOLEAN
       /\ toDocument[i].type = "volume" => toDocument[i].value \in Volume
       /\ toDocument[i].type = "rotation" => toDocument[i].value \in Rotation
  /\ \A k \in Wishes, i \in 1 .. Len(toDocument) :
       toDocument[i].type = k /\ (\A j \in 1 .. Len(toDocument) : i < j => toDocument[j].type # k) =>
         toDocument[i].value = want[k]
  /\ \A k \in Wishes :
       (\A i \in 1 .. Len(toDocument) : toDocument[i].type # k) =>
         want[k] = IF desired[k] = Unset THEN Default[k] ELSE desired[k]
  /\ begun => \A k \in Wishes : desired[k] # Unset

PageInv == SearchInv /\ MediaInv /\ WishInv

\* A record of wishes with one of them replaced.
LEMMA OneWish ==
  ASSUME NEW d \in Settings, NEW k \in Wishes, NEW v,
         k = "paused" => v \in BOOLEAN, k = "volume" => v \in Volume, k = "rotation" => v \in Rotation
  PROVE  /\ [d EXCEPT ![k] = v] \in Settings /\ [d EXCEPT ![k] = v][k] = v /\ v # Unset
         /\ \A j \in Wishes : j # k => [d EXCEPT ![k] = v][j] = d[j]
<1>1. v # Unset
  BY PageAssumption DEF Wishes
<1>2. [d EXCEPT ![k] = v] \in Settings
  BY DEF Wishes, Settings
<1>3. [d EXCEPT ![k] = v][k] = v /\ \A j \in Wishes : j # k => [d EXCEPT ![k] = v][j] = d[j]
  BY DEF Wishes, Settings
<1> QED BY <1>1, <1>2, <1>3

\* What the operator asks for is the last message of its kind.
LEMMA Wished ==
  ASSUME WishInv, NEW k \in Wishes, NEW v, Wish(k, v),
         k = "paused" => v \in BOOLEAN, k = "volume" => v \in Volume, k = "rotation" => v \in Rotation
  PROVE  WishInv'
<1> DEFINE q == toDocument
           r == Append(q, [type |-> k, value |-> v])
           M == [type : Wishes \union {"view-init"}, value : BOOLEAN \union Volume \union Rotation \union {Default}]
<1>1. /\ want' = [want EXCEPT ![k] = v] /\ toDocument' = r
      /\ UNCHANGED <<hasVideo, desired, reply, begun>>
  BY DEF Wish, Message
<1>2. want' \in Settings /\ want'[k] = v /\ v # Unset /\ \A j \in Wishes : j # k => want'[j] = want[j]
  <2>1. want \in Settings
    BY DEF WishInv
  <2>2. /\ [want EXCEPT ![k] = v] \in Settings /\ [want EXCEPT ![k] = v][k] = v /\ v # Unset
        /\ \A j \in Wishes : j # k => [want EXCEPT ![k] = v][j] = want[j]
    BY <2>1, OneWish
  <2> QED BY <1>1, <2>2
<1>3. q \in Seq(M) /\ Len(q) \in Nat
  BY DEF WishInv
<1>4. [type |-> k, value |-> v] \in M
  BY DEF Wishes
<1>5. r \in Seq(M) /\ Len(r) = Len(q) + 1 /\ r[Len(q) + 1] = [type |-> k, value |-> v] /\ \A i \in 1 .. Len(q) : r[i] = q[i]
  BY <1>3, <1>4
<1>6. \A i \in 1 .. Len(r) : (i \in 1 .. Len(q) /\ r[i] = q[i]) \/ (i = Len(q) + 1 /\ r[i].type = k /\ r[i].value = v)
  BY <1>3, <1>5
<1>7. Len(q) + 1 \in 1 .. Len(r) /\ r[Len(q) + 1].type = k /\ r[Len(q) + 1].value = v
  BY <1>3, <1>5
<1> HIDE DEF r, M
<1>8. \A i \in 1 .. Len(r) :
        /\ r[i].type = "view-init" => r[i].value = Default
        /\ r[i].type = "paused" => r[i].value \in BOOLEAN
        /\ r[i].type = "volume" => r[i].value \in Volume
        /\ r[i].type = "rotation" => r[i].value \in Rotation
  <2> TAKE i \in 1 .. Len(r)
  <2>1. CASE i \in 1 .. Len(q) /\ r[i] = q[i]
    BY <2>1 DEF WishInv
  <2>2. CASE r[i].type = k /\ r[i].value = v
    BY <2>2 DEF Wishes
  <2> QED BY <1>6, <2>1, <2>2
<1>9. ASSUME NEW j \in Wishes, NEW i \in 1 .. Len(r), r[i].type = j,
             \A n \in 1 .. Len(r) : i < n => r[n].type # j
      PROVE  r[i].value = want'[j]
  <2>1. CASE j = k
    <3>1. ~(i < Len(q) + 1)
      BY <1>7, <1>9, <2>1
    <3>2. i = Len(q) + 1
      BY <1>3, <1>6, <3>1
    <3> QED BY <1>2, <1>7, <2>1, <3>2
  <2>2. CASE j # k
    <3>1. i \in 1 .. Len(q) /\ r[i] = q[i]
      BY <1>6, <1>9, <2>2
    <3>2. \A n \in 1 .. Len(q) : n \in 1 .. Len(r) /\ r[n] = q[n]
      BY <1>3, <1>5
    <3>3. q[i].type = j /\ \A n \in 1 .. Len(q) : i < n => q[n].type # j
      BY <1>9, <3>1, <3>2
    <3>4. q[i].value = want[j]
      BY <3>1, <3>3 DEF WishInv
    <3> QED BY <1>2, <2>2, <3>1, <3>4
  <2> QED BY <2>1, <2>2
<1>10. ASSUME NEW j \in Wishes, \A i \in 1 .. Len(r) : r[i].type # j
       PROVE  want'[j] = IF desired[j] = Unset THEN Default[j] ELSE desired[j]
  <2>1. j # k
    BY <1>7, <1>10
  <2>2. \A n \in 1 .. Len(q) : n \in 1 .. Len(r) /\ r[n] = q[n]
    BY <1>3, <1>5
  <2>3. \A i \in 1 .. Len(q) : q[i].type # j
    BY <1>10, <2>2
  <2> QED BY <1>2, <2>1, <2>3 DEF WishInv
<1>11. /\ hasVideo' \in BOOLEAN /\ begun' \in BOOLEAN /\ desired' \in Settings /\ reply' \in {Unheard, Default}
       /\ begun' => \A j \in Wishes : desired'[j] # Unset
  BY <1>1 DEF WishInv
<1>12. toDocument' \in Seq([type : Wishes \union {"view-init"},
                            value : BOOLEAN \union Volume \union Rotation \union {Default}])
  BY <1>1, <1>5 DEF M
<1> QED BY <1>1, <1>2, <1>8, <1>9, <1>10, <1>11, <1>12 DEF WishInv

\* A message that is heard is recorded, and done to the element there is.
LEMMA Heard ==
  ASSUME WishInv, MediaInv, HearMessage
  PROVE  WishInv' /\ MediaInv'
<1> DEFINE q == toDocument
           r == Tail(q)
           M == [type : Wishes \union {"view-init"}, value : BOOLEAN \union Volume \union Rotation \union {Default}]
<1>1. /\ q # <<>> /\ toDocument' = r
      /\ UNCHANGED <<hasVideo, begun, want, acquireVars, width>>
  BY DEF HearMessage, domVars
<1>2. q \in Seq(M) /\ Len(q) \in Nat /\ Len(q) > 0 /\ Head(q) = q[1]
  BY <1>1, EmptySeq DEF WishInv
<1>3. r \in Seq(M) /\ Len(r) = Len(q) - 1 /\ \A i \in 1 .. Len(r) : r[i] = q[i + 1]
  BY <1>1, <1>2
<1>m. q[1].type \in Wishes \union {"view-init"}
  <2>1. 1 \in 1 .. Len(q)
    BY <1>2
  <2>2. q[1] \in M
    BY <1>2, <2>1, ElementOfSeq
  <2> QED BY <2>2
<1> DEFINE k == q[1].type
           v == q[1].value
<1>4. 1 \in 1 .. Len(q) /\ \A i \in 1 .. Len(r) : i + 1 \in 1 .. Len(q) /\ r[i] = q[i + 1]
  BY <1>2, <1>3
<1>5. \A n \in 1 .. Len(q) : n = 1 \/ (n - 1 \in 1 .. Len(r) /\ r[n - 1] = q[n] /\ n \in Nat)
  BY <1>2, <1>3
<1>6. /\ k = "view-init" => v = Default
      /\ k = "paused" => v \in BOOLEAN
      /\ k = "volume" => v \in Volume
      /\ k = "rotation" => v \in Rotation
  BY <1>4 DEF WishInv
<1>t. toDocument' \in Seq([type : Wishes \union {"view-init"},
                            value : BOOLEAN \union Volume \union Rotation \union {Default}])
  BY <1>1, <1>3
<1> HIDE DEF r, M
<1>7. \A i \in 1 .. Len(r) :
        /\ r[i].type = "view-init" => r[i].value = Default
        /\ r[i].type = "paused" => r[i].value \in BOOLEAN
        /\ r[i].type = "volume" => r[i].value \in Volume
        /\ r[i].type = "rotation" => r[i].value \in Rotation
  BY <1>4 DEF WishInv
<1>8. ASSUME NEW j \in Wishes, NEW i \in 1 .. Len(r), r[i].type = j,
             \A n \in 1 .. Len(r) : i < n => r[n].type # j
      PROVE  r[i].value = want[j]
  <2>1. q[i + 1].type = j /\ i + 1 \in 1 .. Len(q) /\ r[i] = q[i + 1]
    BY <1>4, <1>8
  <2>2. \A n \in 1 .. Len(q) : i + 1 < n => q[n].type # j
    <3> TAKE n \in 1 .. Len(q)
    <3> HAVE i + 1 < n
    <3>1. n - 1 \in 1 .. Len(r) /\ r[n - 1] = q[n] /\ i < n - 1
      BY <1>5
    <3> QED BY <1>8, <3>1
  <2> QED BY <2>1, <2>2 DEF WishInv
<1>9. CASE k = "view-init"
  <2>1. reply' = Default /\ UNCHANGED <<desired, element>>
    BY <1>2, <1>6, <1>9 DEF HearMessage
  <2>2. ASSUME NEW j \in Wishes, \A i \in 1 .. Len(r) : r[i].type # j
        PROVE  want[j] = IF desired[j] = Unset THEN Default[j] ELSE desired[j]
    <3>1. \A n \in 1 .. Len(q) : q[n].type # j
      <4> TAKE n \in 1 .. Len(q)
      <4>1. CASE n = 1
        BY <1>9, <4>1 DEF Wishes
      <4>2. CASE n - 1 \in 1 .. Len(r) /\ r[n - 1] = q[n]
        BY <2>2, <4>2
      <4> QED BY <1>5, <4>1, <4>2
    <3> QED BY <3>1 DEF WishInv
  <2>3. /\ hasVideo' \in BOOLEAN /\ begun' \in BOOLEAN /\ desired' \in Settings /\ want' \in Settings
        /\ reply' \in {Unheard, Default}
        /\ begun' => \A j \in Wishes : desired'[j] # Unset
    BY <1>1, <2>1 DEF WishInv
  <2>4. WishInv'
    BY <1>1, <1>7, <1>8, <1>t, <2>1, <2>2, <2>3 DEF WishInv
  <2>5. MediaInv'
    BY <1>1, <2>1 DEF MediaInv, acquireVars
  <2> QED BY <2>4, <2>5
<1>10. CASE k \in Wishes
  <2>1. /\ desired' = [desired EXCEPT ![k] = v] /\ UNCHANGED reply
        /\ element' = IF current = NoMedia \/ (k = "rotation" /\ ~hasVideo) THEN element
                      ELSE [element EXCEPT ![current][k] = v]
    BY <1>2, <1>10 DEF HearMessage, Wishes
  <2>2. desired' \in Settings /\ desired'[k] = v /\ v # Unset /\ \A j \in Wishes : j # k => desired'[j] = desired[j]
    <3>1. desired \in Settings
      BY DEF WishInv
    <3>2. /\ [desired EXCEPT ![k] = v] \in Settings /\ [desired EXCEPT ![k] = v][k] = v /\ v # Unset
          /\ \A j \in Wishes : j # k => [desired EXCEPT ![k] = v][j] = desired[j]
      BY <1>6, <1>10, <3>1, OneWish
    <3> QED BY <2>1, <3>2
  <2>3. ASSUME NEW j \in Wishes, \A i \in 1 .. Len(r) : r[i].type # j
        PROVE  want[j] = IF desired'[j] = Unset THEN Default[j] ELSE desired'[j]
    <3>1. CASE j = k
      <4>1. \A n \in 1 .. Len(q) : 1 < n => q[n].type # k
        BY <1>5, <2>3, <3>1
      <4>2. q[1].value = want[k]
        BY <1>4, <1>10, <4>1 DEF WishInv
      <4> QED BY <2>2, <3>1, <4>2
    <3>2. CASE j # k
      <4>1. \A n \in 1 .. Len(q) : q[n].type # j
        BY <1>5, <2>3, <3>2
      <4> QED BY <2>2, <3>2, <4>1 DEF WishInv
    <3> QED BY <3>1, <3>2
  <2>4. /\ hasVideo' \in BOOLEAN /\ begun' \in BOOLEAN /\ want' \in Settings
        /\ reply' \in {Unheard, Default}
        /\ begun' => \A j \in Wishes : desired'[j] # Unset
    BY <1>1, <2>1, <2>2 DEF WishInv
  <2>5. WishInv'
    BY <1>1, <1>7, <1>8, <1>t, <2>2, <2>3, <2>4 DEF WishInv
  <2>6. current \in Media \union {NoMedia} /\ element \in [Media -> Settings]
    BY DEF MediaInv
  <2>7. CASE current = NoMedia \/ (k = "rotation" /\ ~hasVideo)
    <3>1. element' = element
      BY <2>1, <2>7
    <3>2. acquisition = "acquired" => k = "rotation" /\ ~hasVideo
      BY <2>7, PageAssumption DEF MediaInv
    <3>3. acquisition = "acquired" =>
            /\ element[current].paused = desired'.paused /\ element[current].volume = desired'.volume
            /\ hasVideo => element[current].rotation = desired'.rotation
      BY <2>1, <3>2 DEF MediaInv, WishInv, Settings
    <3> QED BY <1>1, <2>5, <3>1, <3>3 DEF MediaInv, acquireVars
  <2>8. CASE current # NoMedia /\ ~(k = "rotation" /\ ~hasVideo)
    <3>1. current \in Media /\ element' = [element EXCEPT ![current] = [element[current] EXCEPT ![k] = v]]
      BY <2>1, <2>6, <2>8
    <3>2. element[current] \in Settings
      BY <2>6, <3>1
    <3>3. [element[current] EXCEPT ![k] = v] \in Settings
      BY <1>6, <1>10, <3>2, OneWish
    <3>4. element' \in [Media -> Settings] /\ element'[current] = [element[current] EXCEPT ![k] = v]
      BY <2>6, <3>1, <3>3
    <3>5. acquisition = "acquired" =>
            /\ element'[current].paused = desired'.paused /\ element'[current].volume = desired'.volume
            /\ hasVideo => element'[current].rotation = desired'.rotation
      <4>1. desired \in Settings
        BY DEF WishInv
      <4> QED BY <1>10, <2>1, <3>2, <3>4, <4>1 DEF MediaInv, Settings, Wishes
    <3> QED BY <1>1, <2>5, <3>1, <3>4, <3>5 DEF MediaInv, acquireVars
  <2> QED BY <2>7, <2>8
<1> QED BY <1>m, <1>9, <1>10

\* What is said in the reply fills what no message has said.
LEMMA FilledUp ==
  ASSUME WishInv, reply # Unheard
  PROVE  /\ Filled \in Settings
         /\ \A k \in Wishes : Filled[k] # Unset /\ Filled[k] = IF desired[k] = Unset THEN Default[k] ELSE desired[k]
<1>1. reply = Default /\ desired \in Settings
  BY DEF WishInv
<1>2. DOMAIN desired = Wishes
  BY <1>1 DEF Settings, Wishes
<1>3. \A k \in Wishes : Filled[k] = IF desired[k] = Unset THEN Default[k] ELSE desired[k]
  BY <1>1, <1>2 DEF Filled
<1>4. Filled = [k \in Wishes |-> IF desired[k] = Unset THEN Default[k] ELSE desired[k]]
  BY <1>1, <1>2 DEF Filled
<1>5. \A k \in Wishes : Default[k] # Unset
  <2>1. FALSE # Unset
    BY PageAssumption
  <2>2. 1 # Unset /\ 0 # Unset
    BY PageAssumption, DefaultAssumption
  <2>3. Default["paused"] = FALSE /\ Default["volume"] = 1 /\ Default["rotation"] = 0
    BY DEF Default
  <2>4. Default["paused"] # Unset
    BY <2>1, <2>3, Zenon
  <2>5. Default["volume"] # Unset /\ Default["rotation"] # Unset
    BY <2>2, <2>3
  <2> QED BY <2>4, <2>5 DEF Wishes
<1>6. /\ Default["paused"] \in BOOLEAN /\ Default["volume"] \in Volume /\ Default["rotation"] \in Rotation
  BY DefaultAssumption DEF Default
<1>7. /\ desired["paused"] \in BOOLEAN \union {Unset} /\ desired["volume"] \in Volume \union {Unset}
      /\ desired["rotation"] \in Rotation \union {Unset}
  BY <1>1 DEF Settings
<1>8. Filled = [paused |-> Filled["paused"], volume |-> Filled["volume"], rotation |-> Filled["rotation"]]
  BY <1>4 DEF Wishes
<1>9. /\ Filled["paused"] \in BOOLEAN \union {Unset} /\ Filled["volume"] \in Volume \union {Unset}
      /\ Filled["rotation"] \in Rotation \union {Unset}
  BY <1>3, <1>6, <1>7 DEF Wishes
<1>10. Filled \in Settings
  BY <1>8, <1>9 DEF Settings
<1> QED BY <1>3, <1>5, <1>10

\* The first acquisition begins with everything said.
LEMMA Began ==
  ASSUME PageInv, Begin
  PROVE  PageInv'
<1>0. SearchInv /\ MediaInv /\ WishInv
  BY DEF PageInv
<1>1. /\ ~begun /\ reply # Unheard /\ begun' = TRUE /\ desired' = Filled /\ StartSearch
      /\ UNCHANGED <<hasVideo, element, width, candidate, current, listening, snapshots, reply, want, toDocument>>
  BY DEF Begin, domVars
<1>2. acquisition = "none" /\ acquisition' = "searching" /\ listening = {}
  BY <1>0, <1>1 DEF MediaInv, SearchInv, StartSearch
<1>3. SearchInv'
  BY <1>0, <1>1, <1>2 DEF SearchInv, NoStrayObservers, StartSearch
<1>4. MediaInv'
  BY <1>0, <1>1, <1>2 DEF MediaInv
<1>5. /\ desired' \in Settings
      /\ \A k \in Wishes : desired'[k] # Unset /\ desired'[k] = IF desired[k] = Unset THEN Default[k] ELSE desired[k]
  BY <1>0, <1>1, FilledUp
<1>6. WishInv'
  BY <1>0, <1>1, <1>5 DEF WishInv
<1> QED BY <1>3, <1>4, <1>6 DEF PageInv

\* An element that is acquired is as the page was told, and the search has ended.
LEMMA Acquired ==
  ASSUME PageInv, NEW m \in Media, Acquire(m), begun, search' = "none", watched' = {}, observed' = Nowhere,
         ~scanDue', acquisition # "acquired", width' \subseteq Media, UNCHANGED <<hasVideo, wishVars>>
  PROVE  PageInv'
<1>0. SearchInv /\ MediaInv /\ WishInv
  BY DEF PageInv
<1>1. /\ acquisition' = "acquired" /\ candidate' = NoMedia /\ current' = m
      /\ element' = [element EXCEPT ![m] = Tuned(m)]
      /\ listening' = listening \union {m} /\ (snapshots' = snapshots \union {m} \/ snapshots' = snapshots)
  BY DEF Acquire
<1>2. listening = {} /\ snapshots = {}
  BY <1>0 DEF MediaInv
<1>3. Tuned(m) \in Settings
  <2>1. desired \in Settings /\ element[m] \in Settings
    BY <1>0 DEF WishInv, MediaInv
  <2> QED BY <2>1 DEF Tuned, Settings
<1>4. element' \in [Media -> Settings] /\ element'[m] = Tuned(m)
  BY <1>0, <1>1, <1>3 DEF MediaInv
<1>5. UNCHANGED <<desired, begun>>
  BY DEF wishVars
<1>6. SearchInv'
  BY <1>1 DEF SearchInv, NoStrayObservers
<1>7. /\ element'[m].paused = desired.paused /\ element'[m].volume = desired.volume
      /\ hasVideo => element'[m].rotation = desired.rotation
  BY <1>4 DEF Tuned
<1>8. MediaInv'
  BY <1>1, <1>2, <1>4, <1>5, <1>7 DEF MediaInv
<1>9. WishInv'
  BY <1>0 DEF WishInv, wishVars
<1> QED BY <1>6, <1>8, <1>9 DEF PageInv

\* An element that is found is acquired, or plays first.
LEMMA Finds ==
  ASSUME PageInv, NEW m \in Media, Found(m), acquisition = "searching"
  PROVE  PageInv'
<1>0. SearchInv /\ MediaInv /\ WishInv /\ begun
  BY DEF PageInv, MediaInv
<1>1. /\ search' = "none" /\ watched' = {} /\ observed' = Nowhere /\ scanDue' = FALSE
      /\ UNCHANGED <<hasVideo, width, wishVars>>
  BY DEF Found, StopSearch
<1>2. width' \subseteq Media
  BY <1>0, <1>1 DEF MediaInv
<1>3. CASE hasVideo /\ m \notin width
  <2>1. /\ acquisition' = "starting" /\ candidate' = m
        /\ element' = [element EXCEPT ![m].paused = FALSE]
        /\ UNCHANGED <<current, listening, snapshots>>
    BY <1>3 DEF Found
  <2>2. element' \in [Media -> Settings]
    <3>1. element \in [Media -> Settings]
      BY <1>0 DEF MediaInv
    <3>2. [element[m] EXCEPT !.paused = FALSE] \in Settings
      BY <3>1 DEF Settings
    <3> QED BY <2>1, <3>1, <3>2
  <2>3. listening = {} /\ snapshots = {} /\ m # NoMedia
    BY <1>0, PageAssumption DEF MediaInv
  <2>4. SearchInv'
    BY <1>1, <2>1 DEF SearchInv, NoStrayObservers
  <2>5. MediaInv'
    BY <1>0, <1>1, <1>2, <2>1, <2>2, <2>3 DEF MediaInv, wishVars
  <2>6. WishInv'
    BY <1>0, <1>1 DEF WishInv, wishVars
  <2> QED BY <2>4, <2>5, <2>6 DEF PageInv
<1>4. CASE ~(hasVideo /\ m \notin width)
  <2>1. Acquire(m)
    BY <1>4 DEF Found
  <2> QED BY <1>0, <1>1, <1>2, <2>1, Acquired
<1> QED BY <1>3, <1>4

\* An acquisition that fails has no candidate any more.
LEMMA Fails ==
  ASSUME PageInv, acquisition' = "failed", candidate' = NoMedia, search' = "none", watched' = {},
         observed' = Nowhere, ~scanDue', acquisition \in {"searching", "starting"}, width' \subseteq Media,
         UNCHANGED <<hasVideo, element, current, listening, snapshots, wishVars>>
  PROVE  PageInv'
<1>0. SearchInv /\ MediaInv /\ WishInv
  BY DEF PageInv
<1>1. SearchInv'
  BY DEF SearchInv, NoStrayObservers
<1>2. MediaInv'
  BY <1>0 DEF MediaInv, wishVars
<1>3. WishInv'
  BY <1>0 DEF WishInv, wishVars
<1> QED BY <1>1, <1>2, <1>3 DEF PageInv

\* Every step of the page and its script keeps the invariant.
LEMMA PageKeeps == PageInv /\ [PageNext]_pageVars => PageInv'
<1> SUFFICES ASSUME PageInv, [PageNext]_pageVars PROVE PageInv'
  OBVIOUS
<1>0. SearchInv /\ MediaInv /\ WishInv
  BY DEF PageInv
<1>q. search = "none" => watched = {} /\ observed = Nowhere /\ ~scanDue
  BY <1>0 DEF SearchInv, NoStrayObservers
<1>1. ASSUME UNCHANGED <<hasVideo, element, width, acquisition, search, candidate, current, listening, snapshots, wishVars>>,
             search = "none" => watched' = {} /\ observed' = Nowhere /\ ~scanDue'
      PROVE  PageInv'
  <2>1. SearchInv'
    BY <1>0, <1>1 DEF SearchInv, NoStrayObservers
  <2>2. MediaInv' /\ WishInv'
    BY <1>0, <1>1 DEF MediaInv, WishInv, wishVars
  <2> QED BY <2>1, <2>2 DEF PageInv
<1>2. CASE DomReady
  <2>1. CASE search = "waiting"
    <3>1. /\ search' = "observing"
          /\ UNCHANGED <<hasVideo, element, width, acquireVars, wishVars>>
      BY <1>2, <2>1 DEF DomReady, domVars
    <3>2. SearchInv'
      BY <1>0, <2>1, <3>1 DEF SearchInv, NoStrayObservers, acquireVars
    <3>3. MediaInv' /\ WishInv'
      BY <1>0, <3>1 DEF MediaInv, WishInv, wishVars, acquireVars
    <3> QED BY <3>2, <3>3 DEF PageInv
  <2>2. CASE search # "waiting"
    <3>1. UNCHANGED <<hasVideo, element, width, acquireVars, search, watched, observed, scanDue, wishVars>>
      BY <1>2, <2>2 DEF DomReady, domVars
    <3> QED BY <1>1, <1>q, <3>1 DEF acquireVars
  <2> QED BY <2>1, <2>2
<1>3. CASE ScanInVain
  <2>1. search = "observing" /\ UNCHANGED <<hasVideo, element, width, acquireVars, search, wishVars>>
    BY <1>3 DEF ScanInVain, domVars
  <2> QED BY <1>1, <2>1 DEF acquireVars
<1>4. CASE SearchTimesOut
  <2>1. CASE search = "observing" /\ VisibleMedia # {}
    <3>1. PICK m \in VisibleMedia : Found(m)
      BY <1>4, <2>1 DEF SearchTimesOut
    <3>2. m \in Media
      BY <3>1 DEF VisibleMedia, Reachable
    <3> QED BY <1>4, <3>1, <3>2, Finds DEF SearchTimesOut
  <2>2. CASE ~(search = "observing" /\ VisibleMedia # {})
    <3>1. StopSearch /\ Fail /\ acquisition = "searching"
      BY <1>4, <2>2 DEF SearchTimesOut
    <3>2. width' \subseteq Media
      BY <1>0, <3>1 DEF MediaInv, Fail, domVars
    <3> QED BY <3>1, <3>2, Fails DEF StopSearch, Fail
  <2> QED BY <2>1, <2>2
<1>5. CASE StartTimesOut
  <2>0. acquisition = "starting" /\ search = "none" /\ begun /\ candidate \in Media
    BY <1>0, <1>5 DEF StartTimesOut, SearchInv, MediaInv
  <2>1. CASE candidate \in width
    <3>1. Acquire(candidate) /\ UNCHANGED <<hasVideo, width, searchVars, wishVars>>
      BY <1>5, <2>1 DEF StartTimesOut
    <3>2. width' \subseteq Media
      BY <1>0, <3>1 DEF MediaInv
    <3>3. search' = "none" /\ watched' = {} /\ observed' = Nowhere /\ ~scanDue' /\ acquisition # "acquired"
      BY <1>q, <2>0, <3>1 DEF searchVars
    <3> QED BY <2>0, <3>1, <3>2, <3>3, Acquired
  <2>2. CASE candidate \notin width
    <3>1. Fail /\ UNCHANGED searchVars
      BY <1>5, <2>2 DEF StartTimesOut
    <3>2. width' \subseteq Media
      BY <1>0, <3>1 DEF MediaInv, Fail, domVars
    <3>3. search' = "none" /\ watched' = {} /\ observed' = Nowhere /\ ~scanDue'
      BY <1>q, <2>0, <3>1 DEF searchVars
    <3> QED BY <2>0, <3>1, <3>2, <3>3, Fails DEF Fail
  <2> QED BY <2>1, <2>2
<1>6. ASSUME NEW m \in Media, NEW picture \in BOOLEAN, Playing(m, picture) PROVE PageInv'
  <2>0. width' \subseteq Media
    BY <1>0, <1>6 DEF Playing, MediaInv
  <2>1. CASE acquisition # "starting" \/ candidate # m
    <3>1. UNCHANGED <<hasVideo, element, searchVars, acquireVars, wishVars>>
      BY <1>6, <2>1 DEF Playing
    <3>2. SearchInv'
      BY <1>0, <3>1 DEF SearchInv, NoStrayObservers, searchVars, acquireVars
    <3>3. MediaInv' /\ WishInv'
      BY <1>0, <2>0, <3>1 DEF MediaInv, WishInv, wishVars, acquireVars
    <3> QED BY <3>2, <3>3 DEF PageInv
  <2>2. CASE acquisition = "starting" /\ candidate = m
    <3>0. search = "none" /\ begun
      BY <1>0, <2>2 DEF SearchInv, MediaInv
    <3>1. CASE picture
      <4>1. Acquire(m) /\ UNCHANGED <<hasVideo, searchVars, wishVars>>
        BY <1>6, <2>2, <3>1 DEF Playing
      <4>2. search' = "none" /\ watched' = {} /\ observed' = Nowhere /\ ~scanDue' /\ acquisition # "acquired"
        BY <1>q, <2>2, <3>0, <4>1 DEF searchVars
      <4> QED BY <2>0, <3>0, <4>1, <4>2, Acquired
    <3>2. CASE ~picture
      <4>1. /\ acquisition' = "failed" /\ candidate' = NoMedia
            /\ UNCHANGED <<hasVideo, element, searchVars, current, listening, snapshots, wishVars>>
        BY <1>6, <2>2, <3>2 DEF Playing
      <4>2. search' = "none" /\ watched' = {} /\ observed' = Nowhere /\ ~scanDue'
        BY <1>q, <3>0, <4>1 DEF searchVars
      <4> QED BY <2>0, <2>2, <4>1, <4>2, Fails
    <3> QED BY <3>1, <3>2
  <2> QED BY <2>1, <2>2
<1>7. ASSUME NEW m \in Media, Emptied(m) PROVE PageInv'
  <2>1. /\ m \in listening /\ listening' = listening \ {m} /\ snapshots' = snapshots \ {m}
        /\ width' = width \ {m} /\ StartSearch
        /\ UNCHANGED <<hasVideo, element, candidate, current, wishVars>>
    BY <1>7 DEF Emptied
  <2>2. acquisition = "acquired" /\ listening' = {} /\ snapshots' = {} /\ begun /\ candidate = NoMedia
    BY <1>0, <2>1 DEF MediaInv
  <2>3. acquisition' = "searching" /\ search' \in {"observing", "waiting"}
    BY <2>1 DEF StartSearch
  <2>4. SearchInv'
    BY <2>3 DEF SearchInv, NoStrayObservers
  <2>5. MediaInv'
    BY <1>0, <2>1, <2>2, <2>3 DEF MediaInv, wishVars
  <2>6. WishInv'
    BY <1>0, <2>1 DEF WishInv, wishVars
  <2> QED BY <2>4, <2>5, <2>6 DEF PageInv
<1>8. CASE ReportError
  <2>1. UNCHANGED <<hasVideo, domVars, element, searchVars, acquireVars, wishVars>>
    BY <1>8 DEF ReportError
  <2> QED BY <1>1, <1>q, <2>1 DEF searchVars, acquireVars, domVars
<1>9. ASSUME NEW m \in Media, NEW where \in Frame \union {"top"}, Insert(m, where) PROVE PageInv'
  <2>1. \E found \in BOOLEAN : Mutated(found)
    BY <1>9 DEF Insert, Mutated
  <2>2. UNCHANGED <<hasVideo, element, width, search, watched, observed, acquireVars, wishVars>>
    BY <1>9 DEF Insert
  <2>3. search = "none" => ~scanDue'
    BY <1>q, <2>1 DEF Mutated
  <2> QED BY <1>1, <1>q, <2>2, <2>3 DEF acquireVars
<1>10. ASSUME NEW f \in Frame, NEW o, AddFrame(f, o) \/ Navigate(f, o) \/ FrameLoads(f) PROVE PageInv'
  <2>1. UNCHANGED <<hasVideo, element, width, search, watched, observed, acquireVars, wishVars>>
    BY <1>10 DEF AddFrame, Navigate, FrameLoads, searchVars
  <2>2. search = "none" => ~scanDue'
    BY <1>q, <1>10 DEF AddFrame, Navigate, FrameLoads, searchVars, Mutated
  <2> QED BY <1>1, <1>q, <2>1, <2>2 DEF acquireVars
<1>11. ASSUME NEW k \in Wishes, NEW v, Wish(k, v),
              k = "paused" => v \in BOOLEAN, k = "volume" => v \in Volume, k = "rotation" => v \in Rotation
       PROVE  PageInv'
  <2>1. WishInv'
    BY <1>0, <1>11, Wished
  <2>2. UNCHANGED <<hasVideo, element, domVars, searchVars, acquireVars, desired, begun>>
    BY <1>11 DEF Wish
  <2>3. SearchInv' /\ MediaInv'
    BY <1>0, <2>2 DEF SearchInv, NoStrayObservers, MediaInv, searchVars, acquireVars, domVars
  <2> QED BY <2>1, <2>3 DEF PageInv
<1>12. CASE HearMessage
  <2>1. WishInv' /\ MediaInv'
    BY <1>0, <1>12, Heard
  <2>2. UNCHANGED <<searchVars, acquireVars>>
    BY <1>12 DEF HearMessage
  <2>3. SearchInv'
    BY <1>0, <2>2 DEF SearchInv, NoStrayObservers, searchVars, acquireVars
  <2> QED BY <2>1, <2>3 DEF PageInv
<1>13. ASSUME NEW m \in Media, ScanFinds(m) PROVE PageInv'
  <2>1. Found(m) /\ search = "observing"
    BY <1>13 DEF ScanFinds
  <2>2. acquisition = "searching"
    BY <1>0, <2>1 DEF SearchInv
  <2> QED BY <2>1, <2>2, Finds
<1>14. CASE UNCHANGED pageVars
  BY <1>1, <1>q, <1>14 DEF pageVars, domVars, searchVars, acquireVars
<1>15. (\E p \in BOOLEAN : Wish("paused", p)) \/ (\E x \in Volume : Wish("volume", x))
          \/ (\E r \in Rotation : Wish("rotation", r)) => PageInv'
  BY <1>11 DEF Wishes
<1> QED BY <1>2, <1>3, <1>4, <1>5, <1>6, <1>7, <1>8, <1>9, <1>10, <1>12, <1>13, <1>14, <1>15, Began DEF PageNext

\* The document begins with nothing searched for, and everything wanted in the reply.
LEMMA PageStart == PageInit => PageInv
<1> SUFFICES ASSUME PageInit PROVE PageInv
  OBVIOUS
<1>1. SearchInv
  BY DEF PageInit, SearchInv, NoStrayObservers
<1>2. Default \in Settings /\ Unheard \in Settings
  BY DefaultAssumption DEF Default, Unheard, Settings
<1>3. element \in [Media -> Settings]
  BY <1>2 DEF PageInit
<1>4. MediaInv
  BY <1>3 DEF PageInit, MediaInv
<1> DEFINE M == [type : Wishes \union {"view-init"}, value : BOOLEAN \union Volume \union Rotation \union {Default}]
<1>5. toDocument = <<Message("view-init", Default)>> /\ desired = Unheard /\ want = Default /\ ~begun
  BY DEF PageInit
<1>6. Message("view-init", Default) \in M
  BY DEF Message
<1>7. toDocument \in Seq(M) /\ Len(toDocument) = 1 /\ toDocument[1] = Message("view-init", Default)
  BY <1>5, <1>6
<1>8. \A i \in 1 .. Len(toDocument) : toDocument[i].type = "view-init" /\ toDocument[i].value = Default
  BY <1>7 DEF Message
<1>9. \A k \in Wishes : k # "view-init" /\ want[k] = Default[k] /\ desired[k] = Unset
  BY <1>5 DEF Unheard, Wishes
<1>10. hasVideo \in BOOLEAN /\ begun \in BOOLEAN /\ reply \in {Unheard, Default}
  BY DEF PageInit
<1>11. WishInv
  BY <1>2, <1>5, <1>7, <1>8, <1>9, <1>10 DEF WishInv
<1> QED BY <1>1, <1>4, <1>11 DEF PageInv

\* What the invariant says of a page in its operator's eyes.
LEMMA PageSound == PageInv => NoStrayObservers /\ AsWanted /\ PageTypeOK
<1> SUFFICES ASSUME PageInv PROVE NoStrayObservers /\ AsWanted /\ PageTypeOK
  OBVIOUS
<1>0. SearchInv /\ MediaInv /\ WishInv
  BY DEF PageInv
<1>1. NoStrayObservers
  BY <1>0 DEF SearchInv
<1>2. begun => desired["paused"] # Unset /\ desired["volume"] # Unset /\ desired["rotation"] # Unset
  BY <1>0 DEF WishInv, Wishes
<1>3. AsWanted
  <2> SUFFICES ASSUME acquisition = "acquired", toDocument = <<>>
               PROVE  /\ element[current].paused = want.paused
                      /\ element[current].volume = want.volume
                      /\ hasVideo => element[current].rotation = want.rotation
    BY DEF AsWanted
  <2>1. begun
    BY <1>0 DEF MediaInv
  <2>2. \A k \in Wishes, i \in 1 .. Len(toDocument) : toDocument[i].type # k
    BY EmptySeq
  <2>3. \A k \in Wishes : want[k] = desired[k]
    BY <1>0, <2>1, <2>2 DEF WishInv
  <2>4. want["paused"] = desired["paused"] /\ want["volume"] = desired["volume"] /\ want["rotation"] = desired["rotation"]
    BY <2>3 DEF Wishes
  <2>5. want \in Settings /\ desired \in Settings
    BY <1>0 DEF WishInv
  <2>6. want.paused = desired.paused /\ want.volume = desired.volume /\ want.rotation = desired.rotation
    BY <2>4, <2>5 DEF Settings
  <2> QED BY <1>0, <2>6 DEF MediaInv
<1>4. begun => desired.paused # Unset /\ desired.volume # Unset /\ desired.rotation # Unset
  <2>1. desired \in Settings
    BY <1>0 DEF WishInv
  <2> QED BY <1>2, <2>1 DEF Settings
<1>5. PageTypeOK
  BY <1>0, <1>4 DEF SearchInv, MediaInv, PageTypeOK
<1> QED BY <1>1, <1>3, <1>5

\* A search that has ended leaves nothing behind, and what plays is as it is wanted once
\* every message has arrived.
THEOREM PagesObey == PageSpec => [](NoStrayObservers /\ AsWanted) /\ []PageTypeOK
BY PageStart, PageKeeps, PageSound, PTL DEF PageSpec

-----------------------------------------------------------------------------
(* The player and the sessions (Player, Navigation).                       *)

\* A player that is gone stays quiet.
GoneIsQuiet == player = "destroyed" => ~fetching /\ video = "emptied"

\* Types, of what is Boolean and of the rest.
Flags == /\ srcAllowed \in BOOLEAN /\ fetching \in BOOLEAN /\ parkedPage \in BOOLEAN /\ hiding \in BOOLEAN
PlayerValues ==
  /\ support \in {"hls.js", "native", "none"}
  /\ player \in {"none", "hls.js", "native", "destroyed"} /\ fatalErrorRetries \in 0 .. MaxFatalErrorRetries
  /\ video \in {"none", "made", "shown", "emptied"}
  /\ reported \in {"none", "src-rejected", "hls-unsupported"}

PlayerInv == Flags /\ PlayerValues /\ GoneIsQuiet /\ UnparkedFetches

\* A fatal error takes a try or the player.
Spends ==
  /\ fatalErrorRetries' >= fatalErrorRetries
  /\ AnyFatalError => fatalErrorRetries' > fatalErrorRetries \/ player' = "destroyed"

\* No player is there at the start.
LEMMA PlayerStarts == PlayerInit => PlayerInv
<1> SUFFICES ASSUME PlayerInit PROVE PlayerInv
  OBVIOUS
<1>1. Flags
  BY DEF PlayerInit, Flags
<1>2. PlayerValues
  BY RetriesAssumption DEF PlayerInit, PlayerValues
<1>3. GoneIsQuiet /\ UnparkedFetches
  BY DEF PlayerInit, GoneIsQuiet, UnparkedFetches
<1> QED BY <1>1, <1>2, <1>3 DEF PlayerInv

\* No event of the page, the stream or the wall revives a player or gives a try back.
LEMMA PlayerKeeps == PlayerInv /\ [PlayerNext]_playerVars => PlayerInv' /\ [Spends]_playerVars
<1> SUFFICES ASSUME PlayerInv, [PlayerNext]_playerVars PROVE PlayerInv' /\ [Spends]_playerVars
  OBVIOUS
<1> USE RetriesAssumption DEF PlayerInv
<1>1. CASE LoadHLS
  <2>1. PlayerValues' /\ fatalErrorRetries' = fatalErrorRetries
    BY <1>1 DEF LoadHLS, PlayerValues
  <2>2. Flags' /\ GoneIsQuiet' /\ UnparkedFetches'
    BY <1>1 DEF LoadHLS, Flags, PlayerValues, GoneIsQuiet, UnparkedFetches
  <2>3. ~AnyFatalError
    BY <1>1 DEF LoadHLS, AnyFatalError, FatalError
  <2> QED BY <2>1, <2>2, <2>3 DEF Spends, PlayerValues
<1>2. CASE Parsed
  <2>1. PlayerValues' /\ fatalErrorRetries' = fatalErrorRetries
    BY <1>2 DEF Parsed, PlayerValues
  <2>2. Flags' /\ GoneIsQuiet' /\ UnparkedFetches'
    BY <1>2 DEF Parsed, Flags, GoneIsQuiet, UnparkedFetches
  <2>3. ~AnyFatalError
    BY <1>2 DEF Parsed, AnyFatalError, FatalError, Spend, Teardown
  <2> QED BY <2>1, <2>2, <2>3 DEF Spends, PlayerValues
<1>3. CASE AnyFatalError
  <2>1. PICK type \in {"network", "media", "other"} : FatalError(type)
    BY <1>3 DEF AnyFatalError
  <2>2. CASE fatalErrorRetries < MaxFatalErrorRetries /\ type # "other"
    <3>1. PlayerValues' /\ fatalErrorRetries' > fatalErrorRetries
      BY <2>1, <2>2 DEF FatalError, Spend, PlayerValues
    <3>2. Flags' /\ GoneIsQuiet'
      BY <2>1, <2>2 DEF FatalError, Flags, GoneIsQuiet
    <3>3. UnparkedFetches'
      BY <2>1, <2>2 DEF FatalError, UnparkedFetches
    <3> QED BY <3>1, <3>2, <3>3 DEF Spends, PlayerValues
  <2>3. CASE ~ (fatalErrorRetries < MaxFatalErrorRetries /\ type # "other")
    <3>1. player' = "destroyed" /\ fetching' = FALSE /\ video' = "emptied"
      BY <2>1, <2>3 DEF FatalError, Teardown
    <3>2. PlayerValues' /\ fatalErrorRetries' >= fatalErrorRetries
      BY <2>1, <3>1 DEF FatalError, Spend, PlayerValues
    <3>3. Flags' /\ GoneIsQuiet' /\ UnparkedFetches'
      BY <2>1, <3>1 DEF FatalError, Flags, GoneIsQuiet, UnparkedFetches
    <3> QED BY <3>1, <3>2, <3>3 DEF Spends
  <2> QED BY <2>2, <2>3
<1>4. CASE PageHide
  <2>1. PlayerValues' /\ fatalErrorRetries' = fatalErrorRetries
    BY <1>4 DEF PageHide, Teardown, PlayerValues
  <2>2. Flags' /\ GoneIsQuiet'
    BY <1>4 DEF PageHide, Teardown, Flags, GoneIsQuiet
  <2>3. UnparkedFetches'
    BY <1>4 DEF PageHide, Teardown, UnparkedFetches
  <2> QED BY <1>3, <2>1, <2>2, <2>3 DEF Spends, PlayerValues
<1>5. ASSUME NEW paused \in BOOLEAN, Park(paused) PROVE PlayerInv' /\ fatalErrorRetries' = fatalErrorRetries
  <2>1. PlayerValues' /\ fatalErrorRetries' = fatalErrorRetries
    BY <1>5 DEF Park, PlayerValues
  <2>2. Flags' /\ GoneIsQuiet' /\ UnparkedFetches'
    BY <1>5 DEF Park, Flags, GoneIsQuiet, UnparkedFetches
  <2> QED BY <2>1, <2>2
<1>6. CASE UNCHANGED playerVars
  BY <1>6 DEF playerVars, Flags, PlayerValues, GoneIsQuiet, UnparkedFetches
<1>7. ASSUME NEW paused \in BOOLEAN, Park(paused) PROVE PlayerInv' /\ [Spends]_playerVars
  <2>1. AnyFatalError \/ Spends
    BY <1>5, <1>7 DEF Spends, PlayerValues
  <2> QED BY <1>3, <1>5, <1>7, <2>1, Zenon
<1> QED BY <1>1, <1>2, <1>3, <1>4, <1>6, <1>7 DEF PlayerNext

\* The invariants give the types, and say what the player promises.
LEMMA PlayerSound == PlayerInv => GoneIsQuiet /\ UnparkedFetches /\ PlayerTypeOK
<1> SUFFICES ASSUME PlayerInv PROVE GoneIsQuiet /\ UnparkedFetches /\ PlayerTypeOK
  OBVIOUS
<1>1. Flags /\ PlayerValues /\ GoneIsQuiet /\ UnparkedFetches
  BY DEF PlayerInv
<1>2. PlayerTypeOK
  BY <1>1, Zenon DEF Flags, PlayerValues, PlayerTypeOK
<1> QED BY <1>1, <1>2


\* A request is under way.
Under(r) == r.step \in {"asked", "sent"}

\* What the session has let pass was none of what it can tell to be private.
Screened(r) ==
  /\ Under(r) => r.to \in Site
  /\ Hardened /\ r.step = "sent" /\ r.to \in Steady \union Loopback => r.to = AppPage \/ (r.to \notin Loopback /\ "private" \notin dns[r.to])

\* Windows of the app are on its page or on their way there; a view is where a load of the
\* app took it, and goes elsewhere only for one.
Placed ==
  /\ AppWindow => /\ committed \in {NoSite, AppPage} /\ awaited = NoSite /\ stale = NoSite
                  /\ Under(nav) => nav.to = AppPage
  /\ surface = "view" /\ committed # NoSite /\ Under(nav) =>
       nav.to = committed \/ (nav.by = "app" /\ nav.to = nav.first)
  /\ surface = "control" => embed = NoHop

NavInv ==
  /\ NavigationTypeOK /\ Placed /\ Screened(nav) /\ Screened(embed)
  /\ LetsResolve /\ KnownUnreached

\* No page is anywhere at the start.
LEMMA NavigationStarts == NavigationInit => NavInv
<1> SUFFICES ASSUME NavigationInit PROVE NavInv
  OBVIOUS
<1> USE UrlAssumption DEF NavigationInit, AppWindow, At, NoHop, Under, Surface, Hardened
<1>1. NavigationTypeOK
  BY DEF NavigationTypeOK, Hop
<1>2. Placed
  BY DEF Placed
<1>3. Screened(nav) /\ Screened(embed)
  BY DEF Screened
<1>4. LetsResolve /\ KnownUnreached
  BY DEF LetsResolve, KnownUnreached
<1> QED BY <1>1, <1>2, <1>3, <1>4 DEF NavInv

\* A connection the session has let pass reaches nothing that is known to be private.
LEMMA ConnectKeeps ==
  ASSUME NEW r, NavInv, Screened(r), r.step = "sent", Connect(r), UNCHANGED surface
  PROVE  reached' \subseteq Site /\ KnownUnreached'
<1>1. r.to \in Site
  BY DEF Screened, Under
<1>2. CASE reached' = reached
  BY <1>2 DEF NavInv, NavigationTypeOK, KnownUnreached, Hardened
<1>3. CASE "private" \in Reaches(r.to) /\ reached' = reached \union {r.to}
  <2>1. Hardened => r.to \notin Steady \union Loopback
    BY <1>3 DEF Screened, Reaches
  <2> QED BY <1>1, <1>3, <2>1 DEF NavInv, NavigationTypeOK, KnownUnreached, Hardened
<1> QED BY <1>2, <1>3 DEF Connect

\* What is under way in the main frame keeps to the page there is.
LEMMA NavigationKeeps == NavInv /\ [NavigationNext]_navVars => NavInv' /\ [StaysPut]_navVars
<1> SUFFICES ASSUME NavInv, [NavigationNext]_navVars PROVE NavInv' /\ [StaysPut]_navVars
  OBVIOUS
<1> USE UrlAssumption DEF NavInv, Under, AppWindow, Hardened, Surface
<1>1. CASE CheckEnds
  <2>1. NavigationTypeOK'
    BY <1>1 DEF CheckEnds, LoadURL, NavigationTypeOK, Hop, At, ValidURL, Web
  <2>2. surface \notin {"layer", "control"}
    BY <1>1 DEF CheckEnds, Placed
  <2>3. nav' = nav \/ nav' = At("asked", awaited, awaited, "app")
    BY <1>1 DEF CheckEnds, LoadURL
  <2>4. UNCHANGED <<surface, dns, stale, embed, committed, reached, opened>>
    BY <1>1 DEF CheckEnds
  <2>5. Placed'
    BY <2>2, <2>3, <2>4 DEF Placed, At
  <2>6. Screened(nav)' /\ Screened(embed)'
    BY <1>1, <2>3, <2>4 DEF Screened, At, NavigationTypeOK, CheckEnds
  <2>7. LetsResolve' /\ KnownUnreached'
    BY <2>3, <2>4 DEF LetsResolve, KnownUnreached, At
  <2>8. StaysPut
    BY <2>2, <2>4 DEF StaysPut
  <2> QED BY <2>1, <2>5, <2>6, <2>7, <2>8
<1>2. CASE StaleCheckEnds
  <2>1. NavigationTypeOK'
    BY <1>2 DEF StaleCheckEnds, LoadURL, NavigationTypeOK, Hop, At, ValidURL, Web
  <2>2. surface \notin {"layer", "control"}
    BY <1>2 DEF StaleCheckEnds, Placed
  <2>3. nav' = nav \/ nav' = At("asked", stale, stale, "app")
    BY <1>2 DEF StaleCheckEnds, LoadURL
  <2>4. UNCHANGED <<surface, dns, awaited, embed, committed, reached, opened>>
    BY <1>2 DEF StaleCheckEnds
  <2>5. Placed'
    BY <2>2, <2>3, <2>4 DEF Placed, At
  <2>6. Screened(nav)' /\ Screened(embed)'
    BY <1>2, <2>3, <2>4 DEF Screened, At, NavigationTypeOK, StaleCheckEnds
  <2>7. LetsResolve' /\ KnownUnreached'
    BY <2>3, <2>4 DEF LetsResolve, KnownUnreached, At
  <2>8. StaysPut
    BY <2>2, <2>4 DEF StaysPut
  <2> QED BY <2>1, <2>5, <2>6, <2>7, <2>8
<1>3. CASE NavDecided
  <2>1. UNCHANGED <<surface, dns, awaited, stale, embed, committed, reached, opened>>
    BY <1>3 DEF NavDecided
  <2>2. \/ nav' = NoHop
        \/ nav' = [nav EXCEPT !.step = "sent"] /\ ~Cancels(nav)
    BY <1>3 DEF NavDecided, Decided
  <2>3. nav \in Hop /\ nav.step = "asked"
    BY <1>3 DEF NavDecided, NavigationTypeOK
  <2>4. NavigationTypeOK' /\ Placed'
    BY <2>1, <2>2, <2>3 DEF NavigationTypeOK, Placed, Hop, NoHop, At
  <2>5. Screened(nav)'
    BY <2>1, <2>2, <2>3 DEF Screened, Hop, NoHop, At, Cancels, Blocked, Web
  <2>6. Screened(embed)' /\ LetsResolve' /\ KnownUnreached' /\ StaysPut
    BY <2>1, <2>2, <2>3 DEF Screened, LetsResolve, KnownUnreached, StaysPut, Hop, NoHop, At, Placed
  <2> QED BY <2>4, <2>5, <2>6
<1>4. CASE NavCommits
  <2>1. /\ UNCHANGED <<surface, dns, awaited, stale, opened>>
        /\ nav.step = "sent" /\ nav.to \in Site /\ committed' = nav.to /\ nav' = NoHop /\ embed' = NoHop
    BY <1>4 DEF NavCommits, Screened
  <2>2. reached' \subseteq Site /\ KnownUnreached'
    BY <1>4, ConnectKeeps DEF NavCommits, NavigationTypeOK
  <2>3. NavigationTypeOK' /\ Placed'
    BY <2>1, <2>2 DEF NavigationTypeOK, Placed, Hop, NoHop, At
  <2>4. Screened(nav)' /\ Screened(embed)' /\ LetsResolve'
    BY <2>1 DEF Screened, LetsResolve, NoHop, At
  <2>5. StaysPut
    BY <2>1 DEF StaysPut, Placed
  <2> QED BY <2>2, <2>3, <2>4, <2>5
<1>5. CASE NavFails
  <2>1. nav' = NoHop /\ UNCHANGED <<surface, dns, awaited, stale, embed, committed, reached, opened>>
    BY <1>5 DEF NavFails
  <2>2. NavigationTypeOK' /\ Placed'
    BY <2>1 DEF NavigationTypeOK, Placed, Hop, NoHop, At
  <2>3. Screened(nav)' /\ Screened(embed)' /\ LetsResolve' /\ KnownUnreached' /\ StaysPut
    BY <2>1 DEF Screened, LetsResolve, KnownUnreached, StaysPut, NoHop, At, Placed
  <2> QED BY <2>2, <2>3
<1>6. CASE EmbedDecided
  <2>1. UNCHANGED <<surface, dns, awaited, stale, nav, committed, reached, opened>>
    BY <1>6 DEF EmbedDecided
  <2>2. \/ embed' = NoHop
        \/ embed' = [embed EXCEPT !.step = "sent"] /\ ~Cancels(embed)
    BY <1>6 DEF EmbedDecided, Decided
  <2>3. embed \in Hop /\ embed.step = "asked"
    BY <1>6 DEF EmbedDecided, NavigationTypeOK
  <2>4. surface # "control"
    BY <2>3 DEF Placed, NoHop, At
  <2>5. NavigationTypeOK' /\ Placed'
    BY <2>1, <2>2, <2>3, <2>4 DEF NavigationTypeOK, Placed, Hop, NoHop, At
  <2>6. Screened(embed)'
    BY <2>1, <2>2, <2>3 DEF Screened, Hop, NoHop, At, Cancels, Blocked, Web
  <2>7. Screened(nav)' /\ LetsResolve' /\ KnownUnreached' /\ StaysPut
    BY <2>1, <2>2, <2>3 DEF Screened, LetsResolve, KnownUnreached, StaysPut, Hop, NoHop, At, Placed
  <2> QED BY <2>5, <2>6, <2>7
<1>7. CASE EmbedLoads
  <2>1. embed' = NoHop /\ UNCHANGED <<surface, dns, awaited, stale, nav, committed, opened>>
    BY <1>7 DEF EmbedLoads
  <2>2. reached' \subseteq Site /\ KnownUnreached'
    BY <1>7, <2>1, ConnectKeeps DEF EmbedLoads, NavigationTypeOK
  <2>3. NavigationTypeOK' /\ Placed'
    BY <2>1, <2>2 DEF NavigationTypeOK, Placed, Hop, NoHop, At
  <2>4. Screened(nav)' /\ Screened(embed)' /\ LetsResolve' /\ StaysPut
    BY <2>1 DEF Screened, LetsResolve, StaysPut, NoHop, At, Placed
  <2> QED BY <2>2, <2>3, <2>4
<1>8. ASSUME NEW u \in Site, LoadPage(u) PROVE NavInv' /\ StaysPut
  <2>1. /\ UNCHANGED <<surface, dns, reached, opened>> /\ awaited' = u /\ stale' \in {stale, awaited}
        /\ surface \in {"view", "browse"}
        /\ \/ surface = "browse" /\ committed' = NoSite /\ nav' = NoHop /\ embed' = NoHop
           \/ surface = "view" /\ UNCHANGED <<committed, nav, embed>>
    BY <1>8 DEF LoadPage
  <2>2. NavigationTypeOK' /\ Placed'
    BY <2>1 DEF NavigationTypeOK, Placed, Hop, NoHop, At
  <2>3. Screened(nav)' /\ Screened(embed)' /\ LetsResolve' /\ KnownUnreached' /\ StaysPut
    BY <2>1 DEF Screened, LetsResolve, KnownUnreached, StaysPut, NoHop, At
  <2> QED BY <2>2, <2>3
<1>9. ASSUME NEW u \in Site, PageNavigates(u) PROVE NavInv' /\ StaysPut
  <2>1. /\ UNCHANGED <<surface, dns, awaited, stale, embed, committed, reached, opened>>
        /\ committed # NoSite
        /\ nav' = Prevented \/ (nav' = At("asked", u, u, "page") /\ ~Prevents("main", u))
    BY <1>9 DEF PageNavigates
  <2>2. NavigationTypeOK' /\ Screened(nav)' /\ Screened(embed)' /\ LetsResolve' /\ KnownUnreached'
    BY <2>1 DEF NavigationTypeOK, Hop, Prevented, At, Screened, LetsResolve, KnownUnreached
  <2>3. Placed' /\ StaysPut
    BY <2>1 DEF Placed, Prevented, At, Prevents, StaysPut
  <2> QED BY <2>2, <2>3
<1>10. ASSUME NEW u \in Site, EmbedAsks(u) PROVE NavInv' /\ StaysPut
  <2>1. /\ UNCHANGED <<surface, dns, awaited, stale, nav, committed, reached, opened>>
        /\ surface # "control" /\ embed' = At("asked", u, u, "page")
    BY <1>10 DEF EmbedAsks
  <2>2. NavigationTypeOK' /\ Screened(nav)' /\ Screened(embed)' /\ LetsResolve' /\ KnownUnreached'
    BY <2>1 DEF NavigationTypeOK, Hop, At, Screened, LetsResolve, KnownUnreached
  <2>3. Placed' /\ StaysPut
    BY <2>1 DEF Placed, At, StaysPut
  <2> QED BY <2>2, <2>3
<1>11. ASSUME NEW u \in Site, OpenWindow(u) PROVE NavInv' /\ StaysPut
  <2>1. UNCHANGED <<surface, dns, awaited, stale, nav, embed, committed, reached>> /\ surface = "control" /\ opened' = u
    BY <1>11 DEF OpenWindow
  <2>2. NavigationTypeOK' /\ Screened(nav)' /\ Screened(embed)' /\ LetsResolve' /\ KnownUnreached'
    BY <2>1 DEF NavigationTypeOK, Screened, LetsResolve, KnownUnreached
  <2>3. Placed' /\ StaysPut
    BY <2>1 DEF Placed, StaysPut
  <2> QED BY <2>2, <2>3
<1>12. ASSUME NEW u \in Site, NavRedirected(u) PROVE NavInv' /\ StaysPut
  <2>1. /\ UNCHANGED <<surface, dns, awaited, stale, embed, committed, opened>>
        /\ nav.step = "sent" /\ nav.to \in Web /\ u \in Web
        /\ \/ nav' = Prevented /\ Prevents("main", u)
           \/ nav' = [nav EXCEPT !.step = "asked", !.to = u] /\ ~Prevents("main", u)
    BY <1>12 DEF NavRedirected
  <2>2. reached' \subseteq Site /\ KnownUnreached'
    BY <1>12, <2>1, ConnectKeeps DEF NavRedirected, NavigationTypeOK, Screened
  <2>3. ~AppWindow
    BY <2>1 DEF Placed, Web
  <2>4. /\ nav' \in Hop /\ nav'.step \in {"prevented", "asked"}
        /\ nav'.step = "asked" => nav'.to = u /\ ~Prevents("main", u)
        /\ nav'.step = "prevented" => Prevents("main", u)
    <3>1. nav \in Hop
      BY DEF NavigationTypeOK
    <3>2. CASE nav' = Prevented /\ Prevents("main", u)
      <4>1. nav' \in Hop /\ nav'.step = "prevented"
        BY <3>2 DEF Hop, Prevented, At
      <4> QED BY <3>2, <4>1
    <3>3. CASE nav' = [nav EXCEPT !.step = "asked", !.to = u] /\ ~Prevents("main", u)
      <4>1. nav' \in Hop /\ nav'.step = "asked" /\ nav'.to = u
        BY <3>1, <3>3 DEF Hop
      <4> QED BY <3>3, <4>1
    <3> QED BY <2>1, <3>2, <3>3
  <2>5. NavigationTypeOK' /\ Screened(nav)' /\ Screened(embed)'
    BY <2>1, <2>2, <2>4 DEF NavigationTypeOK, Screened
  <2>6. LetsResolve'
    BY <2>1, <2>3, <2>4 DEF LetsResolve, Prevents
  <2>7. Placed' /\ StaysPut
    BY <2>1, <2>3, <2>4 DEF Placed, Prevents, StaysPut
  <2> QED BY <2>2, <2>5, <2>6, <2>7
<1>13. ASSUME NEW u \in Site, EmbedRedirected(u) PROVE NavInv' /\ StaysPut
  <2>1. /\ UNCHANGED <<surface, dns, awaited, stale, nav, committed, opened>>
        /\ embed.step = "sent" /\ embed.to \in Site /\ u \in Web
        /\ \/ embed' = Prevented /\ Prevents("embed", u)
           \/ embed' = [embed EXCEPT !.step = "asked", !.to = u] /\ ~Prevents("embed", u)
    BY <1>13 DEF EmbedRedirected, Screened
  <2>2. reached' \subseteq Site /\ KnownUnreached'
    BY <1>13, <2>1, ConnectKeeps DEF EmbedRedirected, NavigationTypeOK
  <2>3. surface # "control" /\ ~Prevents("embed", u)
    BY <2>1 DEF Placed, NoHop, At, Prevents
  <2>4. NavigationTypeOK' /\ Screened(nav)' /\ Screened(embed)'
    BY <2>1, <2>2, <2>3 DEF NavigationTypeOK, Hop, Screened, Web
  <2>5. LetsResolve' /\ Placed' /\ StaysPut
    BY <2>1, <2>3 DEF LetsResolve, Placed, StaysPut, NavigationTypeOK, Hop
  <2> QED BY <2>2, <2>4, <2>5
<1>14. ASSUME NEW u \in Site, NEW addresses \in Addresses, Resolves(u, addresses) PROVE NavInv' /\ StaysPut
  <2>1. /\ UNCHANGED <<surface, awaited, stale, nav, embed, committed, reached, opened>>
        /\ u \notin Steady \union Loopback /\ dns' = [dns EXCEPT ![u] = addresses]
    BY <1>14 DEF Resolves
  <2>2. dns' \in [Site -> Addresses] /\ \A w \in Steady : dns'[w] = dns[w]
    BY <2>1 DEF NavigationTypeOK
  <2>3. NavigationTypeOK' /\ Screened(nav)' /\ Screened(embed)' /\ LetsResolve' /\ KnownUnreached'
    BY <2>1, <2>2 DEF NavigationTypeOK, Screened, LetsResolve, KnownUnreached
  <2>4. Placed' /\ StaysPut
    BY <2>1 DEF Placed, StaysPut
  <2> QED BY <2>3, <2>4
<1>15. CASE UNCHANGED navVars
  <2>1. UNCHANGED <<surface, dns, awaited, stale, nav, embed, committed, reached, opened>>
    BY <1>15 DEF navVars
  <2> QED BY <1>15, <2>1 DEF NavigationTypeOK, Screened, LetsResolve, KnownUnreached, Placed
<1> QED BY <1>1, <1>2, <1>3, <1>4, <1>5, <1>6, <1>7, <1>8, <1>9, <1>10, <1>11, <1>12, <1>13, <1>14, <1>15 DEF NavigationNext

-----------------------------------------------------------------------------
(* The parts together (MCDesktop).  A step of the whole is one of a part,  *)
(* or leaves that part alone.                                              *)

\* A step of the whole is, for every part, a step of that part or none.
LEMMA PartSteps ==
  ASSUME [PartNext]_partVars
  PROVE  /\ [LayersNext]_layerVars /\ [DesktopNext]_desktopVars /\ [ServicesNext]_serviceVars
         /\ [ReleasesNext]_releaseVars /\ [UpdatesNext]_updateVars /\ [PageNext]_pageVars
         /\ [PlayerNext]_playerVars /\ [NavigationNext]_navVars
<1>1. CASE UNCHANGED partVars
  BY <1>1 DEF partVars
<1>2. CASE PartNext
  BY <1>2 DEF PartNext, OthersStay, PartsStay, ServicesNext, UpdatesNext
<1> QED BY <1>1, <1>2

\* The invariant of the whole is that of every part.
PartsInv ==
  /\ LayersInv /\ DesktopInv /\ ServicesInv /\ ReleasesTypeOK /\ ReleaseInv /\ UpdatesInv /\ PageInv
  /\ PlayerInv /\ NavInv

\* It holds at the start, whatever part begins.
LEMMA PartsStart == PartInit => PartsInv
BY LayersStart, DesktopStart, ServicesStart, ReleaseTypesStart, ReleaseInvInit, UpdatesStart, PageStart,
   PlayerStarts, NavigationStarts
   DEF PartInit, PartsInv

\* Every step keeps it, and does in each part what a step of that part may do.
LEMMA PartsKeep ==
  PartsInv /\ [PartNext]_partVars =>
    /\ PartsInv'
    /\ [disk.doc' >= disk.doc]_desktopVars /\ [served' >= served]_serviceVars
    /\ [OfferStep]_updateVars /\ [Spends]_playerVars /\ [StaysPut]_navVars
<1> SUFFICES ASSUME PartsInv, [PartNext]_partVars
             PROVE  /\ PartsInv'
                    /\ [disk.doc' >= disk.doc]_desktopVars /\ [served' >= served]_serviceVars
                    /\ [OfferStep]_updateVars /\ [Spends]_playerVars /\ [StaysPut]_navVars
  OBVIOUS
<1>0. /\ LayersInv /\ DesktopInv /\ ServicesInv /\ ReleasesTypeOK /\ ReleaseInv /\ UpdatesInv /\ PageInv
      /\ PlayerInv /\ NavInv
  BY DEF PartsInv
<1>1. /\ [LayersNext]_layerVars /\ [DesktopNext]_desktopVars /\ [ServicesNext]_serviceVars
      /\ [ReleasesNext]_releaseVars /\ [UpdatesNext]_updateVars /\ [PageNext]_pageVars
      /\ [PlayerNext]_playerVars /\ [NavigationNext]_navVars
  BY PartSteps
<1>2. LayersInv' /\ PageInv'
  BY <1>0, <1>1, LayersKeep, PageKeeps
<1>3. DesktopInv' /\ [disk.doc' >= disk.doc]_desktopVars
  BY <1>0, <1>1, DesktopKeeps
<1>4. ServicesInv' /\ [served' >= served]_serviceVars
  BY <1>0, <1>1, ServicesKeep
<1>5. ReleasesTypeOK' /\ ReleaseInv'
  BY <1>0, <1>1, ReleaseTypesKeep, ReleaseInvStep
<1>6. UpdatesInv' /\ [OfferStep]_updateVars
  BY <1>0, <1>1, UpdatesKeep, OfferKeeps
<1>7. PlayerInv' /\ [Spends]_playerVars
  BY <1>0, <1>1, PlayerKeeps
<1>8. NavInv' /\ [StaysPut]_navVars
  BY <1>0, <1>1, NavigationKeeps
<1> QED BY <1>2, <1>3, <1>4, <1>5, <1>6, <1>7, <1>8 DEF PartsInv

\* The types of the parts follow.
LEMMA PartsTyped == PartsInv => PartsTypeOK
<1> SUFFICES ASSUME PartsInv PROVE PartsTypeOK
  OBVIOUS
<1>0. /\ LayersInv /\ DesktopInv /\ ServicesInv /\ ReleasesTypeOK /\ UpdatesInv /\ PageInv
      /\ PlayerInv /\ NavInv
  BY DEF PartsInv
<1>1. UpdatesTypeOK
  BY <1>0, UpdatesSound
<1>2. PlayerTypeOK
  BY <1>0, PlayerSound
<1>3. NavigationTypeOK
  BY <1>0 DEF NavInv
<1> QED BY <1>0, <1>1, <1>2, <1>3, LayersSound, DesktopSound, ServicesSound, PageSound DEF PartsTypeOK

\* The types of all parts, in every state.
THEOREM PartsTypeCorrect == PartSpec => []PartsTypeOK
BY PartsStart, PartsKeep, PartsTyped, PTL DEF PartSpec

\* Every URL that the layers are refused is in sight, until its operator says otherwise: a
\* clear that came after the report of a frame is followed by another mount of it.
THEOREM LinksAreNamed == PartSpec => []RefusedAreNamed
<1>1. PartsInv => RefusedAreNamed
  BY LayersSound DEF PartsInv
<1> QED BY <1>1, PartsStart, PartsKeep, PTL DEF PartSpec

\* What is settled is on disk, a quit keeps what it found, windows alone do not end the app
\* on macOS, and the file never goes back, whatever saves fail, starts and crashes there are.
THEOREM ChangesSaved == PartSpec => ChangesAreSaved
<1>1. PartsInv => SettledIsSaved /\ QuitSaves /\ HidesOnMac
  BY DesktopSound DEF PartsInv
<1> QED BY <1>1, PartsStart, PartsKeep, PTL DEF PartSpec, ChangesAreSaved, NeverBack

\* Commands are carried out in their order and what is shown as connected is the service's
\* own; a stream is announced by one chain, and by one more for each dwell that ended while
\* an announcement of it was with the chat; and every vote is counted once.
THEOREM ServicesInOrder == PartSpec => ServicesKeepOrder
<1>1. PartsInv => ShownIsServed /\ ChainsAreFew /\ VotesCountOnce
  BY ServicesSound DEF PartsInv
<1> QED BY <1>1, PartsStart, PartsKeep, PTL DEF PartSpec, ServicesKeepOrder, ServedInOrder

\* Whatever legs fail, are run again or report what they did not do, every release the
\* pipeline takes out of draft has every kind of artifact (publish-release.mjs, #720).
THEOREM ReleasesAreComplete == PartSpec => []PublishedIsComplete
<1>1. PartsInv => PublishedIsComplete
  BY DEF PartsInv, ReleaseInv
<1> QED BY <1>1, PartsStart, PartsKeep, PTL DEF PartSpec

\* An offer, a download and an update that is ready stay until the user has done with them,
\* whenever checks are due or answered; and a page shows only the status that its newest
\* session asked for (autoUpdater.ts, useUpdateStatus.ts).
THEOREM OffersStand == PartSpec => OffersHold
<1>1. PartsInv => ShownIsAsked
  BY UpdatesSound DEF PartsInv
<1>2. OfferStands <=> [][OfferStep]_updateVars
  BY PTL DEF OfferStands, OfferStep
<1> QED BY <1>1, <1>2, PartsStart, PartsKeep, PTL DEF PartSpec, OffersHold

\* A search that has ended leaves nothing behind; what plays is as it is wanted once every
\* message has arrived; a fatal error takes a try or the player, nothing gives a try back,
\* and a player that lives fetches while its view is on the wall.
THEOREM PagesPlayOn == PartSpec => PagesPlay
<1>1. PartsInv => GoneIsQuiet /\ NoStrayObservers /\ AsWanted /\ UnparkedFetches
  BY PageSound, PlayerSound DEF PartsInv
<1>2. GivesUp <=> [][Spends]_playerVars /\ []GoneIsQuiet
  BY PTL DEF GivesUp, Spends, GoneIsQuiet
<1> QED BY <1>1, <1>2, PartsStart, PartsKeep, PTL DEF PartSpec, PagesPlay

\* No page is taken elsewhere than where a load of the app took it, names are let through
\* only where they resolve to public addresses, and no address known not to be public is
\* reached, whatever links, scripts, redirects and answers come in between.
THEOREM PagesStayPut == PartSpec => NavigationHolds
<1>1. PartsInv => LetsResolve /\ KnownUnreached
  BY DEF PartsInv, NavInv
<1> QED BY <1>1, PartsStart, PartsKeep, PTL DEF PartSpec, NavigationHolds
=============================================================================
