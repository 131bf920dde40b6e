---------------------------- MODULE XListProofs ----------------------------
(***************************************************************************)
(* The list of libtmdbase/list.c is the sequence that list.h promises.     *)
(*                                                                         *)
(* The invariant ListInv names the nodes p from the head on: they are the  *)
(* allocated ones, none twice (Chained), they hold different items, in     *)
(* ascending order where they are put in so, and the end of a queue is the *)
(* last of them (Held); and a walk stands at one of them, has met what it  *)
(* owes in front of it and nothing behind it (Walks).  NthGoesAlong and    *)
(* ChainShown relate p to the model's operators, which follow the pointers;*)
(* AdditionKeeps and RemovalKeeps do the two kinds of change once, for     *)
(* each call to cite, and the lemmas on sequences turn the places that     *)
(* change into the abstract specification's operators.                     *)
(***************************************************************************)
EXTENDS XList, Integers, FiniteSetTheorems, SequenceTheorems, TLAPS

\* A set of numbers that is not empty has a least one.
LEMMA MinIn ==
    ASSUME NEW K \in SUBSET Nat, K # {}
    PROVE  Min(K) \in K /\ \A k \in K : Min(K) <= k
<1>1. \E m \in K : \A k \in K : ~(<<k, m>> \in OpToRel(<, Nat))
  BY NatLessThanWellFounded, WFMin
<1>2. PICK m \in K : \A k \in K : ~(<<k, m>> \in OpToRel(<, Nat))
  BY <1>1
<1>3. ASSUME NEW k \in K PROVE m <= k
  <2>1. <<k, m>> \in Nat \X Nat /\ <<k, m>>[1] = k /\ <<k, m>>[2] = m
    OBVIOUS
  <2>2. ~(<<k, m>>[1] < <<k, m>>[2])
    BY <1>2, <2>1, Zenon DEF OpToRel
  <2>. QED
    BY <2>1, <2>2
<1>. QED
  BY <1>3 DEF Min

\* The same of a number that is known to be the least.
LEMMA MinIs ==
    ASSUME NEW K \in SUBSET Nat, NEW m \in K, \A k \in K : m <= k
    PROVE  Min(K) = m
<1>1. Min(K) \in K /\ Min(K) <= m
  BY MinIn
<1>2. m <= Min(K) /\ Min(K) \in Nat /\ m \in Nat
  BY <1>1
<1>. QED
  BY <1>1, <1>2

-----------------------------------------------------------------------------
(***************************************************************************)
(* The nodes p of a list of m items, from head h along nx, are those of lv *)
(* and none occurs twice.                                                  *)
(***************************************************************************)
Chained(p, m, h, nx, lv) ==
    /\ p \in [0 .. m - 1 -> Nodes]
    /\ \A i, j \in 0 .. m - 1 : p[i] = p[j] => i = j
    /\ h = IF m = 0 THEN NULL ELSE p[0]
    /\ \A i \in 0 .. m - 1 : nx[p[i]] = IF i + 1 < m THEN p[i + 1] ELSE NULL
    /\ lv = {p[i] : i \in 0 .. m - 1}

Chain(p) == Chained(p, num, head, next, live)

\* There are not more than memory for nodes.
LEMMA ChainFits ==
    ASSUME NEW m \in Nat, NEW p \in [0 .. m - 1 -> Nodes],
           \A i, j \in 0 .. m - 1 : p[i] = p[j] => i = j
    PROVE  m \in 0 .. Cardinality(Nodes) /\ Cardinality(Nodes) \in Nat
<1>1. IsFiniteSet(Nodes) /\ Cardinality(Nodes) \in Nat
  BY ListAssumption, FS_CardinalityType DEF ListAssumption
<1>2. p \in Injection(0 .. m - 1, Nodes)
  BY DEF Injection, IsInjective
<1>3. Cardinality(0 .. m - 1) <= Cardinality(Nodes)
  BY <1>1, <1>2, FS_Injection
<1>4. Cardinality(0 .. m - 1) = m
  BY FS_Interval
<1>. QED
  BY <1>1, <1>3, <1>4

NthAlong ==
    \A p : num \in Nat /\ Chain(p) =>
        Nth = [k \in 0 .. Cardinality(Nodes) |-> IF k < num THEN p[k] ELSE NULL]

\* The loops of list.c go along the chain, and then come to NULL.
LEMMA NthGoesAlong == NthAlong
<1>. SUFFICES ASSUME num \in Nat, NEW p, Chain(p)
              PROVE  Nth = [k \in 0 .. Cardinality(Nodes) |-> IF k < num THEN p[k] ELSE NULL]
  BY DEF NthAlong
<1>. DEFINE N == Cardinality(Nodes)
            g == [k \in 0 .. N |-> IF k < num THEN p[k] ELSE NULL]
            Goes(f) == f = [k \in 0 .. N |->
                               IF k = 0 THEN head ELSE IF f[k - 1] = NULL THEN NULL ELSE next[f[k - 1]]]
<1>1. /\ p \in [0 .. num - 1 -> Nodes] /\ N \in Nat /\ num <= N
      /\ \A i \in 0 .. num - 1 : p[i] # NULL /\ next[p[i]] = IF i + 1 < num THEN p[i + 1] ELSE NULL
      /\ head = IF num = 0 THEN NULL ELSE p[0]
  <2>1. Chained(p, num, head, next, live) /\ NULL \notin Nodes
    BY ListAssumption DEF Chain, ListAssumption
  <2>2. p \in [0 .. num - 1 -> Nodes] /\ \A i, j \in 0 .. num - 1 : p[i] = p[j] => i = j
    BY <2>1 DEF Chained
  <2>3. num \in 0 .. N /\ N \in Nat
    BY <2>2, ChainFits
  <2>. QED
    BY <2>1, <2>2, <2>3 DEF Chained
<1>. HIDE DEF N
<1>2. Goes(g)
  <2>1. g[0] = head
    BY <1>1
  <2>2. ASSUME NEW k \in 0 .. N, k # 0
        PROVE  g[k] = IF g[k - 1] = NULL THEN NULL ELSE next[g[k - 1]]
    <3>1. k - 1 \in 0 .. N /\ k - 1 + 1 = k
      BY <1>1, <2>2
    <3>2. CASE k - 1 < num
      BY <1>1, <2>2, <3>1, <3>2
    <3>3. CASE ~(k - 1 < num)
      BY <1>1, <2>2, <3>1, <3>3
    <3>. QED
      BY <3>2, <3>3
  <2>. HIDE DEF g
  <2>3. \A k \in 0 .. N :
            g[k] = IF k = 0 THEN head ELSE IF g[k - 1] = NULL THEN NULL ELSE next[g[k - 1]]
    BY <2>1, <2>2
  <2>4. g = [k \in 0 .. N |-> g[k]]
    BY DEF g
  <2>. QED
    BY <2>3, <2>4
<1>3. Goes(Nth)
  <2>1. Nth = CHOOSE f : Goes(f)
    BY DEF Nth, N
  <2>. HIDE DEF Goes
  <2>. QED
    BY <1>2, <2>1
<1>4. ASSUME NEW k \in 0 .. N PROVE Nth[k] = g[k]
  <2>. DEFINE Off == {l \in 0 .. N : Nth[l] # g[l]}
  <2>. SUFFICES ASSUME Off # {} PROVE FALSE
    OBVIOUS
  <2>1. Min(Off) \in Off /\ \A l \in Off : Min(Off) <= l
    <3>1. Off \in SUBSET Nat
      BY <1>1
    <3>. HIDE DEF Off
    <3>. QED
      BY <3>1, MinIn
  <2>2. PICK l \in 0 .. N : Nth[l] # g[l] /\ \A j \in 0 .. N : Nth[j] # g[j] => l <= j
    BY <2>1
  <2>. HIDE DEF g
  <2>3. l # 0
    BY <1>2, <1>3, <2>2
  <2>4. l - 1 \in 0 .. N /\ Nth[l - 1] = g[l - 1]
    BY <1>1, <2>2, <2>3
  <2>. QED
    BY <1>2, <1>3, <2>2, <2>3, <2>4
<1>. QED
  <2>1. Nth = [k \in 0 .. N |-> Nth[k]]
    BY <1>3
  <2>. QED
    BY <1>4, <2>1 DEF N

\* What a list shows of its chain.
ShownSo(p) ==
    /\ Places = 0 .. num - 1 /\ Length = num
    /\ num \in 0 .. Cardinality(Nodes)
    /\ \A k \in 0 .. num - 1 : Nth[k] = p[k] /\ ItemAt(k) = data[p[k]]
    /\ \A S : Hits(S) = {k \in 0 .. num - 1 : data[p[k]] \in S}
    /\ Ordered = [k \in 1 .. num |-> data[p[k - 1]]]

ShowsChain == \A p : num \in Nat /\ Chain(p) => ShownSo(p)

LEMMA ChainShown == ShowsChain
<1>. SUFFICES ASSUME num \in Nat, NEW p, Chain(p) PROVE ShownSo(p)
  BY DEF ShowsChain
<1>. DEFINE N == Cardinality(Nodes)
<1>1. p \in [0 .. num - 1 -> Nodes] /\ NULL \notin Nodes
  BY ListAssumption DEF Chain, Chained, ListAssumption
<1>2. num \in 0 .. N /\ N \in Nat
  BY ChainFits DEF Chain, Chained
<1>3. Nth = [k \in 0 .. N |-> IF k < num THEN p[k] ELSE NULL]
  BY NthGoesAlong DEF NthAlong
<1>. HIDE DEF N
<1>4. \A k \in 0 .. num - 1 : Nth[k] = p[k] /\ ItemAt(k) = data[p[k]]
  BY <1>1, <1>2, <1>3 DEF ItemAt
<1>5. Places = 0 .. num - 1
  <2>1. DOMAIN Nth = 0 .. N
    BY <1>3
  <2>2. ASSUME NEW k \in 0 .. N PROVE Nth[k] # NULL <=> k < num
    BY <1>1, <1>2, <1>3, <2>2
  <2>. QED
    BY <1>2, <2>1, <2>2 DEF Places
<1>6. Length = num
  <2>1. Cardinality(0 .. num - 1) = num
    BY FS_Interval
  <2>. QED
    BY <1>5, <2>1 DEF Length
<1>7. \A S : Hits(S) = {k \in 0 .. num - 1 : data[p[k]] \in S}
  BY <1>4, <1>5 DEF Hits
<1>8. Ordered = [k \in 1 .. num |-> data[p[k - 1]]]
  <2>1. \A k \in 1 .. num : k - 1 \in 0 .. num - 1 /\ ItemAt(k - 1) = data[p[k - 1]]
    BY <1>4
  <2>. QED
    BY <1>6, <2>1 DEF Ordered
<1>. QED
  BY <1>2, <1>4, <1>5, <1>6, <1>7, <1>8 DEF ShownSo, N

-----------------------------------------------------------------------------
(***************************************************************************)
(* What the nodes hold: items, none twice; in ascending order where they   *)
(* are put in so; and the end of a queue is its last node.                 *)
(***************************************************************************)
Held(p, m, d, kd, e) ==
    /\ \A i \in 0 .. m - 1 : d[p[i]] \in Items
    /\ \A i, j \in 0 .. m - 1 : d[p[i]] = d[p[j]] => i = j
    /\ kd = "sorted" => \A i, j \in 0 .. m - 1 : i < j => KeyOf[d[p[i]]] < KeyOf[d[p[j]]]
    /\ kd = "queue" /\ m > 0 => e = p[m - 1]

(***************************************************************************)
(* The walk: it stands at place c, has met what it should in front of it   *)
(* and nothing behind it, nor what is not in the list.                     *)
(***************************************************************************)
Stands(c, p, m, d, cu, mt, ow) ==
    /\ cu = p[c]
    /\ \A i \in 0 .. m - 1 : c < i => mt[d[p[i]]] = 0
    /\ \A i \in 0 .. m - 1 : i <= c /\ d[p[i]] \in ow => mt[d[p[i]]] > 0
    /\ \A x \in Items : (\A i \in 0 .. m - 1 : d[p[i]] # x) => mt[x] = 0 /\ x \notin ow

Walks(p, m, d, w, cu, mt, ow) ==
    /\ \A x \in Items : mt[x] <= 1
    /\ w = "none" => mt = NoneMet /\ ow = {}
    /\ w = "walking" => \E c \in 0 .. m - 1 : Stands(c, p, m, d, cu, mt, ow)
    /\ w = "ended" => \A x \in ow : mt[x] > 0

Typed ==
    /\ kind \in {"queue", "chain", "sorted"}
    /\ {head, end, curr} \subseteq Nodes \union {NULL}
    /\ num \in Nat
    /\ next \in [Nodes -> Nodes \union {NULL}]
    /\ data \in [Nodes -> Items \union {NULL}]
    /\ walk \in {"none", "walking", "ended"}
    /\ met \in [Items -> Nat] /\ owed \subseteq Items

Kept(p) ==
    /\ Chain(p)
    /\ Held(p, num, data, kind, end)
    /\ Walks(p, num, data, walk, curr, met, owed)

ListInv == Typed /\ \E p : Kept(p)

\* A list that is as it should be has the types, and a walk meets each item.
LEMMA InvariantSuffices == ListInv => TypeOK /\ WalkMeetsEach
<1>. SUFFICES ASSUME ListInv PROVE TypeOK /\ WalkMeetsEach
  OBVIOUS
<1>1. PICK p : Kept(p)
  BY DEF ListInv
<1>2. ShownSo(p) /\ Chain(p)
  BY <1>1, ChainShown DEF ShowsChain, Kept, ListInv, Typed
<1>3. live = {Nth[k] : k \in Places}
  <2>1. live = {p[i] : i \in 0 .. num - 1}
    BY <1>2 DEF Chain, Chained
  <2>. QED
    BY <1>2, <2>1 DEF ShownSo
<1>4. TypeOK
  BY <1>2, <1>3 DEF ListInv, Typed, TypeOK, ShownSo
<1>5. WalkMeetsEach
  <2>1. walk = "walking" => curr \in live
    BY <1>1, <1>2 DEF Kept, Walks, Stands, Chain, Chained
  <2>. QED
    BY <1>1, <2>1 DEF Kept, Walks, WalkMeetsEach
<1>. QED
  BY <1>4, <1>5

LEMMA InitEstablishes == Init => ListInv /\ Abstract!Init
<1>. SUFFICES ASSUME Init PROVE ListInv /\ Abstract!Init
  OBVIOUS
<1>1. head = NULL /\ end = NULL /\ num = 0 /\ live = {} /\ curr = NULL /\ walk = "none"
      /\ met = NoneMet /\ owed = {} /\ kind \in Kinds /\ call = <<"new", NULL, "OS_OK">>
      /\ next = [n \in Nodes |-> NULL] /\ data = [n \in Nodes |-> NULL]
  BY DEF Init
<1>. DEFINE p == [i \in 0 .. -1 |-> NULL]
<1>2. \A i : i \notin 0 .. num - 1
  BY <1>1
<1>3. p \in [0 .. num - 1 -> Nodes]
  BY <1>1
<1>. HIDE DEF p
<1>4. Chain(p)
  BY <1>1, <1>2, <1>3 DEF Chain, Chained
<1>5. Held(p, num, data, kind, end)
  BY <1>1, <1>2 DEF Held
<1>6. Walks(p, num, data, walk, curr, met, owed)
  BY <1>1 DEF Walks, NoneMet
<1>7. Typed
  BY <1>1, ListAssumption DEF Typed, NoneMet, ListAssumption
<1>8. Ordered = <<>>
  <2>1. ShownSo(p)
    BY <1>1, <1>4, ChainShown DEF ShowsChain
  <2>2. Ordered = [k \in 1 .. 0 |-> data[p[k - 1]]]
    BY <1>1, <2>1 DEF ShownSo
  <2>. QED
    BY <2>2
<1>. QED
  BY <1>1, <1>4, <1>5, <1>6, <1>7, <1>8 DEF ListInv, Kept, Abstract!Init

-----------------------------------------------------------------------------
(***************************************************************************)
(* A node n goes in at place k of the chain p.                             *)
(***************************************************************************)
Grown(p, m, n, k) == [j \in 0 .. m |-> IF j < k THEN p[j] ELSE IF j = k THEN n ELSE p[j - 1]]

LEMMA GrownPlaces ==
    ASSUME NEW m \in Nat, NEW p, NEW n, NEW k \in 0 .. m, NEW q, q = Grown(p, m, n, k)
    PROVE  /\ q[k] = n
           /\ \A j \in 0 .. m - 1 : q[IF j < k THEN j ELSE j + 1] = p[j]
           /\ \A j \in 0 .. m : \/ j = k
                                \/ j < k /\ j \in 0 .. m - 1 /\ q[j] = p[j]
                                \/ j > k /\ j - 1 \in 0 .. m - 1 /\ q[j] = p[j - 1]
<1>1. q[k] = n
  BY DEF Grown
<1>2. ASSUME NEW j \in 0 .. m - 1 PROVE q[IF j < k THEN j ELSE j + 1] = p[j]
  <2>1. CASE j < k
    BY <2>1 DEF Grown
  <2>2. CASE ~(j < k)
    <3>1. j + 1 \in 0 .. m /\ ~(j + 1 < k) /\ j + 1 # k /\ j + 1 - 1 = j
      BY <2>2
    <3>2. q[j + 1] = p[j + 1 - 1]
      BY <3>1 DEF Grown
    <3>. QED
      BY <2>2, <3>1, <3>2
  <2>. QED
    BY <2>1, <2>2
<1>3. ASSUME NEW j \in 0 .. m, j # k
      PROVE  \/ j < k /\ j \in 0 .. m - 1 /\ q[j] = p[j]
             \/ j > k /\ j - 1 \in 0 .. m - 1 /\ q[j] = p[j - 1]
  BY <1>3 DEF Grown
<1>. QED
  BY <1>1, <1>2, <1>3

LEMMA ChainGrows ==
    ASSUME NEW m \in Nat, NEW p, NEW h, NEW nx, NEW lv, Chained(p, m, h, nx, lv),
           NEW n \in Nodes, n \notin lv, NEW k \in 0 .. m,
           NEW q, q = Grown(p, m, n, k),
           NEW g, g = IF k = 0 THEN n ELSE h,
           NEW nxt, nxt[n] = (IF k < m THEN p[k] ELSE NULL),
           k > 0 => nxt[p[k - 1]] = n,
           \A i \in 0 .. m - 1 : i # k - 1 => nxt[p[i]] = nx[p[i]],
           NEW mm, mm = m + 1,
           NEW lvs, lvs = lv \union {n}
    PROVE  Chained(q, mm, g, nxt, lvs)
<1>1. /\ p \in [0 .. m - 1 -> Nodes]
      /\ \A i, j \in 0 .. m - 1 : p[i] = p[j] => i = j
      /\ h = IF m = 0 THEN NULL ELSE p[0]
      /\ \A i \in 0 .. m - 1 : nx[p[i]] = IF i + 1 < m THEN p[i + 1] ELSE NULL
      /\ lv = {p[i] : i \in 0 .. m - 1}
  BY DEF Chained
<1>2. /\ q[k] = n
      /\ \A j \in 0 .. m - 1 : q[IF j < k THEN j ELSE j + 1] = p[j]
      /\ \A j \in 0 .. m : \/ j = k
                           \/ j < k /\ j \in 0 .. m - 1 /\ q[j] = p[j]
                           \/ j > k /\ j - 1 \in 0 .. m - 1 /\ q[j] = p[j - 1]
  BY GrownPlaces
<1>3. m + 1 - 1 = m
  OBVIOUS
<1>4. q \in [0 .. m -> Nodes]
  <2>1. \A j \in 0 .. m : q[j] \in Nodes
    BY <1>1, <1>2
  <2>2. q = [j \in 0 .. m |-> q[j]]
    BY DEF Grown
  <2>. QED
    BY <2>1, <2>2
<1>5. ASSUME NEW i \in 0 .. m, NEW j \in 0 .. m, q[i] = q[j] PROVE i = j
  <2>1. \A l \in 0 .. m - 1 : p[l] # n
    BY <1>1
  <2>2. CASE i = k
    BY <1>2, <1>5, <2>1, <2>2
  <2>3. CASE j = k
    BY <1>2, <1>5, <2>1, <2>3
  <2>4. CASE i < k /\ j < k
    <3>1. i \in 0 .. m - 1 /\ j \in 0 .. m - 1 /\ p[i] = p[j]
      BY <1>2, <1>5, <2>4
    <3>. QED
      BY <1>1, <3>1
  <2>5. CASE i > k /\ j > k
    <3>1. i - 1 \in 0 .. m - 1 /\ j - 1 \in 0 .. m - 1 /\ p[i - 1] = p[j - 1]
      BY <1>2, <1>5, <2>5
    <3>2. i - 1 = j - 1
      BY <1>1, <3>1
    <3>. QED
      BY <3>2
  <2>6. CASE i < k /\ j > k
    <3>1. i \in 0 .. m - 1 /\ j - 1 \in 0 .. m - 1 /\ p[i] = p[j - 1]
      BY <1>2, <1>5, <2>6
    <3>2. i = j - 1
      BY <1>1, <3>1
    <3>. QED
      BY <2>6, <3>2
  <2>7. CASE i > k /\ j < k
    <3>1. i - 1 \in 0 .. m - 1 /\ j \in 0 .. m - 1 /\ p[i - 1] = p[j]
      BY <1>2, <1>5, <2>7
    <3>2. i - 1 = j
      BY <1>1, <3>1
    <3>. QED
      BY <2>7, <3>2
  <2>. QED
    BY <2>2, <2>3, <2>4, <2>5, <2>6, <2>7
<1>6. g = q[0]
  <2>1. CASE k = 0
    BY <1>2, <2>1
  <2>2. CASE k # 0
    <3>1. m # 0 /\ 0 < k /\ q[0] = p[0]
      BY <1>2, <2>2
    <3>. QED
      BY <1>1, <2>2, <3>1
  <2>. QED
    BY <2>1, <2>2
<1>7. ASSUME NEW i \in 0 .. m PROVE nxt[q[i]] = IF i + 1 < m + 1 THEN q[i + 1] ELSE NULL
  <2>1. CASE i = k
    <3>1. CASE k < m
      <4>1. q[k + 1] = p[k]
        BY <1>2, <3>1
      <4>. QED
        BY <1>2, <2>1, <3>1, <4>1
    <3>2. CASE ~(k < m)
      BY <1>2, <2>1, <3>2
    <3>. QED
      BY <3>1, <3>2
  <2>2. CASE i < k
    <3>1. i \in 0 .. m - 1 /\ q[i] = p[i] /\ i + 1 < m + 1
      BY <1>2, <2>2
    <3>2. CASE i = k - 1
      BY <1>2, <2>2, <3>1, <3>2
    <3>3. CASE i # k - 1
      <4>1. nxt[q[i]] = nx[p[i]] /\ i + 1 < m /\ i + 1 < k
        BY <2>2, <3>1, <3>3
      <4>2. q[i + 1] = p[i + 1]
        BY <1>2, <4>1
      <4>. QED
        BY <1>1, <3>1, <4>1, <4>2
    <3>. QED
      BY <3>2, <3>3
  <2>3. CASE i > k
    <3>1. i - 1 \in 0 .. m - 1 /\ q[i] = p[i - 1] /\ i - 1 # k - 1 /\ i - 1 + 1 = i
      BY <1>2, <2>3
    <3>2. nxt[q[i]] = IF i < m THEN p[i] ELSE NULL
      BY <1>1, <3>1
    <3>3. i < m => q[i + 1] = p[i]
      BY <1>2, <2>3
    <3>. QED
      BY <3>2, <3>3
  <2>. QED
    BY <2>1, <2>2, <2>3
<1>8. lv \union {n} = {q[i] : i \in 0 .. m}
  <2>1. ASSUME NEW x \in lv PROVE \E i \in 0 .. m : x = q[i]
    <3>1. PICK j \in 0 .. m - 1 : x = p[j]
      BY <1>1, <2>1
    <3>2. (IF j < k THEN j ELSE j + 1) \in 0 .. m
      BY <3>1
    <3>. QED
      BY <1>2, <3>1, <3>2
  <2>2. \A i \in 0 .. m : q[i] \in lv \union {n}
    BY <1>1, <1>2, Z3T(100)
  <2>. QED
    BY <1>2, <2>1, <2>2
<1>. HIDE DEF Grown
<1>9. mm - 1 = m /\ mm # 0 /\ mm = m + 1
  OBVIOUS
<1>10. \A i \in 0 .. m : nxt[q[i]] = IF i + 1 < mm THEN q[i + 1] ELSE NULL
  BY <1>7, <1>9
<1>. QED
  BY <1>4, <1>5, <1>6, <1>8, <1>9, <1>10 DEF Chained

LEMMA HeldGrows ==
    ASSUME NEW m \in Nat, NEW p, NEW d, NEW kd, NEW e, Held(p, m, d, kd, e),
           NEW n, NEW k \in 0 .. m, NEW q, q = Grown(p, m, n, k),
           NEW x \in Items, \A i \in 0 .. m - 1 : d[p[i]] # x,
           NEW dt, dt[n] = x, \A i \in 0 .. m - 1 : dt[p[i]] = d[p[i]],
           NEW f, kd = "queue" => f = q[m],
           kd = "sorted" => \A i \in 0 .. m - 1 :
                                IF i < k THEN KeyOf[d[p[i]]] < KeyOf[x] ELSE KeyOf[x] < KeyOf[d[p[i]]]
    PROVE  Held(q, m + 1, dt, kd, f)
<1>1. m + 1 - 1 = m
  OBVIOUS
<1>2. /\ dt[q[k]] = x
      /\ \A j \in 0 .. m : \/ j = k
                           \/ j < k /\ j \in 0 .. m - 1 /\ dt[q[j]] = d[p[j]]
                           \/ j > k /\ j - 1 \in 0 .. m - 1 /\ dt[q[j]] = d[p[j - 1]]
  <2>1. /\ q[k] = n
        /\ \A j \in 0 .. m : \/ j = k
                             \/ j < k /\ j \in 0 .. m - 1 /\ q[j] = p[j]
                             \/ j > k /\ j - 1 \in 0 .. m - 1 /\ q[j] = p[j - 1]
    BY GrownPlaces
  <2>. QED
    BY <2>1
<1>3. /\ \A i \in 0 .. m - 1 : d[p[i]] \in Items
      /\ \A i, j \in 0 .. m - 1 : d[p[i]] = d[p[j]] => i = j
      /\ kd = "sorted" => \A i, j \in 0 .. m - 1 : i < j => KeyOf[d[p[i]]] < KeyOf[d[p[j]]]
  BY DEF Held
<1>. DEFINE D(j) == dt[q[j]]
<1>4. \A j \in 0 .. m : D(j) \in Items
  BY <1>2, <1>3
<1>5. ASSUME NEW i \in 0 .. m, NEW j \in 0 .. m, D(i) = D(j) PROVE i = j
  <2>1. CASE i = k
    BY <1>2, <1>5, <2>1
  <2>2. CASE j = k
    BY <1>2, <1>5, <2>2
  <2>3. CASE i < k /\ j < k
    BY <1>2, <1>3, <1>5, <2>3
  <2>4. CASE i > k /\ j > k
    <3>1. i - 1 = j - 1
      BY <1>2, <1>3, <1>5, <2>4
    <3>. QED
      BY <3>1
  <2>5. CASE i < k /\ j > k
    <3>1. i = j - 1
      BY <1>2, <1>3, <1>5, <2>5
    <3>. QED
      BY <2>5, <3>1
  <2>6. CASE i > k /\ j < k
    <3>1. i - 1 = j
      BY <1>2, <1>3, <1>5, <2>6
    <3>. QED
      BY <2>6, <3>1
  <2>. QED
    BY <2>1, <2>2, <2>3, <2>4, <2>5, <2>6
<1>6. ASSUME kd = "sorted", NEW i \in 0 .. m, NEW j \in 0 .. m, i < j
      PROVE  KeyOf[D(i)] < KeyOf[D(j)]
  <2>1. CASE i = k
    <3>1. j - 1 \in 0 .. m - 1 /\ D(j) = d[p[j - 1]] /\ ~(j - 1 < k) /\ D(i) = x
      BY <1>2, <1>6, <2>1
    <3>. QED
      BY <1>6, <3>1
  <2>2. CASE j = k
    <3>1. i \in 0 .. m - 1 /\ D(i) = d[p[i]] /\ i < k /\ D(j) = x
      BY <1>2, <1>6, <2>2
    <3>. QED
      BY <1>6, <3>1
  <2>3. CASE j < k
    <3>1. i \in 0 .. m - 1 /\ j \in 0 .. m - 1 /\ D(i) = d[p[i]] /\ D(j) = d[p[j]]
      BY <1>2, <1>6, <2>3
    <3>. QED
      BY <1>3, <1>6, <3>1
  <2>4. CASE i > k
    <3>1. /\ i - 1 \in 0 .. m - 1 /\ j - 1 \in 0 .. m - 1 /\ i - 1 < j - 1
          /\ D(i) = d[p[i - 1]] /\ D(j) = d[p[j - 1]]
      BY <1>2, <1>6, <2>4
    <3>. QED
      BY <1>3, <1>6, <3>1
  <2>5. CASE i < k /\ k < j
    <3>1. /\ i \in 0 .. m - 1 /\ j - 1 \in 0 .. m - 1 /\ i < j - 1
          /\ D(i) = d[p[i]] /\ D(j) = d[p[j - 1]]
      BY <1>2, <2>5
    <3>. QED
      BY <1>3, <1>6, <3>1
  <2>. QED
    BY <2>1, <2>2, <2>3, <2>4, <2>5
<1>7. kd = "queue" /\ m + 1 > 0 => f = q[m]
  OBVIOUS
<1>. HIDE DEF Grown
<1>. QED
  BY <1>1, <1>4, <1>5, <1>6, <1>7 DEF Held

LEMMA WalksGrow ==
    ASSUME NEW m \in Nat, NEW p, NEW d, NEW w, NEW cu, NEW mt, NEW ow,
           Walks(p, m, d, w, cu, mt, ow),
           NEW n, NEW k \in 0 .. m, NEW q, q = Grown(p, m, n, k),
           NEW x \in Items, \A i \in 0 .. m - 1 : d[p[i]] # x,
           NEW dt, dt[n] = x, \A i \in 0 .. m - 1 : dt[p[i]] = d[p[i]]
    PROVE  Walks(q, m + 1, dt, w, cu, mt, ow)
<1>1. m + 1 - 1 = m
  OBVIOUS
<1>2. /\ q[k] = n
      /\ \A j \in 0 .. m - 1 : q[IF j < k THEN j ELSE j + 1] = p[j]
      /\ \A j \in 0 .. m : \/ j = k
                           \/ j < k /\ j \in 0 .. m - 1 /\ q[j] = p[j]
                           \/ j > k /\ j - 1 \in 0 .. m - 1 /\ q[j] = p[j - 1]
  BY GrownPlaces
<1>3. ASSUME NEW c \in 0 .. m - 1, Stands(c, p, m, d, cu, mt, ow)
      PROVE  \E b \in 0 .. m : Stands(b, q, m + 1, dt, cu, mt, ow)
  <2>. DEFINE b == IF c < k THEN c ELSE c + 1
  <2>1. b \in 0 .. m /\ b # k
    OBVIOUS
  <2>2. cu = q[b]
    BY <1>2, <1>3 DEF Stands
  <2>3. mt[x] = 0 /\ x \notin ow
    BY <1>3 DEF Stands
  <2>4. ASSUME NEW i \in 0 .. m, b < i PROVE mt[dt[q[i]]] = 0
    <3>1. CASE i = k
      BY <1>2, <2>3, <3>1
    <3>2. CASE i < k
      <4>1. i \in 0 .. m - 1 /\ q[i] = p[i] /\ c < i
        BY <1>2, <2>4, <3>2
      <4>. QED
        BY <1>3, <4>1 DEF Stands
    <3>3. CASE i > k
      <4>1. i - 1 \in 0 .. m - 1 /\ q[i] = p[i - 1] /\ c < i - 1
        BY <1>2, <2>4, <3>3
      <4>. QED
        BY <1>3, <4>1 DEF Stands
    <3>. QED
      BY <3>1, <3>2, <3>3
  <2>5. ASSUME NEW i \in 0 .. m, i <= b, dt[q[i]] \in ow PROVE mt[dt[q[i]]] > 0
    <3>1. i # k
      BY <1>2, <2>3, <2>5
    <3>2. CASE i < k
      <4>1. i \in 0 .. m - 1 /\ q[i] = p[i] /\ i <= c
        BY <1>2, <2>5, <3>2
      <4>. QED
        BY <1>3, <2>5, <4>1 DEF Stands
    <3>3. CASE i > k
      <4>1. i - 1 \in 0 .. m - 1 /\ q[i] = p[i - 1] /\ i - 1 <= c
        BY <1>2, <2>5, <3>3
      <4>. QED
        BY <1>3, <2>5, <4>1 DEF Stands
    <3>. QED
      BY <3>1, <3>2, <3>3
  <2>6. ASSUME NEW y \in Items, \A i \in 0 .. m : dt[q[i]] # y PROVE mt[y] = 0 /\ y \notin ow
    <3>1. ASSUME NEW j \in 0 .. m - 1 PROVE d[p[j]] # y
      <4>1. (IF j < k THEN j ELSE j + 1) \in 0 .. m /\ q[IF j < k THEN j ELSE j + 1] = p[j]
        BY <1>2, <3>1
      <4>. QED
        BY <2>6, <4>1
    <3>. QED
      BY <1>3, <3>1 DEF Stands
  <2>. HIDE DEF b, Grown
  <2>7. Stands(b, q, m + 1, dt, cu, mt, ow)
    BY <1>1, <2>2, <2>4, <2>5, <2>6 DEF Stands
  <2>. QED
    BY <2>1, <2>7
<1>. HIDE DEF Grown
<1>. QED
  BY <1>1, <1>3 DEF Walks

-----------------------------------------------------------------------------
(***************************************************************************)
(* Additions.                                                              *)
(***************************************************************************)
\* Node n is linked at place k.
Linked(n, k, p) ==
    /\ head' = IF k = 0 THEN n ELSE head
    /\ next' \in [Nodes -> Nodes \union {NULL}]
    /\ next'[n] = IF k < num THEN p[k] ELSE NULL
    /\ k > 0 => next'[p[k - 1]] = n
    /\ \A i \in 0 .. num - 1 : i # k - 1 => next'[p[i]] = next[p[i]]

LEMMA InsertLinks ==
    ASSUME Typed, NEW p, Chain(p), NEW n \in Nodes, n \notin live, NEW k \in 0 .. num,
           InsertNode(n, k)
    PROVE  Linked(n, k, p)
<1>1. /\ p \in [0 .. num - 1 -> Nodes]
      /\ \A i, j \in 0 .. num - 1 : p[i] = p[j] => i = j
      /\ head = IF num = 0 THEN NULL ELSE p[0]
      /\ \A i \in 0 .. num - 1 : next[p[i]] = IF i + 1 < num THEN p[i + 1] ELSE NULL
      /\ \A i \in 0 .. num - 1 : p[i] # n
  BY DEF Chain, Chained
<1>2. num \in Nat /\ head \in Nodes \union {NULL} /\ next \in [Nodes -> Nodes \union {NULL}]
  BY DEF Typed
<1>3. CASE k = 0
  <2>1. head' = n /\ next' = [next EXCEPT ![n] = head]
    BY <1>3 DEF InsertNode
  <2>2. next' \in [Nodes -> Nodes \union {NULL}] /\ next'[n] = head
        /\ \A i \in 0 .. num - 1 : next'[p[i]] = next[p[i]]
    BY <1>1, <1>2, <2>1
  <2>3. head = IF k < num THEN p[k] ELSE NULL
    BY <1>1, <1>2, <1>3
  <2>. QED
    BY <1>3, <2>1, <2>2, <2>3 DEF Linked
<1>4. CASE k # 0
  <2>1. k - 1 \in 0 .. num - 1 /\ k - 1 + 1 = k
    BY <1>2, <1>4
  <2>2. Nth[k - 1] = p[k - 1]
    BY <1>2, <2>1, ChainShown DEF ShowsChain, ShownSo
  <2>3. next' = [next EXCEPT ![n] = next[p[k - 1]], ![p[k - 1]] = n] /\ head' = head
    BY <1>4, <2>2 DEF InsertNode
  <2>4. p[k - 1] \in Nodes /\ p[k - 1] # n /\ next[p[k - 1]] = IF k < num THEN p[k] ELSE NULL
    BY <1>1, <2>1
  <2>5. /\ next' \in [Nodes -> Nodes \union {NULL}]
        /\ next'[n] = next[p[k - 1]] /\ next'[p[k - 1]] = n
        /\ \A o \in Nodes : o # n /\ o # p[k - 1] => next'[o] = next[o]
    BY <1>2, <2>3, <2>4
  <2>6. \A i \in 0 .. num - 1 : i # k - 1 => p[i] # p[k - 1] /\ p[i] \in Nodes
    BY <1>1, <2>1
  <2>. QED
    BY <1>1, <1>4, <2>3, <2>4, <2>5, <2>6 DEF Linked
<1>. QED
  BY <1>3, <1>4

LEMMA LastLinks ==
    ASSUME Typed, NEW p, Kept(p), kind = "queue", NEW n \in Nodes, n \notin live, LinkLast(n)
    PROVE  Linked(n, num, p) /\ end' = n
<1>1. /\ p \in [0 .. num - 1 -> Nodes]
      /\ \A i, j \in 0 .. num - 1 : p[i] = p[j] => i = j
      /\ head = IF num = 0 THEN NULL ELSE p[0]
      /\ \A i \in 0 .. num - 1 : p[i] # n
      /\ num > 0 => end = p[num - 1]
  BY DEF Kept, Chain, Chained, Held
<1>2. num \in Nat /\ next \in [Nodes -> Nodes \union {NULL}]
  BY DEF Typed
<1>3. CASE num = 0
  <2>1. head' = n /\ end' = n /\ next' = [next EXCEPT ![n] = NULL]
    BY <1>3 DEF LinkLast
  <2>2. next' \in [Nodes -> Nodes \union {NULL}] /\ next'[n] = NULL
    BY <1>2, <2>1
  <2>. QED
    BY <1>3, <2>1, <2>2 DEF Linked
<1>4. CASE num # 0
  <2>1. num - 1 \in 0 .. num - 1 /\ num > 0
    BY <1>2, <1>4
  <2>2. end = p[num - 1] /\ end \in Nodes /\ end # n
    BY <1>1, <2>1
  <2>3. next' = [next EXCEPT ![n] = NULL, ![end] = n] /\ end' = n /\ head' = head
    BY <1>4 DEF LinkLast
  <2>4. /\ next' \in [Nodes -> Nodes \union {NULL}]
        /\ next'[n] = NULL /\ next'[p[num - 1]] = n
        /\ \A o \in Nodes : o # n /\ o # p[num - 1] => next'[o] = next[o]
    BY <1>2, <2>2, <2>3
  <2>5. \A i \in 0 .. num - 1 : i # num - 1 => p[i] # p[num - 1] /\ p[i] \in Nodes
    BY <1>1, <2>1
  <2>. QED
    BY <1>1, <1>2, <1>4, <2>3, <2>4, <2>5 DEF Linked
<1>. QED
  BY <1>3, <1>4

\* What an addition leaves behind.
Added(x, k) ==
    Ordered' = [j \in 1 .. num + 1 |->
                   IF j <= k THEN Ordered[j] ELSE IF j = k + 1 THEN x ELSE Ordered[j - 1]]

LEMMA AdditionKeeps ==
    ASSUME Typed, NEW p, Kept(p), NEW x \in Items, Hits({x}) = {},
           NEW n \in Nodes, NEW k \in 0 .. num, Fill(n, x), Linked(n, k, p),
           num' = num + 1, UNCHANGED <<kind, walkVars>>,
           end' \in Nodes \union {NULL},
           kind = "queue" => k = num /\ end' = n,
           kind = "sorted" => \A i \in 0 .. num - 1 :
               IF i < k THEN KeyOf[data[p[i]]] < KeyOf[x] ELSE KeyOf[x] < KeyOf[data[p[i]]]
    PROVE  ListInv' /\ Added(x, k)
<1>. PICK q : q = Grown(p, num, n, k)
  OBVIOUS
<1>1. num \in Nat /\ data \in [Nodes -> Items \union {NULL}] /\ head \in Nodes \union {NULL}
  BY DEF Typed
<1>2. Chain(p) /\ p \in [0 .. num - 1 -> Nodes] /\ live = {p[i] : i \in 0 .. num - 1}
  BY DEF Kept, Chain, Chained
<1>3. n \notin live /\ live' = live \union {n} /\ data' = [data EXCEPT ![n] = x]
  BY DEF Fill
<1>4. ShownSo(p)
  BY <1>1, <1>2, ChainShown DEF ShowsChain
<1>5. \A i \in 0 .. num - 1 : data[p[i]] # x
  BY <1>4 DEF ShownSo
<1>6. data' \in [Nodes -> Items \union {NULL}] /\ data'[n] = x
      /\ \A i \in 0 .. num - 1 : data'[p[i]] = data[p[i]]
  BY <1>1, <1>2, <1>3
<1>7. UNCHANGED <<kind, curr, walk, met, owed>>
  BY DEF walkVars
<1>8. Chain(q)'
  <2>1. Chained(p, num, head, next, live)
    BY <1>2 DEF Chain
  <2>2. num' = num + 1 /\ live' = live \union {n}
    BY <1>3
  <2>3. /\ head' = (IF k = 0 THEN n ELSE head)
        /\ next'[n] = (IF k < num THEN p[k] ELSE NULL)
        /\ k > 0 => next'[p[k - 1]] = n
        /\ \A i \in 0 .. num - 1 : i # k - 1 => next'[p[i]] = next[p[i]]
    BY DEF Linked
  <2>4. Chained(q, num', head', next', live')
    BY <1>1, <1>3, <2>1, <2>2, <2>3, ChainGrows, SMTT(100)
  <2>. QED
    BY <2>4 DEF Chain
<1>9. /\ q[k] = n
      /\ \A j \in 0 .. num : \/ j = k
                             \/ j < k /\ j \in 0 .. num - 1 /\ q[j] = p[j]
                             \/ j > k /\ j - 1 \in 0 .. num - 1 /\ q[j] = p[j - 1]
  BY <1>1, GrownPlaces
<1>10. Held(q, num', data', kind', end')
  <2>1. Held(p, num, data, kind, end)
    BY DEF Kept
  <2>2. kind = "queue" => end' = q[num]
    BY <1>9
  <2>4. Held(q, num + 1, data', kind, end')
    BY <1>1, <1>5, <1>6, <2>1, <2>2, HeldGrows
  <2>. QED
    BY <1>7, <2>4
<1>11. Walks(q, num', data', walk', curr', met', owed')
  <2>1. Walks(p, num, data, walk, curr, met, owed)
    BY DEF Kept
  <2>3. Walks(q, num + 1, data', walk, curr, met, owed)
    BY <1>1, <1>5, <1>6, <2>1, WalksGrow
  <2>. QED
    BY <1>7, <2>3
<1>12. num' \in Nat /\ head' \in Nodes \union {NULL}
  BY <1>1 DEF Linked
<1>13. Typed'
  BY <1>6, <1>7, <1>12 DEF Typed, Linked
<1>14. Added(x, k)
  <2>1. Ordered' = [j \in 1 .. num' |-> data'[q[j - 1]]]
    <3>1. ShowsChain'
      BY ChainShown, PTL
    <3>2. ShownSo(q)'
      BY <1>8, <1>12, <3>1 DEF ShowsChain
    <3>. QED
      BY <3>2 DEF ShownSo
  <2>2. Ordered = [j \in 1 .. num |-> data[p[j - 1]]]
    BY <1>4 DEF ShownSo
  <2>3. ASSUME NEW j \in 1 .. num + 1
        PROVE  data'[q[j - 1]] = IF j <= k THEN Ordered[j] ELSE IF j = k + 1 THEN x ELSE Ordered[j - 1]
    <3>1. j - 1 \in 0 .. num
      BY <1>1
    <3>2. CASE j - 1 = k
      BY <1>6, <1>9, <3>2
    <3>3. CASE j - 1 < k
      <4>1. j - 1 \in 0 .. num - 1 /\ q[j - 1] = p[j - 1] /\ j <= k /\ j \in 1 .. num
        BY <1>1, <1>9, <3>1, <3>3
      <4>. QED
        BY <1>6, <2>2, <4>1
    <3>4. CASE j - 1 > k
      <4>1. /\ j - 1 - 1 \in 0 .. num - 1 /\ q[j - 1] = p[j - 1 - 1]
            /\ ~(j <= k) /\ j # k + 1 /\ j - 1 \in 1 .. num
        BY <1>1, <1>9, <3>1, <3>4
      <4>. QED
        BY <1>6, <2>2, <4>1
    <3>. QED
      BY <1>1, <3>1, <3>2, <3>3, <3>4
  <2>. QED
    BY <2>1, <2>3 DEF Added
<1>. QED
  BY <1>8, <1>10, <1>11, <1>13, <1>14 DEF ListInv, Kept

-----------------------------------------------------------------------------
(***************************************************************************)
(* Removals.  What is left of m places without those in K are l, and e     *)
(* goes through them in ascending order.                                   *)
(***************************************************************************)
Numbers(e, l, m, K) ==
    /\ e \in [0 .. l - 1 -> (0 .. m - 1) \ K]
    /\ \A i, j \in 0 .. l - 1 : i < j => e[i] < e[j]
    /\ \A k \in (0 .. m - 1) \ K : \E i \in 0 .. l - 1 : e[i] = k

\* There is such an e.
LEMMA LeftNumbered ==
    ASSUME NEW m \in Nat, NEW K
    PROVE  \E l \in Nat : \E e : Numbers(e, l, m, K)
<1>. DEFINE Without == {n \in Nat : ~\E l \in Nat : \E e : Numbers(e, l, n, K)}
<1>. SUFFICES ASSUME Without # {} PROVE FALSE
  OBVIOUS
<1>1. Min(Without) \in Without /\ \A k \in Without : Min(Without) <= k
  <2>1. Without \in SUBSET Nat
    OBVIOUS
  <2>. HIDE DEF Without
  <2>. QED
    BY <2>1, MinIn
<1>2. PICK n \in Nat : n \in Without /\ \A k \in Without : n <= k
  BY <1>1
<1>3. n # 0
  <2>. DEFINE e == [i \in 0 .. -1 |-> 0]
  <2>1. Numbers(e, 0, 0, K)
    BY DEF Numbers
  <2>. HIDE DEF e
  <2>. QED
    BY <1>2, <2>1
<1>4. n - 1 \in Nat /\ n - 1 \notin Without
  BY <1>2, <1>3
<1>5. PICK l \in Nat : \E e : Numbers(e, l, n - 1, K)
  BY <1>4
<1>6. PICK e : Numbers(e, l, n - 1, K)
  BY <1>5
<1>7. CASE n - 1 \in K
  <2>1. (0 .. n - 1 - 1) \ K = (0 .. n - 1) \ K
    BY <1>3, <1>7
  <2>2. Numbers(e, l, n, K)
    BY <1>6, <2>1 DEF Numbers
  <2>. QED
    BY <1>2, <2>2
<1>8. CASE n - 1 \notin K
  <2>1. PICK f : f = [i \in 0 .. l |-> IF i < l THEN e[i] ELSE n - 1]
    OBVIOUS
  <2>2. /\ e \in [0 .. l - 1 -> (0 .. n - 1 - 1) \ K]
        /\ \A i, j \in 0 .. l - 1 : i < j => e[i] < e[j]
        /\ \A k \in (0 .. n - 1 - 1) \ K : \E i \in 0 .. l - 1 : e[i] = k
    BY <1>6 DEF Numbers
  <2>3. f[l] = n - 1 /\ \A i \in 0 .. l - 1 : f[i] = e[i]
    BY <2>1
  <2>4. \A i \in 0 .. l : f[i] \in (0 .. n - 1) \ K
    BY <1>3, <1>8, <2>2, <2>3
  <2>5. ASSUME NEW i \in 0 .. l, NEW j \in 0 .. l, i < j PROVE f[i] < f[j]
    <3>1. i \in 0 .. l - 1
      BY <2>5
    <3>2. CASE j = l
      BY <1>3, <2>2, <2>3, <3>1, <3>2
    <3>3. CASE j # l
      <4>1. j \in 0 .. l - 1
        BY <3>3
      <4>. QED
        BY <2>2, <2>3, <2>5, <3>1, <4>1
    <3>. QED
      BY <3>2, <3>3
  <2>6. ASSUME NEW k \in (0 .. n - 1) \ K PROVE \E i \in 0 .. l : f[i] = k
    <3>1. CASE k = n - 1
      BY <2>3, <3>1
    <3>2. CASE k # n - 1
      <4>1. k \in (0 .. n - 1 - 1) \ K
        BY <1>3, <3>2
      <4>2. PICK i \in 0 .. l - 1 : e[i] = k
        BY <2>2, <4>1
      <4>. QED
        BY <2>3, <4>2
    <3>. QED
      BY <3>1, <3>2
  <2>7. f \in [0 .. l -> (0 .. n - 1) \ K]
    <3>1. f = [i \in 0 .. l |-> f[i]]
      BY <2>1
    <3>. QED
      BY <2>4, <3>1
  <2>8. l + 1 - 1 = l /\ l + 1 \in Nat
    OBVIOUS
  <2>9. Numbers(f, l + 1, n, K)
    BY <2>5, <2>6, <2>7, <2>8 DEF Numbers
  <2>. QED
    BY <1>2, <2>8, <2>9
<1>. QED
  BY <1>7, <1>8

\* They are as many as are not removed.
LEMMA LeftCount ==
    ASSUME NEW m \in Nat, NEW K \in SUBSET (0 .. m - 1), NEW l \in Nat, NEW e, Numbers(e, l, m, K)
    PROVE  l = m - Cardinality(K) /\ Cardinality(K) \in Nat
<1>. DEFINE L == (0 .. m - 1) \ K
<1>. DEFINE M == 0 .. m - 1
<1>1. IsFiniteSet(M) /\ Cardinality(M) = m
  <2>1. 0 \in Int /\ m - 1 \in Int /\ (IF 0 > m - 1 THEN 0 ELSE m - 1 - 0 + 1) = m
    OBVIOUS
  <2>. QED
    BY <2>1, FS_Interval
<1>2. IsFiniteSet(K) /\ Cardinality(K) \in Nat
  BY <1>1, FS_Subset, FS_CardinalityType
<1>3. Cardinality(L) = m - Cardinality(K)
  <2>1. M \intersect K = K
    OBVIOUS
  <2>. HIDE DEF M
  <2>2. Cardinality(M \ K) = Cardinality(M) - Cardinality(M \intersect K)
    BY <1>1, FS_Difference
  <2>. QED
    BY <1>1, <2>1, <2>2 DEF M
<1>4. IsFiniteSet(0 .. l - 1) /\ Cardinality(0 .. l - 1) = l
  <2>1. 0 \in Int /\ l - 1 \in Int /\ (IF 0 > l - 1 THEN 0 ELSE l - 1 - 0 + 1) = l
    OBVIOUS
  <2>. QED
    BY <2>1, FS_Interval
<1>5. e \in Bijection(0 .. l - 1, L)
  <2>1. /\ e \in [0 .. l - 1 -> L]
        /\ \A i, j \in 0 .. l - 1 : i < j => e[i] < e[j]
        /\ \A k \in L : \E i \in 0 .. l - 1 : e[i] = k
    BY DEF Numbers
  <2>2. ASSUME NEW i \in 0 .. l - 1, NEW j \in 0 .. l - 1, e[i] = e[j] PROVE i = j
    <3>1. e[i] \in 0 .. m - 1 /\ e[j] \in 0 .. m - 1
      BY <2>1
    <3>2. ~(i < j) /\ ~(j < i)
      BY <2>1, <2>2, <3>1
    <3>. QED
      BY <3>2
  <2>. HIDE DEF L
  <2>. QED
    BY <2>1, <2>2 DEF Bijection, Injection, Surjection, IsInjective
<1>6. Cardinality(L) = l
  BY <1>4, <1>5, FS_Bijection DEF ExistsBijection
<1>. QED
  BY <1>2, <1>3, <1>6

\* The node that comes after place k once those in K are gone.
LEMMA NextLeft ==
    ASSUME num \in Nat, NEW p, ShownSo(p),
           NEW K, NEW l \in Nat, NEW e, Numbers(e, l, num, K),
           NEW k \in Nat, NEW i \in 0 .. l, \A j \in 0 .. l - 1 : e[j] > k <=> j >= i
    PROVE  NextKept(k, K) = IF i < l THEN p[e[i]] ELSE NULL
<1>. DEFINE S == {j \in Places \ K : j > k}
<1>1. Places = 0 .. num - 1 /\ \A j \in 0 .. num - 1 : Nth[j] = p[j]
  BY DEF ShownSo
<1>2. /\ e \in [0 .. l - 1 -> (0 .. num - 1) \ K]
      /\ \A a, b \in 0 .. l - 1 : a < b => e[a] < e[b]
      /\ \A j \in (0 .. num - 1) \ K : \E a \in 0 .. l - 1 : e[a] = j
  BY DEF Numbers
<1>3. CASE i < l
  <2>1. i \in 0 .. l - 1 /\ e[i] \in 0 .. num - 1 /\ e[i] \notin K /\ e[i] > k
    BY <1>2, <1>3
  <2>2. e[i] \in S
    BY <1>1, <2>1
  <2>3. ASSUME NEW j \in S PROVE e[i] <= j
    <3>1. j \in (0 .. num - 1) \ K /\ j > k
      BY <1>1
    <3>2. PICK a \in 0 .. l - 1 : e[a] = j
      BY <1>2, <3>1
    <3>3. a >= i
      BY <3>1, <3>2
    <3>4. CASE a = i
      BY <2>1, <3>2, <3>4
    <3>5. CASE a > i
      <4>1. e[i] < e[a] /\ e[a] \in 0 .. num - 1
        BY <1>2, <2>1, <3>2, <3>5
      <4>. QED
        BY <2>1, <3>2, <4>1
    <3>. QED
      BY <3>3, <3>4, <3>5
  <2>4. S \in SUBSET Nat
    BY <1>1
  <2>. HIDE DEF S
  <2>5. Min(S) = e[i] /\ S # {}
    BY <2>2, <2>3, <2>4, MinIs
  <2>. QED
    BY <1>1, <1>3, <2>1, <2>5 DEF NextKept, S
<1>4. CASE ~(i < l)
  <2>1. ASSUME NEW j \in S PROVE FALSE
    <3>1. j \in (0 .. num - 1) \ K /\ j > k
      BY <1>1
    <3>2. PICK a \in 0 .. l - 1 : e[a] = j
      BY <1>2, <3>1
    <3>. QED
      BY <1>4, <3>1, <3>2
  <2>. QED
    BY <1>4, <2>1 DEF NextKept
<1>. QED
  BY <1>3, <1>4

\* The nodes that are left are linked to each other.
Relinked(p, e, l) ==
    /\ head' = IF 0 < l THEN p[e[0]] ELSE NULL
    /\ next' \in [Nodes -> Nodes \union {NULL}]
    /\ \A i \in 0 .. l - 1 : next'[p[e[i]]] = IF i + 1 < l THEN p[e[i + 1]] ELSE NULL

LEMMA UnlinkLinks ==
    ASSUME Typed, NEW p, Chain(p), ShownSo(p),
           NEW K \in SUBSET (0 .. num - 1), NEW l \in Nat, NEW e, Numbers(e, l, num, K), Unlink(K)
    PROVE  Relinked(p, e, l)
<1>1. /\ p \in [0 .. num - 1 -> Nodes]
      /\ \A i, j \in 0 .. num - 1 : p[i] = p[j] => i = j
      /\ head = IF num = 0 THEN NULL ELSE p[0]
      /\ \A i \in 0 .. num - 1 : next[p[i]] = IF i + 1 < num THEN p[i + 1] ELSE NULL
  BY DEF Chain, Chained
<1>2. num \in Nat /\ next \in [Nodes -> Nodes \union {NULL}]
  BY DEF Typed
<1>3. /\ e \in [0 .. l - 1 -> (0 .. num - 1) \ K]
      /\ \A i, j \in 0 .. l - 1 : i < j => e[i] < e[j]
      /\ \A k \in (0 .. num - 1) \ K : \E i \in 0 .. l - 1 : e[i] = k
  BY DEF Numbers
<1>4. Places = 0 .. num - 1 /\ \A k \in 0 .. num - 1 : Nth[k] = p[k]
  BY DEF ShownSo
<1>5. Freed(K) = {p[k] : k \in K}
  BY <1>4 DEF Freed
<1>6. ASSUME NEW i \in 0 .. l - 1
      PROVE  NextKept(e[i], K) = IF i + 1 < l THEN p[e[i + 1]] ELSE NULL
  <2>1. i + 1 \in 0 .. l /\ e[i] \in Nat
    BY <1>3
  <2>2. ASSUME NEW j \in 0 .. l - 1 PROVE e[j] > e[i] <=> j >= i + 1
    <3>1. e[i] \in Nat /\ e[j] \in Nat
      BY <1>3
    <3>2. i < j => e[i] < e[j]
      BY <1>3
    <3>3. j < i => e[j] < e[i]
      BY <1>3
    <3>4. i < j \/ j < i \/ i = j
      OBVIOUS
    <3>. QED
      BY <3>1, <3>2, <3>3, <3>4
  <2>3. PICK a \in 0 .. l, k \in Nat : a = i + 1 /\ k = e[i]
    BY <2>1
  <2>4. \A j \in 0 .. l - 1 : e[j] > k <=> j >= a
    BY <2>2, <2>3
  <2>5. NextKept(k, K) = IF a < l THEN p[e[a]] ELSE NULL
    BY <1>2, <2>4, NextLeft
  <2>. QED
    BY <2>3, <2>5
<1>7. head' = IF 0 < l THEN p[e[0]] ELSE NULL
  <2>1. CASE 0 \in K
    <3>1. \A j \in 0 .. l - 1 : e[j] > 0 <=> j >= 0
      BY <1>3, <2>1
    <3>2. 0 \in 0 .. l
      OBVIOUS
    <3>3. NextKept(0, K) = IF 0 < l THEN p[e[0]] ELSE NULL
      BY <1>2, <3>1, <3>2, NextLeft
    <3>. QED
      BY <2>1, <3>3 DEF Unlink
  <2>2. CASE 0 \notin K
    <3>1. head' = head
      BY <2>2 DEF Unlink
    <3>2. CASE num = 0
      <4>1. ~(0 < l)
        <5>1. \A i \in 0 .. l - 1 : FALSE
          BY <1>3, <3>2
        <5>. QED
          BY <5>1
      <4>. QED
        BY <1>1, <3>1, <3>2, <4>1
    <3>3. CASE num # 0
      <4>1. PICK i \in 0 .. l - 1 : e[i] = 0
        <5>1. 0 \in (0 .. num - 1) \ K
          BY <1>2, <2>2, <3>3
        <5>. QED
          BY <1>3, <5>1
      <4>2. 0 \in 0 .. l - 1 /\ e[0] \in Nat
        BY <1>3, <4>1
      <4>3. i = 0
        BY <1>3, <4>1, <4>2
      <4>. QED
        BY <1>1, <3>1, <3>3, <4>1, <4>2, <4>3
    <3>. QED
      BY <3>2, <3>3
  <2>. QED
    BY <2>1, <2>2
<1>. DEFINE before(n) == \E k \in Places \ K : Nth[k] = n /\ k + 1 \in K
<1>8. \A n \in Nodes : next'[n] =
          IF n \in Freed(K) THEN NULL
          ELSE IF before(n) THEN NextKept(CHOOSE k \in Places : Nth[k] = n, K) ELSE next[n]
  BY DEF Unlink
<1>9. ASSUME NEW i \in 0 .. l - 1
      PROVE  next'[p[e[i]]] = IF i + 1 < l THEN p[e[i + 1]] ELSE NULL
  <2>1. e[i] \in 0 .. num - 1 /\ e[i] \notin K /\ p[e[i]] \in Nodes
    BY <1>1, <1>3
  <2>2. p[e[i]] \notin Freed(K)
    BY <1>1, <1>5, <2>1
  <2>3. (CHOOSE k \in Places : Nth[k] = p[e[i]]) = e[i]
    BY <1>1, <1>4, <2>1
  <2>4. before(p[e[i]]) <=> e[i] + 1 \in K
    BY <1>1, <1>4, <2>1
  <2>5. CASE e[i] + 1 \in K
    BY <1>6, <1>8, <2>1, <2>2, <2>3, <2>4, <2>5
  <2>6. CASE e[i] + 1 \notin K
    <3>1. next'[p[e[i]]] = IF e[i] + 1 < num THEN p[e[i] + 1] ELSE NULL
      BY <1>1, <1>8, <2>1, <2>2, <2>4, <2>6
    <3>2. CASE e[i] + 1 < num
      <4>1. PICK j \in 0 .. l - 1 : e[j] = e[i] + 1
        <5>1. e[i] + 1 \in (0 .. num - 1) \ K
          BY <1>2, <2>1, <2>6, <3>2
        <5>. QED
          BY <1>3, <5>1
      <4>2. i < j
        <5>1. j < i => e[j] < e[i]
          BY <1>3
        <5>. QED
          BY <2>1, <4>1, <5>1
      <4>3. j = i + 1
        <5>. SUFFICES ASSUME i + 1 < j PROVE FALSE
          BY <4>2
        <5>1. i + 1 \in 0 .. l - 1
          OBVIOUS
        <5>2. e[i] < e[i + 1] /\ e[i + 1] < e[j] /\ e[i + 1] \in Nat
          BY <1>3, <5>1
        <5>. QED
          BY <2>1, <4>1, <5>2
      <4>. QED
        BY <3>1, <3>2, <4>1, <4>3
    <3>3. CASE ~(e[i] + 1 < num)
      <4>1. ~(i + 1 < l)
        <5>. SUFFICES ASSUME i + 1 < l PROVE FALSE
          OBVIOUS
        <5>1. i + 1 \in 0 .. l - 1
          OBVIOUS
        <5>2. e[i] < e[i + 1] /\ e[i + 1] \in 0 .. num - 1
          BY <1>3, <5>1
        <5>. QED
          BY <1>2, <2>1, <3>3, <5>2
      <4>. QED
        BY <3>1, <3>3, <4>1
    <3>. QED
      BY <3>2, <3>3
  <2>. QED
    BY <2>5, <2>6
<1>10. next' \in [Nodes -> Nodes \union {NULL}]
  <2>1. \A k, L : NextKept(k, L) \in Nodes \union {NULL}
    <3>. SUFFICES ASSUME NEW k, NEW L PROVE NextKept(k, L) \in Nodes \union {NULL}
      OBVIOUS
    <3>. DEFINE S == {j \in Places \ L : j > k}
    <3>1. CASE S = {}
      BY <3>1 DEF NextKept
    <3>2. CASE S # {}
      <4>1. S \in SUBSET Nat /\ S \subseteq 0 .. num - 1
        BY <1>4
      <4>. HIDE DEF S
      <4>2. Min(S) \in 0 .. num - 1
        BY <3>2, <4>1, MinIn
      <4>. QED
        BY <1>1, <1>4, <3>2, <4>2 DEF NextKept, S
    <3>. QED
      BY <3>1, <3>2
  <2>2. \A n \in Nodes : next'[n] \in Nodes \union {NULL}
    BY <1>2, <1>8, <2>1
  <2>3. next' = [n \in Nodes |-> next'[n]]
    BY DEF Unlink
  <2>. QED
    BY <2>2, <2>3
<1>. QED
  BY <1>7, <1>9, <1>10 DEF Relinked

\* What a walk goes on with: the items at the places in K are forgotten.
Forgotten(p, e, l, K, gone) ==
    /\ \A i \in 0 .. l - 1 : data'[p[e[i]]] = data[p[e[i]]]
    /\ \A k \in K : walk = "walking" => curr # p[k]
    /\ \A k \in K : data[p[k]] \in gone
    /\ \A x \in gone : \E k \in K : x = data[p[k]]
    /\ \A x \in Items : met'[x] = IF x \in gone THEN 0 ELSE met[x]
    /\ walk = "none" => met' = NoneMet
    /\ owed' = owed \ gone

LEMMA WalksShrink ==
    ASSUME Typed, NEW p, Kept(p),
           NEW K \in SUBSET (0 .. num - 1), NEW l \in Nat, NEW e, Numbers(e, l, num, K),
           NEW q, q = [i \in 0 .. l - 1 |-> p[e[i]]],
           NEW gone, Forgotten(p, e, l, K, gone)
    PROVE  Walks(q, l, data', walk, curr, met', owed')
<1>1. /\ num \in Nat /\ p \in [0 .. num - 1 -> Nodes] /\ owed \in SUBSET Items
      /\ Held(p, num, data, kind, end)
      /\ \A i, j \in 0 .. num - 1 : p[i] = p[j] => i = j
      /\ Walks(p, num, data, walk, curr, met, owed)
  BY DEF Typed, Kept, Chain, Chained
<1>. USE <1>1
<1>2. \A i \in 0 .. l - 1 : data'[p[e[i]]] = data[p[e[i]]]
  BY DEF Forgotten
<1>3. \A k \in K : walk = "walking" => curr # p[k]
  BY DEF Forgotten
<1>4. (\A k \in K : data[p[k]] \in gone) /\ (\A x \in gone : \E k \in K : x = data[p[k]])
  BY DEF Forgotten
<1>5. \A x \in Items : met'[x] = IF x \in gone THEN 0 ELSE met[x]
  BY DEF Forgotten
<1>6. walk = "none" => met' = NoneMet
  BY DEF Forgotten
<1>7. owed' = owed \ gone
  BY DEF Forgotten
<1>8. /\ \A x \in Items : met[x] <= 1
      /\ walk = "none" => met = NoneMet /\ owed = {}
      /\ walk = "walking" => \E c \in 0 .. num - 1 : Stands(c, p, num, data, curr, met, owed)
      /\ walk = "ended" => \A x \in owed : met[x] > 0
  BY DEF Walks
<1>9. /\ e \in [0 .. l - 1 -> (0 .. num - 1) \ K]
      /\ \A i, j \in 0 .. l - 1 : i < j => e[i] < e[j]
      /\ \A k \in (0 .. num - 1) \ K : \E i \in 0 .. l - 1 : e[i] = k
  BY DEF Numbers
<1>10. /\ \A i \in 0 .. num - 1 : data[p[i]] \in Items
      /\ \A i, j \in 0 .. num - 1 : data[p[i]] = data[p[j]] => i = j
  BY DEF Held
<1>11. \A i \in 0 .. l - 1 : /\ e[i] \in 0 .. num - 1 /\ e[i] \notin K
                            /\ data'[q[i]] = data[p[e[i]]] /\ data[p[e[i]]] \in Items
  BY <1>2, <1>9, <1>10
<1>12. ASSUME NEW i \in 0 .. l - 1 PROVE data[p[e[i]]] \notin gone
  <2>1. \A k \in K : k \in 0 .. num - 1 /\ k # e[i]
    BY <1>11
  <2>2. \A k \in K : data[p[k]] # data[p[e[i]]]
    BY <1>10, <1>11, <2>1
  <2>. QED
    BY <1>4, <2>2
<1>13. \A x \in Items : met'[x] <= 1
  BY <1>8, <1>5
<1>14. ASSUME walk = "walking" PROVE \E b \in 0 .. l - 1 : Stands(b, q, l, data', curr, met', owed')
  <2>1. PICK c \in 0 .. num - 1 : Stands(c, p, num, data, curr, met, owed)
    BY <1>8, <1>14
  <2>2. c \notin K
    BY <1>14, <1>3, <2>1 DEF Stands
  <2>3. PICK b \in 0 .. l - 1 : e[b] = c
    BY <1>9, <2>2
  <2>4. curr = q[b]
    BY <2>1, <2>3 DEF Stands
  <2>5. ASSUME NEW i \in 0 .. l - 1, b < i PROVE met'[data'[q[i]]] = 0
    <3>1. c < e[i]
      BY <1>9, <2>3, <2>5
    <3>2. met[data[p[e[i]]]] = 0
      BY <1>11, <2>1, <3>1 DEF Stands
    <3>. QED
      BY <1>11, <1>12, <1>5, <3>2
  <2>6. ASSUME NEW i \in 0 .. l - 1, i <= b, data'[q[i]] \in owed' PROVE met'[data'[q[i]]] > 0
    <3>1. e[i] <= c
      <4>1. CASE i = b
        BY <2>3, <4>1
      <4>2. CASE i < b
        <5>1. e[i] < e[b]
          BY <1>9, <4>2
        <5>. QED
          BY <1>11, <2>3, <5>1
      <4>. QED
        BY <2>6, <4>1, <4>2
    <3>2. data[p[e[i]]] \in owed
      BY <1>11, <1>7, <2>6
    <3>3. met[data[p[e[i]]]] > 0
      BY <1>11, <2>1, <3>1, <3>2 DEF Stands
    <3>. QED
      BY <1>11, <1>12, <1>5, <3>3
  <2>7. ASSUME NEW x \in Items, \A i \in 0 .. l - 1 : data'[q[i]] # x PROVE met'[x] = 0 /\ x \notin owed'
    <3>1. CASE x \in gone
      BY <1>5, <1>7, <3>1
    <3>2. CASE x \notin gone
      <4>1. ASSUME NEW j \in 0 .. num - 1 PROVE data[p[j]] # x
        <5>1. CASE j \in K
          BY <1>4, <3>2, <5>1
        <5>2. CASE j \notin K
          <6>1. PICK i \in 0 .. l - 1 : e[i] = j
            BY <1>9, <5>2
          <6>. QED
            BY <1>11, <2>7, <6>1
        <5>. QED
          BY <5>1, <5>2
      <4>2. met[x] = 0 /\ x \notin owed
        BY <2>1, <4>1 DEF Stands
      <4>. QED
        BY <1>5, <1>7, <3>2, <4>2
    <3>. QED
      BY <3>1, <3>2
  <2>8. Stands(b, q, l, data', curr, met', owed')
    BY <2>4, <2>5, <2>6, <2>7 DEF Stands
  <2>. QED
    BY <2>8
<1>15. ASSUME walk = "ended", NEW x \in owed' PROVE met'[x] > 0
  <2>1. x \in owed /\ x \notin gone /\ met[x] > 0
    BY <1>8, <1>15, <1>7
  <2>. QED
    BY <1>5, <2>1
<1>16. walk = "none" => met' = NoneMet /\ owed' = {}
  BY <1>8, <1>6, <1>7
<1>. QED
  BY <1>13, <1>14, <1>15, <1>16 DEF Walks

\* What a removal leaves behind.
Removed(e, l) == ListInv' /\ num' = l /\ Ordered' = [j \in 1 .. l |-> Ordered[e[j - 1] + 1]]

LEMMA RemovalKeeps ==
    ASSUME Typed, NEW p, Kept(p),
           NEW K \in SUBSET (0 .. num - 1), NEW l \in Nat, NEW e, Numbers(e, l, num, K), Removes(K),
           kind = "queue" => K \subseteq {0}
    PROVE  Removed(e, l)
<1>. PICK q : q = [i \in 0 .. l - 1 |-> p[e[i]]]
  OBVIOUS
<1>1. num \in Nat /\ data \in [Nodes -> Items \union {NULL}] /\ owed \in SUBSET Items
      /\ met \in [Items -> Nat]
  BY DEF Typed
<1>2. /\ Chain(p) /\ p \in [0 .. num - 1 -> Nodes] /\ live = {p[i] : i \in 0 .. num - 1}
      /\ \A i, j \in 0 .. num - 1 : p[i] = p[j] => i = j
  BY DEF Kept, Chain, Chained
<1>3. ShownSo(p)
  BY <1>1, <1>2, ChainShown DEF ShowsChain
<1>4. /\ e \in [0 .. l - 1 -> (0 .. num - 1) \ K]
      /\ \A i, j \in 0 .. l - 1 : i < j => e[i] < e[j]
      /\ \A k \in (0 .. num - 1) \ K : \E i \in 0 .. l - 1 : e[i] = k
  BY DEF Numbers
<1>5. /\ head' = IF 0 < l THEN p[e[0]] ELSE NULL
      /\ next' \in [Nodes -> Nodes \union {NULL}]
      /\ \A i \in 0 .. l - 1 : next'[p[e[i]]] = IF i + 1 < l THEN p[e[i + 1]] ELSE NULL
  <2>1. Unlink(K)
    BY DEF Removes
  <2>2. Relinked(p, e, l)
    BY <1>2, <1>3, <2>1, UnlinkLinks
  <2>. QED
    BY <2>2 DEF Relinked
<1>6. Freed(K) = {p[k] : k \in K}
  BY <1>3 DEF Freed, ShownSo
<1>7. /\ kind' = kind /\ end' = end
      /\ live' = live \ {p[k] : k \in K}
      /\ \A n \in Nodes : data'[n] = IF n \in {p[k] : k \in K} THEN NULL ELSE data[n]
      /\ data' \in [Nodes -> Items \union {NULL}]
  <2>1. data' = [n \in Nodes |-> IF n \in {p[k] : k \in K} THEN NULL ELSE data[n]]
    BY <1>6 DEF Removes, Clear
  <2>. QED
    BY <1>1, <1>6, <2>1 DEF Removes, Clear
<1>8. num' = l
  <2>1. num' = num - Cardinality(K)
    BY DEF Removes
  <2>. QED
    BY <1>1, <2>1, LeftCount
<1>9. \A i \in 0 .. l - 1 : /\ e[i] \in 0 .. num - 1 /\ e[i] \notin K
                            /\ q[i] = p[e[i]] /\ q[i] \in Nodes
                            /\ data'[p[e[i]]] = data[p[e[i]]]
  BY <1>2, <1>4, <1>7
<1>10. ASSUME NEW i \in 0 .. l - 1, NEW j \in 0 .. l - 1, e[i] = e[j] PROVE i = j
  <2>1. e[i] \in Nat /\ e[j] \in Nat
    BY <1>4
  <2>2. ~(i < j) /\ ~(j < i)
    BY <1>4, <1>10, <2>1
  <2>. QED
    BY <2>2
<1>11. Chain(q)'
  <2>1. q \in [0 .. l - 1 -> Nodes]
    BY <1>9
  <2>2. ASSUME NEW i \in 0 .. l - 1, NEW j \in 0 .. l - 1, q[i] = q[j] PROVE i = j
    BY <1>2, <1>9, <1>10, <2>2
  <2>3. head' = IF l = 0 THEN NULL ELSE q[0]
    BY <1>5
  <2>4. \A i \in 0 .. l - 1 : next'[q[i]] = IF i + 1 < l THEN q[i + 1] ELSE NULL
    BY <1>5, <1>9
  <2>5. live' = {q[i] : i \in 0 .. l - 1}
    <3>1. ASSUME NEW n \in live' PROVE \E i \in 0 .. l - 1 : q[i] = n
      <4>1. PICK k \in 0 .. num - 1 : p[k] = n
        BY <1>2, <1>7, <3>1
      <4>2. k \notin K
        BY <1>7, <3>1, <4>1
      <4>3. PICK i \in 0 .. l - 1 : e[i] = k
        BY <1>4, <4>2
      <4>. QED
        BY <1>9, <4>1, <4>3
    <3>2. ASSUME NEW i \in 0 .. l - 1 PROVE q[i] \in live'
      <4>1. q[i] \in live
        BY <1>2, <1>9
      <4>2. \A k \in K : p[k] # q[i]
        BY <1>2, <1>9
      <4>. QED
        BY <1>7, <4>1, <4>2
    <3>. QED
      BY <3>1, <3>2
  <2>. QED
    BY <1>8, <2>1, <2>2, <2>3, <2>4, <2>5 DEF Chain, Chained
<1>12. /\ \A i \in 0 .. num - 1 : data[p[i]] \in Items
       /\ \A i, j \in 0 .. num - 1 : data[p[i]] = data[p[j]] => i = j
       /\ kind = "sorted" => \A i, j \in 0 .. num - 1 : i < j => KeyOf[data[p[i]]] < KeyOf[data[p[j]]]
       /\ kind = "queue" /\ num > 0 => end = p[num - 1]
  BY DEF Kept, Held
<1>13. Held(q, num', data', kind', end')
  <2>1. \A i \in 0 .. l - 1 : data'[q[i]] = data[p[e[i]]] /\ data'[q[i]] \in Items
    BY <1>9, <1>12
  <2>2. ASSUME NEW i \in 0 .. l - 1, NEW j \in 0 .. l - 1, data'[q[i]] = data'[q[j]] PROVE i = j
    BY <1>9, <1>10, <1>12, <2>1, <2>2
  <2>3. ASSUME kind = "sorted", NEW i \in 0 .. l - 1, NEW j \in 0 .. l - 1, i < j
        PROVE  KeyOf[data'[q[i]]] < KeyOf[data'[q[j]]]
    <3>1. e[i] < e[j]
      BY <1>4, <2>3
    <3>. QED
      BY <1>9, <1>12, <2>1, <2>3, <3>1
  <2>4. ASSUME kind = "queue", l > 0 PROVE end = q[l - 1]
    <3>1. l - 1 \in 0 .. l - 1 /\ e[l - 1] \in 0 .. num - 1 /\ e[l - 1] \notin K
      BY <1>9, <2>4
    <3>2. num - 1 \in (0 .. num - 1) \ K
      <4>1. num - 1 \in 0 .. num - 1 /\ num > 0
        BY <1>1, <3>1
      <4>. SUFFICES ASSUME num - 1 \in K PROVE FALSE
        BY <4>1
      <4>2. num - 1 = 0 /\ 0 \in K
        BY <2>4
      <4>. QED
        BY <3>1, <4>2
    <3>3. PICK i \in 0 .. l - 1 : e[i] = num - 1
      BY <1>4, <3>2
    <3>4. i = l - 1
      <4>1. i < l - 1 => e[i] < e[l - 1]
        BY <1>4, <3>1
      <4>. QED
        BY <1>1, <3>1, <3>3, <4>1
    <3>5. num > 0
      BY <1>1, <3>1
    <3>6. end = p[num - 1]
      BY <1>12, <2>4, <3>5
    <3>. QED
      BY <1>9, <3>1, <3>3, <3>4, <3>6
  <2>. QED
    BY <1>7, <1>8, <2>1, <2>2, <2>3, <2>4 DEF Held
<1>14. {ItemAt(k) : k \in K} = {data[p[k]] : k \in K}
  BY <1>3 DEF ShownSo
<1>15. met' \in [Items -> Nat] /\ owed' \subseteq Items
       /\ walk' \in {"none", "walking", "ended"} /\ curr' \in Nodes \union {NULL}
       /\ Walks(q, num', data', walk', curr', met', owed')
  <2>1. CASE walk = "walking" /\ curr \in Freed(K)
    <3>1. curr' = NULL /\ walk' = "none" /\ met' = NoneMet /\ owed' = {}
      BY <2>1 DEF Removes, WalkForgets
    <3>. QED
      BY <3>1 DEF Walks, NoneMet
  <2>2. CASE ~(walk = "walking" /\ curr \in Freed(K))
    <3>. PICK gone : gone = {data[p[k]] : k \in K}
      OBVIOUS
    <3>. (\A k \in K : data[p[k]] \in gone) /\ (\A x \in gone : \E k \in K : x = data[p[k]])
      OBVIOUS
    <3>1. /\ met' = [x \in Items |-> IF x \in gone THEN 0 ELSE met[x]]
          /\ owed' = owed \ gone /\ curr' = curr /\ walk' = walk
      BY <1>14, <2>2 DEF Removes, WalkForgets
    <3>2. Walks(p, num, data, walk, curr, met, owed) /\ Held(p, num, data, kind, end)
      BY DEF Kept
    <3>3. walk = "none" => met' = NoneMet
      BY <3>1, <3>2 DEF Walks, NoneMet
    <3>4. \A k \in K : walk = "walking" => curr # p[k]
      BY <1>6, <2>2
    <3>5. \A x \in Items : met'[x] = IF x \in gone THEN 0 ELSE met[x]
      BY <3>1
    <3>6. \A i \in 0 .. l - 1 : data'[p[e[i]]] = data[p[e[i]]]
      BY <1>9
    <3>7. Walks(q, l, data', walk, curr, met', owed')
      <4>1. Forgotten(p, e, l, K, gone)
        BY <3>1, <3>3, <3>4, <3>5, <3>6 DEF Forgotten
      <4>. QED
        BY <4>1, WalksShrink
    <3>. QED
      BY <1>1, <1>8, <3>1, <3>7 DEF Typed
  <2>. QED
    BY <2>1, <2>2
<1>16. Typed'
  <2>1. head' \in Nodes \union {NULL}
    BY <1>5, <1>9
  <2>. QED
    BY <1>5, <1>7, <1>8, <1>15, <2>1 DEF Typed
<1>17. Ordered' = [j \in 1 .. l |-> Ordered[e[j - 1] + 1]]
  <2>1. Ordered' = [j \in 1 .. l |-> data'[q[j - 1]]]
    <3>1. ShowsChain'
      BY ChainShown, PTL
    <3>2. ShownSo(q)'
      BY <1>8, <1>11, <3>1 DEF ShowsChain
    <3>. QED
      BY <1>8, <3>2 DEF ShownSo
  <2>2. Ordered = [j \in 1 .. num |-> data[p[j - 1]]]
    BY <1>3 DEF ShownSo
  <2>3. ASSUME NEW j \in 1 .. l PROVE data'[q[j - 1]] = Ordered[e[j - 1] + 1]
    <3>1. j - 1 \in 0 .. l - 1
      OBVIOUS
    <3>2. e[j - 1] + 1 \in 1 .. num /\ e[j - 1] + 1 - 1 = e[j - 1]
      BY <1>1, <1>9, <3>1
    <3>. QED
      BY <1>9, <2>2, <3>1, <3>2
  <2>. QED
    BY <2>1, <2>3
<1>. QED
  BY <1>8, <1>11, <1>13, <1>15, <1>16, <1>17 DEF ListInv, Kept, Removed

-----------------------------------------------------------------------------
(***************************************************************************)
(* Sequences.                                                              *)
(***************************************************************************)
LEMMA InsertIs ==
    ASSUME NEW s, NEW m, NEW x
    PROVE  Abstract!InsertAt(s, m, x) = (SubSeq(s, 1, m - 1) \o <<x>>) \o SubSeq(s, m, Len(s))
BY DEF Abstract!InsertAt

LEMMA RemoveIs ==
    ASSUME NEW s, NEW m
    PROVE  Abstract!RemoveAt(s, m) = SubSeq(s, 1, m - 1) \o SubSeq(s, m + 1, Len(s))
BY DEF Abstract!RemoveAt

\* The elements of a part of a sequence.
LEMMA PartOf ==
    ASSUME NEW n \in Nat, NEW s \in [1 .. n -> Items], NEW k \in Nat, k <= n
    PROVE  LET b == SubSeq(s, k + 1, n) IN
           b \in Seq(Items) /\ Len(b) = n - k /\ \A i \in 1 .. n - k : b[i] = s[k + i]
<1>. PICK b : b = SubSeq(s, k + 1, n)
  OBVIOUS
<1>1. /\ b \in Seq(Items)
      /\ Len(b) = IF k + 1 <= n THEN n - (k + 1) + 1 ELSE 0
      /\ \A i \in 1 .. n - (k + 1) + 1 : b[i] = s[k + 1 + i - 1]
  <2>1. k + 1 \in Int /\ n \in Int /\ \A i \in k + 1 .. n : s[i] \in Items
    OBVIOUS
  <2>. QED
    BY <2>1, SubSeqProperties
<1>2. Len(b) = n - k
  <2>1. (IF k + 1 <= n THEN n - (k + 1) + 1 ELSE 0) = n - k
    OBVIOUS
  <2>. QED
    BY <1>1, <2>1
<1>3. ASSUME NEW i \in 1 .. n - k PROVE b[i] = s[k + i]
  <2>1. i \in 1 .. n - (k + 1) + 1 /\ k + 1 + i - 1 = k + i
    OBVIOUS
  <2>2. b[i] = s[k + 1 + i - 1]
    BY <1>1, <2>1
  <2>. QED
    BY <2>1, <2>2
<1>. QED
  BY <1>1, <1>2, <1>3

\* The elements of two sequences in a row.
LEMMA Joined ==
    ASSUME NEW a \in Seq(Items), NEW b \in Seq(Items), NEW k \in Nat, NEW l \in Nat,
           Len(a) = k, Len(b) = l
    PROVE  /\ a \o b \in Seq(Items) /\ Len(a \o b) = k + l
           /\ \A i \in 1 .. k : (a \o b)[i] = a[i]
           /\ \A i \in 1 .. l : (a \o b)[k + i] = b[i]
<1>. PICK u : u = a \o b
  OBVIOUS
<1>1. /\ u \in Seq(Items) /\ Len(u) = k + l
      /\ \A i \in 1 .. k + l : u[i] = IF i <= k THEN a[i] ELSE b[i - k]
  BY ConcatProperties
<1>2. \A i \in 1 .. k : u[i] = a[i]
  BY <1>1
<1>3. ASSUME NEW i \in 1 .. l PROVE u[k + i] = b[i]
  <2>1. k + i \in 1 .. k + l /\ ~(k + i <= k) /\ k + i - k = i
    OBVIOUS
  <2>. QED
    BY <1>1, <2>1
<1>. QED
  BY <1>1, <1>2, <1>3

\* A sequence with x put in behind its first k elements.
Grows(t, s, n, x, k) ==
    t = [j \in 1 .. n + 1 |-> IF j <= k THEN s[j] ELSE IF j = k + 1 THEN x ELSE s[j - 1]]

LEMMA InsertedAt ==
    ASSUME NEW s, NEW n \in Nat, s \in [1 .. n -> Items], NEW x \in Items, NEW k \in 0 .. n,
           NEW t, Grows(t, s, n, x, k)
    PROVE  /\ t = Abstract!InsertAt(s, k + 1, x)
           /\ k = 0 => t = <<x>> \o s
           /\ k = n => t = Append(s, x)
<1>1. s \in Seq(Items) /\ Len(s) = n /\ <<x>> \in Seq(Items) /\ Len(<<x>>) = 1 /\ <<x>>[1] = x
  OBVIOUS
<1>2. t \in Seq(Items) /\ Len(t) = n + 1
      /\ \A j \in 1 .. n + 1 : t[j] = IF j <= k THEN s[j] ELSE IF j = k + 1 THEN x ELSE s[j - 1]
  <2>1. \A j \in 1 .. n + 1 : (IF j <= k THEN s[j] ELSE IF j = k + 1 THEN x ELSE s[j - 1]) \in Items
    OBVIOUS
  <2>. QED
    BY <2>1 DEF Grows
<1>3. ASSUME NEW u \in Seq(Items), Len(u) = n + 1,
             \A j \in 1 .. k : u[j] = s[j], u[k + 1] = x,
             \A i \in 1 .. n - k : u[k + 1 + i] = s[k + i]
      PROVE  t = u
  <2>1. ASSUME NEW j \in 1 .. n + 1 PROVE t[j] = u[j]
    <3>1. CASE j <= k + 1
      BY <1>2, <1>3, <3>1
    <3>2. CASE j > k + 1
      <4>1. j - (k + 1) \in 1 .. n - k /\ k + 1 + (j - (k + 1)) = j /\ k + (j - (k + 1)) = j - 1
        BY <3>2
      <4>2. u[j] = s[j - 1]
        BY <1>3, <4>1
      <4>. QED
        BY <1>2, <3>2, <4>2
    <3>. QED
      BY <3>1, <3>2
  <2>. QED
    BY <1>2, <1>3, <2>1, SeqEqual
<1>4. t = Abstract!InsertAt(s, k + 1, x)
  <2>. PICK a : a = SubSeq(s, 1, k)
    OBVIOUS
  <2>. PICK m : m = k + 1
    OBVIOUS
  <2>. PICK b : b = SubSeq(s, m, n)
    OBVIOUS
  <2>. PICK c : c = a \o <<x>>
    OBVIOUS
  <2>. PICK u : u = c \o b
    OBVIOUS
  <2>1. a \in Seq(Items) /\ Len(a) = k /\ \A i \in 1 .. k : a[i] = s[i]
    BY <1>1
  <2>2. b \in Seq(Items) /\ Len(b) = n - k /\ \A i \in 1 .. n - k : b[i] = s[k + i]
    BY PartOf, SMTT(100)
  <2>3. c \in Seq(Items) /\ Len(c) = m /\ (\A i \in 1 .. k : c[i] = s[i]) /\ c[m] = x
    <3>1. /\ c \in Seq(Items) /\ Len(c) = k + 1
          /\ \A i \in 1 .. k : c[i] = a[i]
          /\ \A i \in 1 .. 1 : c[k + i] = <<x>>[i]
      BY <1>1, <2>1, Joined, SMTT(30)
    <3>2. c[k + 1] = x
      BY <1>1, <3>1
    <3>. QED
      BY <2>1, <3>1, <3>2
  <2>4. PICK l \in Nat : l = n - k /\ m + l = n + 1 /\ m \in Nat
    OBVIOUS
  <2>5. /\ u \in Seq(Items) /\ Len(u) = n + 1
        /\ \A i \in 1 .. m : u[i] = c[i]
        /\ \A i \in 1 .. l : u[m + i] = b[i]
    BY <2>2, <2>3, <2>4, Joined, SMTT(30)
  <2>6. t = u
    <3>1. (\A j \in 1 .. k : u[j] = s[j]) /\ u[k + 1] = x
      BY <2>3, <2>5
    <3>2. \A i \in 1 .. n - k : u[k + 1 + i] = s[k + i]
      BY <2>2, <2>4, <2>5
    <3>. QED
      BY <1>3, <2>5, <3>1, <3>2
  <2>7. Abstract!InsertAt(s, m, x) = (SubSeq(s, 1, m - 1) \o <<x>>) \o SubSeq(s, m, Len(s))
    BY InsertIs
  <2>8. m - 1 = k
    OBVIOUS
  <2>9. t = Abstract!InsertAt(s, m, x)
    BY <1>1, <2>6, <2>7, <2>8, Zenon
  <2>. QED
    BY <2>9
<1>5. ASSUME k = 0 PROVE t = <<x>> \o s
  <2>. PICK u : u = <<x>> \o s
    OBVIOUS
  <2>1. /\ u \in Seq(Items) /\ Len(u) = 1 + n
        /\ \A i \in 1 .. 1 : u[i] = <<x>>[i]
        /\ \A i \in 1 .. n : u[1 + i] = s[i]
    BY <1>1, Joined
  <2>2. u[1] = x /\ Len(u) = n + 1
    BY <1>1, <2>1
  <2>3. \A j \in 1 .. n + 1 : t[j] = u[j]
    <3>. SUFFICES ASSUME NEW j \in 1 .. n + 1, j # 1 PROVE t[j] = u[j]
      BY <1>2, <1>5, <2>2
    <3>1. j - 1 \in 1 .. n /\ 1 + (j - 1) = j
      OBVIOUS
    <3>. QED
      BY <1>2, <1>5, <2>1, <3>1
  <2>. QED
    BY <1>2, <2>1, <2>2, <2>3, SeqEqual
<1>6. ASSUME k = n PROVE t = Append(s, x)
  <2>. PICK u : u = Append(s, x)
    OBVIOUS
  <2>1. u \in Seq(Items) /\ Len(u) = n + 1 /\ u[n + 1] = x /\ \A j \in 1 .. n : u[j] = s[j]
    BY <1>1
  <2>2. \A j \in 1 .. n + 1 : t[j] = u[j]
    BY <1>2, <1>6, <2>1
  <2>. QED
    BY <1>2, <2>1, <2>2, SeqEqual
<1>. QED
  BY <1>4, <1>5, <1>6

\* A sequence of which the places in e are left.
Shrinks(t, s, e, l) == t = [j \in 1 .. l |-> s[e[j - 1] + 1]]

LEMMA RemovedAt ==
    ASSUME NEW s, NEW n \in Nat, s \in [1 .. n -> Items], NEW k \in 0 .. n - 1, NEW t,
           NEW e, e = [i \in 0 .. n - 2 |-> IF i < k THEN i ELSE i + 1],
           Shrinks(t, s, e, n - 1)
    PROVE  t = Abstract!RemoveAt(s, k + 1) /\ (k = 0 => t = Tail(s))
<1>1. s \in Seq(Items) /\ Len(s) = n
  OBVIOUS
<1>2. ASSUME NEW j \in 1 .. n - 1 PROVE t[j] = IF j <= k THEN s[j] ELSE s[j + 1]
  <2>1. t[j] = s[e[j - 1] + 1]
    BY DEF Shrinks
  <2>2. e[j - 1] = IF j - 1 < k THEN j - 1 ELSE j - 1 + 1
    <3>1. j - 1 \in 0 .. n - 2
      OBVIOUS
    <3>. QED
      BY <3>1
  <2>3. e[j - 1] + 1 = IF j <= k THEN j ELSE j + 1
    BY <2>2
  <2>. QED
    BY <2>1, <2>3
<1>3. t \in Seq(Items) /\ Len(t) = n - 1
  <2>1. \A j \in 1 .. n - 1 : t[j] \in Items
    BY <1>2
  <2>2. t = [j \in 1 .. n - 1 |-> t[j]]
    BY DEF Shrinks
  <2>3. PICK l \in Nat : l = n - 1
    OBVIOUS
  <2>4. t \in [1 .. l -> Items]
    BY <2>1, <2>2, <2>3, Zenon
  <2>. QED
    BY <2>3, <2>4
<1>4. t = Abstract!RemoveAt(s, k + 1)
  <2>. PICK a : a = SubSeq(s, 1, k)
    OBVIOUS
  <2>. PICK m : m = k + 1
    OBVIOUS
  <2>. PICK b : b = SubSeq(s, m + 1, n)
    OBVIOUS
  <2>. PICK u : u = a \o b
    OBVIOUS
  <2>1. a \in Seq(Items) /\ Len(a) = k /\ \A i \in 1 .. k : a[i] = s[i]
    BY <1>1
  <2>2. b \in Seq(Items) /\ Len(b) = n - m /\ \A i \in 1 .. n - m : b[i] = s[m + i]
    <3>1. m \in Nat /\ m <= n
      OBVIOUS
    <3>. QED
      BY <3>1, PartOf
  <2>3. n - m \in Nat /\ k + (n - m) = n - 1 /\ k \in Nat
    OBVIOUS
  <2>4. /\ u \in Seq(Items) /\ Len(u) = n - 1
        /\ \A i \in 1 .. k : u[i] = a[i]
        /\ \A i \in 1 .. n - m : u[k + i] = b[i]
    BY <2>1, <2>2, <2>3, Joined, SMTT(100)
  <2>5. ASSUME NEW j \in 1 .. n - 1 PROVE t[j] = u[j]
    <3>1. CASE j <= k
      BY <1>2, <2>1, <2>4, <3>1
    <3>2. CASE ~(j <= k)
      <4>1. PICK i \in 1 .. n - m : k + i = j /\ m + i = j + 1
        BY <3>2
      <4>2. u[k + i] = b[i] /\ b[i] = s[m + i]
        BY <2>2, <2>4, Zenon
      <4>3. u[j] = s[j + 1]
        BY <4>1, <4>2, Zenon
      <4>. QED
        BY <1>2, <3>2, <4>3, Zenon
    <3>. QED
      BY <3>1, <3>2, Zenon
  <2>6. t = u
    BY <1>3, <2>4, <2>5, SeqEqual
  <2>7. Abstract!RemoveAt(s, m) = SubSeq(s, 1, m - 1) \o SubSeq(s, m + 1, Len(s))
    BY RemoveIs
  <2>8. m - 1 = k
    OBVIOUS
  <2>9. t = Abstract!RemoveAt(s, m)
    BY <1>1, <2>6, <2>7, <2>8, Zenon
  <2>. QED
    BY <2>9
<1>5. ASSUME k = 0 PROVE t = Tail(s)
  <2>. PICK u : u = Tail(s)
    OBVIOUS
  <2>1. u \in Seq(Items) /\ Len(u) = n - 1 /\ \A j \in 1 .. n - 1 : u[j] = s[j + 1]
    <3>1. s # <<>>
      BY <1>1
    <3>. QED
      BY <1>1, <3>1, HeadTailProperties
  <2>2. \A j \in 1 .. n - 1 : t[j] = u[j]
    BY <1>2, <1>5, <2>1
  <2>. QED
    BY <1>3, <2>1, <2>2, SeqEqual
<1>. QED
  BY <1>4, <1>5

-----------------------------------------------------------------------------
(***************************************************************************)
(* The sequence that a list stands for.                                    *)
(***************************************************************************)
LEMMA OrderedIs ==
    ASSUME Typed, NEW p, Kept(p)
    PROVE  /\ num \in Nat /\ p \in [0 .. num - 1 -> Nodes] /\ Chain(p) /\ ShownSo(p)
           /\ Ordered \in [1 .. num -> Items]
           /\ Ordered \in Seq(Items) /\ Len(Ordered) = num /\ DOMAIN Ordered = 1 .. num
           /\ \A k \in 0 .. num - 1 : /\ Ordered[k + 1] = data[p[k]] /\ ItemAt(k) = data[p[k]]
                                      /\ data[p[k]] \in Items
           /\ \A j \in 1 .. num : j - 1 \in 0 .. num - 1 /\ Ordered[j] = data[p[j - 1]]
<1>1. num \in Nat /\ p \in [0 .. num - 1 -> Nodes] /\ Chain(p) /\ ShownSo(p)
  BY ChainShown DEF Typed, Kept, Chain, Chained, ShowsChain
<1>2. \A k \in 0 .. num - 1 : data[p[k]] \in Items /\ ItemAt(k) = data[p[k]]
  BY <1>1 DEF Kept, Held, ShownSo
<1>3. Ordered = [k \in 1 .. num |-> data[p[k - 1]]]
  BY <1>1 DEF ShownSo
<1>4. \A j \in 1 .. num : j - 1 \in 0 .. num - 1 /\ Ordered[j] = data[p[j - 1]]
  BY <1>1, <1>3
<1>5. Ordered \in [1 .. num -> Items]
  <2>1. \A j \in 1 .. num : data[p[j - 1]] \in Items
    BY <1>2, <1>4
  <2>. QED
    BY <1>3, <2>1
<1>6. Ordered \in Seq(Items) /\ Len(Ordered) = num /\ DOMAIN Ordered = 1 .. num
  BY <1>1, <1>5
<1>7. ASSUME NEW k \in 0 .. num - 1 PROVE Ordered[k + 1] = data[p[k]]
  <2>1. k + 1 \in 1 .. num /\ k + 1 - 1 = k
    BY <1>1
  <2>. QED
    BY <1>3, <2>1
<1>. QED
  BY <1>1, <1>2, <1>4, <1>5, <1>6, <1>7

\* A list that is left alone stands for the same sequence.
LEMMA Untouched ==
    ASSUME Typed, NEW p, Kept(p), UNCHANGED <<kind, listVars>>,
           Walks(p, num, data, walk', curr', met', owed'),
           walk' \in {"none", "walking", "ended"}, curr' \in Nodes \union {NULL},
           met' \in [Items -> Nat], owed' \subseteq Items
    PROVE  ListInv' /\ Ordered' = Ordered
<1>1. UNCHANGED <<kind, head, end, num, next, data, live>>
  BY DEF listVars
<1>2. num \in Nat /\ Chain(p) /\ ShownSo(p)
  BY OrderedIs
<1>3. Chain(p)'
  BY <1>1, <1>2 DEF Chain
<1>4. Held(p, num, data, kind, end)' /\ Walks(p, num, data, walk, curr, met, owed)'
  BY <1>1 DEF Kept
<1>5. Typed'
  BY <1>1 DEF Typed
<1>6. ListInv'
  BY <1>3, <1>4, <1>5 DEF ListInv, Kept
<1>7. ShownSo(p)'
  <2>1. ShowsChain'
    BY ChainShown, PTL
  <2>. QED
    BY <1>1, <1>2, <1>3, <2>1 DEF ShowsChain
<1>8. Ordered' = Ordered
  <2>1. Ordered' = [k \in 1 .. num' |-> data'[p[k - 1]]]
    BY <1>7 DEF ShownSo
  <2>2. Ordered = [k \in 1 .. num |-> data[p[k - 1]]]
    BY <1>2 DEF ShownSo
  <2>. QED
    BY <1>1, <2>1, <2>2
<1>. QED
  BY <1>6, <1>8

LEMMA UntouchedToo ==
    ASSUME ListInv, UNCHANGED <<kind, listVars, walkVars>>
    PROVE  ListInv' /\ Ordered' = Ordered
<1>1. PICK p : Kept(p)
  BY DEF ListInv
<1>2. UNCHANGED <<curr, walk, met, owed>> /\ UNCHANGED <<kind, listVars>> /\ Typed
  BY DEF walkVars, ListInv
<1>3. Walks(p, num, data, walk', curr', met', owed')
  BY <1>1, <1>2 DEF Kept
<1>4. walk' \in {"none", "walking", "ended"} /\ curr' \in Nodes \union {NULL}
      /\ met' \in [Items -> Nat] /\ owed' \subseteq Items
  BY <1>2 DEF Typed
<1>. QED
  BY <1>1, <1>2, <1>3, <1>4, Untouched

\* Places are counted from nought in the one and from one in the other.
LEMMA LeastOfBoth ==
    ASSUME NEW n \in Nat, NEW A \in SUBSET (0 .. n - 1), NEW B \in SUBSET (1 .. n),
           \A i \in 0 .. n - 1 : i \in A <=> i + 1 \in B
    PROVE  /\ A = {} <=> B = {}
           /\ A # {} => Min(A) \in A /\ Abstract!Min(B) = Min(A) + 1
<1>1. \A j \in 1 .. n : j - 1 \in 0 .. n - 1 /\ j - 1 + 1 = j
  OBVIOUS
<1>2. A = {} <=> B = {}
  <2>1. ASSUME NEW j \in B PROVE j - 1 \in A
    BY <1>1
  <2>. QED
    BY <2>1
<1>3. ASSUME A # {} PROVE Min(A) \in A /\ Abstract!Min(B) = Min(A) + 1
  <2>1. A \in SUBSET Nat /\ B \in SUBSET Nat
    OBVIOUS
  <2>2. PICK m \in A : m = Min(A) /\ \A k \in A : m <= k
    BY <1>3, <2>1, MinIn
  <2>3. m \in 0 .. n - 1 /\ m + 1 \in B
    BY <2>2
  <2>4. ASSUME NEW j \in B PROVE m + 1 <= j
    <3>1. j - 1 \in A /\ m <= j - 1
      BY <1>1, <2>2
    <3>. QED
      BY <2>3, <3>1
  <2>5. Min(B) = m + 1
    <3>. PICK b \in B : b = m + 1
      BY <2>3
    <3>1. \A j \in B : b <= j
      BY <2>4
    <3>. QED
      BY <2>1, <3>1, MinIs
  <2>6. Abstract!Min(B) = Min(B)
    BY DEF Abstract!Min, Min
  <2>. QED
    BY <2>2, <2>5, <2>6
<1>. QED
  BY <1>2, <1>3

LEMMA KeyPlaces ==
    ASSUME Typed, NEW p, Kept(p), NEW k
    PROVE  /\ OfKey(k) = {i \in 0 .. num - 1 : KeyOf[data[p[i]]] = k}
           /\ OfKey(k) = {} <=> Abstract!HasKey(k) = {}
           /\ OfKey(k) # {} => /\ Min(OfKey(k)) \in OfKey(k)
                               /\ Abstract!Min(Abstract!HasKey(k)) = Min(OfKey(k)) + 1
           /\ Abstract!FirstOfKey(k) = IF num = 0 \/ OfKey(k) = {} THEN NULL ELSE ItemAt(Min(OfKey(k)))
<1>. DEFINE A == OfKey(k)
            B == Abstract!HasKey(k)
<1>1. /\ num \in Nat /\ ShownSo(p) /\ DOMAIN Ordered = 1 .. num
      /\ \A i \in 0 .. num - 1 : /\ Ordered[i + 1] = data[p[i]] /\ ItemAt(i) = data[p[i]]
                                 /\ data[p[i]] \in Items
  BY OrderedIs
<1>2. A = {i \in 0 .. num - 1 : KeyOf[data[p[i]]] = k}
  <2>1. A = {i \in 0 .. num - 1 : data[p[i]] \in {y \in Items : KeyOf[y] = k}}
    BY <1>1 DEF ShownSo, OfKey
  <2>. QED
    BY <1>1, <2>1
<1>3. B = {j \in 1 .. num : KeyOf[Ordered[j]] = k}
  BY <1>1 DEF Abstract!HasKey
<1>4. ASSUME NEW i \in 0 .. num - 1 PROVE i \in A <=> i + 1 \in B
  <2>1. i + 1 \in 1 .. num
    BY <1>1
  <2>. QED
    BY <1>1, <1>2, <1>3, <2>1
<1>5. A \in SUBSET (0 .. num - 1) /\ B \in SUBSET (1 .. num)
  BY <1>2, <1>3
<1>6. Abstract!FirstOfKey(k) = IF B = {} THEN NULL ELSE Ordered[Abstract!Min(B)]
  BY DEF Abstract!FirstOfKey
<1>. HIDE DEF A, B
<1>7. /\ A = {} <=> B = {}
      /\ A # {} => Min(A) \in A /\ Abstract!Min(B) = Min(A) + 1
  BY <1>1, <1>4, <1>5, LeastOfBoth
<1>8. num = 0 => A = {}
  BY <1>5
<1>9. Abstract!FirstOfKey(k) = IF num = 0 \/ A = {} THEN NULL ELSE ItemAt(Min(A))
  <2>1. CASE A = {}
    BY <1>6, <1>7, <2>1
  <2>2. CASE A # {}
    <3>1. Min(A) \in 0 .. num - 1 /\ Abstract!Min(B) = Min(A) + 1
      BY <1>5, <1>7, <2>2
    <3>2. Ordered[Min(A) + 1] = ItemAt(Min(A))
      BY <1>1, <3>1
    <3>. QED
      BY <1>6, <1>7, <1>8, <2>2, <3>1, <3>2
  <2>. QED
    BY <2>1, <2>2
<1>. QED
  BY <1>2, <1>7, <1>9 DEF A, B

-----------------------------------------------------------------------------
(***************************************************************************)
(* Removals, as the calls make them.                                       *)
(***************************************************************************)
\* All but one place.
LEMMA AllButOne ==
    ASSUME NEW n \in Nat, NEW k \in 0 .. n - 1, NEW l, l = n - 1,
           NEW e, e = [i \in 0 .. n - 2 |-> IF i < k THEN i ELSE i + 1]
    PROVE  l \in Nat /\ Numbers(e, l, n, {k})
<1>1. l \in Nat /\ 0 .. l - 1 = 0 .. n - 2
  OBVIOUS
<1>2. \A i \in 0 .. n - 2 : e[i] = IF i < k THEN i ELSE i + 1
  OBVIOUS
<1>3. e \in [0 .. n - 2 -> (0 .. n - 1) \ {k}]
  <2>1. \A i \in 0 .. n - 2 : (IF i < k THEN i ELSE i + 1) \in (0 .. n - 1) \ {k}
    OBVIOUS
  <2>. QED
    BY <2>1
<1>4. \A i, j \in 0 .. n - 2 : i < j => e[i] < e[j]
  <2>. SUFFICES ASSUME NEW i \in 0 .. n - 2, NEW j \in 0 .. n - 2, i < j PROVE e[i] < e[j]
    OBVIOUS
  <2>1. (IF i < k THEN i ELSE i + 1) < (IF j < k THEN j ELSE j + 1)
    OBVIOUS
  <2>. QED
    BY <1>2, <2>1
<1>5. ASSUME NEW j \in (0 .. n - 1) \ {k} PROVE \E i \in 0 .. n - 2 : e[i] = j
  <2>1. CASE j < k
    <3>1. j \in 0 .. n - 2 /\ e[j] = j
      BY <1>2, <2>1
    <3>. QED
      BY <3>1
  <2>2. CASE j > k
    <3>1. j - 1 \in 0 .. n - 2 /\ ~(j - 1 < k) /\ j - 1 + 1 = j
      BY <2>2
    <3>2. e[j - 1] = j
      BY <1>2, <3>1
    <3>. QED
      BY <3>1, <3>2
  <2>. QED
    BY <2>1, <2>2
<1>. QED
  BY <1>1, <1>3, <1>4, <1>5 DEF Numbers

LEMMA RemovesOne ==
    ASSUME Typed, NEW p, Kept(p), NEW k \in 0 .. num - 1, Removes({k}), kind = "queue" => k = 0
    PROVE  /\ ListInv'
           /\ Ordered' = Abstract!RemoveAt(Ordered, k + 1)
           /\ k = 0 => Ordered' = Tail(Ordered)
<1>. PICK n : n = num
  OBVIOUS
<1>. PICK l : l = n - 1
  OBVIOUS
<1>. PICK e : e = [i \in 0 .. n - 2 |-> IF i < k THEN i ELSE i + 1]
  OBVIOUS
<1>. PICK s : s = Ordered
  OBVIOUS
<1>. PICK t : t = Ordered'
  OBVIOUS
<1>1. n \in Nat /\ s \in [1 .. n -> Items]
  BY OrderedIs
<1>2. l \in Nat /\ Numbers(e, l, n, {k})
  BY <1>1, AllButOne
<1>3. ListInv' /\ Ordered' = [j \in 1 .. l |-> Ordered[e[j - 1] + 1]]
  <2>. PICK K : K = {k}
    OBVIOUS
  <2>1. K \in SUBSET (0 .. num - 1) /\ (kind = "queue" => K \subseteq {0}) /\ Removes(K)
    OBVIOUS
  <2>2. Numbers(e, l, num, K)
    BY <1>2
  <2>3. Removed(e, l)
    BY <1>2, <2>1, <2>2, RemovalKeeps
  <2>. QED
    BY <2>3 DEF Removed
<1>4. Shrinks(t, s, e, n - 1)
  BY <1>3 DEF Shrinks
<1>5. t = Abstract!RemoveAt(s, k + 1) /\ (k = 0 => t = Tail(s))
  BY <1>1, <1>4, RemovedAt
<1>. QED
  BY <1>3, <1>5, Zenon

\* The items in S leave as the abstract specification has it.
LEMMA TheyLeave ==
    ASSUME NEW n \in Nat, Ordered \in [1 .. n -> Items], NEW K, NEW S, NEW l \in Nat, NEW e, Numbers(e, l, n, K),
           \A i \in 0 .. n - 1 : i \in K <=> Ordered[i + 1] \in S,
           Ordered' = [j \in 1 .. l |-> Ordered[e[j - 1] + 1]]
    PROVE  Abstract!Leave(S)
<1>. PICK f : f = [j \in 1 .. l |-> e[j - 1] + 1]
  OBVIOUS
<1>1. /\ e \in [0 .. l - 1 -> (0 .. n - 1) \ K]
      /\ \A i, j \in 0 .. l - 1 : i < j => e[i] < e[j]
      /\ \A k \in (0 .. n - 1) \ K : \E i \in 0 .. l - 1 : e[i] = k
  BY DEF Numbers
<1>2. DOMAIN Ordered' = 1 .. l /\ DOMAIN Ordered = 1 .. n /\ DOMAIN f = 1 .. l
  OBVIOUS
<1>3. ASSUME NEW j \in 1 .. l
      PROVE  /\ j - 1 \in 0 .. l - 1 /\ f[j] = e[j - 1] + 1 /\ e[j - 1] \in 0 .. n - 1
             /\ e[j - 1] \notin K /\ f[j] \in 1 .. n
  <2>1. j - 1 \in 0 .. l - 1
    OBVIOUS
  <2>2. e[j - 1] \in 0 .. n - 1 /\ e[j - 1] \notin K
    BY <1>1, <2>1
  <2>. QED
    BY <2>1, <2>2
<1>4. f \in [1 .. l -> 1 .. n]
  BY <1>3
<1>5. ASSUME NEW i \in 1 .. l, NEW j \in 1 .. l, i < j PROVE f[i] < f[j]
  <2>1. i - 1 < j - 1
    BY <1>5
  <2>2. e[i - 1] < e[j - 1]
    BY <1>1, <1>3, <2>1
  <2>. QED
    BY <1>3, <2>2
<1>6. ASSUME NEW i \in 1 .. n PROVE (\E j \in 1 .. l : f[j] = i) <=> Ordered[i] \notin S
  <2>1. PICK k \in 0 .. n - 1 : k + 1 = i
    <3>1. i - 1 \in 0 .. n - 1 /\ i - 1 + 1 = i
      OBVIOUS
    <3>. QED
      BY <3>1
  <2>2. k \in K <=> Ordered[i] \in S
    BY <2>1
  <2>3. ASSUME NEW j \in 1 .. l, f[j] = i PROVE k \notin K
    <3>1. e[j - 1] = k
      BY <1>3, <2>1, <2>3
    <3>. QED
      BY <1>3, <3>1
  <2>4. ASSUME k \notin K PROVE \E j \in 1 .. l : f[j] = i
    <3>1. PICK a \in 0 .. l - 1 : e[a] = k
      BY <1>1, <2>4
    <3>2. a + 1 \in 1 .. l /\ a + 1 - 1 = a
      OBVIOUS
    <3>3. f[a + 1] = i
      BY <1>3, <2>1, <3>1, <3>2, SMTT(30)
    <3>. QED
      BY <3>2, <3>3
  <2>. QED
    BY <2>2, <2>3, <2>4
<1>7. Ordered' = [j \in DOMAIN f |-> Ordered[f[j]]]
  BY <1>2, <1>3
<1>8. f \in [DOMAIN Ordered' -> DOMAIN Ordered]
  BY <1>2, <1>4
<1>9. \A i, j \in DOMAIN f : i < j => f[i] < f[j]
  BY <1>2, <1>5
<1>10. \A i \in DOMAIN Ordered : (\E j \in DOMAIN f : f[j] = i) <=> Ordered[i] \notin S
  BY <1>2, <1>6
<1>. QED
  BY <1>7, <1>8, <1>9, <1>10, Zenon DEF Abstract!Leave

LEMMA NoneLeaves ==
    ASSUME NEW n \in Nat, Ordered \in [1 .. n -> Items], NEW S,
           \A i \in 0 .. n - 1 : Ordered[i + 1] \notin S,
           Ordered' = Ordered
    PROVE  Abstract!Leave(S)
<1>. PICK f : f = [j \in 1 .. n |-> j]
  OBVIOUS
<1>1. DOMAIN Ordered' = 1 .. n /\ DOMAIN Ordered = 1 .. n /\ DOMAIN f = 1 .. n
  OBVIOUS
<1>2. f \in [1 .. n -> 1 .. n] /\ \A j \in 1 .. n : f[j] = j
  OBVIOUS
<1>3. ASSUME NEW i \in 1 .. n PROVE Ordered[i] \notin S
  <2>1. i - 1 \in 0 .. n - 1 /\ i - 1 + 1 = i
    OBVIOUS
  <2>. QED
    BY <2>1
<1>4. Ordered' = [j \in DOMAIN f |-> Ordered[f[j]]]
  BY <1>1, <1>2
<1>5. f \in [DOMAIN Ordered' -> DOMAIN Ordered]
  BY <1>1, <1>2
<1>6. \A i, j \in DOMAIN f : i < j => f[i] < f[j]
  BY <1>1, <1>2
<1>7. \A i \in DOMAIN Ordered : (\E j \in DOMAIN f : f[j] = i) <=> Ordered[i] \notin S
  BY <1>1, <1>2, <1>3
<1>. QED
  BY <1>4, <1>5, <1>6, <1>7, Zenon DEF Abstract!Leave

-----------------------------------------------------------------------------
(***************************************************************************)
(* Every call keeps the invariant and is a call of the abstract list.      *)
(***************************************************************************)
LEMMA AddsThere ==
    ASSUME Typed, NEW p, Kept(p), NEW x \in Items, Hits({x}) = {}, NEW k \in 0 .. num, AddsAt(x, k),
           UNCHANGED <<kind, walkVars>>, kind # "queue",
           kind = "sorted" => \A i \in 0 .. num - 1 :
               IF i < k THEN KeyOf[data[p[i]]] < KeyOf[x] ELSE KeyOf[x] < KeyOf[data[p[i]]]
    PROVE  ListInv' /\ Added(x, k)
<1>1. PICK n \in Nodes : Fill(n, x) /\ InsertNode(n, k)
  BY DEF AddsAt
<1>2. num' = num + 1 /\ end' = end
  BY DEF AddsAt
<1>3. Chain(p) /\ n \notin live
  BY <1>1 DEF Kept, Fill
<1>4. Linked(n, k, p)
  BY <1>1, <1>3, InsertLinks
<1>5. end' \in Nodes \union {NULL}
  BY <1>2 DEF Typed
<1>. QED
  BY <1>1, <1>2, <1>4, <1>5, AdditionKeeps, SMTT(100)

\* What an addition is to the abstract list.
LEMMA AddedIs ==
    ASSUME Typed, NEW p, Kept(p), NEW x \in Items, NEW k \in 0 .. num, Added(x, k)
    PROVE  /\ Ordered' = Abstract!InsertAt(Ordered, k + 1, x)
           /\ k = 0 => Ordered' = <<x>> \o Ordered
           /\ k = num => Ordered' = Append(Ordered, x)
<1>. PICK n : n = num
  OBVIOUS
<1>. PICK s : s = Ordered
  OBVIOUS
<1>. PICK t : t = Ordered'
  OBVIOUS
<1>1. n \in Nat /\ s \in [1 .. n -> Items]
  BY OrderedIs
<1>2. Grows(t, s, n, x, k)
  BY DEF Grows, Added
<1>3. /\ t = Abstract!InsertAt(s, k + 1, x)
      /\ k = 0 => t = <<x>> \o s
      /\ k = n => t = Append(s, x)
  BY <1>1, <1>2, InsertedAt
<1>. QED
  BY <1>3, Zenon

LEMMA AddtoFirstStep ==
    ASSUME ListInv, NEW x \in Items, AddtoFirst(x)
    PROVE  ListInv' /\ Abstract!AddtoFirst(x)
<1>1. Typed /\ \E p : Kept(p)
  BY DEF ListInv
<1>2. PICK p : Kept(p)
  BY <1>1
<1>3. kind = "chain" /\ UNCHANGED <<kind, walkVars>> /\ Hits({x}) = {} /\ AddsAt(x, 0)
      /\ Returns("addto_first", x, "OS_OK")
  BY DEF AddtoFirst, AddNeeds
<1>4. 0 \in 0 .. num
  BY <1>1 DEF Typed
<1>5. ListInv' /\ Added(x, 0)
  BY <1>1, <1>2, <1>3, <1>4, AddsThere
<1>6. Ordered' = <<x>> \o Ordered
  BY <1>1, <1>2, <1>4, <1>5, AddedIs
<1>. QED
  BY <1>3, <1>5, <1>6 DEF Abstract!AddtoFirst, Returns, Abstract!Returns

LEMMA AddtoLastStep ==
    ASSUME ListInv, NEW x \in Items, AddtoLast(x)
    PROVE  ListInv' /\ Abstract!AddtoLast(x)
<1>1. Typed /\ \E p : Kept(p)
  BY DEF ListInv
<1>2. PICK p : Kept(p)
  BY <1>1
<1>3. kind = "queue" /\ UNCHANGED <<kind, walkVars>> /\ Hits({x}) = {} /\ num' = num + 1
      /\ Returns("addto_last", x, "OS_OK")
  BY DEF AddtoLast, AddNeeds
<1>4. PICK n \in Nodes : Fill(n, x) /\ LinkLast(n)
  BY DEF AddtoLast
<1>5. n \notin live
  BY <1>4 DEF Fill
<1>6. Linked(n, num, p) /\ end' = n
  BY <1>1, <1>2, <1>3, <1>4, <1>5, LastLinks
<1>7. PICK k \in 0 .. num : k = num
  BY <1>1 DEF Typed
<1>8. ListInv' /\ Added(x, k)
  <2>1. kind = "queue" => k = num /\ end' = n
    BY <1>6, <1>7
  <2>2. kind # "sorted" /\ end' \in Nodes \union {NULL} /\ Linked(n, k, p)
    BY <1>3, <1>6, <1>7
  <2>. QED
    BY <1>1, <1>2, <1>3, <1>4, <2>1, <2>2, AdditionKeeps, SMTT(100)
<1>9. Ordered' = Append(Ordered, x)
  BY <1>1, <1>2, <1>7, <1>8, AddedIs
<1>. QED
  BY <1>3, <1>8, <1>9 DEF Abstract!AddtoLast, Returns, Abstract!Returns

\* Whether an item is in the list.
LEMMA ItemPlaces ==
    ASSUME Typed, NEW p, Kept(p), NEW x \in Items
    PROVE  /\ Hits({x}) = {i \in 0 .. num - 1 : Ordered[i + 1] = x}
           /\ Hits({x}) = {} <=> x \notin Abstract!ToSet(Ordered)
<1>1. /\ num \in Nat /\ ShownSo(p) /\ DOMAIN Ordered = 1 .. num
      /\ \A i \in 0 .. num - 1 : Ordered[i + 1] = data[p[i]]
      /\ \A j \in 1 .. num : j - 1 \in 0 .. num - 1 /\ Ordered[j] = data[p[j - 1]]
  BY OrderedIs
<1>2. Hits({x}) = {i \in 0 .. num - 1 : data[p[i]] \in {x}}
  BY <1>1 DEF ShownSo
<1>3. Hits({x}) = {i \in 0 .. num - 1 : Ordered[i + 1] = x}
  BY <1>1, <1>2
<1>4. Abstract!ToSet(Ordered) = {Ordered[j] : j \in 1 .. num}
  BY <1>1 DEF Abstract!ToSet
<1>5. ASSUME NEW i \in Hits({x}) PROVE x \in Abstract!ToSet(Ordered)
  <2>1. i \in 0 .. num - 1 /\ Ordered[i + 1] = x
    BY <1>3
  <2>2. i + 1 \in 1 .. num
    BY <1>1, <2>1
  <2>. QED
    BY <1>4, <2>1, <2>2
<1>6. ASSUME x \in Abstract!ToSet(Ordered) PROVE Hits({x}) # {}
  <2>1. PICK j \in 1 .. num : Ordered[j] = x
    BY <1>4, <1>6
  <2>2. j - 1 \in 0 .. num - 1 /\ data[p[j - 1]] = x
    BY <1>1, <2>1
  <2>. QED
    BY <1>2, <2>2
<1>. QED
  BY <1>3, <1>5, <1>6

LEMMA AddOnceStep ==
    ASSUME ListInv, NEW x \in Items, AddOnce(x)
    PROVE  ListInv' /\ Abstract!AddOnce(x)
<1>1. Typed /\ \E p : Kept(p)
  BY DEF ListInv
<1>2. PICK p : Kept(p)
  BY <1>1
<1>3. kind = "chain" /\ UNCHANGED <<kind, walkVars>> /\ Returns("add_once", x, "OS_OK")
  BY DEF AddOnce, AddNeeds
<1>4. Hits({x}) = {} <=> x \notin Abstract!ToSet(Ordered)
  BY <1>1, <1>2, ItemPlaces
<1>5. CASE Hits({x}) = {}
  <2>1. PICK k \in 0 .. num : k = num
    BY <1>1 DEF Typed
  <2>2. AddsAt(x, k)
    <3>1. Length = num
      BY <1>1, <1>2, OrderedIs DEF ShownSo
    <3>. QED
      BY <1>5, <2>1, <3>1 DEF AddOnce
  <2>3. ListInv' /\ Added(x, k)
    BY <1>1, <1>2, <1>3, <1>5, <2>2, AddsThere
  <2>4. Ordered' = Append(Ordered, x)
    BY <1>1, <1>2, <2>1, <2>3, AddedIs
  <2>. QED
    BY <1>3, <1>4, <1>5, <2>3, <2>4 DEF Abstract!AddOnce, Returns, Abstract!Returns
<1>6. CASE Hits({x}) # {}
  <2>1. UNCHANGED <<kind, listVars, walkVars>>
    BY <1>3, <1>6 DEF AddOnce
  <2>2. ListInv' /\ Ordered' = Ordered
    BY <2>1, UntouchedToo
  <2>. QED
    BY <1>3, <1>4, <1>6, <2>2 DEF Abstract!AddOnce, Returns, Abstract!Returns
<1>. QED
  BY <1>5, <1>6

\* Where an item is put in so that the list stays in ascending order.
LEMMA PlaceOf ==
    ASSUME Typed, NEW p, Kept(p), kind = "sorted", NEW x \in Items,
           NEW k, k = AscentPlace(x)
    PROVE  /\ k \in 0 .. num
           /\ k \in Places <=> k < num
           /\ \A i \in 0 .. num - 1 : i < k => KeyOf[data[p[i]]] < KeyOf[x]
           /\ k < num => ItemAt(k) = data[p[k]] /\ KeyOf[data[p[k]]] >= KeyOf[x]
           /\ \A i \in 0 .. num - 1 : k < i => KeyOf[x] < KeyOf[data[p[i]]]
<1>. DEFINE S == Hits({y \in Items : KeyOf[y] >= KeyOf[x]})
<1>1. /\ num \in Nat /\ ShownSo(p) /\ Places = 0 .. num - 1 /\ Length = num
      /\ \A i \in 0 .. num - 1 : ItemAt(i) = data[p[i]] /\ data[p[i]] \in Items
  BY OrderedIs DEF ShownSo
<1>2. \A y \in Items : KeyOf[y] \in Nat
  BY ListAssumption DEF ListAssumption
<1>3. \A i, j \in 0 .. num - 1 : i < j => KeyOf[data[p[i]]] < KeyOf[data[p[j]]]
  BY DEF Kept, Held
<1>4. S = {i \in 0 .. num - 1 : KeyOf[data[p[i]]] >= KeyOf[x]}
  <2>1. S = {i \in 0 .. num - 1 : data[p[i]] \in {y \in Items : KeyOf[y] >= KeyOf[x]}}
    BY <1>1 DEF ShownSo
  <2>. QED
    BY <1>1, <2>1
<1>5. k = IF S = {} THEN num ELSE Min(S)
  BY <1>1 DEF AscentPlace
<1>6. S \in SUBSET Nat
  BY <1>4
<1>7. \A i \in 0 .. num - 1 : KeyOf[data[p[i]]] \in Nat
  BY <1>1, <1>2
<1>. HIDE DEF S
<1>8. CASE S = {}
  <2>1. k = num
    BY <1>5, <1>8
  <2>2. ASSUME NEW i \in 0 .. num - 1 PROVE KeyOf[data[p[i]]] < KeyOf[x]
    BY <1>2, <1>4, <1>7, <1>8
  <2>. QED
    BY <1>1, <2>1, <2>2
<1>9. CASE S # {}
  <2>1. k \in S /\ \A i \in S : k <= i
    BY <1>5, <1>6, <1>9, MinIn, ZenonT(60)
  <2>2. k \in 0 .. num - 1 /\ KeyOf[data[p[k]]] >= KeyOf[x]
    BY <1>4, <2>1
  <2>3. ASSUME NEW i \in 0 .. num - 1, i < k PROVE KeyOf[data[p[i]]] < KeyOf[x]
    <3>1. i \notin S
      BY <2>1, <2>2, <2>3
    <3>. QED
      BY <1>2, <1>4, <1>7, <3>1
  <2>4. ASSUME NEW i \in 0 .. num - 1, k < i PROVE KeyOf[x] < KeyOf[data[p[i]]]
    <3>1. KeyOf[data[p[k]]] < KeyOf[data[p[i]]]
      BY <1>3, <2>2, <2>4
    <3>. QED
      BY <1>2, <1>7, <2>2, <3>1
  <2>. QED
    BY <1>1, <2>2, <2>3, <2>4
<1>. QED
  BY <1>8, <1>9

LEMMA AddonceAscentStep ==
    ASSUME ListInv, NEW x \in Items, AddonceAscent(x)
    PROVE  ListInv' /\ Abstract!AddonceAscent(x)
<1>1. Typed /\ \E p : Kept(p)
  BY DEF ListInv
<1>2. PICK p : Kept(p)
  BY <1>1
<1>3. kind = "sorted" /\ UNCHANGED <<kind, walkVars>> /\ Returns("addonce_ascent", x, "OS_OK")
  BY DEF AddonceAscent, AddNeeds
<1>. PICK k : k = AscentPlace(x)
  OBVIOUS
<1>4. /\ k \in 0 .. num
      /\ k \in Places <=> k < num
      /\ \A i \in 0 .. num - 1 : i < k => KeyOf[data[p[i]]] < KeyOf[x]
      /\ k < num => ItemAt(k) = data[p[k]] /\ KeyOf[data[p[k]]] >= KeyOf[x]
      /\ \A i \in 0 .. num - 1 : k < i => KeyOf[x] < KeyOf[data[p[i]]]
  BY <1>1, <1>2, <1>3, PlaceOf
<1>5. /\ num \in Nat /\ DOMAIN Ordered = 1 .. num /\ Len(Ordered) = num /\ ShownSo(p)
      /\ \A i \in 0 .. num - 1 : Ordered[i + 1] = data[p[i]] /\ data[p[i]] \in Items
      /\ \A j \in 1 .. num : j - 1 \in 0 .. num - 1 /\ Ordered[j] = data[p[j - 1]]
  BY <1>1, <1>2, OrderedIs
<1>6. /\ OfKey(KeyOf[x]) = {i \in 0 .. num - 1 : KeyOf[data[p[i]]] = KeyOf[x]}
      /\ OfKey(KeyOf[x]) = {} <=> Abstract!HasKey(KeyOf[x]) = {}
  BY <1>1, <1>2, KeyPlaces
<1>7. (\A y \in Items : KeyOf[y] \in Nat) /\ \A i \in 0 .. num - 1 : KeyOf[data[p[i]]] \in Nat
  BY <1>5, ListAssumption DEF ListAssumption
<1>8. CASE k \in Places /\ KeyOf[ItemAt(k)] = KeyOf[x]
  <2>1. UNCHANGED <<kind, listVars, walkVars>>
    BY <1>3, <1>8 DEF AddonceAscent
  <2>2. ListInv' /\ Ordered' = Ordered
    BY <2>1, UntouchedToo
  <2>3. k \in 0 .. num - 1 /\ KeyOf[data[p[k]]] = KeyOf[x]
    BY <1>4, <1>5, <1>8
  <2>4. Abstract!HasKey(KeyOf[x]) # {}
    BY <1>6, <2>3
  <2>. QED
    BY <1>3, <2>2, <2>4 DEF Abstract!AddonceAscent, Returns, Abstract!Returns
<1>9. CASE ~(k \in Places /\ KeyOf[ItemAt(k)] = KeyOf[x])
  <2>1. AddsAt(x, k)
    BY <1>9 DEF AddonceAscent
  <2>2. \A i \in 0 .. num - 1 :
            IF i < k THEN KeyOf[data[p[i]]] < KeyOf[x] ELSE KeyOf[x] < KeyOf[data[p[i]]]
    <3>. SUFFICES ASSUME NEW i \in 0 .. num - 1, ~(i < k) PROVE KeyOf[x] < KeyOf[data[p[i]]]
      BY <1>4
    <3>1. CASE i = k
      <4>1. k < num /\ KeyOf[data[p[k]]] # KeyOf[x] /\ KeyOf[data[p[k]]] >= KeyOf[x]
        BY <1>4, <1>5, <1>9, <3>1
      <4>. QED
        BY <1>7, <3>1, <4>1
    <3>2. CASE k < i
      BY <1>4, <3>2
    <3>. QED
      BY <1>4, <1>5, <3>1, <3>2
  <2>3. \A i \in 0 .. num - 1 : KeyOf[data[p[i]]] # KeyOf[x]
    BY <1>7, <2>2
  <2>4. Hits({x}) = {}
    <3>1. Hits({x}) = {i \in 0 .. num - 1 : data[p[i]] \in {x}}
      BY <1>5 DEF ShownSo
    <3>. QED
      BY <2>3, <3>1
  <2>5. ListInv' /\ Added(x, k)
    BY <1>1, <1>2, <1>3, <1>4, <2>1, <2>2, <2>4, AddsThere
  <2>6. Ordered' = Abstract!InsertAt(Ordered, k + 1, x)
    BY <1>1, <1>2, <1>4, <2>5, AddedIs
  <2>7. Abstract!HasKey(KeyOf[x]) = {}
    BY <1>6, <2>3
  <2>8. Abstract!Min(Abstract!Larger(KeyOf[x]) \union {Len(Ordered) + 1}) = k + 1
    <3>. PICK b : b = k + 1
      OBVIOUS
    <3>. PICK B : B = Abstract!Larger(KeyOf[x]) \union {num + 1}
      OBVIOUS
    <3>1. Abstract!Larger(KeyOf[x]) = {j \in 1 .. num : KeyOf[Ordered[j]] > KeyOf[x]}
      BY <1>5 DEF Abstract!Larger
    <3>2. B \in SUBSET Nat
      BY <1>5, <3>1
    <3>3. b \in B
      <4>1. CASE k = num
        BY <4>1
      <4>2. CASE k < num
        <5>1. k \in 0 .. num - 1 /\ k + 1 \in 1 .. num
          BY <1>4, <1>5, <4>2
        <5>2. KeyOf[x] < KeyOf[Ordered[k + 1]]
          BY <1>5, <2>2, <5>1
        <5>3. KeyOf[Ordered[k + 1]] > KeyOf[x]
          BY <1>5, <1>7, <5>1, <5>2
        <5>. QED
          BY <3>1, <5>1, <5>3
      <4>. QED
        BY <1>4, <1>5, <4>1, <4>2
    <3>4. ASSUME NEW j \in B PROVE b <= j
      <4>1. CASE j = num + 1
        BY <1>4, <1>5, <4>1
      <4>2. CASE j # num + 1
        <5>1. j \in 1 .. num /\ KeyOf[Ordered[j]] > KeyOf[x]
          BY <3>1, <4>2
        <5>2. j - 1 \in 0 .. num - 1 /\ Ordered[j] = data[p[j - 1]]
          BY <1>5, <5>1
        <5>3. ~(j - 1 < k)
          BY <1>4, <1>5, <1>7, <5>1, <5>2
        <5>. QED
          BY <1>4, <1>5, <5>1, <5>2, <5>3
      <4>. QED
        BY <4>1, <4>2
    <3>5. Min(B) = b
      BY <3>2, <3>3, <3>4, MinIs
    <3>6. Abstract!Min(B) = Min(B)
      BY DEF Abstract!Min, Min
    <3>. QED
      BY <1>5, <3>5, <3>6
  <2>9. Ordered' = Abstract!InsertAt(Ordered, Abstract!Min(Abstract!Larger(KeyOf[x]) \union {Len(Ordered) + 1}), x)
    BY <2>6, <2>8
  <2>. QED
    BY <1>3, <2>5, <2>7, <2>9 DEF Abstract!AddonceAscent, Returns, Abstract!Returns
<1>. QED
  BY <1>8, <1>9

LEMMA NoMemoryStep ==
    ASSUME ListInv, NEW x \in Items, NoMemory(x)
    PROVE  ListInv' /\ Abstract!NoMemory(x)
<1>1. UNCHANGED <<kind, listVars, walkVars>>
  BY DEF NoMemory
<1>2. ListInv' /\ Ordered' = Ordered
  BY <1>1, UntouchedToo
<1>3. \E op \in {"addto_first", "addto_last", "add_once", "addonce_ascent"} :
          \E e \in {"OS_EMEM", "OS_FAIL"} : call' = <<op, x, e>>
  BY DEF NoMemory, Returns
<1>. QED
  BY <1>2, <1>3 DEF Abstract!NoMemory, Abstract!Returns

LEMMA RemoveHeadStep ==
    ASSUME ListInv, RemoveHead
    PROVE  ListInv' /\ Abstract!RemoveHead
<1>1. Typed /\ \E p : Kept(p)
  BY DEF ListInv
<1>2. PICK p : Kept(p)
  BY <1>1
<1>3. /\ num \in Nat /\ p \in [0 .. num - 1 -> Nodes] /\ Chain(p)
      /\ Ordered \in Seq(Items) /\ Len(Ordered) = num
      /\ \A k \in 0 .. num - 1 : Ordered[k + 1] = data[p[k]]
  BY <1>1, <1>2, OrderedIs
<1>4. head = IF num = 0 THEN NULL ELSE p[0]
  BY <1>3 DEF Chain, Chained
<1>5. num # 0 => head # NULL /\ 0 \in 0 .. num - 1
  BY <1>3, <1>4, ListAssumption DEF ListAssumption
<1>6. CASE head = NULL
  <2>1. NothingRemoved /\ Returns("remove_first", NULL, NULL)
    BY <1>6 DEF RemoveHead
  <2>2. ListInv' /\ Ordered' = Ordered
    BY <2>1, UntouchedToo DEF NothingRemoved
  <2>3. Ordered = <<>>
    BY <1>3, <1>5, <1>6
  <2>. QED
    BY <2>1, <2>2, <2>3 DEF Abstract!RemoveHead, Returns, Abstract!Returns
<1>7. CASE head # NULL
  <2>1. Removes({0}) /\ Returns("remove_first", NULL, data[head]) /\ num # 0
    BY <1>4, <1>7 DEF RemoveHead
  <2>2. PICK k \in 0 .. num - 1 : k = 0
    BY <1>5, <2>1
  <2>3. ListInv' /\ Ordered' = Tail(Ordered)
    BY <1>1, <1>2, <2>1, <2>2, RemovesOne
  <2>4. Ordered # <<>> /\ Head(Ordered) = data[head]
    <3>1. Ordered[0 + 1] = data[p[0]] /\ head = p[0]
      BY <1>3, <1>4, <1>5, <2>1
    <3>. QED
      BY <1>3, <2>1, <3>1
  <2>. QED
    BY <2>1, <2>3, <2>4 DEF Abstract!RemoveHead, Returns, Abstract!Returns
<1>. QED
  BY <1>6, <1>7

LEMMA RemoveItemStep ==
    ASSUME ListInv, NEW x \in Items, RemoveItem(x)
    PROVE  ListInv' /\ Abstract!RemoveItem(x)
<1>1. Typed /\ \E p : Kept(p)
  BY DEF ListInv
<1>2. PICK p : Kept(p)
  BY <1>1
<1>3. /\ num \in Nat /\ Ordered \in [1 .. num -> Items] /\ ShownSo(p)
      /\ \A k \in 0 .. num - 1 : Ordered[k + 1] = data[p[k]]
  BY <1>1, <1>2, OrderedIs
<1>. PICK S : S = Hits({x})
  OBVIOUS
<1>4. /\ S = {i \in 0 .. num - 1 : Ordered[i + 1] = x}
      /\ S = {} <=> x \notin Abstract!ToSet(Ordered)
  BY <1>1, <1>2, ItemPlaces
<1>5. kind = "chain" /\ RemoveFirstHit(S)
      /\ Returns("remove_item", x, IF num = 0 \/ S = {} THEN "OS_INVALID" ELSE "OS_OK")
  BY DEF RemoveItem
<1>6. S \subseteq 0 .. num - 1 /\ \A i \in 0 .. num - 1 : i \in S <=> Ordered[i + 1] = x
  BY <1>4, Zenon
<1>7. num = 0 => S = {}
  BY <1>6
<1>8. Abstract!Returns("remove_item", x, IF x \in Abstract!ToSet(Ordered) THEN "OS_OK" ELSE "OS_INVALID")
  BY <1>4, <1>5, <1>7 DEF Returns, Abstract!Returns
<1>9. CASE S = {}
  <2>1. ListInv' /\ Ordered' = Ordered
    BY <1>5, <1>9, UntouchedToo DEF RemoveFirstHit, NothingRemoved
  <2>2. \A i \in 0 .. num - 1 : Ordered[i + 1] \notin {x}
    BY <1>4, <1>9
  <2>3. Abstract!Leave({x})
    BY <1>3, <2>1, <2>2, NoneLeaves
  <2>. QED
    BY <1>8, <2>1, <2>3 DEF Abstract!RemoveItem
<1>10. CASE S # {}
  <2>1. S \in SUBSET Nat /\ S \in SUBSET (0 .. num - 1)
    <3>1. S \subseteq 0 .. num - 1
      BY <1>6
    <3>2. 0 .. num - 1 \subseteq Nat
      OBVIOUS
    <3>. QED
      BY <3>1, <3>2, Zenon
  <2>. PICK m : m = Min(S)
    OBVIOUS
  <2>2. m \in S
    BY <1>10, <2>1, MinIn
  <2>3. S = {m}
    <3>1. \A i, j \in 0 .. num - 1 : data[p[i]] = data[p[j]] => i = j
      BY <1>2 DEF Kept, Held
    <3>2. m \in 0 .. num - 1 /\ data[p[m]] = x
      BY <1>3, <1>6, <2>2
    <3>3. ASSUME NEW i \in S PROVE i = m
      <4>1. i \in 0 .. num - 1 /\ data[p[i]] = x
        BY <1>3, <1>6
      <4>. QED
        BY <3>1, <3>2, <4>1
    <3>. QED
      BY <2>2, <3>3
  <2>4. Removes(S)
    BY <1>5, <1>7, <1>10, <2>3 DEF RemoveFirstHit
  <2>5. PICK e, l : l \in Nat /\ Numbers(e, l, num, S)
    BY <1>3, LeftNumbered
  <2>6. Removed(e, l)
    BY <1>1, <1>2, <1>5, <2>1, <2>4, <2>5, RemovalKeeps
  <2>7. \A i \in 0 .. num - 1 : i \in S <=> Ordered[i + 1] \in {x}
    BY <1>6
  <2>8. Abstract!Leave({x})
    BY <1>3, <2>5, <2>6, <2>7, TheyLeave DEF Removed
  <2>. QED
    BY <1>8, <2>6, <2>8 DEF Abstract!RemoveItem, Removed
<1>. QED
  BY <1>9, <1>10

LEMMA RemoveMatchStep ==
    ASSUME ListInv, NEW k \in Keys, RemoveMatch(k)
    PROVE  ListInv' /\ Abstract!RemoveMatch(k)
<1>1. Typed /\ \E p : Kept(p)
  BY DEF ListInv
<1>2. PICK p : Kept(p)
  BY <1>1
<1>. PICK S : S = OfKey(k)
  OBVIOUS
<1>3. /\ S = {i \in 0 .. num - 1 : KeyOf[data[p[i]]] = k}
      /\ S = {} <=> Abstract!HasKey(k) = {}
      /\ S # {} => Min(S) \in S /\ Abstract!Min(Abstract!HasKey(k)) = Min(S) + 1
      /\ Abstract!FirstOfKey(k) = IF num = 0 \/ S = {} THEN NULL ELSE ItemAt(Min(S))
  BY <1>1, <1>2, KeyPlaces
<1>4. kind = "chain" /\ RemoveFirstHit(S)
      /\ Returns("remove", k, IF num = 0 \/ S = {} THEN NULL ELSE ItemAt(Min(S)))
  BY DEF RemoveMatch
<1>5. Abstract!Returns("remove", k, Abstract!FirstOfKey(k))
  BY <1>3, <1>4 DEF Returns, Abstract!Returns
<1>6. CASE S = {}
  <2>1. ListInv' /\ Ordered' = Ordered
    BY <1>4, <1>6, UntouchedToo DEF RemoveFirstHit, NothingRemoved
  <2>. QED
    BY <1>3, <1>5, <1>6, <2>1 DEF Abstract!RemoveMatch
<1>7. CASE S # {}
  <2>1. PICK m \in 0 .. num - 1 : m = Min(S)
    BY <1>3, <1>7
  <2>2. Removes({m})
    BY <1>4, <1>7, <2>1 DEF RemoveFirstHit
  <2>3. ListInv' /\ Ordered' = Abstract!RemoveAt(Ordered, m + 1)
    BY <1>1, <1>2, <1>4, <2>2, RemovesOne
  <2>. QED
    BY <1>3, <1>5, <1>7, <2>1, <2>3 DEF Abstract!RemoveMatch
<1>. QED
  BY <1>6, <1>7

LEMMA DeleteIfStep ==
    ASSUME ListInv, NEW k \in Keys, DeleteIf(k)
    PROVE  ListInv' /\ Abstract!DeleteIf(k)
<1>1. Typed /\ \E p : Kept(p)
  BY DEF ListInv
<1>2. PICK p : Kept(p)
  BY <1>1
<1>. PICK K : K = OfKey(k)
  OBVIOUS
<1>. PICK S : S = {y \in Items : KeyOf[y] = k}
  OBVIOUS
<1>3. K = {i \in 0 .. num - 1 : KeyOf[data[p[i]]] = k}
  BY <1>1, <1>2, KeyPlaces
<1>4. /\ num \in Nat /\ Ordered \in [1 .. num -> Items]
      /\ \A i \in 0 .. num - 1 : Ordered[i + 1] = data[p[i]] /\ data[p[i]] \in Items
  BY <1>1, <1>2, OrderedIs
<1>5. \A i \in 0 .. num - 1 : i \in K <=> Ordered[i + 1] \in S
  BY <1>3, <1>4
<1>6. kind = "chain" /\ Returns("delete_if", k, "OS_OK") /\ IF num = 0 THEN NothingRemoved ELSE Removes(K)
  BY DEF DeleteIf
<1>7. Abstract!Returns("delete_if", k, "OS_OK")
  BY <1>6 DEF Returns, Abstract!Returns
<1>8. ListInv' /\ Abstract!Leave(S)
  <2>1. CASE num = 0
    <3>1. ListInv' /\ Ordered' = Ordered
      BY <1>6, <2>1, UntouchedToo DEF NothingRemoved
    <3>2. \A i \in 0 .. num - 1 : Ordered[i + 1] \notin S
      BY <2>1
    <3>. QED
      BY <1>4, <3>1, <3>2, NoneLeaves
  <2>2. CASE num # 0
    <3>1. Removes(K) /\ K \in SUBSET (0 .. num - 1)
      BY <1>3, <1>6, <2>2
    <3>2. PICK e, l : l \in Nat /\ Numbers(e, l, num, K)
      BY <1>4, LeftNumbered
    <3>3. Removed(e, l)
      BY <1>1, <1>2, <1>6, <3>1, <3>2, RemovalKeeps
    <3>4. Abstract!Leave(S)
      BY <1>4, <1>5, <3>2, <3>3, TheyLeave DEF Removed
    <3>. QED
      BY <3>3, <3>4 DEF Removed
  <2>. QED
    BY <2>1, <2>2
<1>. QED
  BY <1>7, <1>8 DEF Abstract!DeleteIf

LEMMA DeleteAtStep ==
    ASSUME ListInv, NEW index \in 0 .. num, DeleteAt(index)
    PROVE  ListInv' /\ Abstract!DeleteAt(index)
<1>1. Typed /\ \E p : Kept(p)
  BY DEF ListInv
<1>2. PICK p : Kept(p)
  BY <1>1
<1>3. num \in Nat /\ Len(Ordered) = num /\ Places = 0 .. num - 1
  BY <1>1, <1>2, OrderedIs DEF ShownSo
<1>4. kind = "chain"
  BY DEF DeleteAt
<1>5. CASE index < num
  <2>1. index \in 0 .. num - 1 /\ num # 0 /\ index \in Places
    BY <1>3, <1>5
  <2>2. Removes({index}) /\ Returns("delete_at", index, "OS_OK")
    BY <2>1 DEF DeleteAt
  <2>3. ListInv' /\ Ordered' = Abstract!RemoveAt(Ordered, index + 1)
    BY <1>1, <1>2, <1>4, <2>1, <2>2, RemovesOne
  <2>4. index < Len(Ordered)
    BY <1>3, <1>5
  <2>. QED
    BY <2>2, <2>3, <2>4, Zenon DEF Abstract!DeleteAt, Returns, Abstract!Returns
<1>6. CASE ~(index < num)
  <2>1. index \notin Places /\ ~(index < Len(Ordered))
    BY <1>3, <1>6
  <2>2. NothingRemoved /\ Returns("delete_at", index, "OS_FAIL")
    BY <2>1 DEF DeleteAt
  <2>3. ListInv' /\ Ordered' = Ordered
    BY <2>2, UntouchedToo DEF NothingRemoved
  <2>. QED
    BY <2>1, <2>2, <2>3, Zenon DEF Abstract!DeleteAt, Returns, Abstract!Returns
<1>. QED
  BY <1>5, <1>6

LEMMA ResetStep ==
    ASSUME ListInv, Reset
    PROVE  ListInv' /\ Abstract!Reset
<1>1. Typed /\ \E p : Kept(p)
  BY DEF ListInv
<1>2. PICK p : Kept(p)
  BY <1>1
<1>3. num \in Nat /\ p \in [0 .. num - 1 -> Nodes] /\ Chain(p) /\ ShownSo(p)
      /\ Held(p, num, data, kind, end) /\ Walks(p, num, data, walk, curr, met, owed)
  BY <1>1, <1>2, OrderedIs DEF Kept
<1>4. Freed(Places) = live
  <2>1. live = {p[i] : i \in 0 .. num - 1}
    BY <1>3 DEF Chain, Chained
  <2>. QED
    BY <1>3, <2>1 DEF ShownSo, Freed
<1>5. /\ head' = NULL /\ end' = NULL /\ num' = 0 /\ kind' = kind /\ live' = {}
      /\ next' = [n \in Nodes |-> NULL]
      /\ data' = [n \in Nodes |-> IF n \in live THEN NULL ELSE data[n]]
      /\ Returns("reset", NULL, "OS_OK") /\ WalkForgets(Places)
  BY <1>4 DEF Reset, Clear
<1>. PICK q : q = [i \in 0 .. -1 |-> NULL]
  OBVIOUS
<1>6. \A i : i \notin 0 .. num' - 1
  BY <1>5
<1>7. q \in [0 .. num' - 1 -> Nodes]
  BY <1>5
<1>8. Chain(q)'
  BY <1>5, <1>6, <1>7 DEF Chain, Chained
<1>9. Held(q, num, data, kind, end)'
  BY <1>5, <1>6 DEF Held
<1>10. next' \in [Nodes -> Nodes \union {NULL}] /\ data' \in [Nodes -> Items \union {NULL}]
  BY <1>1, <1>5 DEF Typed
<1>11. /\ Walks(q, num, data, walk, curr, met, owed)'
       /\ met' \in [Items -> Nat] /\ owed' \subseteq Items
       /\ walk' \in {"none", "walking", "ended"} /\ curr' \in Nodes \union {NULL}
  <2>1. met \in [Items -> Nat] /\ owed \subseteq Items
        /\ walk \in {"none", "walking", "ended"} /\ curr \in Nodes \union {NULL}
    BY <1>1 DEF Typed
  <2>2. CASE walk = "walking" /\ curr \in Freed(Places)
    <3>1. curr' = NULL /\ walk' = "none" /\ met' = NoneMet /\ owed' = {}
      BY <1>5, <2>2 DEF WalkForgets
    <3>. QED
      BY <3>1 DEF Walks, NoneMet
  <2>3. CASE ~(walk = "walking" /\ curr \in Freed(Places))
    <3>. PICK gone : gone = {ItemAt(k) : k \in Places}
      OBVIOUS
    <3>1. /\ met' = [x \in Items |-> IF x \in gone THEN 0 ELSE met[x]]
          /\ owed' = owed \ gone /\ curr' = curr /\ walk' = walk
      BY <1>5, <2>3 DEF WalkForgets
    <3>2. /\ \A x \in Items : met[x] <= 1
          /\ walk = "none" => met = NoneMet /\ owed = {}
          /\ walk = "walking" => curr \in live
          /\ walk = "ended" => \A x \in owed : met[x] > 0
      BY <1>3 DEF Walks, Stands, Chain, Chained
    <3>3. walk # "walking"
      BY <1>4, <2>3, <3>2
    <3>4. walk = "none" => met' = NoneMet
      BY <3>1, <3>2 DEF NoneMet
    <3>5. \A x \in Items : met'[x] <= 1
      BY <3>1, <3>2
    <3>6. walk = "ended" => \A x \in owed' : met'[x] > 0
      BY <2>1, <3>1, <3>2
    <3>7. met' \in [Items -> Nat] /\ owed' \subseteq Items
      BY <2>1, <3>1
    <3>. QED
      BY <2>1, <3>1, <3>2, <3>3, <3>4, <3>5, <3>6, <3>7 DEF Walks
  <2>. QED
    BY <2>2, <2>3
<1>12. Typed'
  BY <1>1, <1>5, <1>10, <1>11 DEF Typed
<1>13. ListInv'
  BY <1>8, <1>9, <1>11, <1>12 DEF ListInv, Kept
<1>14. Ordered' = <<>>
  <2>1. ShowsChain'
    BY ChainShown, PTL
  <2>2. ShownSo(q)'
    BY <1>5, <1>8, <2>1 DEF ShowsChain
  <2>3. Ordered' = [k \in 1 .. 0 |-> data'[q[k - 1]]]
    BY <1>5, <2>2 DEF ShownSo
  <2>. QED
    BY <2>3
<1>. QED
  BY <1>5, <1>13, <1>14 DEF Abstract!Reset, Returns, Abstract!Returns

-----------------------------------------------------------------------------
(***************************************************************************)
(* Reading and walking.                                                    *)
(***************************************************************************)
LEMMA FindStep ==
    ASSUME ListInv, NEW k \in Keys, Find(k)
    PROVE  ListInv' /\ Abstract!Find(k)
<1>1. PICK p : Kept(p)
  BY DEF ListInv
<1>2. Abstract!FirstOfKey(k) = IF num = 0 \/ OfKey(k) = {} THEN NULL ELSE ItemAt(Min(OfKey(k)))
  BY <1>1, KeyPlaces DEF ListInv
<1>3. ListInv' /\ Ordered' = Ordered
  BY UntouchedToo DEF Find, Reads
<1>. QED
  BY <1>2, <1>3 DEF Find, Abstract!Find, Returns, Abstract!Returns

LEMMA AtStep ==
    ASSUME ListInv, NEW index \in 0 .. num, At(index)
    PROVE  ListInv' /\ Abstract!At(index)
<1>1. PICK p : Kept(p)
  BY DEF ListInv
<1>2. /\ num \in Nat /\ Len(Ordered) = num /\ Places = 0 .. num - 1
      /\ \A k \in 0 .. num - 1 : Ordered[k + 1] = data[p[k]] /\ ItemAt(k) = data[p[k]]
  BY <1>1, OrderedIs DEF ListInv, ShownSo
<1>3. ListInv' /\ Ordered' = Ordered
  BY UntouchedToo DEF At, Reads
<1>4. (IF num # 0 /\ index \in Places THEN ItemAt(index) ELSE NULL)
        = IF index < Len(Ordered) THEN Ordered[index + 1] ELSE NULL
  <2>1. CASE index < num
    BY <1>2, <2>1
  <2>2. CASE ~(index < num)
    BY <1>2, <2>2
  <2>. QED
    BY <2>1, <2>2
<1>5. call' = <<"at", index, IF num # 0 /\ index \in Places THEN ItemAt(index) ELSE NULL>>
  BY DEF At, Returns
<1>. QED
  BY <1>3, <1>4, <1>5, Zenon DEF Abstract!At, Abstract!Returns

LEMMA SizeStep ==
    ASSUME ListInv, Size
    PROVE  ListInv' /\ Abstract!Size
<1>1. PICK p : Kept(p)
  BY DEF ListInv
<1>2. Len(Ordered) = num
  BY <1>1, OrderedIs DEF ListInv
<1>3. ListInv' /\ Ordered' = Ordered
  BY UntouchedToo DEF Size, Reads
<1>. QED
  BY <1>2, <1>3 DEF Size, Abstract!Size, Returns, Abstract!Returns

\* A walk starts at the head, and owes every item.
LEMMA WalkFirstStep ==
    ASSUME ListInv, WalkFirst
    PROVE  ListInv' /\ Abstract!First
<1>1. Typed /\ \E p : Kept(p)
  BY DEF ListInv
<1>2. PICK p : Kept(p)
  BY <1>1
<1>3. /\ num \in Nat /\ p \in [0 .. num - 1 -> Nodes] /\ Chain(p) /\ ShownSo(p)
      /\ Ordered \in Seq(Items) /\ Len(Ordered) = num
      /\ \A k \in 0 .. num - 1 : /\ Ordered[k + 1] = data[p[k]] /\ ItemAt(k) = data[p[k]]
                                 /\ data[p[k]] \in Items
  BY <1>1, <1>2, OrderedIs
<1>4. walk = "none" /\ UNCHANGED <<kind, listVars>> /\ met = NoneMet /\ owed = {}
  BY <1>2 DEF WalkFirst, WalkKeeps, Kept, Walks
<1>5. met \in [Items -> Nat] /\ curr \in Nodes \union {NULL}
  BY <1>1 DEF Typed
<1>6. CASE num = 0
  <2>1. walk' = "ended" /\ curr' = curr /\ met' = met /\ owed' = owed
        /\ Returns("first", NULL, NULL)
    BY <1>6 DEF WalkFirst
  <2>2. Walks(p, num, data, walk', curr', met', owed')
    BY <1>4, <2>1 DEF Walks, NoneMet
  <2>3. ListInv' /\ Ordered' = Ordered
    BY <1>1, <1>2, <1>4, <1>5, <2>1, <2>2, Untouched
  <2>4. Ordered = <<>>
    BY <1>3, <1>6
  <2>. QED
    BY <2>1, <2>3, <2>4 DEF Abstract!First, Returns, Abstract!Returns
<1>7. CASE num # 0
  <2>1. /\ curr' = head /\ walk' = "walking" /\ met' = [met EXCEPT ![data[head]] = @ + 1]
        /\ owed' = {ItemAt(k) : k \in Places} /\ Returns("first", NULL, data[head])
    BY <1>7 DEF WalkFirst
  <2>2. 0 \in 0 .. num - 1 /\ head = p[0] /\ head \in Nodes
    BY <1>3, <1>7 DEF Chain, Chained
  <2>3. Places = 0 .. num - 1
    BY <1>3 DEF ShownSo
  <2>4. PICK y \in Items : y = data[head]
    BY <1>3, <2>2
  <2>5. met' \in [Items -> Nat] /\ \A x \in Items : met'[x] = IF x = y THEN 1 ELSE 0
    BY <1>4, <2>1, <2>4 DEF NoneMet
  <2>6. owed' \subseteq Items /\ \A k \in 0 .. num - 1 : data[p[k]] \in owed'
    BY <1>3, <2>1, <2>3
  <2>7. \A x \in owed' : \E k \in 0 .. num - 1 : data[p[k]] = x
    BY <1>3, <2>1, <2>3
  <2>8. \A k \in 0 .. num - 1 : data[p[k]] = y => k = 0
    BY <1>2, <2>2, <2>4 DEF Kept, Held
  <2>9. Stands(0, p, num, data, curr', met', owed')
    <3>1. \A i \in 0 .. num - 1 : 0 < i => met'[data[p[i]]] = 0
      BY <1>3, <2>5, <2>8
    <3>2. \A i \in 0 .. num - 1 : i <= 0 => i = 0
      OBVIOUS
    <3>3. met'[data[p[0]]] > 0
      BY <2>2, <2>4, <2>5
    <3>4. \A x \in Items : (\A i \in 0 .. num - 1 : data[p[i]] # x) => met'[x] = 0 /\ x \notin owed'
      BY <2>2, <2>4, <2>5, <2>7
    <3>. QED
      BY <2>1, <2>2, <3>1, <3>2, <3>3, <3>4 DEF Stands
  <2>10. Walks(p, num, data, walk', curr', met', owed')
    <3>1. \A x \in Items : met'[x] <= 1
      BY <2>5
    <3>. QED
      BY <2>1, <2>2, <2>9, <3>1 DEF Walks
  <2>11. ListInv' /\ Ordered' = Ordered
    BY <1>1, <1>2, <1>4, <2>1, <2>2, <2>5, <2>6, <2>10, Untouched
  <2>12. Ordered # <<>> /\ Head(Ordered) = data[head]
    <3>1. Ordered[0 + 1] = data[p[0]]
      BY <1>3, <2>2
    <3>. QED
      BY <1>3, <1>7, <2>2, <3>1
  <2>. QED
    BY <2>1, <2>11, <2>12 DEF Abstract!First, Returns, Abstract!Returns
<1>. QED
  BY <1>6, <1>7

\* From one place to the next, or behind the last.
LEMMA WalkNextStep ==
    ASSUME ListInv, WalkNext
    PROVE  ListInv' /\ Abstract!Step
<1>1. Typed /\ \E p : Kept(p)
  BY DEF ListInv
<1>2. PICK p : Kept(p)
  BY <1>1
<1>3. /\ num \in Nat /\ p \in [0 .. num - 1 -> Nodes] /\ Chain(p) /\ DOMAIN Ordered = 1 .. num
      /\ \A k \in 0 .. num - 1 : Ordered[k + 1] = data[p[k]] /\ data[p[k]] \in Items
  BY <1>1, <1>2, OrderedIs
<1>4. walk = "walking" /\ UNCHANGED <<kind, listVars>>
  BY DEF WalkNext, WalkKeeps
<1>5. /\ met \in [Items -> Nat] /\ owed \subseteq Items /\ \A x \in Items : met[x] <= 1
      /\ \E c \in 0 .. num - 1 : Stands(c, p, num, data, curr, met, owed)
  BY <1>1, <1>2, <1>4 DEF Typed, Kept, Walks
<1>6. PICK c \in 0 .. num - 1 : Stands(c, p, num, data, curr, met, owed)
  BY <1>5
<1>7. /\ curr = p[c]
      /\ \A i \in 0 .. num - 1 : c < i => met[data[p[i]]] = 0
      /\ \A i \in 0 .. num - 1 : i <= c /\ data[p[i]] \in owed => met[data[p[i]]] > 0
      /\ \A x \in Items : (\A i \in 0 .. num - 1 : data[p[i]] # x) => met[x] = 0 /\ x \notin owed
  BY <1>6 DEF Stands
<1>8. next[curr] = IF c + 1 < num THEN p[c + 1] ELSE NULL
  BY <1>3, <1>7 DEF Chain, Chained
<1>9. CASE c + 1 < num
  <2>. PICK d : d = c + 1
    OBVIOUS
  <2>1. d \in 0 .. num - 1 /\ next[curr] = p[d] /\ p[d] \in Nodes
    BY <1>3, <1>8, <1>9
  <2>2. /\ curr' = p[d] /\ met' = [met EXCEPT ![data[p[d]]] = @ + 1]
        /\ walk' = walk /\ owed' = owed /\ Returns("next", NULL, data[p[d]])
    <3>1. next[curr] # NULL
      BY <2>1, ListAssumption DEF ListAssumption
    <3>. QED
      BY <2>1, <3>1 DEF WalkNext
  <2>3. PICK y \in Items : y = data[p[d]]
    BY <1>3, <2>1
  <2>4. met[y] = 0
    BY <1>7, <2>1, <2>3
  <2>5. met' \in [Items -> Nat] /\ \A x \in Items : met'[x] = IF x = y THEN 1 ELSE met[x]
    BY <1>5, <2>2, <2>3, <2>4
  <2>6. \A i \in 0 .. num - 1 : data[p[i]] = y => i = d
    BY <1>2, <2>1, <2>3 DEF Kept, Held
  <2>7. Stands(d, p, num, data, curr', met', owed')
    <3>1. ASSUME NEW i \in 0 .. num - 1, d < i PROVE met'[data[p[i]]] = 0
      <4>1. c < i /\ data[p[i]] # y
        BY <2>1, <2>6, <3>1
      <4>. QED
        BY <1>3, <1>7, <2>5, <4>1
    <3>2. ASSUME NEW i \in 0 .. num - 1, i <= d, data[p[i]] \in owed' PROVE met'[data[p[i]]] > 0
      <4>1. CASE i = d
        BY <2>3, <2>5, <4>1
      <4>2. CASE i # d
        <5>1. i <= c /\ data[p[i]] # y
          BY <2>6, <3>2, <4>2
        <5>. QED
          BY <1>3, <1>7, <2>2, <2>5, <3>2, <5>1
      <4>. QED
        BY <4>1, <4>2
    <3>3. ASSUME NEW x \in Items, \A i \in 0 .. num - 1 : data[p[i]] # x
          PROVE  met'[x] = 0 /\ x \notin owed'
      <4>1. x # y
        BY <2>1, <2>3, <3>3
      <4>. QED
        BY <1>7, <2>2, <2>5, <3>3, <4>1
    <3>. QED
      BY <2>2, <3>1, <3>2, <3>3 DEF Stands
  <2>8. Walks(p, num, data, walk', curr', met', owed')
    <3>1. \A x \in Items : met'[x] <= 1
      BY <1>5, <2>5
    <3>. QED
      BY <1>4, <2>1, <2>2, <2>7, <3>1 DEF Walks
  <2>9. ListInv' /\ Ordered' = Ordered
    BY <1>1, <1>2, <1>4, <1>5, <2>1, <2>2, <2>5, <2>8, Untouched
  <2>10. data[p[d]] \in Abstract!ToSet(Ordered)
    <3>1. d + 1 \in 1 .. num /\ Ordered[d + 1] = data[p[d]]
      BY <1>3, <2>1
    <3>. QED
      BY <1>3, <3>1 DEF Abstract!ToSet
  <2>. QED
    BY <2>2, <2>9, <2>10 DEF Abstract!Step, Returns, Abstract!Returns
<1>10. CASE ~(c + 1 < num)
  <2>1. walk' = "ended" /\ curr' = NULL /\ met' = met /\ owed' = owed /\ Returns("next", NULL, NULL)
    BY <1>8, <1>10 DEF WalkNext
  <2>2. \A i \in 0 .. num - 1 : i <= c
    BY <1>3, <1>10
  <2>3. \A x \in owed : met[x] > 0
    <3>. SUFFICES ASSUME NEW x \in owed PROVE met[x] > 0
      OBVIOUS
    <3>1. PICK i \in 0 .. num - 1 : data[p[i]] = x
      BY <1>5, <1>7
    <3>. QED
      BY <1>7, <2>2, <3>1
  <2>4. Walks(p, num, data, walk', curr', met', owed')
    BY <1>5, <2>1, <2>3 DEF Walks
  <2>5. ListInv' /\ Ordered' = Ordered
    BY <1>1, <1>2, <1>4, <1>5, <2>1, <2>4, Untouched
  <2>. QED
    BY <2>1, <2>5 DEF Abstract!Step, Returns, Abstract!Returns
<1>. QED
  BY <1>9, <1>10

LEMMA WalkDroppedStep ==
    ASSUME ListInv, WalkDropped
    PROVE  ListInv' /\ UNCHANGED <<Ordered, call>>
<1>1. Typed /\ \E p : Kept(p)
  BY DEF ListInv
<1>2. PICK p : Kept(p)
  BY <1>1
<1>3. walk' = "none" /\ met' = NoneMet /\ owed' = {} /\ curr' = curr /\ call' = call
      /\ UNCHANGED <<kind, listVars>>
  BY DEF WalkDropped, WalkKeeps
<1>4. Walks(p, num, data, walk', curr', met', owed')
  BY <1>3 DEF Walks, NoneMet
<1>5. curr' \in Nodes \union {NULL} /\ met' \in [Items -> Nat] /\ owed' \subseteq Items
  BY <1>1, <1>3 DEF Typed, NoneMet
<1>6. ListInv' /\ Ordered' = Ordered
  BY <1>1, <1>2, <1>3, <1>4, <1>5, Untouched
<1>. QED
  BY <1>3, <1>6

-----------------------------------------------------------------------------
LEMMA NextKeeps ==
    ASSUME ListInv, [Next]_vars
    PROVE  ListInv' /\ [Abstract!Next]_(Abstract!vars)
<1>1. num = Len(Ordered)
  <2>1. PICK p : Kept(p)
    BY DEF ListInv
  <2>. QED
    BY <2>1, OrderedIs DEF ListInv
<1>2. ASSUME NEW x \in Items, AddtoFirst(x) \/ AddtoLast(x) \/ AddOnce(x) \/ AddonceAscent(x)
                              \/ NoMemory(x) \/ RemoveItem(x)
      PROVE  /\ ListInv'
             /\ \/ Abstract!AddtoFirst(x) \/ Abstract!AddtoLast(x) \/ Abstract!AddOnce(x)
                \/ Abstract!AddonceAscent(x) \/ Abstract!NoMemory(x) \/ Abstract!RemoveItem(x)
  BY <1>2, AddtoFirstStep, AddtoLastStep, AddOnceStep, AddonceAscentStep, NoMemoryStep, RemoveItemStep
<1>3. ASSUME NEW k \in Keys, RemoveMatch(k) \/ DeleteIf(k) \/ Find(k)
      PROVE  ListInv' /\ (Abstract!RemoveMatch(k) \/ Abstract!DeleteIf(k) \/ Abstract!Find(k))
  BY <1>3, RemoveMatchStep, DeleteIfStep, FindStep
<1>4. ASSUME NEW index \in 0 .. num, DeleteAt(index) \/ At(index)
      PROVE  ListInv' /\ (Abstract!DeleteAt(index) \/ Abstract!At(index))
  BY <1>4, DeleteAtStep, AtStep
<1>5. ASSUME RemoveHead \/ Reset \/ Size
      PROVE  ListInv' /\ (Abstract!RemoveHead \/ Abstract!Reset \/ Abstract!Size)
  BY <1>5, RemoveHeadStep, ResetStep, SizeStep
<1>6. ASSUME WalkFirst \/ WalkNext \/ WalkDropped
      PROVE  ListInv' /\ (Abstract!First \/ Abstract!Step \/ UNCHANGED Abstract!vars)
  BY <1>6, WalkFirstStep, WalkNextStep, WalkDroppedStep DEF Abstract!vars
<1>7. ASSUME UNCHANGED vars PROVE ListInv' /\ UNCHANGED Abstract!vars
  <2>1. UNCHANGED <<kind, listVars, walkVars>> /\ call' = call
    BY <1>7 DEF vars
  <2>. QED
    BY <2>1, UntouchedToo DEF Abstract!vars
<1>8. Keys = Abstract!Keys
  BY DEF Keys, Abstract!Keys
<1>9. CASE \E x \in Items : \/ AddtoFirst(x) \/ AddtoLast(x) \/ AddOnce(x) \/ AddonceAscent(x)
                            \/ NoMemory(x) \/ RemoveItem(x)
  BY <1>2, <1>9 DEF Abstract!Next
<1>10. CASE \E k \in Keys : RemoveMatch(k) \/ DeleteIf(k) \/ Find(k)
  BY <1>3, <1>8, <1>10 DEF Abstract!Next
<1>11. CASE \E index \in 0 .. num : DeleteAt(index) \/ At(index)
  BY <1>1, <1>4, <1>11 DEF Abstract!Next
<1>12. CASE RemoveHead \/ Reset \/ Size
  BY <1>5, <1>12 DEF Abstract!Next
<1>13. CASE WalkFirst \/ WalkNext \/ WalkDropped
  BY <1>6, <1>13 DEF Abstract!Next
<1>14. CASE UNCHANGED vars
  BY <1>7, <1>14
<1>. QED
  BY <1>9, <1>10, <1>11, <1>12, <1>13, <1>14 DEF Next

LEMMA InvariantHolds == Spec => []ListInv
<1>1. Init => ListInv
  BY InitEstablishes
<1>2. ListInv /\ [Next]_vars => ListInv'
  BY NextKeeps
<1>. QED
  BY <1>1, <1>2, PTL DEF Spec

-----------------------------------------------------------------------------
(***************************************************************************)
(* The fields have their types, the count is that of the nodes on the way  *)
(* from the head, and these are the nodes that are allocated: none is lost *)
(* and none is freed that the list still leads to.                         *)
(***************************************************************************)
THEOREM TypeCorrect == Spec => []TypeOK
<1>1. ListInv => TypeOK
  BY InvariantSuffices
<1>. QED
  BY <1>1, InvariantHolds, PTL

(***************************************************************************)
(* A walk with xlist_first and xlist_next that comes to its end has met    *)
(* once each item that was in the list all along, and stands on allocated  *)
(* nodes only.                                                             *)
(***************************************************************************)
THEOREM WalkMeets == Spec => []WalkMeetsEach
<1>1. ListInv => WalkMeetsEach
  BY InvariantSuffices
<1>. QED
  BY <1>1, InvariantHolds, PTL

(***************************************************************************)
(* The nodes and pointers of list.c implement the sequence that list.h     *)
(* promises: every call does and returns what it does and returns there.   *)
(***************************************************************************)
THEOREM ListImplementsSequence == Spec => ListIsSequence
<1>1. Init => Abstract!Init
  BY InitEstablishes
<1>2. ListInv /\ [Next]_vars => [Abstract!Next]_(Abstract!vars)
  BY NextKeeps
<1>. QED
  BY <1>1, <1>2, InvariantHolds, PTL DEF Spec, ListIsSequence, Abstract!Spec

=============================================================================
