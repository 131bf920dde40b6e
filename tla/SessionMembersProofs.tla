------------------------ MODULE SessionMembersProofs ------------------------
(***************************************************************************)
(* Proofs about SessionMembers, for any sessions, peers, objects, ssrcs    *)
(* and limits: a member is in one list at most, none is left half          *)
(* validated, a report stays within its array, and where the ssrcs tell    *)
(* the members apart it is about guests only, each once.                   *)
(***************************************************************************)
EXTENDS SessionMembers, Integers, WellFoundedInduction, TLAPS

(***************************************************************************)
(* The lists and the searches through them.                                *)
(***************************************************************************)
\* A set of numbers that is not empty has a least one.
LEMMA MinIn ==
    ASSUME NEW K \in SUBSET Nat, K # {}
    PROVE  Min(K) \in K /\ \A k \in K : Min(K) <= k
<1>1. \E m \in K : \A k \in K : ~(<<k, m>> \in OpToRel(<, Nat))
  BY NatLessThanWellFounded, WFMin
<1>2. PICK m \in K : \A k \in K : ~(<<k, m>> \in OpToRel(<, Nat))
  BY <1>1
<1>3. ASSUME NEW k \in K PROVE m <= k
  <2>1. <<k, m>> \in Nat \X Nat /\ <<k, m>>[1] = k /\ <<k, m>>[2] = m
    OBVIOUS
  <2>2. ~(<<k, m>>[1] < <<k, m>>[2])
    BY <1>2, <2>1, Zenon DEF OpToRel
  <2>. QED
    BY <2>1, <2>2
<1>. QED
  BY <1>3 DEF Min

MembersTyped == members \in [Sessions -> Seq(Members)]

\* A member in the list.
LEMMA InTyped ==
    ASSUME MembersTyped, NEW s \in Sessions
    PROVE  In(s) \subseteq Members
BY DEF MembersTyped, In

\* A search finds the first that fits, and none only if there is none.
LEMMA FirstOfFinds ==
    ASSUME MembersTyped, MembersAssumption, NEW s \in Sessions, NEW M
    PROVE  /\ FirstOf(s, M) # None => FirstOf(s, M) \in In(s) \intersect M
           /\ FirstOf(s, M) = None => In(s) \intersect M = {}
<1>. DEFINE at == {k \in DOMAIN members[s] : members[s][k] \in M}
<1>1. members[s] \in Seq(Members) /\ None \notin Members
  BY DEF MembersTyped, MembersAssumption, Members
<1>2. CASE at = {}
  BY <1>1, <1>2 DEF FirstOf, In
<1>3. CASE at # {}
  <2>1. at \in SUBSET Nat
    BY <1>1
  <2>2. Min(at) \in at
    BY <1>3, <2>1, MinIn
  <2>3. FirstOf(s, M) = members[s][Min(at)]
    BY <1>3 DEF FirstOf
  <2>4. members[s][Min(at)] \in In(s) \intersect M
    BY <2>2 DEF In
  <2>. QED
    BY <1>1, <2>3, <2>4, InTyped
<1>. QED
  BY <1>2, <1>3

\* A sequence without its k-th element.
LEMMA Unlinked ==
    ASSUME NEW S, NEW q \in Seq(S), NEW k \in 1 .. Len(q), NEW r,
           r = [j \in 1 .. Len(q) - 1 |-> q[IF j < k THEN j ELSE j + 1]]
    PROVE  /\ r \in Seq(S) /\ Len(r) = Len(q) - 1
           /\ \A j \in 1 .. Len(q) - 1 : r[j] = q[IF j < k THEN j ELSE j + 1]
<1>1. Len(q) - 1 \in Nat
  OBVIOUS
<1>2. r \in [1 .. Len(q) - 1 -> S]
  <2>1. \A j \in 1 .. Len(q) - 1 : (IF j < k THEN j ELSE j + 1) \in 1 .. Len(q)
    OBVIOUS
  <2>. QED
    BY <2>1
<1>. QED
  BY <1>1, <1>2

\* What a sequence without its k-th element keeps of a sequence without repetition.
LEMMA UnlinkedDiffers ==
    ASSUME NEW n \in Nat, NEW q, NEW k \in 1 .. n + 1, NEW r,
           \A j \in 1 .. n : r[j] = q[IF j < k THEN j ELSE j + 1],
           \A i, j \in 1 .. n + 1 : q[i] = q[j] => i = j
    PROVE  /\ \A j \in 1 .. n : r[j] \in {q[i] : i \in 1 .. n + 1} \ {q[k]}
           /\ \A i, j \in 1 .. n : r[i] = r[j] => i = j
<1>. DEFINE up(j) == IF j < k THEN j ELSE j + 1
<1>1. \A j \in 1 .. n : up(j) \in 1 .. n + 1 /\ up(j) # k
  OBVIOUS
<1>2. \A i, j \in 1 .. n : up(i) = up(j) => i = j
  OBVIOUS
<1>3. \A j \in 1 .. n : r[j] = q[up(j)]
  OBVIOUS
<1>. HIDE DEF up
<1>. QED
  BY <1>1, <1>2, <1>3

\* The node of a member that is in the list once is unlinked, the others stay.
LEMMA WithoutLeaves ==
    ASSUME MembersTyped, NEW s \in Sessions, NEW o \in In(s),
           NEW q, q = members[s],
           \A k, l \in DOMAIN q : q[k] = q[l] => k = l,
           o # q[Len(q)],
           NEW r, r = Without(s, o)
    PROVE  /\ r \in Seq(Members)
           /\ \A k \in DOMAIN r : r[k] \in In(s) \ {o}
           /\ \A k, l \in DOMAIN r : r[k] = r[l] => k = l
           /\ Len(r) > 0 /\ r[Len(r)] = q[Len(q)]
<1>. DEFINE k == CHOOSE l \in DOMAIN q : q[l] = o
            n == Len(q) - 1
<1>1. q \in Seq(Members) /\ Len(q) \in Nat /\ DOMAIN q = 1 .. Len(q)
  BY DEF MembersTyped
<1>2. k \in 1 .. Len(q) /\ q[k] = o
  BY <1>1 DEF In
<1>3. r = [j \in 1 .. Len(q) - 1 |-> q[IF j < k THEN j ELSE j + 1]]
  BY DEF Without
<1>. HIDE DEF k
<1>4. n \in Nat /\ Len(q) = n + 1 /\ k \in 1 .. n /\ k \in 1 .. n + 1
  BY <1>1, <1>2
<1>5. /\ r \in Seq(Members) /\ Len(r) = n
      /\ \A j \in 1 .. n : r[j] = q[IF j < k THEN j ELSE j + 1]
  BY <1>1, <1>2, <1>3, Unlinked
<1>6. In(s) = {q[i] : i \in 1 .. n + 1}
  BY <1>1, <1>4 DEF In
<1>. HIDE DEF n
<1>7. \A i, j \in 1 .. n + 1 : q[i] = q[j] => i = j
  BY <1>1, <1>4
<1>8. /\ \A j \in 1 .. n : r[j] \in {q[i] : i \in 1 .. n + 1} \ {q[k]}
      /\ \A i, j \in 1 .. n : r[i] = r[j] => i = j
  <2>1. n \in Nat /\ k \in 1 .. n + 1
    BY <1>4
  <2>2. \A j \in 1 .. n : r[j] = q[IF j < k THEN j ELSE j + 1]
    BY <1>5
  <2>. QED
    BY ONLY <1>7, <2>1, <2>2, UnlinkedDiffers
<1>9. r[n] = q[n + 1]
  BY <1>4, <1>5
<1>10. DOMAIN r = 1 .. n
  BY <1>5
<1>11. \A j \in DOMAIN r : r[j] \in In(s) \ {o}
  BY <1>2, <1>6, <1>8, <1>10, Zenon
<1>12. \A i, j \in DOMAIN r : r[i] = r[j] => i = j
  BY <1>8, <1>10, Zenon
<1>13. Len(r) > 0 /\ r[Len(r)] = q[Len(q)]
  BY <1>4, <1>5, <1>9
<1>. QED
  BY <1>5, <1>11, <1>12, <1>13

\* The next valid member is in the list: self is, so the circle has one.
LEMMA NextValidIn ==
    ASSUME MembersTyped, SelfLast, NEW s \in Sessions, valid[s],
           NEW x, \E m \in In(s) : ssrc[m] = x
    PROVE  NextValid(s, x) \in In(s)
<1>. DEFINE q == members[s]
            n == Len(q)
            I == {k \in 1 .. n : ssrc[q[k]] = x}
            i == Min(I)
            at(d) == IF i + d <= n THEN i + d ELSE i + d - n
            D == {d \in 1 .. n : Eligible(q[at(d)])}
<1>1. q \in Seq(Members) /\ n \in Nat /\ n > 0 /\ DOMAIN q = 1 .. n /\ q[n] = s
  BY DEF MembersTyped, SelfLast
<1>2. i \in 1 .. n
  <2>1. I # {} /\ I \in SUBSET Nat
    BY <1>1 DEF In
  <2>2. i \in I
    BY <2>1, MinIn
  <2>. QED
    BY <2>2
<1>3. NextValid(s, x) = q[at(Min(D))]
  BY DEF NextValid
<1>. HIDE DEF i
<1>4. D # {}
  <2>1. \E d \in 1 .. n : at(d) = n
    <3>1. CASE i = n
      BY <1>1, <3>1
    <3>2. CASE i # n
      <4>1. n - i \in 1 .. n /\ at(n - i) = n
        BY <1>1, <1>2, <3>2
      <4>. QED
        BY <4>1
    <3>. QED
      BY <3>1, <3>2
  <2>2. Eligible(q[n])
    BY <1>1 DEF Eligible
  <2>. QED
    BY <2>1, <2>2
<1>5. Min(D) \in 1 .. n
  <2>1. D \in SUBSET Nat
    OBVIOUS
  <2>2. Min(D) \in D
    BY <1>4, <2>1, MinIn
  <2>. QED
    BY <2>2
<1>. HIDE DEF n, D
<1>6. \A d \in 1 .. n : at(d) \in 1 .. n
  <2>. SUFFICES ASSUME NEW d \in 1 .. n PROVE at(d) \in 1 .. n
    OBVIOUS
  <2>1. CASE i + d <= n
    BY <1>1, <1>2, <2>1
  <2>2. CASE ~(i + d <= n)
    BY <1>1, <1>2, <2>2
  <2>. QED
    BY <2>1, <2>2
<1>7. at(Min(D)) \in 1 .. n
  BY <1>5, <1>6
<1>. HIDE DEF at
<1>. QED
  BY <1>1, <1>3, <1>7 DEF In

\* Counting stays in range.
LEMMA CountInRange ==
    ASSUME NEW a \in Nat
    PROVE  a % COUNT_MOD \in 0 .. COUNT_MOD - 1
BY MembersAssumption DEF MembersAssumption

-----------------------------------------------------------------------------
(***************************************************************************)
(* The inductive invariant.  The lists are apart because what is put into  *)
(* one comes from none: a new object, or the one that moves.  A member     *)
(* between the two steps of its identification is the only one that may    *)
(* have a ssrc without being valid, and then the packet is its own.        *)
(***************************************************************************)
ObjectsKnown ==
    /\ \A s \in Sessions : Guests(s) \subseteq Allocated
    /\ freed \subseteq Allocated
    /\ pcMove # "idle" => moving \in Allocated \ freed
    /\ pcMove = "idle" => moving = None

Identified(o) == valid[o] <=> ssrc[o] # NoSsrc

Identification ==
    /\ \A s \in Sessions : valid[s]
    /\ pc = "found" =>
        /\ mem \in Allocated /\ incoming \in Packets
        /\ valid[mem] => ssrc[mem] # NoSsrc
        /\ ~valid[mem] /\ ssrc[mem] # NoSsrc => peer[mem] = incoming.peer
    /\ pc # "crashed" => \A o \in Objs : Identified(o) \/ (pc = "found" /\ o = mem)

Reporting ==
    /\ pc \in {"found", "lock", "report", "record"} => ses \in Sessions
    /\ pc \in {"report", "record"} => mem \in In(ses)
    /\ pc = "report" => max_report > 0
    /\ pc \notin {"report", "record"} => outgoing_rtcp = <<>> \/ pc = "crashed"
    /\ OutgoingFits

IInv == TypeOK /\ MembershipInv /\ ObjectsKnown /\ Identification /\ Reporting

LEMMA InitEstablishes == Init => IInv
<1>. SUFFICES ASSUME Init PROVE IInv
  OBVIOUS
<1>. USE MembersAssumption
<1>1. \A s \in Sessions : members[s] = <<s>> /\ In(s) = {s} /\ Len(members[s]) = 1
  <2>. SUFFICES ASSUME NEW s \in Sessions PROVE members[s] = <<s>> /\ In(s) = {s} /\ Len(members[s]) = 1
    OBVIOUS
  <2>1. members[s] = <<s>>
    BY DEF Init
  <2>2. DOMAIN members[s] = {1} /\ members[s][1] = s /\ Len(members[s]) = 1
    BY <2>1
  <2>. QED
    BY <2>1, <2>2 DEF In
<1>2. TypeOK
  <2>1. members \in [Sessions -> Seq(Members)]
    BY <1>1 DEF Init, Members
  <2>2. n_member \in [Sessions -> 0 .. COUNT_MOD - 1]
    BY CountInRange DEF Init
  <2>3. XRTP_MAX_REPORTS \in Nat
    BY DEF MembersAssumption
  <2>. QED
    BY <2>1, <2>2, <2>3 DEF Init, TypeOK, Members
<1>3. MembershipInv
  <2>1. OneListEach
    BY <1>1 DEF OneListEach
  <2>2. SelfLast
    BY <1>1 DEF SelfLast
  <2>3. GoneUnlisted
    BY <1>1 DEF GoneUnlisted, Init, MembersAssumption
  <2>. QED
    BY <2>1, <2>2, <2>3 DEF MembershipInv
<1>4. ObjectsKnown
  BY <1>1 DEF ObjectsKnown, Init, Guests, Allocated
<1>5. Identification
  <2>1. \A o \in Objs : o \in Members /\ o \notin Sessions
    BY DEF Members, MembersAssumption
  <2>3. \A o \in Objs : ~valid[o] /\ ssrc[o] = NoSsrc
    BY <2>1 DEF Init
  <2>2. \A s \in Sessions : valid[s]
    BY DEF Init, Members
  <2>. QED
    BY <2>2, <2>3 DEF Identification, Identified, Init
<1>6. Reporting
  BY DEF Reporting, OutgoingFits, Init, MembersAssumption
<1>. QED
  BY <1>2, <1>3, <1>4, <1>5, <1>6 DEF IInv

-----------------------------------------------------------------------------
(***************************************************************************)
(* The steps that change a list.                                           *)
(***************************************************************************)
\* A list is replaced by one of its members and of one that is in no other.
LEMMA Relisted ==
    ASSUME MembersTyped, OneListEach, SelfLast,
           NEW s \in Sessions, NEW q \in Seq(Members), NEW o,
           \A k, l \in DOMAIN q : q[k] = q[l] => k = l,
           Len(q) > 0, q[Len(q)] = s,
           \A k \in DOMAIN q : q[k] \in In(s) \union {o},
           \A t \in Sessions \ {s} : o \notin In(t),
           members' = [members EXCEPT ![s] = q]
    PROVE  /\ MembersTyped' /\ OneListEach' /\ SelfLast'
           /\ In(s)' = {q[k] : k \in DOMAIN q}
           /\ \A t \in Sessions \ {s} : In(t)' = In(t)
<1>1. members'[s] = q /\ \A t \in Sessions \ {s} : members'[t] = members[t]
  BY DEF MembersTyped
<1>2. In(s)' = {q[k] : k \in DOMAIN q} /\ \A t \in Sessions \ {s} : In(t)' = In(t)
  BY <1>1 DEF In
<1>3. MembersTyped'
  BY DEF MembersTyped
<1>4. SelfLast'
  BY <1>1 DEF SelfLast
<1>5. \A t \in Sessions \ {s} : In(s) \intersect In(t) = {}
  BY DEF OneListEach, In
<1>6. \A t \in Sessions \ {s} : \A k \in DOMAIN q, l \in DOMAIN members[t] : q[k] # members[t][l]
  BY <1>5 DEF In
<1>7. OneListEach'
  <2>. SUFFICES ASSUME NEW a \in Sessions, NEW b \in Sessions,
                       NEW k \in DOMAIN members'[a], NEW l \in DOMAIN members'[b],
                       members'[a][k] = members'[b][l]
                PROVE  a = b /\ k = l
    BY DEF OneListEach
  <2>1. CASE a = s /\ b = s
    BY <1>1, <2>1
  <2>2. CASE a = s /\ b # s
    BY <1>1, <1>6, <2>2
  <2>3. CASE a # s /\ b = s
    BY <1>1, <1>6, <2>3
  <2>4. CASE a # s /\ b # s
    BY <1>1, <2>4 DEF OneListEach
  <2>. QED
    BY <2>1, <2>2, <2>3, <2>4
<1>. QED
  BY <1>2, <1>3, <1>4, <1>7

\* A member that is in no list gets to the head of one.
LEMMA AddedFirst ==
    ASSUME MembersTyped, OneListEach, SelfLast, NEW s \in Sessions, NEW o \in Members,
           \A t \in Sessions : o \notin In(t),
           members' = [members EXCEPT ![s] = AddFirst(s, o)]
    PROVE  /\ MembersTyped' /\ OneListEach' /\ SelfLast'
           /\ In(s)' = In(s) \union {o}
           /\ \A t \in Sessions \ {s} : In(t)' = In(t)
<1>. DEFINE m == members[s]
            n == Len(m)
            q == <<o>> \o m
<1>1. m \in Seq(Members) /\ n \in Nat /\ n > 0 /\ DOMAIN m = 1 .. n /\ m[n] = s
  BY DEF MembersTyped, SelfLast
<1>2. q \in Seq(Members) /\ Len(q) = n + 1 /\ q[1] = o /\ \A k \in 1 .. n : q[k + 1] = m[k]
  BY <1>1
<1>3. \A k, l \in 1 .. n : m[k] = m[l] => k = l
  BY <1>1 DEF OneListEach
<1>4. In(s) = {m[k] : k \in 1 .. n}
  BY <1>1 DEF In
<1>. HIDE DEF q, n
<1>5. DOMAIN q = 1 .. n + 1
  BY <1>2
<1>6. \A k \in 1 .. n + 1 : k = 1 \/ \E j \in 1 .. n : k = j + 1 /\ q[k] = m[j]
  <2>. SUFFICES ASSUME NEW k \in 1 .. n + 1, k # 1 PROVE \E j \in 1 .. n : k = j + 1 /\ q[k] = m[j]
    OBVIOUS
  <2>1. k - 1 \in 1 .. n /\ k = (k - 1) + 1
    BY <1>1
  <2>. QED
    BY <1>2, <2>1
<1>7. \A k \in 1 .. n : m[k] # o
  BY <1>4
<1>8. \A k, l \in 1 .. n + 1 : q[k] = q[l] => k = l
  BY <1>2, <1>3, <1>6, <1>7
<1>9. {q[k] : k \in 1 .. n + 1} = In(s) \union {o}
  <2>1. \A k \in 1 .. n + 1 : q[k] \in In(s) \union {o}
    BY <1>2, <1>4, <1>6
  <2>2. \A x \in In(s) \union {o} : \E k \in 1 .. n + 1 : x = q[k]
    <3>1. \A k \in 1 .. n : k + 1 \in 1 .. n + 1
      BY <1>1
    <3>2. 1 \in 1 .. n + 1
      BY <1>1
    <3>. QED
      BY <1>2, <1>4, <3>1, <3>2
  <2>. QED
    BY <2>1, <2>2
<1>10. Len(q) > 0 /\ q[Len(q)] = s
  BY <1>1, <1>2
<1>11. members' = [members EXCEPT ![s] = q]
  BY DEF AddFirst, q
<1>12. /\ \A k \in DOMAIN q : q[k] \in In(s) \union {o}
       /\ \A k, l \in DOMAIN q : q[k] = q[l] => k = l
       /\ {q[k] : k \in DOMAIN q} = In(s) \union {o}
  BY <1>5, <1>8, <1>9
<1>13. /\ MembersTyped /\ OneListEach /\ SelfLast /\ q \in Seq(Members) /\ s \in Sessions
       /\ \A t \in Sessions \ {s} : o \notin In(t)
  BY <1>2
<1>14. /\ MembersTyped' /\ OneListEach' /\ SelfLast'
       /\ In(s)' = {q[k] : k \in DOMAIN q}
       /\ \A t \in Sessions \ {s} : In(t)' = In(t)
  BY ONLY <1>10, <1>11, <1>12, <1>13, Relisted
<1>. QED
  BY <1>12, <1>14

\* A member leaves its list.
LEMMA Removed ==
    ASSUME MembersTyped, OneListEach, SelfLast, NEW s \in Sessions, NEW o \in Guests(s),
           members' = [members EXCEPT ![s] = Without(s, o)]
    PROVE  /\ MembersTyped' /\ OneListEach' /\ SelfLast'
           /\ In(s)' \subseteq In(s) \ {o}
           /\ \A t \in Sessions \ {s} : In(t)' = In(t) /\ o \notin In(t)
<1>. DEFINE q == members[s]
            r == Without(s, o)
<1>1. o \in In(s) /\ o # q[Len(q)] /\ q[Len(q)] = s
  BY DEF Guests, SelfLast
<1>2. \A k, l \in DOMAIN q : q[k] = q[l] => k = l
  BY DEF OneListEach
<1>3. /\ r \in Seq(Members)
      /\ \A k \in DOMAIN r : r[k] \in In(s) \ {o}
      /\ \A k, l \in DOMAIN r : r[k] = r[l] => k = l
      /\ Len(r) > 0 /\ r[Len(r)] = q[Len(q)]
  BY <1>1, <1>2, WithoutLeaves
<1>4. \A t \in Sessions \ {s} : o \notin In(t)
  BY <1>1 DEF OneListEach, In
<1>. HIDE DEF r
<1>5. members' = [members EXCEPT ![s] = r]
  BY DEF r
<1>6. \A k \in DOMAIN r : r[k] \in In(s) \union {o}
  BY <1>3
<1>7. /\ MembersTyped' /\ OneListEach' /\ SelfLast'
      /\ In(s)' = {r[k] : k \in DOMAIN r}
      /\ \A t \in Sessions \ {s} : In(t)' = In(t)
  BY <1>1, <1>3, <1>4, <1>5, <1>6, Relisted
<1>. QED
  BY <1>3, <1>4, <1>7

\* What a search for an object comes up with.
LEMMA GuestFound ==
    ASSUME IInv, NEW s \in Sessions, NEW M, NEW o \in Objs, o = FirstOf(s, M)
    PROVE  o \in Guests(s) /\ o \in Allocated /\ o \in M /\ o \notin freed /\ o # moving
<1>1. o # None /\ o \notin Sessions
  BY MembersAssumption DEF MembersAssumption
<1>2. o \in In(s) \intersect M
  BY <1>1, FirstOfFinds, MembersAssumption DEF IInv, TypeOK, MembersTyped
<1>. QED
  BY <1>1, <1>2 DEF IInv, ObjectsKnown, MembershipInv, GoneUnlisted, Guests

LEMMA ListsTyped ==
    ASSUME IInv
    PROVE  MembersTyped /\ OneListEach /\ SelfLast /\ GoneUnlisted
BY DEF IInv, TypeOK, MembersTyped, MembershipInv

LEMMA AddStep ==
    ASSUME IInv, NEW s \in Sessions, NEW p \in Peers, AddCname(s, p)
    PROVE  IInv'
<1>1. PICK o \in Objs :
        /\ o \notin Allocated
        /\ members' = [members EXCEPT ![s] = AddFirst(s, o)]
        /\ peer' = [peer EXCEPT ![o] = p]
        /\ home' = [home EXCEPT ![o] = s]
  BY DEF AddCname
<1>2. /\ pc \notin {"report", "record", "crashed"}
      /\ UNCHANGED <<n_member, port_session, ssrc, valid, freed, pcMove, moving>>
      /\ UNCHANGED <<pc, ses, mem, incoming, next_report_ssrc, max_report, start_report_ssrc, outgoing_rtcp>>
  BY DEF AddCname, LockFree, Running, memberVars, moveVars, ThreadKeeps, threadVars, reportVars
<1>3. o \in Members /\ \A t \in Sessions : o \notin In(t)
  BY <1>1, MembersAssumption DEF IInv, ObjectsKnown, Guests, Members, MembersAssumption
<1>4. /\ MembersTyped' /\ OneListEach' /\ SelfLast'
      /\ In(s)' = In(s) \union {o}
      /\ \A t \in Sessions \ {s} : In(t)' = In(t)
  <2>1. MembersTyped /\ OneListEach /\ SelfLast
    BY ListsTyped
  <2>. QED
    BY <1>1, <1>3, <2>1, AddedFirst
<1>5. Allocated' = Allocated \union {o}
  BY <1>1, MembersAssumption DEF Allocated, IInv, TypeOK, MembersAssumption
<1>6. TypeOK'
  BY <1>1, <1>2, <1>4 DEF IInv, TypeOK, MembersTyped
<1>7. MembershipInv'
  <2>1. o # moving /\ o \notin freed
    BY <1>1, MembersAssumption DEF IInv, ObjectsKnown, MembersAssumption
  <2>. QED
    BY <1>2, <1>4, <2>1 DEF IInv, MembershipInv, GoneUnlisted
<1>8. ObjectsKnown'
  <2>1. \A t \in Sessions : Guests(t)' \subseteq Guests(t) \union {o}
    BY <1>4 DEF Guests
  <2>. QED
    BY <1>2, <1>5, <2>1 DEF IInv, ObjectsKnown
<1>9. Identification'
  <2>1. pc = "found" => mem # o /\ mem \in Objs
    BY <1>1 DEF IInv, Identification, Allocated
  <2>2. pc = "found" => peer'[mem] = peer[mem]
    BY <1>1, <2>1 DEF IInv, TypeOK
  <2>. QED
    BY <1>2, <1>5, <2>1, <2>2 DEF IInv, Identification, Identified
<1>10. Reporting'
  BY <1>2 DEF IInv, Reporting, OutgoingFits
<1>. QED
  BY <1>6, <1>7, <1>8, <1>9, <1>10 DEF IInv

LEMMA DeleteStep ==
    ASSUME IInv, NEW s \in Sessions, NEW p \in Peers, DeleteCname(s, p)
    PROVE  IInv'
<1>1. PICK o \in Objs :
        /\ o = ByPeer(s, p)
        /\ members' = [members EXCEPT ![s] = Without(s, o)]
        /\ freed' = freed \union {o}
  BY DEF DeleteCname
<1>2. /\ pc \notin {"report", "record", "crashed"}
      /\ UNCHANGED <<n_member, port_session, ssrc, valid, peer, home, pcMove, moving>>
      /\ UNCHANGED <<pc, ses, mem, incoming, next_report_ssrc, max_report, start_report_ssrc, outgoing_rtcp>>
  BY DEF DeleteCname, LockFree, Running, memberVars, moveVars, ThreadKeeps, threadVars, reportVars
<1>3. o \in Guests(s) /\ o \in Allocated /\ o # moving
  BY <1>1, GuestFound DEF ByPeer
<1>4. /\ MembersTyped' /\ OneListEach' /\ SelfLast'
      /\ In(s)' \subseteq In(s) \ {o}
      /\ \A t \in Sessions \ {s} : In(t)' = In(t) /\ o \notin In(t)
  <2>1. MembersTyped /\ OneListEach /\ SelfLast
    BY ListsTyped
  <2>. QED
    BY <1>1, <1>3, <2>1, Removed
<1>5. Allocated' = Allocated
  BY <1>2 DEF Allocated
<1>6. TypeOK'
  BY <1>1, <1>2, <1>4 DEF IInv, TypeOK, MembersTyped
<1>7. MembershipInv'
  BY <1>1, <1>2, <1>4 DEF IInv, MembershipInv, GoneUnlisted
<1>8. ObjectsKnown'
  <2>1. \A t \in Sessions : Guests(t)' \subseteq Guests(t)
    BY <1>4 DEF Guests
  <2>. QED
    BY <1>1, <1>2, <1>3, <1>5, <2>1 DEF IInv, ObjectsKnown
<1>9. Identification'
  BY <1>2, <1>5 DEF IInv, Identification, Identified
<1>10. Reporting'
  BY <1>2 DEF IInv, Reporting, OutgoingFits
<1>. QED
  BY <1>6, <1>7, <1>8, <1>9, <1>10 DEF IInv

LEMMA RemoveStep ==
    ASSUME IInv, NEW s \in Sessions, NEW p \in Peers, MoveRemove(s, p)
    PROVE  IInv'
<1>1. PICK o \in Objs :
        /\ o = ByPeer(s, p)
        /\ members' = [members EXCEPT ![s] = Without(s, o)]
        /\ moving' = o
  BY DEF MoveRemove
<1>2. /\ pc \notin {"report", "record", "crashed"}
      /\ n_member' = [n_member EXCEPT ![s] = (n_member[s] + COUNT_MOD - 1) % COUNT_MOD]
      /\ pcMove' = "removed"
      /\ UNCHANGED <<port_session, ssrc, valid, peer, home, freed>>
      /\ UNCHANGED <<pc, ses, mem, incoming, next_report_ssrc, max_report, start_report_ssrc, outgoing_rtcp>>
  BY DEF MoveRemove, LockFree, Running, memberVars, objectVars, ThreadKeeps, threadVars, reportVars
<1>3. o \in Guests(s) /\ o \in Allocated /\ o \notin freed
  BY <1>1, GuestFound DEF ByPeer
<1>4. /\ MembersTyped' /\ OneListEach' /\ SelfLast'
      /\ In(s)' \subseteq In(s) \ {o}
      /\ \A t \in Sessions \ {s} : In(t)' = In(t) /\ o \notin In(t)
  <2>1. MembersTyped /\ OneListEach /\ SelfLast
    BY ListsTyped
  <2>. QED
    BY <1>1, <1>3, <2>1, Removed
<1>5. Allocated' = Allocated
  BY <1>2 DEF Allocated
<1>6. TypeOK'
  <2>1. n_member[s] + COUNT_MOD - 1 \in Nat
    BY MembersAssumption DEF IInv, TypeOK, MembersAssumption
  <2>2. n_member' \in [Sessions -> 0 .. COUNT_MOD - 1]
    BY <1>2, <2>1, CountInRange DEF IInv, TypeOK
  <2>. QED
    BY <1>1, <1>2, <1>4, <2>2 DEF IInv, TypeOK, MembersTyped
<1>7. MembershipInv'
  BY <1>1, <1>2, <1>4 DEF IInv, MembershipInv, GoneUnlisted
<1>8. ObjectsKnown'
  <2>1. \A t \in Sessions : Guests(t)' \subseteq Guests(t)
    BY <1>4 DEF Guests
  <2>. QED
    BY <1>1, <1>2, <1>3, <1>5, <2>1 DEF IInv, ObjectsKnown
<1>9. Identification'
  BY <1>2, <1>5 DEF IInv, Identification, Identified
<1>10. Reporting'
  BY <1>2 DEF IInv, Reporting, OutgoingFits
<1>. QED
  BY <1>6, <1>7, <1>8, <1>9, <1>10 DEF IInv

LEMMA AddMovedStep ==
    ASSUME IInv, MoveAdd
    PROVE  IInv'
<1>. DEFINE c == Conference
<1>1. /\ pc \notin {"report", "record", "crashed"}
      /\ pcMove = "checked" /\ pcMove' = "idle" /\ moving' = None
      /\ members' = [members EXCEPT ![c] = AddFirst(c, moving)]
      /\ n_member' = [n_member EXCEPT ![c] = (Len(members[c]) + 1) % COUNT_MOD]
      /\ port_session' = [port_session EXCEPT ![home[moving]] = c]
      /\ UNCHANGED <<ssrc, valid, peer, home, freed>>
      /\ UNCHANGED <<pc, ses, mem, incoming, next_report_ssrc, max_report, start_report_ssrc, outgoing_rtcp>>
  BY DEF MoveAdd, LockFree, Running, memberVars, objectVars, ThreadKeeps, threadVars, reportVars
<1>2. moving \in Allocated /\ moving \notin freed /\ moving \in Members /\ c \in Sessions
  BY <1>1, MembersAssumption DEF IInv, ObjectsKnown, Allocated, Members, MembersAssumption
<1>3. \A t \in Sessions : moving \notin In(t)
  BY DEF IInv, MembershipInv, GoneUnlisted
<1>4. /\ MembersTyped' /\ OneListEach' /\ SelfLast'
      /\ In(c)' = In(c) \union {moving}
      /\ \A t \in Sessions \ {c} : In(t)' = In(t)
  <2>1. MembersTyped /\ OneListEach /\ SelfLast
    BY ListsTyped
  <2>. QED
    BY <1>1, <1>2, <1>3, <2>1, AddedFirst
<1>5. Allocated' = Allocated
  BY <1>1 DEF Allocated
<1>6. TypeOK'
  <2>1. Len(members[c]) + 1 \in Nat
    BY <1>2 DEF IInv, TypeOK
  <2>2. n_member' \in [Sessions -> 0 .. COUNT_MOD - 1]
    BY <1>1, <2>1, CountInRange DEF IInv, TypeOK
  <2>3. port_session' \in [Sessions -> Sessions]
    BY <1>1, <1>2 DEF IInv, TypeOK
  <2>. QED
    BY <1>1, <1>4, <2>2, <2>3 DEF IInv, TypeOK, MembersTyped
<1>7. MembershipInv'
  <2>1. None \notin Members
    BY MembersAssumption DEF Members, MembersAssumption
  <2>2. \A t \in Sessions : None \notin In(t)'
    BY <1>4, <2>1 DEF MembersTyped, In
  <2>. QED
    BY <1>1, <1>2, <1>4, <2>2 DEF IInv, MembershipInv, GoneUnlisted
<1>8. ObjectsKnown'
  <2>1. \A t \in Sessions : Guests(t)' \subseteq Guests(t) \union {moving}
    BY <1>4 DEF Guests
  <2>. QED
    BY <1>1, <1>2, <1>5, <2>1 DEF IInv, ObjectsKnown
<1>9. Identification'
  BY <1>1, <1>5 DEF IInv, Identification, Identified
<1>10. Reporting'
  BY <1>1 DEF IInv, Reporting, OutgoingFits
<1>. QED
  BY <1>6, <1>7, <1>8, <1>9, <1>10 DEF IInv

-----------------------------------------------------------------------------
(***************************************************************************)
(* The steps that leave the lists.                                         *)
(***************************************************************************)
LEMMA ListsStay ==
    ASSUME IInv, UNCHANGED <<members, moving, freed>>
    PROVE  /\ MembershipInv'
           /\ \A s \in Sessions : In(s)' = In(s) /\ Guests(s)' = Guests(s)
BY DEF IInv, MembershipInv, OneListEach, SelfLast, GoneUnlisted, In, Guests

\* The steps of the rtcp thread leave the objects and the move alone, too.
LEMMA ObjectsStay ==
    ASSUME IInv, UNCHANGED <<members, objectVars, moveVars>>
    PROVE  /\ MembershipInv' /\ ObjectsKnown'
           /\ Allocated' = Allocated
           /\ UNCHANGED <<peer, home, freed, pcMove, moving>>
<1>1. UNCHANGED <<peer, home, freed, pcMove, moving>>
  BY DEF objectVars, moveVars
<1>2. MembershipInv' /\ \A s \in Sessions : Guests(s)' = Guests(s)
  BY <1>1, ListsStay
<1>3. Allocated' = Allocated
  BY <1>1 DEF Allocated
<1>. QED
  BY <1>1, <1>2, <1>3 DEF IInv, ObjectsKnown

LEMMA ResetStep ==
    ASSUME IInv, MoveReset
    PROVE  IInv'
<1>1. /\ ssrc' = [ssrc EXCEPT ![moving] = NoSsrc]
      /\ valid' = [valid EXCEPT ![moving] = FALSE]
      /\ pcMove = "removed" /\ pcMove' = "reset"
      /\ pc # "crashed"
      /\ UNCHANGED <<members, n_member, port_session, peer, home, freed, moving>>
      /\ UNCHANGED <<pc, ses, mem, incoming, next_report_ssrc, max_report, start_report_ssrc, outgoing_rtcp>>
  BY DEF MoveReset, Running, listVars, objectVars, ThreadKeeps, threadVars, reportVars
<1>2. moving \in Objs /\ moving \in Members /\ moving \notin Sessions
  BY <1>1, MembersAssumption DEF IInv, ObjectsKnown, Allocated, Members, MembersAssumption
<1>3. MembershipInv' /\ \A s \in Sessions : In(s)' = In(s) /\ Guests(s)' = Guests(s)
  BY <1>1, ListsStay
<1>4. Allocated' = Allocated
  BY <1>1 DEF Allocated
<1>5. TypeOK'
  BY <1>1, <1>2 DEF IInv, TypeOK
<1>6. ObjectsKnown'
  BY <1>1, <1>3, <1>4 DEF IInv, ObjectsKnown
<1>7. Identification'
  <2>1. ~valid'[moving] /\ ssrc'[moving] = NoSsrc
    BY <1>1, <1>2 DEF IInv, TypeOK
  <2>2. \A m \in Members \ {moving} : valid'[m] = valid[m] /\ ssrc'[m] = ssrc[m]
    BY <1>1 DEF IInv, TypeOK
  <2>3. \A s \in Sessions : valid'[s]
    BY <1>2, <2>2 DEF IInv, Identification, Members
  <2>4. pc' = "found" =>
            /\ mem' \in Allocated' /\ incoming' \in Packets
            /\ valid'[mem'] => ssrc'[mem'] # NoSsrc
            /\ ~valid'[mem'] /\ ssrc'[mem'] # NoSsrc => peer'[mem'] = incoming'.peer
    <3>. SUFFICES ASSUME pc = "found"
                  PROVE  /\ mem \in Allocated /\ incoming \in Packets
                         /\ valid'[mem] => ssrc'[mem] # NoSsrc
                         /\ ~valid'[mem] /\ ssrc'[mem] # NoSsrc => peer[mem] = incoming.peer
      BY <1>1, <1>4
    <3>1. mem \in Allocated /\ incoming \in Packets /\ mem \in Members
      BY DEF IInv, Identification, Allocated, Members
    <3>2. CASE mem = moving
      BY <2>1, <3>1, <3>2
    <3>3. CASE mem # moving
      BY <2>2, <3>1, <3>3 DEF IInv, Identification
    <3>. QED
      BY <3>2, <3>3
  <2>5. ASSUME NEW o \in Objs PROVE Identified(o)' \/ (pc' = "found" /\ o = mem')
    <3>1. CASE o = moving
      BY <2>1, <3>1 DEF Identified
    <3>2. CASE o # moving
      BY <1>1, <2>2, <3>2 DEF IInv, Identification, Identified, Members
    <3>. QED
      BY <3>1, <3>2
  <2>. QED
    BY <2>3, <2>4, <2>5 DEF Identification
<1>8. Reporting'
  BY <1>1, <1>3 DEF IInv, Reporting, OutgoingFits
<1>. QED
  BY <1>3, <1>5, <1>6, <1>7, <1>8 DEF IInv

LEMMA FindStep ==
    ASSUME IInv, MoveFind
    PROVE  IInv'
<1>1. /\ pcMove = "reset"
      /\ \/ pcMove' = "idle" /\ moving' = None
         \/ pcMove' = "checked" /\ moving' = moving
      /\ UNCHANGED <<members, n_member, port_session, ssrc, valid, peer, home, freed>>
      /\ UNCHANGED <<pc, ses, mem, incoming, next_report_ssrc, max_report, start_report_ssrc, outgoing_rtcp>>
  BY DEF MoveFind, listVars, memberVars, objectVars, ThreadKeeps, threadVars, reportVars
<1>2. \A s \in Sessions : In(s)' = In(s) /\ Guests(s)' = Guests(s)
  BY <1>1 DEF In, Guests
<1>3. Allocated' = Allocated
  BY <1>1 DEF Allocated
<1>4. TypeOK'
  BY <1>1 DEF IInv, TypeOK
<1>5. MembershipInv'
  <2>1. \A s \in Sessions : None \notin In(s)
    BY InTyped, ListsTyped, MembersAssumption DEF Members, MembersAssumption
  <2>. QED
    BY <1>1, <1>2, <2>1 DEF IInv, MembershipInv, OneListEach, SelfLast, GoneUnlisted
<1>6. ObjectsKnown'
  BY <1>1, <1>2, <1>3 DEF IInv, ObjectsKnown
<1>7. Identification'
  BY <1>1, <1>3 DEF IInv, Identification, Identified
<1>8. Reporting'
  BY <1>1, <1>2 DEF IInv, Reporting, OutgoingFits
<1>. QED
  BY <1>4, <1>5, <1>6, <1>7, <1>8 DEF IInv

\* Self takes another ssrc: nothing is said of it.
LEMMA SelfRenamed ==
    ASSUME IInv, NEW s \in Sessions, NEW y \in Ssrcs,
           ssrc' = [ssrc EXCEPT ![s] = y]
    PROVE  /\ ssrc' \in [Members -> Ssrcs \union {NoSsrc}]
           /\ \A o \in Objs : ssrc'[o] = ssrc[o]
BY MembersAssumption DEF IInv, TypeOK, Members, MembersAssumption

LEMMA ComesStep ==
    ASSUME IInv, NEW p \in Peers, NEW x \in Ssrcs, RtcpComes(p, x)
    PROVE  IInv'
<1>1. PICK h \in Allocated :
        /\ peer[h] = p
        /\ Collides(port_session[home[h]], x) \/ Identifies(port_session[home[h]], p, x)
  BY DEF RtcpComes
<1>. DEFINE s == port_session[home[h]]
<1>2. s \in Sessions
  BY DEF IInv, TypeOK, Allocated
<1>3. /\ pc = "idle"
      /\ UNCHANGED <<members, n_member, port_session, next_report_ssrc, max_report,
                     start_report_ssrc, outgoing_rtcp, objectVars, moveVars>>
  BY DEF RtcpComes, listVars, reportVars, ClientKeeps
<1>4. /\ MembershipInv' /\ ObjectsKnown'
      /\ Allocated' = Allocated
      /\ UNCHANGED <<peer, home, freed, pcMove, moving>>
  BY <1>3, ObjectsStay
<1>5. CASE Collides(s, x)
  <2>1. PICK y \in Ssrcs : ssrc' = [ssrc EXCEPT ![s] = y]
    BY <1>5 DEF Collides
  <2>2. UNCHANGED <<pc, ses, mem, incoming, valid>>
    BY <1>5 DEF Collides
  <2>3. /\ ssrc' \in [Members -> Ssrcs \union {NoSsrc}]
        /\ \A o \in Objs : ssrc'[o] = ssrc[o]
    BY <1>2, <2>1, SelfRenamed
  <2>4. TypeOK'
    BY <1>3, <1>4, <2>2, <2>3 DEF IInv, TypeOK
  <2>5. Identification'
    BY <1>3, <1>4, <2>2, <2>3 DEF IInv, Identification, Identified
  <2>6. Reporting'
    BY <1>3, <2>2 DEF IInv, Reporting, OutgoingFits
  <2>. QED
    BY <1>4, <2>4, <2>5, <2>6 DEF IInv
<1>6. CASE Identifies(s, p, x)
  <2>1. PICK o \in Objs :
          /\ mem' = o
          /\ \/ o = BySsrc(s, x) /\ UNCHANGED ssrc
             \/ /\ o = ByPeer(s, p)
                /\ ssrc' = [ssrc EXCEPT ![o] = IF ssrc[o] = NoSsrc THEN x ELSE ssrc[o]]
    BY <1>6 DEF Identifies
  <2>2. pc' = "found" /\ ses' = s /\ incoming' = [peer |-> p, ssrc |-> x] /\ UNCHANGED valid
    BY <1>6 DEF Identifies
  <2>3. o \in Allocated /\ (o = ByPeer(s, p) => peer[o] = p)
    <3>1. CASE o = BySsrc(s, x) /\ o # ByPeer(s, p)
      BY <1>2, <3>1, GuestFound DEF BySsrc
    <3>2. CASE o = ByPeer(s, p)
      BY <1>2, <3>2, GuestFound DEF ByPeer
    <3>. QED
      BY <2>1, <3>1, <3>2
  <2>4. ssrc' \in [Members -> Ssrcs \union {NoSsrc}] /\ \A m \in Objs \ {o} : ssrc'[m] = ssrc[m]
    <3>1. ssrc \in [Members -> Ssrcs \union {NoSsrc}] /\ Objs \subseteq Members
      BY DEF IInv, TypeOK, Members
    <3>2. PICK z \in Ssrcs \union {NoSsrc} : ssrc' = ssrc \/ ssrc' = [ssrc EXCEPT ![o] = z]
      BY <2>1, <3>1
    <3>. QED
      BY <3>1, <3>2
  <2>5. incoming' \in Packets /\ incoming'.peer = p
    BY <2>2 DEF Packets
  <2>6. TypeOK'
    BY <1>2, <1>3, <1>4, <2>1, <2>2, <2>4, <2>5 DEF IInv, TypeOK, Members
  <2>7. Identification'
    <3>1. \A t \in Sessions : valid'[t]
      BY <2>2 DEF IInv, Identification
    <3>2. \A m \in Objs : Identified(m)
      BY <1>3 DEF IInv, Identification
    <3>3. ~valid[o] /\ ssrc'[o] # NoSsrc => peer[o] = p
      BY <2>1, <2>3, <3>2 DEF Identified
    <3>5. valid[o] => ssrc'[o] # NoSsrc
      <4>1. valid[o] => ssrc[o] # NoSsrc
        BY <3>2 DEF Identified
      <4>2. ssrc[o] # NoSsrc => ssrc'[o] = ssrc[o]
        BY <2>1 DEF IInv, TypeOK, Members
      <4>. QED
        BY <4>1, <4>2
    <3>4. \A m \in Objs \ {o} : Identified(m)'
      BY <2>2, <2>4, <3>2 DEF Identified
    <3>. QED
      BY <1>4, <2>1, <2>2, <2>3, <2>5, <3>1, <3>3, <3>4, <3>5 DEF Identification
  <2>8. Reporting'
    BY <1>2, <1>3, <2>2 DEF IInv, Reporting, OutgoingFits
  <2>. QED
    BY <1>4, <2>6, <2>7, <2>8 DEF IInv
<1>. QED
  BY <1>1, <1>5, <1>6

LEMMA CrashStep ==
    ASSUME IInv, Crash, ClientKeeps
    PROVE  IInv'
<1>1. /\ pc' = "crashed"
      /\ UNCHANGED <<members, n_member, port_session, ssrc, valid, ses, mem, incoming,
                     next_report_ssrc, max_report, start_report_ssrc, outgoing_rtcp, objectVars, moveVars>>
  BY DEF Crash, ClientKeeps, listVars, memberVars, reportVars
<1>2. /\ MembershipInv' /\ ObjectsKnown'
      /\ Allocated' = Allocated
      /\ UNCHANGED <<peer, home, freed, pcMove, moving>>
  BY <1>1, ObjectsStay
<1>3. TypeOK'
  BY <1>1, <1>2 DEF IInv, TypeOK
<1>4. Identification'
  BY <1>1 DEF IInv, Identification
<1>5. Reporting'
  BY <1>1, MembersAssumption DEF IInv, Reporting, OutgoingFits, TypeOK, MembersAssumption
<1>. QED
  BY <1>2, <1>3, <1>4, <1>5 DEF IInv

LEMMA KnownStep ==
    ASSUME IInv, RtcpKnown
    PROVE  IInv'
<1>1. /\ pc = "found" /\ (valid[mem] \/ peer[mem] # incoming.peer)
      /\ Done
      /\ UNCHANGED <<members, n_member, port_session, ssrc, valid, next_report_ssrc, objectVars, moveVars>>
  BY DEF RtcpKnown, listVars, memberVars, ClientKeeps
<1>2. /\ MembershipInv' /\ ObjectsKnown'
      /\ Allocated' = Allocated
      /\ UNCHANGED <<peer, home, freed, pcMove, moving>>
  BY <1>1, ObjectsStay
<1>3. TypeOK'
  BY <1>1, <1>2, MembersAssumption DEF IInv, TypeOK, Done, MembersAssumption
<1>4. Identification'
  <2>1. Identified(mem)
    BY <1>1 DEF IInv, Identification, Identified, Allocated
  <2>2. \A o \in Objs : Identified(o)
    BY <1>1, <2>1 DEF IInv, Identification
  <2>. QED
    BY <1>1, <2>2 DEF IInv, Identification, Identified, Done
<1>5. Reporting'
  BY <1>1, MembersAssumption DEF IInv, Reporting, OutgoingFits, Done, MembersAssumption
<1>. QED
  BY <1>2, <1>3, <1>4, <1>5 DEF IInv

LEMMA ValidatesStep ==
    ASSUME IInv, RtcpValidates
    PROVE  IInv'
<1>1. /\ pc = "found"
      /\ valid' = [valid EXCEPT ![mem] = TRUE]
      /\ ssrc' = [ssrc EXCEPT ![mem] = incoming.ssrc]
      /\ n_member' = [n_member EXCEPT ![ses] = (n_member[ses] + 1) % COUNT_MOD]
      /\ Done
      /\ UNCHANGED <<members, port_session, next_report_ssrc, objectVars, moveVars>>
  BY DEF RtcpValidates, Validated, ClientKeeps
<1>2. /\ MembershipInv' /\ ObjectsKnown'
      /\ Allocated' = Allocated
      /\ UNCHANGED <<peer, home, freed, pcMove, moving>>
  BY <1>1, ObjectsStay
<1>3. mem \in Members /\ mem \notin Sessions /\ incoming.ssrc \in Ssrcs /\ ses \in Sessions
  BY <1>1, MembersAssumption
     DEF IInv, Identification, Reporting, Allocated, Members, Packets, MembersAssumption
<1>4. TypeOK'
  <2>1. n_member[ses] + 1 \in Nat
    BY <1>3, MembersAssumption DEF IInv, TypeOK, MembersAssumption
  <2>2. n_member' \in [Sessions -> 0 .. COUNT_MOD - 1]
    BY <1>1, <2>1, CountInRange DEF IInv, TypeOK
  <2>. QED
    BY <1>1, <1>2, <1>3, <2>2, MembersAssumption DEF IInv, TypeOK, Done, MembersAssumption
<1>5. Identification'
  <2>1. valid'[mem] /\ ssrc'[mem] # NoSsrc
    BY <1>1, <1>3, MembersAssumption DEF IInv, TypeOK, MembersAssumption
  <2>2. \A m \in Members \ {mem} : valid'[m] = valid[m] /\ ssrc'[m] = ssrc[m]
    BY <1>1 DEF IInv, TypeOK
  <2>3. \A s \in Sessions : valid'[s]
    BY <1>3, <2>2 DEF IInv, Identification, Members
  <2>4. ASSUME NEW o \in Objs PROVE Identified(o)'
    <3>1. CASE o = mem
      BY <2>1, <3>1 DEF Identified
    <3>2. CASE o # mem
      BY <1>1, <2>2, <3>2 DEF IInv, Identification, Identified, Members
    <3>. QED
      BY <3>1, <3>2
  <2>. QED
    BY <1>1, <2>3, <2>4 DEF Identification, Done
<1>6. Reporting'
  BY <1>1, MembersAssumption DEF IInv, Reporting, OutgoingFits, Done, MembersAssumption
<1>. QED
  BY <1>2, <1>4, <1>5, <1>6 DEF IInv

LEMMA BeginsStep ==
    ASSUME IInv, NEW s \in Sessions, ReportBegins(s)
    PROVE  IInv'
<1>1. /\ pc = "idle" /\ pc' = "lock" /\ ses' = s /\ max_report' = MaxReport(s)
      /\ UNCHANGED <<mem, incoming, members, n_member, port_session, valid, next_report_ssrc,
                     start_report_ssrc, outgoing_rtcp, objectVars, moveVars>>
      /\ ssrc' = ssrc \/ \E y \in Ssrcs : ssrc' = [ssrc EXCEPT ![s] = y]
  BY DEF ReportBegins, listVars, ClientKeeps
<1>2. /\ MembershipInv' /\ ObjectsKnown'
      /\ Allocated' = Allocated
      /\ UNCHANGED <<peer, home, freed, pcMove, moving>>
  BY <1>1, ObjectsStay
<1>3. /\ ssrc' \in [Members -> Ssrcs \union {NoSsrc}]
      /\ \A o \in Objs : ssrc'[o] = ssrc[o]
  BY <1>1, SelfRenamed DEF IInv, TypeOK
<1>4. max_report' \in 0 .. XRTP_MAX_REPORTS
  BY <1>1, MembersAssumption DEF MaxReport, IInv, TypeOK, MembersAssumption
<1>5. TypeOK'
  BY <1>1, <1>2, <1>3, <1>4 DEF IInv, TypeOK
<1>6. Identification'
  BY <1>1, <1>2, <1>3 DEF IInv, Identification, Identified
<1>7. Reporting'
  BY <1>1 DEF IInv, Reporting, OutgoingFits
<1>. QED
  BY <1>2, <1>5, <1>6, <1>7 DEF IInv

LEMMA NobodyStep ==
    ASSUME IInv, ReportNobody
    PROVE  IInv'
<1>1. /\ pc = "lock" /\ Done
      /\ UNCHANGED <<members, n_member, port_session, ssrc, valid, next_report_ssrc, objectVars, moveVars>>
  BY DEF ReportNobody, listVars, memberVars, ClientKeeps
<1>2. /\ MembershipInv' /\ ObjectsKnown'
      /\ Allocated' = Allocated
      /\ UNCHANGED <<peer, home, freed, pcMove, moving>>
  BY <1>1, ObjectsStay
<1>3. TypeOK'
  BY <1>1, <1>2, MembersAssumption DEF IInv, TypeOK, Done, MembersAssumption
<1>4. Identification'
  BY <1>1, <1>2 DEF IInv, Identification, Identified, Done
<1>5. Reporting'
  BY <1>1, MembersAssumption DEF IInv, Reporting, OutgoingFits, Done, MembersAssumption
<1>. QED
  BY <1>2, <1>3, <1>4, <1>5 DEF IInv

\* The circle of a session always yields one of its members.
LEMMA CircleCloses ==
    ASSUME IInv, NEW s \in Sessions, NEW m \in In(s)
    PROVE  NextValid(s, ssrc[m]) \in In(s) /\ NextGuest(s, ssrc[m]) \in In(s)
<1>1. MembersTyped /\ SelfLast /\ valid[s] /\ s \in In(s)
  <2>1. MembersTyped /\ SelfLast /\ valid[s]
    BY ListsTyped DEF IInv, Identification
  <2>. QED
    BY <2>1 DEF MembersTyped, SelfLast, In
<1>2. \A x \in In(s) : NextValid(s, ssrc[x]) \in In(s)
  BY <1>1, NextValidIn
<1>. QED
  BY <1>1, <1>2 DEF NextGuest

LEMMA LockStep ==
    ASSUME IInv, ReportLock
    PROVE  IInv'
<1>1. /\ pc = "lock"
      /\ \/ next_report_ssrc[ses] = NoSsrc /\ mem' = NextValid(ses, ssrc[ses])
         \/ LET m == BySsrc(ses, next_report_ssrc[ses]) IN
              /\ m # None
              /\ mem' = IF m = ses THEN NextValid(ses, ssrc[ses]) ELSE m
      /\ next_report_ssrc' = [next_report_ssrc EXCEPT ![ses] = IF @ = NoSsrc THEN ssrc[mem'] ELSE @]
      /\ start_report_ssrc' = next_report_ssrc'[ses]
      /\ pc' = IF max_report > 0 THEN "report" ELSE "record"
      /\ UNCHANGED <<outgoing_rtcp, ses, incoming, max_report, members, n_member, port_session,
                     ssrc, valid, objectVars, moveVars>>
  BY DEF ReportLock, listVars, memberVars, ClientKeeps
<1>2. /\ MembershipInv' /\ ObjectsKnown'
      /\ Allocated' = Allocated
      /\ UNCHANGED <<peer, home, freed, pcMove, moving>>
  BY <1>1, ObjectsStay
<1>3. ses \in Sessions /\ ses \in In(ses)
  BY <1>1, ListsTyped DEF IInv, Reporting, MembersTyped, SelfLast, In
<1>4. mem' \in In(ses)
  <2>1. NextValid(ses, ssrc[ses]) \in In(ses)
    BY <1>3, CircleCloses
  <2>2. BySsrc(ses, next_report_ssrc[ses]) # None => BySsrc(ses, next_report_ssrc[ses]) \in In(ses)
    BY <1>3, FirstOfFinds, ListsTyped, MembersAssumption DEF BySsrc
  <2>. QED
    BY <1>1, <2>1, <2>2
<1>5. mem' \in Members
  BY <1>3, <1>4, InTyped, ListsTyped
<1>6. TypeOK'
  <2>1. ssrc[mem'] \in Ssrcs \union {NoSsrc}
    BY <1>5 DEF IInv, TypeOK
  <2>2. next_report_ssrc' \in [Sessions -> Ssrcs \union {NoSsrc}]
    BY <1>1, <1>3, <2>1 DEF IInv, TypeOK
  <2>. QED
    BY <1>1, <1>2, <1>3, <1>5, <2>2 DEF IInv, TypeOK
<1>7. Identification'
  BY <1>1, <1>2 DEF IInv, Identification, Identified
<1>8. Reporting'
  <2>1. mem' \in In(ses)'
    BY <1>1, <1>4 DEF In
  <2>2. Len(outgoing_rtcp') = 0 /\ max_report' \in 0 .. XRTP_MAX_REPORTS
    <3>1. outgoing_rtcp' = <<>> /\ max_report' = max_report
      BY <1>1 DEF IInv, Reporting
    <3>. QED
      BY <3>1 DEF IInv, TypeOK
  <2>3. OutgoingFits'
    <3>1. (IF pc' = "report" THEN max_report' ELSE 0) \in 0 .. XRTP_MAX_REPORTS
      BY <2>2, MembersAssumption DEF MembersAssumption
    <3>2. 0 + (IF pc' = "report" THEN max_report' ELSE 0) <= XRTP_MAX_REPORTS
      BY <3>1, MembersAssumption DEF MembersAssumption
    <3>. QED
      BY <2>2, <3>2 DEF OutgoingFits
  <2>. QED
    BY <1>1, <1>3, <2>1, <2>3 DEF IInv, Reporting, TypeOK
<1>. QED
  BY <1>2, <1>6, <1>7, <1>8 DEF IInv

LEMMA OneStep ==
    ASSUME IInv, ReportOne
    PROVE  IInv'
<1>1. /\ pc = "report"
      /\ outgoing_rtcp' = Append(outgoing_rtcp, mem)
      /\ max_report' = max_report - 1
      /\ mem' = NextGuest(ses, ssrc[mem])
      /\ \/ pc' = "record"
         \/ pc' = "report" /\ max_report # 1
      /\ UNCHANGED <<ses, incoming, members, n_member, port_session, ssrc, valid, next_report_ssrc,
                     start_report_ssrc, objectVars, moveVars>>
  BY DEF ReportOne, listVars, memberVars, ClientKeeps
<1>2. /\ MembershipInv' /\ ObjectsKnown'
      /\ Allocated' = Allocated
      /\ UNCHANGED <<peer, home, freed, pcMove, moving>>
  BY <1>1, ObjectsStay
<1>3. ses \in Sessions /\ mem \in In(ses) /\ max_report > 0
  BY <1>1 DEF IInv, Reporting
<1>4. mem' \in In(ses)
  BY <1>1, <1>3, CircleCloses
<1>5. mem \in Members /\ mem' \in Members
  BY <1>3, <1>4, InTyped, ListsTyped
<1>6. max_report' \in 0 .. XRTP_MAX_REPORTS /\ (pc' = "report" => max_report' > 0)
  BY <1>1, <1>3, MembersAssumption DEF IInv, TypeOK, MembersAssumption
<1>7. outgoing_rtcp' \in Seq(Members) /\ Len(outgoing_rtcp') = Len(outgoing_rtcp) + 1
  BY <1>1, <1>5 DEF IInv, TypeOK
<1>8. TypeOK'
  BY <1>1, <1>2, <1>5, <1>6, <1>7 DEF IInv, TypeOK
<1>9. Identification'
  BY <1>1, <1>2 DEF IInv, Identification, Identified
<1>10. Reporting'
  <2>1. mem' \in In(ses)'
    BY <1>1, <1>4 DEF In
  <2>2. OutgoingFits'
    BY <1>1, <1>3, <1>7, MembersAssumption DEF IInv, Reporting, OutgoingFits, TypeOK, MembersAssumption
  <2>. QED
    BY <1>1, <1>3, <1>6, <2>1, <2>2 DEF IInv, Reporting
<1>. QED
  BY <1>2, <1>8, <1>9, <1>10 DEF IInv

LEMMA RecordStep ==
    ASSUME IInv, ReportRecord
    PROVE  IInv'
<1>1. /\ pc = "record" /\ Done
      /\ next_report_ssrc' = [next_report_ssrc EXCEPT ![ses] = ssrc[mem]]
      /\ UNCHANGED <<members, n_member, port_session, ssrc, valid, objectVars, moveVars>>
  BY DEF ReportRecord, Recorded, listVars, memberVars, ClientKeeps
<1>2. /\ MembershipInv' /\ ObjectsKnown'
      /\ Allocated' = Allocated
      /\ UNCHANGED <<peer, home, freed, pcMove, moving>>
  BY <1>1, ObjectsStay
<1>3. ses \in Sessions /\ mem \in Members
  BY <1>1, InTyped, ListsTyped DEF IInv, Reporting
<1>4. TypeOK'
  <2>1. ssrc[mem] \in Ssrcs \union {NoSsrc}
    BY <1>3 DEF IInv, TypeOK
  <2>2. next_report_ssrc' \in [Sessions -> Ssrcs \union {NoSsrc}]
    BY <1>1, <2>1 DEF IInv, TypeOK
  <2>. QED
    BY <1>1, <1>2, <2>2, MembersAssumption DEF IInv, TypeOK, Done, MembersAssumption
<1>5. Identification'
  BY <1>1, <1>2 DEF IInv, Identification, Identified, Done
<1>6. Reporting'
  BY <1>1, MembersAssumption DEF IInv, Reporting, OutgoingFits, Done, MembersAssumption
<1>. QED
  BY <1>2, <1>4, <1>5, <1>6 DEF IInv

-----------------------------------------------------------------------------
LEMMA NextPreserves == IInv /\ [Next]_vars => IInv'
<1>. SUFFICES ASSUME IInv, [Next]_vars PROVE IInv'
  OBVIOUS
<1>1. CASE Client
  BY <1>1, AddStep, DeleteStep, RemoveStep, ResetStep, FindStep, AddMovedStep DEF Client
<1>2. ASSUME NEW p \in Peers, NEW x \in Ssrcs, RtcpComes(p, x) \/ CrashUnknown(p, x)
      PROVE  IInv'
  BY <1>2, ComesStep, CrashStep DEF CrashUnknown
<1>3. CASE RtcpGoesOn
  BY <1>3, CrashStep, KnownStep, ValidatesStep DEF RtcpGoesOn, CrashFreed
<1>4. ASSUME NEW s \in Sessions, ReportBegins(s) PROVE IInv'
  BY <1>4, BeginsStep
<1>5. CASE ReportGoesOn
  BY <1>5, NobodyStep, LockStep, CrashStep, OneStep, RecordStep DEF ReportGoesOn, CrashLeft
<1>6. CASE UNCHANGED vars
  <2>1. UNCHANGED <<members, n_member, port_session, ssrc, valid, peer, home, freed, pcMove, moving>>
    BY <1>6 DEF vars, listVars, memberVars, objectVars, moveVars
  <2>2. UNCHANGED <<pc, ses, mem, incoming, next_report_ssrc, max_report, start_report_ssrc, outgoing_rtcp>>
    BY <1>6 DEF vars, threadVars, reportVars
  <2>3. MembershipInv' /\ \A s \in Sessions : In(s)' = In(s) /\ Guests(s)' = Guests(s)
    BY <2>1, ListsStay
  <2>4. Allocated' = Allocated
    BY <2>1 DEF Allocated
  <2>5. TypeOK'
    BY <2>1, <2>2 DEF IInv, TypeOK
  <2>6. ObjectsKnown'
    BY <2>1, <2>3, <2>4 DEF IInv, ObjectsKnown
  <2>7. Identification'
    BY <2>1, <2>2, <2>4 DEF IInv, Identification, Identified
  <2>8. Reporting'
    BY <2>2, <2>3 DEF IInv, Reporting, OutgoingFits
  <2>. QED
    BY <2>3, <2>5, <2>6, <2>7, <2>8 DEF IInv
<1>. QED
  BY <1>1, <1>2, <1>3, <1>4, <1>5, <1>6 DEF Next, Thread

\* Every behaviour of the sessions keeps the invariant.
THEOREM Invariance == Spec => []IInv
<1>1. Init => IInv
  BY InitEstablishes
<1>2. IInv /\ [Next]_vars => IInv'
  BY NextPreserves
<1>. QED
  BY <1>1, <1>2, PTL DEF Spec

\* The state of sessions, members and the report under way has the types the
\* code gives it: in particular a report always finds a next member.
THEOREM TypeCorrect == Spec => []TypeOK
<1>1. IInv => TypeOK
  BY DEF IInv
<1>. QED
  BY <1>1, Invariance, PTL

\* session_add_cname, session_delete_cname and session_move_member_by_cname, with
\* reports and identifications in between: a member is in one list at most, once.
THEOREM MembersApart == Spec => []MembershipInv
<1>1. IInv => MembershipInv
  BY DEF IInv
<1>. QED
  BY <1>1, Invariance, PTL

\* session_update_member_by_rtcp, with moves between its search and its end: it
\* leaves no member with a ssrc that is not valid.
THEOREM NoneHalfValid == Spec => []NoHalfValid
<1>1. IInv => NoHalfValid
  BY DEF IInv, Identification, Identified, NoHalfValid
<1>. QED
  BY <1>1, Invariance, PTL

\* session_report stays within outgoing_rtcp, whatever n_member has come to.
THEOREM ReportFits == Spec => []OutgoingFits
<1>1. IInv => OutgoingFits
  BY DEF IInv, Reporting
<1>. QED
  BY <1>1, Invariance, PTL

-----------------------------------------------------------------------------
(***************************************************************************)
(* The walk of a report.  Where the ssrcs tell the members apart and all   *)
(* guests are booked or valid, it goes from each to the next in the list,  *)
(* and from the last guest past self to the first; it began at the guest   *)
(* at place a, and has said something on each since.                       *)
(***************************************************************************)
GuestCount(s) == Len(members[s]) - 1

\* The guest at place m of the list gone through twice.
GuestAt(s, m) == members[s][IF m <= GuestCount(s) THEN m ELSE m - GuestCount(s)]

Walked(a) ==
    /\ a <= GuestCount(ses)
    /\ ssrc[GuestAt(ses, a)] = start_report_ssrc
    /\ Len(outgoing_rtcp) <= GuestCount(ses)
    /\ pc = "report" => Len(outgoing_rtcp) < GuestCount(ses)
    /\ mem = GuestAt(ses, a + Len(outgoing_rtcp))
    /\ \A k \in 1 .. Len(outgoing_rtcp) : outgoing_rtcp[k] = GuestAt(ses, a + k - 1)

WalkInv ==
    pc \in {"report", "record"} /\ SsrcsDiffer(ses) /\ start_report_ssrc # ssrc[ses] =>
        \E a \in Nat \ {0} : Walked(a)

\* The next valid member of an eligible one's neighbour.
LEMMA NextValidNeighbour ==
    ASSUME MembersTyped, NEW s \in Sessions, SsrcsDiffer(s),
           NEW n, n = Len(members[s]), NEW k \in 1 .. n, NEW l \in 1 .. n,
           l = IF k < n THEN k + 1 ELSE 1,
           Eligible(members[s][l])
    PROVE  NextValid(s, ssrc[members[s][k]]) = members[s][l]
<1>. DEFINE x == ssrc[members[s][k]]
            I == {j \in 1 .. n : ssrc[members[s][j]] = x}
            i == Min(I)
            At(d) == IF i + d <= n THEN i + d ELSE i + d - n
            D == {d \in 1 .. n : Eligible(members[s][At(d)])}
<1>1. n \in Nat /\ n > 0 /\ DOMAIN members[s] = 1 .. n
  BY DEF MembersTyped
<1>2. I = {k}
  BY <1>1 DEF SsrcsDiffer
<1>3. i = k
  <2>1. I # {} /\ I \in SUBSET Nat
    BY <1>1, <1>2
  <2>2. i \in I
    BY <2>1, MinIn
  <2>. QED
    BY <1>2, <2>2
<1>4. NextValid(s, x) = members[s][At(Min(D))]
  BY DEF NextValid
<1>. HIDE DEF i
<1>5. At(1) = l
  <2>1. CASE k < n
    BY <1>1, <1>3, <2>1
  <2>2. CASE ~(k < n)
    <3>1. i = n /\ l = 1
      BY <1>1, <1>3, <2>2
    <3>. QED
      BY <1>1, <3>1
  <2>. QED
    BY <2>1, <2>2
<1>6. 1 \in D
  BY <1>1, <1>5
<1>7. Min(D) = 1
  <2>1. D \in SUBSET Nat
    OBVIOUS
  <2>2. Min(D) \in D /\ Min(D) <= 1
    BY <1>6, <2>1, MinIn
  <2>3. Min(D) \in 1 .. n
    BY <2>2
  <2>. QED
    BY <1>1, <2>2, <2>3
<1>. HIDE DEF D, At
<1>. QED
  BY <1>4, <1>5, <1>7

\* All guests are eligible while no packet is at its end.
LEMMA AllEligible ==
    ASSUME IInv, pc \notin {"found", "crashed"}, NEW s \in Sessions
    PROVE  \A m \in In(s) : Eligible(m)
<1>. SUFFICES ASSUME NEW m \in In(s) PROVE Eligible(m)
  OBVIOUS
<1>1. CASE m = s
  BY <1>1 DEF IInv, Identification, Eligible
<1>2. CASE m # s
  <2>1. m \in Objs
    BY <1>2 DEF IInv, ObjectsKnown, Guests, Allocated
  <2>2. Identified(m)
    BY <2>1 DEF IInv, Identification
  <2>. QED
    BY <2>2 DEF Identified, Eligible
<1>. QED
  BY <1>1, <1>2

\* Past a guest comes the next one, past the last and past self the first.
LEMMA GuestFollows ==
    ASSUME IInv, pc \notin {"found", "crashed"}, NEW s \in Sessions, SsrcsDiffer(s),
           GuestCount(s) > 0
    PROVE  /\ GuestCount(s) \in Nat /\ Len(members[s]) = GuestCount(s) + 1
           /\ NextValid(s, ssrc[s]) = members[s][1]
           /\ \A k \in 1 .. GuestCount(s) :
                  /\ members[s][k] \in Guests(s)
                  /\ NextGuest(s, ssrc[members[s][k]])
                         = members[s][IF k < GuestCount(s) THEN k + 1 ELSE 1]
<1>. DEFINE g == GuestCount(s)
            q == members[s]
<1>1. MembersTyped /\ q \in Seq(Members) /\ DOMAIN q = 1 .. g + 1 /\ Len(q) = g + 1 /\ g \in Nat
  BY ListsTyped DEF MembersTyped, GuestCount
<1>2. q[g + 1] = s
  BY <1>1, ListsTyped DEF SelfLast
<1>. HIDE DEF g, q
<1>3. \A k \in 1 .. g + 1 : q[k] \in In(s) /\ Eligible(q[k])
  BY <1>1, AllEligible DEF In, q
<1>4. \A k \in 1 .. g : q[k] \in Guests(s)
  <2>. SUFFICES ASSUME NEW k \in 1 .. g PROVE q[k] # s
    BY <1>1, <1>3 DEF Guests
  <2>. QED
    BY <1>1, <1>2 DEF SsrcsDiffer, q
<1>5. NextValid(s, ssrc[s]) = q[1]
  <2>1. NextValid(s, ssrc[q[g + 1]]) = q[1]
    <3>1. g + 1 \in 1 .. g + 1 /\ 1 \in 1 .. g + 1 /\ 1 = IF g + 1 < g + 1 THEN g + 1 + 1 ELSE 1
      BY <1>1
    <3>. QED
      BY <1>1, <1>3, <3>1, NextValidNeighbour DEF q
  <2>. QED
    BY <1>2, <2>1
<1>6. ASSUME NEW k \in 1 .. g
      PROVE  NextGuest(s, ssrc[q[k]]) = q[IF k < g THEN k + 1 ELSE 1]
  <2>1. NextValid(s, ssrc[q[k]]) = q[k + 1]
    <3>1. k \in 1 .. g + 1 /\ k + 1 \in 1 .. g + 1 /\ k + 1 = IF k < g + 1 THEN k + 1 ELSE 1
      BY <1>1
    <3>. QED
      BY <1>1, <1>3, <3>1, NextValidNeighbour DEF q
  <2>2. CASE k < g
    <3>1. q[k + 1] # s
      BY <1>1, <1>4, <2>2 DEF Guests
    <3>. QED
      BY <2>1, <2>2, <3>1 DEF NextGuest
  <2>3. CASE ~(k < g)
    <3>1. k = g
      BY <1>1, <2>3
    <3>. QED
      BY <1>2, <1>5, <2>1, <3>1 DEF NextGuest
  <2>. QED
    BY <2>2, <2>3
<1>. QED
  BY <1>1, <1>4, <1>5, <1>6 DEF g, q

\* A report is about guests, none of them twice, if the walk is as it should be.
LEMMA WalkShowsGuests ==
    ASSUME IInv, WalkInv
    PROVE  OutgoingGuests
<1>. SUFFICES ASSUME pc \in {"report", "record"}, SsrcsDiffer(ses), start_report_ssrc # ssrc[ses]
              PROVE  /\ \A k \in DOMAIN outgoing_rtcp : outgoing_rtcp[k] \in Guests(ses)
                     /\ \A k, l \in DOMAIN outgoing_rtcp :
                            outgoing_rtcp[k] = outgoing_rtcp[l] => k = l
  BY DEF OutgoingGuests
<1>1. PICK a \in Nat \ {0} : Walked(a)
  BY DEF WalkInv
<1>. DEFINE g == GuestCount(ses)
            At(m) == IF m <= g THEN m ELSE m - g
<1>2. ses \in Sessions /\ outgoing_rtcp \in Seq(Members)
  BY DEF IInv, Reporting, TypeOK
<1>3. Len(outgoing_rtcp) \in Nat /\ DOMAIN outgoing_rtcp = 1 .. Len(outgoing_rtcp)
  BY <1>2
<1>4. g \in Int
  BY <1>2, ListsTyped DEF MembersTyped, GuestCount
<1>5. g > 0
  BY <1>1, <1>4 DEF Walked
<1>6. g \in Nat /\ Len(members[ses]) = g + 1 /\ \A k \in 1 .. g : members[ses][k] \in Guests(ses)
  BY <1>2, <1>5, GuestFollows
<1>7. Len(outgoing_rtcp) <= g /\ a <= g
  BY <1>1 DEF Walked
<1>8. \A k \in 1 .. Len(outgoing_rtcp) : outgoing_rtcp[k] = members[ses][At(a + k - 1)]
  BY <1>1 DEF Walked, GuestAt
<1>. HIDE DEF g
<1>9. \A k \in 1 .. Len(outgoing_rtcp) : At(a + k - 1) \in 1 .. g
  BY <1>3, <1>6, <1>7
<1>10. \A k, l \in 1 .. Len(outgoing_rtcp) : At(a + k - 1) = At(a + l - 1) => k = l
  BY <1>3, <1>6, <1>7
<1>11. \A k, l \in 1 .. g : members[ses][k] = members[ses][l] => k = l
  <2>1. DOMAIN members[ses] = 1 .. g + 1
    BY <1>2, <1>6, ListsTyped DEF MembersTyped
  <2>. QED
    BY <1>6, <2>1 DEF SsrcsDiffer
<1>. HIDE DEF At
<1>12. ASSUME NEW k \in DOMAIN outgoing_rtcp PROVE outgoing_rtcp[k] \in Guests(ses)
  BY <1>3, <1>6, <1>8, <1>9
<1>13. ASSUME NEW k \in DOMAIN outgoing_rtcp, NEW l \in DOMAIN outgoing_rtcp,
              outgoing_rtcp[k] = outgoing_rtcp[l]
       PROVE  k = l
  <2>1. At(a + k - 1) \in 1 .. g /\ At(a + l - 1) \in 1 .. g
        /\ members[ses][At(a + k - 1)] = members[ses][At(a + l - 1)]
    BY <1>3, <1>8, <1>9, <1>13
  <2>2. At(a + k - 1) = At(a + l - 1)
    BY <1>11, <2>1
  <2>. QED
    BY <1>3, <1>10, <2>2
<1>. QED
  BY <1>12, <1>13

\* A step that leaves the report, its list and the ssrcs in it.
LEMMA WalkStays ==
    ASSUME IInv, WalkInv,
           UNCHANGED <<pc, ses, mem, start_report_ssrc, outgoing_rtcp>>,
           pc \in {"report", "record"} =>
               UNCHANGED members /\ \A m \in In(ses) : ssrc'[m] = ssrc[m]
    PROVE  WalkInv'
<1>. SUFFICES ASSUME pc \in {"report", "record"}, SsrcsDiffer(ses)', start_report_ssrc # ssrc'[ses]
              PROVE  \E a \in Nat \ {0} : Walked(a)'
  BY DEF WalkInv
<1>1. ses \in Sessions /\ ses \in In(ses) /\ members' = members
      /\ \A k \in DOMAIN members[ses] : ssrc'[members[ses][k]] = ssrc[members[ses][k]]
  BY ListsTyped DEF IInv, Reporting, MembersTyped, SelfLast, In
<1>2. SsrcsDiffer(ses) /\ start_report_ssrc # ssrc[ses]
  BY <1>1 DEF SsrcsDiffer
<1>3. PICK a \in Nat \ {0} : Walked(a)
  BY <1>2 DEF WalkInv
<1>4. GuestCount(ses)' = GuestCount(ses) /\ \A m : GuestAt(ses, m)' = GuestAt(ses, m)
  BY <1>1 DEF GuestCount, GuestAt
<1>5. GuestAt(ses, a) \in In(ses)
  <2>1. DOMAIN members[ses] = 1 .. GuestCount(ses) + 1 /\ GuestCount(ses) \in Int
    BY <1>1, ListsTyped DEF MembersTyped, GuestCount
  <2>2. a \in DOMAIN members[ses] /\ GuestAt(ses, a) = members[ses][a]
    BY <1>3, <2>1 DEF Walked, GuestAt
  <2>. QED
    BY <2>2 DEF In
<1>6. ssrc'[GuestAt(ses, a)] = ssrc[GuestAt(ses, a)]
  BY <1>1, <1>5
<1>7. Walked(a)'
  BY <1>3, <1>4, <1>6 DEF Walked
<1>. QED
  BY <1>7

\* The walk begins at the guest the last report stopped at, or behind self.
LEMMA WalkBegins ==
    ASSUME IInv, ReportLock
    PROVE  WalkInv'
<1>1. /\ pc = "lock"
      /\ Len(members[ses]) > 1
      /\ \/ next_report_ssrc[ses] = NoSsrc /\ mem' = NextValid(ses, ssrc[ses])
         \/ /\ next_report_ssrc[ses] # NoSsrc
            /\ LET m == BySsrc(ses, next_report_ssrc[ses]) IN
               /\ m # None
               /\ mem' = IF m = ses THEN NextValid(ses, ssrc[ses]) ELSE m
      /\ next_report_ssrc' = [next_report_ssrc EXCEPT ![ses] = IF @ = NoSsrc THEN ssrc[mem'] ELSE @]
      /\ start_report_ssrc' = next_report_ssrc'[ses]
      /\ UNCHANGED <<outgoing_rtcp, ses, members, ssrc>>
  BY DEF ReportLock, listVars, memberVars
<1>2. ses \in Sessions /\ outgoing_rtcp = <<>>
  BY <1>1 DEF IInv, Reporting
<1>. SUFFICES ASSUME SsrcsDiffer(ses), start_report_ssrc' # ssrc[ses]
              PROVE  \E a \in Nat \ {0} : Walked(a)'
  BY <1>1 DEF WalkInv, SsrcsDiffer
<1>3. start_report_ssrc' = IF next_report_ssrc[ses] = NoSsrc THEN ssrc[mem'] ELSE next_report_ssrc[ses]
  BY <1>1, <1>2 DEF IInv, TypeOK
<1>. DEFINE g == GuestCount(ses)
<1>4. g \in Nat /\ g > 0 /\ DOMAIN members[ses] = 1 .. g + 1 /\ members[ses][g + 1] = ses
  <2>1. members[ses] \in Seq(Members) /\ members[ses][Len(members[ses])] = ses
    BY <1>2, ListsTyped DEF MembersTyped, SelfLast
  <2>. QED
    BY <1>1, <2>1 DEF GuestCount
<1>5. NextValid(ses, ssrc[ses]) = members[ses][1]
  BY <1>1, <1>2, <1>4, GuestFollows
<1>. HIDE DEF g
<1>6. \E a \in 1 .. g : members[ses][a] = mem' /\ ssrc[mem'] = start_report_ssrc'
  <2>1. CASE next_report_ssrc[ses] = NoSsrc
    BY <1>1, <1>3, <1>4, <1>5, <2>1
  <2>2. CASE next_report_ssrc[ses] # NoSsrc
    <3>. DEFINE m == BySsrc(ses, next_report_ssrc[ses])
    <3>1. m # None /\ mem' = IF m = ses THEN NextValid(ses, ssrc[ses]) ELSE m
      BY <1>1, <2>2
    <3>2. m \in In(ses) /\ ssrc[m] = next_report_ssrc[ses]
      BY <1>2, <3>1, FirstOfFinds, ListsTyped, MembersAssumption DEF BySsrc
    <3>3. m # ses /\ mem' = m /\ ssrc[m] = start_report_ssrc'
      BY <1>3, <2>2, <3>1, <3>2
    <3>4. PICK a \in 1 .. g + 1 : members[ses][a] = m
      BY <1>4, <3>2 DEF In
    <3>5. a \in 1 .. g
      BY <1>4, <3>3, <3>4
    <3>. QED
      BY <3>3, <3>4, <3>5
  <2>. QED
    BY <2>1, <2>2
<1>7. PICK a \in 1 .. g : members[ses][a] = mem' /\ ssrc[mem'] = start_report_ssrc'
  BY <1>6
<1>8. outgoing_rtcp' = <<>> /\ Len(outgoing_rtcp') = 0 /\ GuestCount(ses)' = g /\ ses' = ses
  BY <1>1, <1>2 DEF GuestCount, g
<1>9. a \in Nat \ {0} /\ a <= g /\ a + 0 = a
  BY <1>4, <1>7
<1>10. GuestAt(ses, a)' = mem'
  BY <1>1, <1>7, <1>8, <1>9 DEF GuestAt
<1>11. Walked(a)'
  <2>1. ssrc'[GuestAt(ses, a)'] = start_report_ssrc'
    BY <1>1, <1>7, <1>10
  <2>2. mem' = GuestAt(ses, a + Len(outgoing_rtcp))'
    BY <1>8, <1>9, <1>10
  <2>3. \A k \in 1 .. Len(outgoing_rtcp') : outgoing_rtcp'[k] = GuestAt(ses, a + k - 1)'
    BY <1>8
  <2>4. a <= GuestCount(ses)' /\ Len(outgoing_rtcp') <= GuestCount(ses)'
        /\ (pc' = "report" => Len(outgoing_rtcp') < GuestCount(ses)')
    BY <1>4, <1>8, <1>9
  <2>. QED
    BY <2>1, <2>2, <2>3, <2>4 DEF Walked
<1>. QED
  BY <1>9, <1>11

\* One guest further, and stopped where the walk began.
LEMMA WalkGoesOn ==
    ASSUME IInv, WalkInv, ReportOne
    PROVE  WalkInv'
<1>1. /\ pc = "report"
      /\ outgoing_rtcp' = Append(outgoing_rtcp, mem)
      /\ mem' = NextGuest(ses, ssrc[mem])
      /\ pc' = "report" => ssrc[mem'] # start_report_ssrc
      /\ UNCHANGED <<ses, members, ssrc, start_report_ssrc>>
  BY DEF ReportOne, listVars, memberVars
<1>2. ses \in Sessions /\ mem \in Members /\ outgoing_rtcp \in Seq(Members)
  BY <1>1, InTyped, ListsTyped DEF IInv, Reporting, TypeOK
<1>. SUFFICES ASSUME SsrcsDiffer(ses), start_report_ssrc # ssrc[ses]
              PROVE  \E a \in Nat \ {0} : Walked(a)'
  BY <1>1 DEF WalkInv, SsrcsDiffer
<1>3. PICK a \in Nat \ {0} : Walked(a)
  BY <1>1 DEF WalkInv
<1>. DEFINE g == GuestCount(ses)
            c == Len(outgoing_rtcp)
            At(m) == IF m <= g THEN m ELSE m - g
<1>4. c \in Nat /\ a <= g /\ c < g /\ g \in Int
  <2>1. g \in Int /\ c \in Nat
    BY <1>2, ListsTyped DEF MembersTyped, GuestCount
  <2>. QED
    BY <1>1, <1>3, <2>1 DEF Walked
<1>5. g \in Nat /\ g > 0 /\ Len(members[ses]) = g + 1
      /\ \A k \in 1 .. g : NextGuest(ses, ssrc[members[ses][k]]) = members[ses][IF k < g THEN k + 1 ELSE 1]
  <2>1. g > 0
    BY <1>4
  <2>2. pc \notin {"found", "crashed"}
    BY <1>1
  <2>. QED
    BY <1>2, <2>1, <2>2, GuestFollows
<1>6. mem = members[ses][At(a + c)] /\ \A k \in 1 .. c : outgoing_rtcp[k] = members[ses][At(a + k - 1)]
  BY <1>3 DEF Walked, GuestAt
<1>7. ssrc[members[ses][a]] = start_report_ssrc
  BY <1>3, <1>4 DEF Walked, GuestAt
<1>8. Len(outgoing_rtcp') = c + 1
      /\ \A k \in 1 .. c + 1 : outgoing_rtcp'[k] = IF k = c + 1 THEN mem ELSE outgoing_rtcp[k]
  BY <1>1, <1>2
<1>9. GuestCount(ses)' = g /\ \A m : GuestAt(ses, m)' = members[ses][At(m)]
  BY <1>1 DEF GuestCount, GuestAt
<1>. HIDE DEF g, c
<1>10. At(a + c) \in 1 .. g
       /\ (IF At(a + c) < g THEN At(a + c) + 1 ELSE 1) = At(a + c + 1)
  BY <1>4, <1>5
<1>11. mem' = members[ses][At(a + c + 1)]
  BY <1>1, <1>5, <1>6, <1>10
<1>12. c + 1 = g => At(a + c + 1) = a
  BY <1>4, <1>5
<1>13. pc' = "report" => c + 1 < g
  BY <1>1, <1>4, <1>5, <1>7, <1>11, <1>12
<1>14. \A k \in 1 .. c + 1 : outgoing_rtcp'[k] = members[ses][At(a + k - 1)]
  <2>1. a + (c + 1) - 1 = a + c
    BY <1>4
  <2>2. \A k \in 1 .. c + 1 : k # c + 1 => k \in 1 .. c
    BY <1>4
  <2>. QED
    BY <1>6, <1>8, <2>1, <2>2
<1>15. a + (c + 1) = a + c + 1 /\ c + 1 <= g
  BY <1>4, <1>5
<1>16. At(a) = a
  BY <1>4
<1>. HIDE DEF At
<1>17. Walked(a)'
  <2>1. ssrc'[GuestAt(ses, a)'] = start_report_ssrc'
    BY <1>1, <1>7, <1>9, <1>16
  <2>2. mem' = GuestAt(ses, a + Len(outgoing_rtcp))'
    BY <1>1, <1>8, <1>9, <1>11, <1>15
  <2>3. \A k \in 1 .. Len(outgoing_rtcp') : outgoing_rtcp'[k] = GuestAt(ses, a + k - 1)'
    BY <1>1, <1>8, <1>9, <1>14
  <2>4. a <= GuestCount(ses)' /\ Len(outgoing_rtcp') <= GuestCount(ses)'
        /\ (pc' = "report" => Len(outgoing_rtcp') < GuestCount(ses)')
    BY <1>1, <1>4, <1>8, <1>9, <1>13, <1>15
  <2>. QED
    BY <2>1, <2>2, <2>3, <2>4 DEF Walked
<1>. QED
  BY <1>3, <1>17

\* Every other step leaves the report under way, or there is none after it.
LEMMA WalkPreserved ==
    ASSUME IInv, WalkInv, [Next]_vars
    PROVE  WalkInv'
<1>1. ASSUME pc' \notin {"report", "record"} PROVE WalkInv'
  BY <1>1 DEF WalkInv
<1>2. ASSUME LockFree, ThreadKeeps PROVE WalkInv'
  BY <1>1, <1>2 DEF LockFree, ThreadKeeps, threadVars
<1>3. CASE Client
  <2>1. ASSUME NEW s \in Sessions, NEW p \in Peers,
               AddCname(s, p) \/ DeleteCname(s, p) \/ MoveRemove(s, p)
        PROVE  WalkInv'
    BY <1>2, <2>1 DEF AddCname, DeleteCname, MoveRemove
  <2>2. CASE MoveReset
    <3>1. /\ ssrc' = [ssrc EXCEPT ![moving] = NoSsrc]
          /\ UNCHANGED <<members, pc, ses, mem, start_report_ssrc, outgoing_rtcp>>
      BY <2>2 DEF MoveReset, listVars, ThreadKeeps, threadVars, reportVars
    <3>2. ASSUME pc \in {"report", "record"}, NEW m \in In(ses) PROVE ssrc'[m] = ssrc[m]
      <4>1. ses \in Sessions
        BY <3>2 DEF IInv, Reporting
      <4>2. moving \notin In(ses) /\ m \in Members
        BY <4>1, InTyped, ListsTyped DEF IInv, MembershipInv, GoneUnlisted
      <4>. QED
        BY <3>1, <4>2 DEF IInv, TypeOK
    <3>. QED
      BY <3>1, <3>2, WalkStays
  <2>3. CASE MoveFind
    <3>1. UNCHANGED <<members, ssrc, pc, ses, mem, start_report_ssrc, outgoing_rtcp>>
      BY <2>3 DEF MoveFind, listVars, memberVars, ThreadKeeps, threadVars, reportVars
    <3>. QED
      BY <3>1, WalkStays
  <2>4. CASE MoveAdd
    BY <1>2, <2>4 DEF MoveAdd
  <2>. QED
    BY <1>3, <2>1, <2>2, <2>3, <2>4 DEF Client
<1>4. CASE Thread
  <2>1. ASSUME NEW p \in Peers, NEW x \in Ssrcs, RtcpComes(p, x) PROVE WalkInv'
    <3>1. pc' \in {"idle", "found"}
      BY <2>1 DEF RtcpComes, Collides, Identifies
    <3>. QED
      BY <1>1, <3>1
  <2>2. ASSUME NEW p \in Peers, NEW x \in Ssrcs, CrashUnknown(p, x) PROVE WalkInv'
    BY <1>1, <2>2 DEF CrashUnknown, Crash
  <2>3. CASE RtcpGoesOn
    BY <1>1, <2>3 DEF RtcpGoesOn, CrashFreed, Crash, RtcpKnown, RtcpValidates, Done
  <2>4. ASSUME NEW s \in Sessions, ReportBegins(s) PROVE WalkInv'
    BY <1>1, <2>4 DEF ReportBegins
  <2>5. CASE ReportGoesOn
    <3>1. CASE ReportNobody \/ CrashLeft \/ ReportRecord
      BY <1>1, <3>1 DEF ReportNobody, CrashLeft, Crash, ReportRecord, Done
    <3>2. CASE ReportLock
      BY <3>2, WalkBegins
    <3>3. CASE ReportOne
      BY <3>3, WalkGoesOn
    <3>. QED
      BY <2>5, <3>1, <3>2, <3>3 DEF ReportGoesOn
  <2>. QED
    BY <1>4, <2>1, <2>2, <2>3, <2>4, <2>5 DEF Thread
<1>5. CASE UNCHANGED vars
  <2>1. UNCHANGED <<members, ssrc, pc, ses, mem, start_report_ssrc, outgoing_rtcp>>
    BY <1>5 DEF vars, listVars, memberVars, threadVars, reportVars
  <2>. QED
    BY <2>1, WalkStays
<1>. QED
  BY <1>3, <1>4, <1>5 DEF Next

\* session_report, with moves and packets in between: where the ssrcs tell the
\* members apart it is about guests of the session, and about none of them twice.
THEOREM ReportedOnce == Spec => []OutgoingGuests
<1>1. Init => WalkInv
  BY DEF Init, WalkInv
<1>2. IInv /\ WalkInv /\ [Next]_vars => WalkInv'
  BY WalkPreserved
<1>3. IInv /\ WalkInv => OutgoingGuests
  BY WalkShowsGuests
<1>. QED
  BY <1>1, <1>2, <1>3, Invariance, PTL DEF Spec

=============================================================================
