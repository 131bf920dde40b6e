------------------------------- MODULE XList -------------------------------
(***************************************************************************)
(* The linked list of libtmdbase/list.c, in which the program keeps its    *)
(* sessions, members, packets and frames: nodes from xmalloc, the head,    *)
(* the end and the count of struct xlist_s, and one cursor (xlist_user_t). *)
(* A call is one step, as its callers hold a lock or own the list.         *)
(*                                                                         *)
(* Only xlist_addto_last sets `end', and no removal looks at it.  The      *)
(* callers of the lists modelled here keep apart what that keeps apart:    *)
(*   queue   what is to send or to play: in at the end, out at the head    *)
(*   chain   sessions, members, ports, devices, modules: never addto_last  *)
(*   sorted  delivery_buffer: addonce_ascent, out at the head              *)
(***************************************************************************)
EXTENDS Naturals, FiniteSetsExt

CONSTANTS
    Items,   \* addresses of what callers keep in lists
    KeyOf,   \* what a cmp or match function compares of an item
    Nodes,   \* the memory for nodes
    NULL,
    Kinds    \* the uses a run looks at, of {"queue", "chain", "sorted"}

ASSUME ListAssumption ==
    /\ NULL \notin Nodes \union Items
    /\ IsFiniteSet(Nodes)
    /\ KeyOf \in [Items -> Nat]
    /\ Kinds \subseteq {"queue", "chain", "sorted"}

Keys == {KeyOf[x] : x \in Items}

NoneMet == [x \in Items |-> 0]

VARIABLES
    kind,
    head, end, num,      \* struct xlist_s
    next, data,          \* struct xlist_node_s, of each node
    live,                \* the nodes that are allocated
    curr,                \* struct xlist_user_s
    walk, met, owed,     \* the walk with that cursor, how often it met an item, and those it should
    call                 \* the last call: its name, its argument and what it returned

listVars == <<head, end, num, next, data, live>>
walkVars == <<curr, walk, met, owed>>
vars == <<kind, listVars, walkVars, call>>

Init ==
    /\ kind \in Kinds
    /\ head = NULL /\ end = NULL /\ num = 0
    /\ next = [n \in Nodes |-> NULL] /\ data = [n \in Nodes |-> NULL] /\ live = {}
    /\ curr = NULL /\ walk = "none" /\ met = NoneMet /\ owed = {}
    /\ call = <<"new", NULL, "OS_OK">>

-----------------------------------------------------------------------------
(***************************************************************************)
(* Going from node to node: Nth[k] is where `curr' is after k steps from   *)
(* the head, and the loops of list.c stop at the first k that hits.        *)
(***************************************************************************)
Nth == LET f[k \in 0 .. Cardinality(Nodes)] ==
               IF k = 0 THEN head ELSE IF f[k - 1] = NULL THEN NULL ELSE next[f[k - 1]]
       IN  f

Places == {k \in DOMAIN Nth : Nth[k] # NULL}
ItemAt(k) == data[Nth[k]]
Hits(S) == {k \in Places : ItemAt(k) \in S}
Length == Cardinality(Places)

OfKey(k) == Hits({y \in Items : KeyOf[y] = k})

Returns(op, arg, ret) == call' = <<op, arg, ret>>

-----------------------------------------------------------------------------
(***************************************************************************)
(* Additions.  A node comes zeroed from _xrtp_list_newnode.                *)
(***************************************************************************)
NoNode == live = Nodes

Fill(n, x) ==
    /\ n \notin live
    /\ live' = live \union {n}
    /\ data' = [data EXCEPT ![n] = x]

\* Node n goes in behind k others.
InsertNode(n, k) ==
    IF k = 0 THEN head' = n /\ next' = [next EXCEPT ![n] = head]
    ELSE /\ next' = [next EXCEPT ![n] = next[Nth[k - 1]], ![Nth[k - 1]] = n]
         /\ UNCHANGED head

AddsAt(x, k) ==
    /\ \E n \in Nodes : Fill(n, x) /\ InsertNode(n, k)
    /\ num' = num + 1
    /\ UNCHANGED end

AddNeeds(kinds) == kind \in kinds /\ UNCHANGED <<kind, walkVars>>

AddtoFirst(x) ==
    /\ AddNeeds({"chain"})
    /\ Hits({x}) = {}
    /\ AddsAt(x, 0)
    /\ Returns("addto_first", x, "OS_OK")

\* Mutant of LinkLast: the end stays where it was.
LinkLastEndStays(n) ==
    IF num = 0 THEN head' = n /\ end' = n /\ next' = [next EXCEPT ![n] = NULL]
    ELSE /\ next' = [next EXCEPT ![n] = NULL, ![end] = n]
         /\ UNCHANGED <<head, end>>

LinkLast(n) ==
    IF num = 0 THEN head' = n /\ end' = n /\ next' = [next EXCEPT ![n] = NULL]
    ELSE /\ next' = [next EXCEPT ![n] = NULL, ![end] = n]
         /\ end' = n
         /\ UNCHANGED head

AddtoLast(x) ==
    /\ AddNeeds({"queue"})
    /\ Hits({x}) = {}
    /\ \E n \in Nodes : Fill(n, x) /\ LinkLast(n)
    /\ num' = num + 1
    /\ Returns("addto_last", x, "OS_OK")

AddOnce(x) ==
    /\ AddNeeds({"chain"})
    /\ IF Hits({x}) = {} THEN AddsAt(x, Length) ELSE UNCHANGED listVars
    /\ Returns("add_once", x, "OS_OK")

\* Mutant of AscentPlace: an item goes behind the first of a larger key.
AscentPlaceBehind(x) ==
    LET S == Hits({y \in Items : KeyOf[y] >= KeyOf[x]}) IN IF S = {} THEN Length ELSE Min(S) + 1

\* Where xlist_addonce_ascent stops: at the first item that is not smaller.
AscentPlace(x) ==
    LET S == Hits({y \in Items : KeyOf[y] >= KeyOf[x]}) IN IF S = {} THEN Length ELSE Min(S)

AddonceAscent(x) ==
    /\ AddNeeds({"sorted"})
    /\ LET k == AscentPlace(x) IN
       IF k \in Places /\ KeyOf[ItemAt(k)] = KeyOf[x] THEN UNCHANGED listVars ELSE AddsAt(x, k)
    /\ Returns("addonce_ascent", x, "OS_OK")

NoMemory(x) ==
    /\ NoNode
    /\ \/ kind = "chain" /\ Hits({x}) = {}
          /\ (Returns("addto_first", x, "OS_EMEM") \/ Returns("add_once", x, "OS_FAIL"))
       \/ kind = "queue" /\ Hits({x}) = {} /\ Returns("addto_last", x, "OS_EMEM")
       \/ kind = "sorted" /\ OfKey(KeyOf[x]) = {} /\ Returns("addonce_ascent", x, "OS_EMEM")
    /\ UNCHANGED <<kind, listVars, walkVars>>

-----------------------------------------------------------------------------
(***************************************************************************)
(* Removals, of the places in the set K.  A caller whose own walk stands   *)
(* on a removed node breaks off; an item that is removed is owed no more.  *)
(***************************************************************************)
NextKept(k, K) == LET S == {j \in Places \ K : j > k} IN IF S = {} THEN NULL ELSE Nth[Min(S)]

\* What a freed node held is lost.
Freed(K) == {Nth[k] : k \in K}
Clear(K) ==
    /\ live' = live \ Freed(K)
    /\ data' = [n \in Nodes |-> IF n \in Freed(K) THEN NULL ELSE data[n]]

\* Mutant of Unlink: the node before the removed one becomes the last.
UnlinkCuts(K) ==
    /\ head' = IF 0 \in K THEN NextKept(0, K) ELSE head
    /\ next' = [n \in Nodes |->
                  IF n \in Freed(K) \/ (\E k \in Places \ K : Nth[k] = n /\ k + 1 \in K) THEN NULL
                  ELSE next[n]]

Unlink(K) ==
    /\ head' = IF 0 \in K THEN NextKept(0, K) ELSE head
    /\ next' = [n \in Nodes |->
                  IF n \in Freed(K) THEN NULL
                  ELSE IF \E k \in Places \ K : Nth[k] = n /\ k + 1 \in K
                    THEN NextKept(CHOOSE k \in Places : Nth[k] = n, K)
                    ELSE next[n]]

WalkForgets(K) ==
    LET gone == {ItemAt(k) : k \in K} IN
    IF walk = "walking" /\ curr \in Freed(K) THEN curr' = NULL /\ walk' = "none" /\ met' = NoneMet /\ owed' = {}
    ELSE /\ met' = [x \in Items |-> IF x \in gone THEN 0 ELSE met[x]]
         /\ owed' = owed \ gone
         /\ UNCHANGED <<curr, walk>>

Removes(K) ==
    /\ Unlink(K)
    /\ num' = num - Cardinality(K)
    /\ Clear(K)
    /\ WalkForgets(K)
    /\ UNCHANGED <<kind, end>>

NothingRemoved == UNCHANGED <<kind, listVars, walkVars>>

RemoveHead ==
    \/ head = NULL /\ NothingRemoved /\ Returns("remove_first", NULL, NULL)
    \/ head # NULL /\ Removes({0}) /\ Returns("remove_first", NULL, data[head])

RemoveFirstHit(S) == IF num = 0 \/ S = {} THEN NothingRemoved ELSE Removes({Min(S)})

RemoveItem(x) ==
    /\ kind = "chain"
    /\ LET S == Hits({x}) IN
       /\ RemoveFirstHit(S)
       /\ Returns("remove_item", x, IF num = 0 \/ S = {} THEN "OS_INVALID" ELSE "OS_OK")

RemoveMatch(k) ==
    /\ kind = "chain"
    /\ RemoveFirstHit(OfKey(k))
    /\ Returns("remove", k, IF num = 0 \/ OfKey(k) = {} THEN NULL ELSE ItemAt(Min(OfKey(k))))

DeleteAt(index) ==
    /\ kind = "chain"
    /\ IF num # 0 /\ index \in Places
         THEN Removes({index}) /\ Returns("delete_at", index, "OS_OK")
         ELSE NothingRemoved /\ Returns("delete_at", index, "OS_FAIL")

DeleteIf(k) ==
    /\ kind = "chain"
    /\ IF num = 0 THEN NothingRemoved ELSE Removes(OfKey(k))
    /\ Returns("delete_if", k, "OS_OK")

\* Every node is freed, and the three fields start again.
Reset ==
    /\ Clear(Places)
    /\ next' = [n \in Nodes |-> NULL]
    /\ head' = NULL /\ end' = NULL /\ num' = 0
    /\ WalkForgets(Places)
    /\ UNCHANGED kind
    /\ Returns("reset", NULL, "OS_OK")

-----------------------------------------------------------------------------
(***************************************************************************)
(* Calls that only read.                                                   *)
(***************************************************************************)
Reads == UNCHANGED <<kind, listVars, walkVars>>

Find(k) ==
    /\ Reads
    /\ Returns("find", k, IF num = 0 \/ OfKey(k) = {} THEN NULL ELSE ItemAt(Min(OfKey(k))))

At(index) ==
    /\ Reads
    /\ Returns("at", index, IF num # 0 /\ index \in Places THEN ItemAt(index) ELSE NULL)

Size == Reads /\ Returns("size", NULL, num)

(***************************************************************************)
(* A walk with xlist_first and xlist_next.                                 *)
(***************************************************************************)
WalkKeeps == UNCHANGED <<kind, listVars>>

WalkFirst ==
    /\ walk = "none"
    /\ IF num = 0 THEN walk' = "ended" /\ UNCHANGED <<curr, met, owed>> /\ Returns("first", NULL, NULL)
       ELSE /\ curr' = head
            /\ walk' = "walking"
            /\ met' = [met EXCEPT ![data[head]] = @ + 1]
            /\ owed' = {ItemAt(k) : k \in Places}
            /\ Returns("first", NULL, data[head])
    /\ WalkKeeps

\* Mutant of WalkNext: the caller tests for a node behind the one it goes to.
WalkNextStopsEarly ==
    /\ walk = "walking"
    /\ IF next[curr] = NULL \/ next[next[curr]] = NULL
         THEN walk' = "ended" /\ curr' = NULL /\ UNCHANGED <<met, owed>> /\ Returns("next", NULL, NULL)
         ELSE /\ curr' = next[curr]
              /\ met' = [met EXCEPT ![data[next[curr]]] = @ + 1]
              /\ UNCHANGED <<walk, owed>>
              /\ Returns("next", NULL, data[next[curr]])
    /\ WalkKeeps

WalkNext ==
    /\ walk = "walking"
    /\ IF next[curr] = NULL
         THEN walk' = "ended" /\ curr' = NULL /\ UNCHANGED <<met, owed>> /\ Returns("next", NULL, NULL)
         ELSE /\ curr' = next[curr]
              /\ met' = [met EXCEPT ![data[next[curr]]] = @ + 1]
              /\ UNCHANGED <<walk, owed>>
              /\ Returns("next", NULL, data[next[curr]])
    /\ WalkKeeps

\* The caller is done with its cursor.
WalkDropped ==
    /\ walk = "ended"
    /\ walk' = "none" /\ met' = NoneMet /\ owed' = {}
    /\ UNCHANGED <<curr, call>>
    /\ WalkKeeps

Next ==
    \/ \E x \in Items : \/ AddtoFirst(x) \/ AddtoLast(x) \/ AddOnce(x) \/ AddonceAscent(x)
                        \/ NoMemory(x) \/ RemoveItem(x)
    \/ \E k \in Keys : RemoveMatch(k) \/ DeleteIf(k) \/ Find(k)
    \/ \E index \in 0 .. num : DeleteAt(index) \/ At(index)
    \/ RemoveHead \/ Reset \/ Size
    \/ WalkFirst \/ WalkNext \/ WalkDropped

Spec == Init /\ [][Next]_vars

-----------------------------------------------------------------------------
(***************************************************************************)
(* Types, and what a list is: num nodes from the head, all allocated and   *)
(* none twice, and no other node is left allocated.                        *)
(***************************************************************************)
TypeOK ==
    /\ {head, end, curr} \subseteq Nodes \union {NULL}
    /\ num \in 0 .. Cardinality(Nodes)
    /\ next \in [Nodes -> Nodes \union {NULL}]
    /\ data \in [Nodes -> Items \union {NULL}]
    /\ walk \in {"none", "walking", "ended"}
    /\ met \in [Items -> Nat] /\ owed \subseteq Items
    /\ num = Length
    /\ live = {Nth[k] : k \in Places}

Ordered == [k \in 1 .. Length |-> ItemAt(k - 1)]

(***************************************************************************)
(* Every call returns and leaves behind what list.h promises of a sequence *)
(* of items, through any succession of calls, with nodes that are freed    *)
(* and given out again while `end' still points to them.                   *)
(***************************************************************************)
Abstract == INSTANCE ItemList WITH items <- Ordered

ListIsSequence == Abstract!Spec

(***************************************************************************)
(* A walk that comes to its end has met once each item that was in the     *)
(* list from its beginning on, whatever was added and whichever others     *)
(* were removed meanwhile; and it stands on allocated nodes only.          *)
(***************************************************************************)
WalkMeetsEach ==
    /\ walk = "walking" => curr \in live
    /\ walk = "ended" => \A x \in owed : met[x] > 0
    /\ \A x \in Items : met[x] <= 1

=============================================================================
