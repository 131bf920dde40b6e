------------------------------ MODULE ItemList ------------------------------
(***************************************************************************)
(* What libtmdbase/list.h promises its callers: a sequence of items, the   *)
(* calls on it and what each of them returns.  XList implements it with    *)
(* nodes and pointers.                                                     *)
(***************************************************************************)
EXTENDS Naturals, SequencesExt

CONSTANTS
    Items,   \* addresses of what callers keep in lists
    KeyOf,   \* what a cmp or match function compares of an item
    NULL

Keys == {KeyOf[x] : x \in Items}

VARIABLES
    items,   \* the list, first item first
    call     \* the last call: its name, its argument and what it returned

vars == <<items, call>>

Returns(op, arg, ret) == call' = <<op, arg, ret>>

HasKey(k) == {i \in DOMAIN items : KeyOf[items[i]] = k}
Larger(k) == {i \in DOMAIN items : KeyOf[items[i]] > k}
FirstOfKey(k) == IF HasKey(k) = {} THEN NULL ELSE items[Min(HasKey(k))]

\* The items in S leave, and the others keep their order.
Leave(S) ==
    \E e \in [DOMAIN items' -> DOMAIN items] :
        /\ \A i, j \in DOMAIN e : i < j => e[i] < e[j]
        /\ \A i \in DOMAIN items : (\E j \in DOMAIN e : e[j] = i) <=> items[i] \notin S
        /\ items' = [j \in DOMAIN e |-> items[e[j]]]

Init == items = <<>> /\ call = <<"new", NULL, "OS_OK">>

-----------------------------------------------------------------------------
AddtoFirst(x) == Returns("addto_first", x, "OS_OK") /\ items' = <<x>> \o items

AddtoLast(x) == Returns("addto_last", x, "OS_OK") /\ items' = Append(items, x)

AddOnce(x) ==
    /\ Returns("add_once", x, "OS_OK")
    /\ items' = IF x \in ToSet(items) THEN items ELSE Append(items, x)

\* "If item with same value, no addition occurred".
AddonceAscent(x) ==
    /\ Returns("addonce_ascent", x, "OS_OK")
    /\ items' = IF HasKey(KeyOf[x]) # {} THEN items
                ELSE InsertAt(items, Min(Larger(KeyOf[x]) \union {Len(items) + 1}), x)

\* An addition without memory changes nothing.
NoMemory(x) ==
    /\ \E op \in {"addto_first", "addto_last", "add_once", "addonce_ascent"} :
          \E e \in {"OS_EMEM", "OS_FAIL"} : Returns(op, x, e)
    /\ UNCHANGED items

RemoveHead ==
    \/ items = <<>> /\ Returns("remove_first", NULL, NULL) /\ UNCHANGED items
    \/ items # <<>> /\ Returns("remove_first", NULL, Head(items)) /\ items' = Tail(items)

RemoveItem(x) ==
    /\ Returns("remove_item", x, IF x \in ToSet(items) THEN "OS_OK" ELSE "OS_INVALID")
    /\ Leave({x})

RemoveMatch(k) ==
    /\ Returns("remove", k, FirstOfKey(k))
    /\ items' = IF HasKey(k) = {} THEN items ELSE RemoveAt(items, Min(HasKey(k)))

DeleteAt(index) ==
    /\ Returns("delete_at", index, IF index < Len(items) THEN "OS_OK" ELSE "OS_FAIL")
    /\ items' = IF index < Len(items) THEN RemoveAt(items, index + 1) ELSE items

DeleteIf(k) ==
    /\ Returns("delete_if", k, "OS_OK")
    /\ Leave({y \in Items : KeyOf[y] = k})

Reset == Returns("reset", NULL, "OS_OK") /\ items' = <<>>

Find(k) == Returns("find", k, FirstOfKey(k)) /\ UNCHANGED items

At(index) ==
    /\ Returns("at", index, IF index < Len(items) THEN items[index + 1] ELSE NULL)
    /\ UNCHANGED items

Size == Returns("size", NULL, Len(items)) /\ UNCHANGED items

\* A walk goes from item to item of the list; in what order is XList's to say.
First == Returns("first", NULL, IF items = <<>> THEN NULL ELSE Head(items)) /\ UNCHANGED items

Step ==
    /\ \E y \in ToSet(items) \union {NULL} : Returns("next", NULL, y)
    /\ UNCHANGED items

Next ==
    \/ \E x \in Items : \/ AddtoFirst(x) \/ AddtoLast(x) \/ AddOnce(x) \/ AddonceAscent(x)
                        \/ NoMemory(x) \/ RemoveItem(x)
    \/ \E k \in Keys : RemoveMatch(k) \/ DeleteIf(k) \/ Find(k)
    \/ \E index \in 0 .. Len(items) : DeleteAt(index) \/ At(index)
    \/ RemoveHead \/ Reset \/ Size \/ First \/ Step

Spec == Init /\ [][Next]_vars

=============================================================================
