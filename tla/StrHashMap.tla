----------------------------- MODULE StrHashMap -----------------------------
(***************************************************************************)
(* The string-keyed hash map of src/std/collections/hashmap.mc: linear     *)
(* probing, growth by rehashing and backward-shift deletion, with a client *)
(* that may keep one pointer returned by strmap_get and write through it.  *)
(*                                                                         *)
(* A key is a model value; what fnv1a makes of it is an arbitrary number   *)
(* chosen in the initial state.  The code starts with StartCap = 8 slots.  *)
(* An empty slot's key and value are never read and are left out.          *)
(*                                                                         *)
(* The loops of strmap_grow and strmap_del take a step per iteration; a    *)
(* call runs to its end before the client does anything else.              *)
(***************************************************************************)
EXTENDS Integers, FiniteSets, TLC

CONSTANTS Keys, Vals,
          HashValues,     \* values fnv1a may return
          StartCap,       \* capacity of the first table
          HoldAcrossDel,  \* does the client keep its pointer when it
                          \* deletes another key?
          Empty,          \* a slot with used = false
          NoPtr

Entry(k, v) == [key |-> k, val |-> v]
Entries == {Entry(k, v) : k \in Keys, v \in Vals}
Pointer(k, i) == [key |-> k, index |-> i]
Pointers == [key : Keys, index : Nat]

ASSUME StrHashMapAssumption ==
    /\ HashValues \subseteq Nat
    /\ StartCap \in Nat \ {0, 1}
    /\ HoldAcrossDel \in BOOLEAN
    /\ Empty \notin Entries
    /\ NoPtr \notin Pointers

VARIABLES
    hash,    \* what fnv1a returns for a key; never changes
    slots,   \* the table: 0 .. cap - 1 -> entry or Empty
    len, cap,
    ptr,     \* the pointer the client holds: key asked for and slot index
    frame    \* the locals of the call in progress

vars == <<hash, slots, len, cap, ptr, frame>>

\* Between calls; strmap_put with strmap_grow under way; strmap_put behind it;
\* strmap_del in its loop.
NoFrame == [op |-> "none"]
GrowFrame(k, v, newslots, newcap, i) ==
    [op |-> "grow", key |-> k, val |-> v, newslots |-> newslots, newcap |-> newcap, i |-> i]
PutFrame(k, v) == [op |-> "put", key |-> k, val |-> v]
DelFrame(start, hole, j) == [op |-> "del", start |-> start, hole |-> hole, j |-> j]

Indices(c) == 0 .. c - 1
NewSlots(c) == [i \in Indices(c) |-> Empty]

Init ==
    /\ hash \in [Keys -> HashValues]
    /\ slots = NewSlots(0)
    /\ len = 0
    /\ cap = 0
    /\ ptr = NoPtr
    /\ frame = NoFrame

\* The slots of a table of c slots from slot h on, around its end.
Along(h, n, c) == (h + n) % c

Home(k, c) == hash[k] % c

\* The first slot on the key's probe path that is empty or has the key.
strmap_probe(s, c, k) ==
    LET at(n) == Along(Home(k, c), n, c)
        stops(n) == s[at(n)] = Empty \/ s[at(n)].key = k
    IN  at(CHOOSE n \in Indices(c) : stops(n) /\ \A m \in 0 .. n - 1 : ~stops(m))

Present(k) == cap # 0 /\ slots[strmap_probe(slots, cap, k)] # Empty

----------------------------------------------------------------------------
(* strmap_put and strmap_grow.                                             *)

\* Would one more entry exceed three quarters of the table?
MustGrow == (len + 1) * 4 > cap * 3

\* The end of strmap_put: the slot where the probe ends gets the entry.
Insert(k, v) ==
    LET i == strmap_probe(slots, cap, k)
    IN  /\ slots' = [slots EXCEPT ![i] = Entry(k, v)]
        /\ len' = IF slots[i] = Empty THEN len + 1 ELSE len
        /\ frame' = NoFrame
        /\ UNCHANGED <<hash, cap, ptr>>

strmap_put(k, v) ==
    /\ frame = NoFrame
    /\ ~MustGrow
    /\ Insert(k, v)

GrowBegin(k, v) ==
    /\ frame = NoFrame
    /\ MustGrow
    /\ LET newcap == IF cap = 0 THEN StartCap ELSE cap * 2
       IN  frame' = GrowFrame(k, v, NewSlots(newcap), newcap, 0)
    /\ UNCHANGED <<hash, slots, len, cap, ptr>>

\* Mutant of Rehash: an entry goes to its home slot in the new table.
RehashHome ==
    /\ frame.op = "grow" /\ frame.i < cap
    /\ LET old == slots[frame.i]
           s == IF old = Empty THEN frame.newslots
                ELSE [frame.newslots EXCEPT ![Home(old.key, frame.newcap)] = old]
       IN  frame' = GrowFrame(frame.key, frame.val, s, frame.newcap, frame.i + 1)
    /\ UNCHANGED <<hash, slots, len, cap, ptr>>

\* One slot of the old table.
Rehash ==
    /\ frame.op = "grow" /\ frame.i < cap
    /\ LET old == slots[frame.i]
           s == IF old = Empty THEN frame.newslots
                ELSE [frame.newslots EXCEPT
                        ![strmap_probe(frame.newslots, frame.newcap, old.key)] = old]
       IN  frame' = GrowFrame(frame.key, frame.val, s, frame.newcap, frame.i + 1)
    /\ UNCHANGED <<hash, slots, len, cap, ptr>>

\* The old table is freed; the client knows that its pointer is void.
GrowEnd ==
    /\ frame.op = "grow" /\ frame.i = cap
    /\ slots' = frame.newslots
    /\ cap' = frame.newcap
    /\ ptr' = NoPtr
    /\ frame' = PutFrame(frame.key, frame.val)
    /\ UNCHANGED <<hash, len>>

PutGrown ==
    /\ frame.op = "put"
    /\ Insert(frame.key, frame.val)

----------------------------------------------------------------------------
(* strmap_del.                                                             *)

\* A key that is absent changes nothing.
strmap_del(k) ==
    /\ frame = NoFrame
    /\ Present(k)
    /\ LET start == strmap_probe(slots, cap, k)
       IN  /\ slots' = [slots EXCEPT ![start] = Empty]
           /\ frame' = DelFrame(start, start, start)
    /\ len' = len - 1
    /\ ptr' = IF ptr # NoPtr /\ (ptr.key = k \/ ~HoldAcrossDel) THEN NoPtr ELSE ptr
    /\ UNCHANGED <<hash, cap>>

\* How far slot i is from slot h, around the end of the table.
Dist(i, h, c) == ((i + c) - h) % c

\* Mutant of OnPath: no entry of the cluster is moved.
NoEntry(hole, j) == FALSE

\* Is the hole on the probe path of the entry at j?
OnPath(hole, j) ==
    LET home == Home(slots[j].key, cap)
    IN  Dist(hole, home, cap) < Dist(j, home, cap)

\* One slot of the cluster behind the hole: an entry whose probe path passes the
\* hole moves there; an empty slot ends the call.
ShiftNext ==
    /\ frame.op = "del"
    /\ LET j == Along(frame.j, 1, cap)
       IN  \/ /\ slots[j] = Empty
              /\ frame' = NoFrame
              /\ slots' = slots
           \/ /\ slots[j] # Empty /\ OnPath(frame.hole, j)
              /\ slots' = [slots EXCEPT ![frame.hole] = slots[j], ![j] = Empty]
              /\ frame' = DelFrame(frame.start, j, j)
           \/ /\ slots[j] # Empty /\ ~OnPath(frame.hole, j)
              /\ slots' = slots
              /\ frame' = DelFrame(frame.start, frame.hole, j)
    /\ UNCHANGED <<hash, len, cap, ptr>>

----------------------------------------------------------------------------

strmap_free ==
    /\ frame = NoFrame
    /\ cap # 0
    /\ slots' = NewSlots(0)
    /\ len' = 0
    /\ cap' = 0
    /\ ptr' = NoPtr
    /\ UNCHANGED <<hash, frame>>

\* Mutant of strmap_get: the home slot of the key, without probing.
GetHome(k) ==
    /\ frame = NoFrame
    /\ Present(k)
    /\ ptr' = Pointer(k, Home(k, cap))
    /\ UNCHANGED <<hash, slots, len, cap, frame>>

\* The client keeps the pointer to the value of k.
strmap_get(k) ==
    /\ frame = NoFrame
    /\ Present(k)
    /\ ptr' = Pointer(k, strmap_probe(slots, cap, k))
    /\ UNCHANGED <<hash, slots, len, cap, frame>>

\* The client writes through its pointer.
WriteThrough(v) ==
    /\ frame = NoFrame
    /\ ptr # NoPtr
    /\ slots' = IF slots[ptr.index] = Empty THEN slots
                ELSE [slots EXCEPT ![ptr.index] = Entry(slots[ptr.index].key, v)]
    /\ UNCHANGED <<hash, len, cap, ptr, frame>>

Next ==
    \/ \E k \in Keys, v \in Vals : strmap_put(k, v) \/ GrowBegin(k, v)
    \/ Rehash \/ GrowEnd \/ PutGrown
    \/ \E k \in Keys : strmap_del(k) \/ strmap_get(k)
    \/ ShiftNext
    \/ \E v \in Vals : WriteThrough(v)
    \/ strmap_free

Spec == Init /\ [][Next]_vars

\* Keys are only compared, and Init gives them every choice of hash values.
KeySymmetry == Permutations(Keys)

----------------------------------------------------------------------------
(* Properties.                                                             *)

UsedIn(s, c) == {i \in Indices(c) : s[i] # Empty}
Used == UsedIn(slots, cap)

\* The keys with an entry, and their values.
Bound == {slots[i].key : i \in Used}
Bindings == [k \in Bound |-> slots[CHOOSE i \in Used : slots[i].key = k].val]

(***************************************************************************)
(* Every entry is where probing for its key ends, so that no key is in the *)
(* table twice and none is hidden behind a hole that strmap_del or a grow  *)
(* left ("This keeps probe chains gap-free"), a key without an entry is    *)
(* not found, and len counts the entries.  (strmap_del repairs the probe   *)
(* paths while it runs.)                                                   *)
(***************************************************************************)
EntriesReachable ==
    /\ frame.op # "del" =>
          /\ \A i \in Used : strmap_probe(slots, cap, slots[i].key) = i
          /\ \A k \in Keys : Present(k) <=> k \in Bound
    /\ len = Cardinality(Used)

(***************************************************************************)
(* A probe always comes to an end before its `unreachable`: "an empty slot *)
(* always exists", since a quarter of the table stays free, and in the     *)
(* table that strmap_grow fills, too.  The loop of strmap_del ends: there  *)
(* is an empty slot ahead of it before it comes round to its start.        *)
(***************************************************************************)
RoomToProbe ==
    /\ cap # 0 => len * 4 <= cap * 3 /\ Used # Indices(cap)
    /\ frame.op = "grow" => UsedIn(frame.newslots, frame.newcap) # Indices(frame.newcap)
    /\ frame.op = "del" =>
          \E i \in Indices(cap) : /\ slots[i] = Empty
                                  /\ Dist(i, frame.start, cap) > Dist(frame.j, frame.start, cap)

\* Every key that was put is found and every loop ends, after any calls.
Searchable == EntriesReachable /\ RoomToProbe

Map == INSTANCE StrMap WITH map <- Bindings

\* What each step does to the map of the entries.
MapSteps ==
    /\ \A k \in Keys, v \in Vals : /\ strmap_put(k, v) => Map!Put(k, v)
                                   /\ GrowBegin(k, v) => Map!Same
    /\ Rehash \/ GrowEnd \/ ShiftNext => Map!Same
    /\ PutGrown => Map!Put(frame.key, frame.val)
    /\ \A k \in Keys : /\ strmap_del(k) => Map!Del(k)
                       /\ strmap_get(k) => Map!Same
    /\ \A v \in Vals : WriteThrough(v) => Map!Put(ptr.key, v)
    /\ strmap_free => Map!Free

(***************************************************************************)
(* The entries are a finite map and every call does to it what it says:    *)
(* put binds its key and changes no other, del removes its key and no      *)
(* other, a write through the pointer that strmap_get returned rebinds the *)
(* key it was asked for, and neither a grow nor the backward shift changes *)
(* what any key is bound to.                                               *)
(***************************************************************************)
ImplementsMap == Map!New /\ [][MapSteps]_vars

(***************************************************************************)
(* "The pointer returned by strmap_get is valid until the next insert that *)
(* triggers a grow": through any number of puts that do not grow it points *)
(* to the entry of the key asked for.  It is false for a client that       *)
(* deletes another key meanwhile (HoldAcrossDel), because strmap_del moves *)
(* entries of the same cluster into the hole.                              *)
(***************************************************************************)
PointerValid ==
    ptr # NoPtr => slots[ptr.index] # Empty /\ slots[ptr.index].key = ptr.key
============================================================================
