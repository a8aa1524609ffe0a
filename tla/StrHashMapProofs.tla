-------------------------- MODULE StrHashMapProofs --------------------------
(***************************************************************************)
(* The hash map finds what was put and implements a finite map, for any    *)
(* set of keys, any hash of them, any first capacity and any number of     *)
(* calls.                                                                  *)
(***************************************************************************)
EXTENDS StrHashMap, FiniteSetTheorems, WellFoundedInduction, TLAPS

USE StrHashMapAssumption

----------------------------------------------------------------------------
(* Going around the table.                                                 *)

\* How far slot i is ahead of slot h.
Far(i, h, c) == IF h <= i THEN i - h ELSE i + c - h

LEMMA ModSmall ==
  ASSUME NEW c \in Nat \ {0}, NEW x \in 0 .. c - 1
  PROVE  x % c = x
OBVIOUS

LEMMA ModOnce ==
  ASSUME NEW c \in Nat \ {0}, NEW x \in c .. 2 * c - 1
  PROVE  x % c = x - c
OBVIOUS

LEMMA ModIndex ==
  ASSUME NEW c \in Nat \ {0}, NEW x \in Nat
  PROVE  x % c \in Indices(c)
BY DEF Indices

LEMMA DistFar ==
  ASSUME NEW c \in Nat \ {0}, NEW i \in Indices(c), NEW h \in Indices(c)
  PROVE  Dist(i, h, c) = Far(i, h, c)
<1>1. CASE h <= i
  <2>1. (i + c) - h \in c .. 2 * c - 1
    BY <1>1 DEF Indices
  <2>2. ((i + c) - h) % c = ((i + c) - h) - c
    BY <2>1, ModOnce
  <2> QED BY <1>1, <2>2 DEF Dist, Far, Indices
<1>2. CASE ~(h <= i)
  <2>1. (i + c) - h \in 0 .. c - 1
    BY <1>2 DEF Indices
  <2> QED BY <1>2, <2>1, ModSmall DEF Dist, Far, Indices
<1> QED BY <1>1, <1>2

LEMMA AlongIs ==
  ASSUME NEW c \in Nat \ {0}, NEW h \in Indices(c), NEW n \in Indices(c)
  PROVE  /\ Along(h, n, c) \in Indices(c)
         /\ Along(h, n, c) = IF h + n < c THEN h + n ELSE h + n - c
<1>1. CASE h + n < c
  BY <1>1, ModSmall DEF Along, Indices
<1>2. CASE ~(h + n < c)
  <2>1. h + n \in c .. 2 * c - 1
    BY <1>2 DEF Indices
  <2> QED BY <1>2, <2>1, ModOnce DEF Along, Indices
<1> QED BY <1>1, <1>2

LEMMA FarAlong ==
  ASSUME NEW c \in Nat \ {0}, NEW h \in Indices(c), NEW n \in Indices(c)
  PROVE  Far(Along(h, n, c), h, c) = n
<1>1. Along(h, n, c) = IF h + n < c THEN h + n ELSE h + n - c
  BY AlongIs
<1> QED BY <1>1 DEF Far, Indices

LEMMA FarIndex ==
  ASSUME NEW c \in Nat \ {0}, NEW i \in Indices(c), NEW h \in Indices(c)
  PROVE  Far(i, h, c) \in Indices(c) /\ Far(i, h, c) \in Nat
BY DEF Far, Indices

LEMMA AlongFar ==
  ASSUME NEW c \in Nat \ {0}, NEW i \in Indices(c), NEW h \in Indices(c)
  PROVE  Along(h, Far(i, h, c), c) = i
<1> DEFINE n == Far(i, h, c)
<1>1. n \in Indices(c)
  BY FarIndex
<1>2. Along(h, n, c) = IF h + n < c THEN h + n ELSE h + n - c
  BY <1>1, AlongIs
<1> QED BY <1>2 DEF Far, Indices

LEMMA FarOneSlot ==
  ASSUME NEW c \in Nat \ {0}, NEW h \in Indices(c), NEW i \in Indices(c), NEW j \in Indices(c),
         Far(i, h, c) = Far(j, h, c)
  PROVE  i = j
BY DEF Far, Indices

\* Slot m comes before slot i on the way from slot h.
Before(h, m, i, c) == Far(m, h, c) < Far(i, h, c)

LEMMA Least ==
  ASSUME NEW T, T \subseteq Nat, T # {}
  PROVE  \E x \in T : \A y \in T : x <= y
<1>1. PICK x \in T : \A y \in T : <<y, x>> \notin OpToRel(<, Nat)
  BY NatLessThanWellFounded, WFMin, Zenon
<1>2. \A y \in T : ~(y < x)
  BY <1>1 DEF OpToRel
<1> QED BY <1>2

----------------------------------------------------------------------------
(* Probing.                                                                *)

Cells == Entries \cup {Empty}
HomeIn(g, k, c) == g[k] % c

\* Where probing for k ends: no slot before that one ends it.
ProbeEnd(g, s, c, k, i) ==
  /\ i \in Indices(c)
  /\ s[i] = Empty \/ s[i].key = k
  /\ \A m \in Indices(c) : Before(HomeIn(g, k, c), m, i, c) => s[m] # Empty /\ s[m].key # k

LEMMA HomeIndex ==
  ASSUME NEW g \in [Keys -> HashValues], NEW k \in Keys, NEW c \in Nat \ {0}
  PROVE  HomeIn(g, k, c) \in Indices(c)
<1>1. g[k] \in Nat
  OBVIOUS
<1> QED BY <1>1, ModIndex DEF HomeIn

\* With an empty slot in the table, the loop of strmap_probe returns.
LEMMA ProbeEnds ==
  ASSUME hash \in [Keys -> HashValues], NEW k \in Keys, NEW c \in Nat \ {0},
         NEW s, NEW e \in Indices(c), s[e] = Empty
  PROVE  ProbeEnd(hash, s, c, k, strmap_probe(s, c, k))
<1> DEFINE h == Home(k, c)
           at(n) == Along(h, n, c)
           stops(n) == s[at(n)] = Empty \/ s[at(n)].key = k
           T == {n \in Indices(c) : stops(n)}
           first(n) == stops(n) /\ \A m \in 0 .. n - 1 : ~stops(m)
           x == CHOOSE n \in Indices(c) : first(n)
<1>1. h \in Indices(c) /\ h = HomeIn(hash, k, c)
  BY HomeIndex DEF Home, HomeIn
<1>2. Far(e, h, c) \in T
  <2> HIDE DEF h
  <2>1. Far(e, h, c) \in Indices(c) /\ at(Far(e, h, c)) = e
    BY <1>1, FarIndex, AlongFar
  <2> QED BY <2>1
<1>3. PICK n \in T : \A m \in T : n <= m
  <2>1. T \subseteq Nat /\ T # {}
    BY <1>2 DEF Indices
  <2> HIDE DEF T
  <2> QED BY <2>1, Least
<1>4. first(n)
  <2>1. \A m \in 0 .. n - 1 : m \in Indices(c) /\ ~(n <= m)
    BY <1>3 DEF Indices
  <2> QED BY <1>3, <2>1
<1>5. x \in Indices(c) /\ first(x)
  <2> HIDE DEF first
  <2> QED BY <1>3, <1>4
<1>6. strmap_probe(s, c, k) = at(x)
  BY DEF strmap_probe
<1> HIDE DEF x, h
<1>7. at(x) \in Indices(c) /\ Far(at(x), h, c) = x
  BY <1>1, <1>5, AlongIs, FarAlong
<1>8. ASSUME NEW m \in Indices(c), Far(m, h, c) < Far(at(x), h, c)
      PROVE  s[m] # Empty /\ s[m].key # k
  <2>1. Far(m, h, c) \in Indices(c) /\ at(Far(m, h, c)) = m
    BY <1>1, FarIndex, AlongFar
  <2>2. Far(m, h, c) \in 0 .. x - 1
    BY <1>5, <1>7, <1>8, <2>1 DEF Indices
  <2>3. ~stops(Far(m, h, c))
    BY <1>5, <2>2
  <2> QED BY <2>1, <2>3
<1>9. s[at(x)] = Empty \/ s[at(x)].key = k
  BY <1>5
<1> QED BY <1>1, <1>6, <1>7, <1>8, <1>9 DEF ProbeEnd, Before

----------------------------------------------------------------------------
(* Tables.                                                                 *)

Table(s, c) == s \in [Indices(c) -> Cells]

Distinct(s, c) == \A i, j \in UsedIn(s, c) : s[i].key = s[j].key => i = j

\* Probe paths have no gap: there is no empty slot between the home of an entry
\* and the entry.
Reach(g, s, c) ==
  \A i \in UsedIn(s, c) : \A m \in Indices(c) :
    Before(HomeIn(g, s[i].key, c), m, i, c) => s[m] # Empty

LEMMA EntryParts ==
  /\ \A e \in Entries : e.key \in Keys /\ e.val \in Vals /\ e # Empty
  /\ \A k \in Keys, v \in Vals : /\ Entry(k, v) \in Entries
                                 /\ Entry(k, v).key = k /\ Entry(k, v).val = v
BY DEF Entries, Entry

LEMMA UsedEntry ==
  ASSUME NEW s, NEW c, Table(s, c), NEW i \in UsedIn(s, c)
  PROVE  i \in Indices(c) /\ s[i] \in Entries /\ s[i].key \in Keys /\ s[i] # Empty
BY EntryParts DEF Table, UsedIn, Cells

LEMMA ProbeFinds ==
  ASSUME NEW g \in [Keys -> HashValues], NEW c \in Nat \ {0}, NEW s,
         Table(s, c), Distinct(s, c), Reach(g, s, c),
         NEW i \in UsedIn(s, c), NEW p, ProbeEnd(g, s, c, s[i].key, p)
  PROVE  p = i
<1> DEFINE h == HomeIn(g, s[i].key, c)
<1>1. i \in Indices(c) /\ s[i] # Empty /\ s[i].key \in Keys /\ p \in Indices(c)
  BY UsedEntry DEF ProbeEnd
<1>2. h \in Indices(c)
  BY <1>1, HomeIndex
<1>3. /\ s[p] = Empty \/ s[p].key = s[i].key
      /\ Before(h, i, p, c) => s[i].key # s[i].key
  BY <1>1 DEF ProbeEnd
<1>4. Before(h, p, i, c) => s[p] # Empty
  BY <1>1 DEF Reach
<1>5. CASE s[p] # Empty
  BY <1>1, <1>3, <1>5 DEF Distinct, UsedIn
<1>6. CASE s[p] = Empty
  <2> HIDE DEF h
  <2>1. Far(i, h, c) \in Nat /\ Far(p, h, c) \in Nat
    BY <1>1, <1>2, FarIndex
  <2>2. Far(i, h, c) = Far(p, h, c)
    BY <1>3, <1>4, <1>6, <2>1 DEF Before
  <2> QED BY <1>1, <1>2, <2>2, FarOneSlot
<1> QED BY <1>5, <1>6

\* The slot where probing for k ends is the slot of k, or no slot has k.
LEMMA ProbeTells ==
  ASSUME NEW g \in [Keys -> HashValues], NEW c \in Nat \ {0}, NEW s,
         Table(s, c), Distinct(s, c), Reach(g, s, c),
         NEW k \in Keys, NEW p, ProbeEnd(g, s, c, k, p)
  PROVE  /\ p \in Indices(c)
         /\ \A i \in UsedIn(s, c) : s[i].key = k <=> i = p
<1>1. p \in Indices(c) /\ (s[p] = Empty \/ s[p].key = k)
  BY DEF ProbeEnd
<1>2. ASSUME NEW i \in UsedIn(s, c), s[i].key = k PROVE i = p
  <2>1. ProbeEnd(g, s, c, s[i].key, p)
    BY <1>2
  <2> QED BY <2>1, ProbeFinds
<1> QED BY <1>1, <1>2 DEF UsedIn

\* Slot p gets the entry e; the other entries have other keys.
Written(s, t, c, p, e) ==
  /\ p \in Indices(c)
  /\ UsedIn(t, c) = UsedIn(s, c) \cup {p}
  /\ t[p] = e /\ \A i \in Indices(c) \ {p} : t[i] = s[i]
  /\ \A i \in UsedIn(s, c) : s[i].key = e.key <=> i = p

\* The entry that Insert and Rehash write.
LEMMA Inserted ==
  ASSUME NEW g \in [Keys -> HashValues], NEW c \in Nat \ {0}, NEW s,
         Table(s, c), Distinct(s, c), Reach(g, s, c),
         NEW e \in Entries, NEW p, ProbeEnd(g, s, c, e.key, p),
         NEW t, t = [s EXCEPT ![p] = e]
  PROVE  Table(t, c) /\ Distinct(t, c) /\ Reach(g, t, c) /\ Written(s, t, c, p, e)
<1>1. /\ p \in Indices(c) /\ \A i \in UsedIn(s, c) : s[i].key = e.key <=> i = p
      /\ e.key \in Keys /\ e # Empty
  BY ProbeTells, EntryParts
<1>2. t[p] = e /\ \A i \in Indices(c) \ {p} : t[i] = s[i]
  BY <1>1 DEF Table
<1>3. Table(t, c)
  BY <1>1 DEF Table, Cells
<1>4. UsedIn(t, c) = UsedIn(s, c) \cup {p}
  BY <1>1, <1>2 DEF UsedIn
<1>5. Distinct(t, c)
  BY <1>1, <1>2, <1>4 DEF Distinct, UsedIn
<1>6. ASSUME NEW i \in UsedIn(t, c), NEW m \in Indices(c),
             Before(HomeIn(g, t[i].key, c), m, i, c)
      PROVE  t[m] # Empty
  <2>1. CASE i = p
    <3>1. s[m] # Empty
      BY <1>2, <1>6, <2>1 DEF ProbeEnd
    <3> QED BY <1>1, <1>2, <3>1
  <2>2. CASE i # p
    <3>1. i \in UsedIn(s, c) /\ t[i] = s[i]
      BY <1>2, <1>4, <2>2 DEF UsedIn
    <3>2. s[m] # Empty
      BY <1>6, <3>1 DEF Reach
    <3> QED BY <1>1, <1>2, <3>2
  <2> QED BY <2>1, <2>2
<1>7. Reach(g, t, c)
  BY <1>6 DEF Reach
<1> QED BY <1>1, <1>2, <1>3, <1>4, <1>5, <1>7 DEF Written

LEMMA UsedCount ==
  ASSUME NEW c \in Nat, NEW s
  PROVE  /\ IsFiniteSet(UsedIn(s, c)) /\ Cardinality(UsedIn(s, c)) \in Nat
         /\ Cardinality(UsedIn(s, c)) < c => \E e \in Indices(c) : s[e] = Empty
<1>1. IsFiniteSet(Indices(c)) /\ Cardinality(Indices(c)) = c
  BY FS_Interval DEF Indices
<1>2. UsedIn(s, c) \in SUBSET Indices(c)
  BY DEF UsedIn
<1>3. IsFiniteSet(UsedIn(s, c))
  BY <1>1, <1>2, FS_Subset
<1>4. Cardinality(UsedIn(s, c)) \in Nat
  BY <1>3, FS_CardinalityType
<1>5. (\A e \in Indices(c) : s[e] # Empty) => UsedIn(s, c) = Indices(c)
  BY DEF UsedIn
<1> QED BY <1>1, <1>3, <1>4, <1>5

----------------------------------------------------------------------------
(* The backward shift.                                                     *)

LEMMA FarSelf ==
  ASSUME NEW c \in Nat \ {0}, NEW i \in Indices(c), NEW h \in Indices(c)
  PROVE  Far(h, h, c) = 0 /\ (i # h => Far(i, h, c) > 0)
BY DEF Far, Indices

LEMMA FarNext ==
  ASSUME NEW c \in Nat \ {0, 1}, NEW j \in Indices(c), NEW h \in Indices(c)
  PROVE  /\ Along(j, 1, c) \in Indices(c)
         /\ Along(j, 1, c) # h => Far(Along(j, 1, c), h, c) = Far(j, h, c) + 1
         /\ Along(j, 1, c) = h => \A i \in Indices(c) : Far(i, h, c) <= Far(j, h, c)
<1>1. 1 \in Indices(c)
  BY DEF Indices
<1>2. /\ Along(j, 1, c) \in Indices(c)
      /\ Along(j, 1, c) = IF j + 1 < c THEN j + 1 ELSE j + 1 - c
  BY <1>1, AlongIs
<1> QED BY <1>2 DEF Far, Indices

LEMMA FarBetween ==
  ASSUME NEW c \in Nat \ {0}, NEW h \in Indices(c), NEW p \in Indices(c),
         NEW n \in Indices(c), NEW i \in Indices(c),
         Before(h, p, i, c), Before(p, n, i, c)
  PROVE  Before(h, n, i, c)
BY DEF Before, Far, Indices

\* Every path is gap-free but for the hole.
HoleReach(g, s, c, hole) ==
  \A i \in UsedIn(s, c) : \A m \in Indices(c) :
    Before(HomeIn(g, s[i].key, c), m, i, c) => s[m] # Empty \/ m = hole

\* The entries whose paths pass the hole are all ahead of the cursor.
Ahead(g, s, c, hole, j) ==
  \A i \in UsedIn(s, c) : Before(HomeIn(g, s[i].key, c), hole, i, c) => Before(hole, j, i, c)

\* An empty slot ends the loop before it is round.
EndAhead(s, c, start, j) ==
  \E q \in Indices(c) : s[q] = Empty /\ Before(start, j, q, c)

HoleInv(g, s, c, start, hole, j) ==
  /\ start \in Indices(c) /\ hole \in Indices(c) /\ j \in Indices(c)
  /\ s[hole] = Empty
  /\ ~Before(start, j, hole, c)
  /\ HoleReach(g, s, c, hole)
  /\ Ahead(g, s, c, hole, j)
  /\ EndAhead(s, c, start, j)

\* Slot p loses its entry.
Removed(s, t, c, p) ==
  /\ p \in UsedIn(s, c)
  /\ UsedIn(t, c) = UsedIn(s, c) \ {p}
  /\ \A i \in Indices(c) \ {p} : t[i] = s[i]

\* The entry of slot n moves to slot p.
Moved(s, t, c, p, n) ==
  /\ p \notin UsedIn(s, c) /\ n \in UsedIn(s, c)
  /\ UsedIn(t, c) = (UsedIn(s, c) \ {n}) \cup {p}
  /\ t[p] = s[n] /\ \A i \in Indices(c) \ {p, n} : t[i] = s[i]

LEMMA Opened ==
  ASSUME NEW g \in [Keys -> HashValues], NEW c \in Nat \ {0}, NEW s,
         Table(s, c), Distinct(s, c), Reach(g, s, c),
         NEW p \in UsedIn(s, c), NEW e \in Indices(c), s[e] = Empty,
         NEW t, t = [s EXCEPT ![p] = Empty]
  PROVE  /\ Table(t, c) /\ Distinct(t, c) /\ HoleInv(g, t, c, p, p, p)
         /\ Removed(s, t, c, p)
<1>1. p \in Indices(c) /\ s[p] # Empty
  BY UsedEntry
<1>2. t[p] = Empty /\ \A i \in Indices(c) \ {p} : t[i] = s[i]
  BY <1>1 DEF Table
<1>3. Table(t, c)
  BY <1>1 DEF Table, Cells
<1>4. UsedIn(t, c) = UsedIn(s, c) \ {p}
  BY <1>1, <1>2 DEF UsedIn
<1>5. \A i \in UsedIn(t, c) : i \in UsedIn(s, c) /\ i \in Indices(c) /\ i # p /\ t[i] = s[i]
  BY <1>2, <1>4 DEF UsedIn
<1>6. Distinct(t, c)
  BY <1>5 DEF Distinct
<1>7. \A i \in Indices(c) : i # p => Before(p, p, i, c)
  BY <1>1, FarSelf DEF Before
<1>8. HoleReach(g, t, c, p)
  BY <1>2, <1>5 DEF HoleReach, Reach
<1>9. Ahead(g, t, c, p, p)
  BY <1>5, <1>7 DEF Ahead
<1>10. EndAhead(t, c, p, p)
  BY <1>1, <1>2, <1>7 DEF EndAhead
<1>11. ~Before(p, p, p, c)
  BY <1>1, FarSelf DEF Before
<1> QED BY <1>1, <1>2, <1>3, <1>4, <1>6, <1>8, <1>9, <1>10, <1>11 DEF HoleInv, Removed

\* The cursor advances past a slot that is not the one it is compared with.
LEMMA CursorNext ==
  ASSUME NEW c \in Nat \ {0, 1}, NEW j \in Indices(c), NEW h \in Indices(c), NEW i \in Indices(c),
         Before(h, j, i, c), NEW n, n = Along(j, 1, c)
  PROVE  /\ n \in Indices(c) /\ n # h /\ Before(h, j, n, c)
         /\ i # n => Before(h, n, i, c)
<1>1. /\ n \in Indices(c)
      /\ n # h => Far(n, h, c) = Far(j, h, c) + 1
      /\ n = h => Far(i, h, c) <= Far(j, h, c)
  BY FarNext
<1>2. Far(i, h, c) \in Nat /\ Far(j, h, c) \in Nat /\ Far(j, h, c) < Far(i, h, c)
  BY FarIndex DEF Before
<1>3. n # h /\ Far(n, h, c) = Far(j, h, c) + 1
  BY <1>1, <1>2
<1>4. i # n => Far(i, h, c) # Far(n, h, c)
  BY <1>1, FarOneSlot
<1> QED BY <1>1, <1>2, <1>3, <1>4 DEF Before

\* The loop stops at an empty slot: no path passes the hole any more.
LEMMA ShiftEnds ==
  ASSUME NEW g \in [Keys -> HashValues], NEW c \in Nat \ {0, 1}, NEW s, Table(s, c),
         NEW start, NEW p, NEW j, HoleInv(g, s, c, start, p, j),
         s[Along(j, 1, c)] = Empty
  PROVE  Reach(g, s, c)
<1> DEFINE n == Along(j, 1, c)
<1>1. SUFFICES ASSUME NEW i \in UsedIn(s, c), NEW m \in Indices(c),
                      Before(HomeIn(g, s[i].key, c), m, i, c), s[m] = Empty
               PROVE  FALSE
  BY DEF Reach
<1> DEFINE h == HomeIn(g, s[i].key, c)
<1>2. i \in Indices(c) /\ s[i].key \in Keys /\ s[i] # Empty
  BY UsedEntry
<1>3. h \in Indices(c)
  BY <1>2, HomeIndex
<1>4. p \in Indices(c) /\ j \in Indices(c) /\ m = p
  BY <1>1 DEF HoleInv, HoleReach
<1>5. Before(h, p, i, c) /\ Before(p, j, i, c)
  BY <1>1, <1>4 DEF HoleInv, Ahead
<1>6. n \in Indices(c) /\ n # p /\ Before(p, n, i, c)
  <2> HIDE DEF h
  <2>1. i # n
    BY <1>2
  <2> QED BY <1>2, <1>4, <1>5, <2>1, CursorNext
<1>7. Before(h, n, i, c)
  <2> HIDE DEF h, n
  <2> QED BY <1>2, <1>3, <1>4, <1>5, <1>6, FarBetween
<1> QED BY <1>6, <1>7 DEF HoleInv, HoleReach

\* The slot that ends the loop stays ahead of the cursor.
LEMMA EndStays ==
  ASSUME NEW c \in Nat \ {0, 1}, NEW s, NEW start \in Indices(c), NEW j \in Indices(c),
         EndAhead(s, c, start, j), NEW n, n = Along(j, 1, c), s[n] # Empty
  PROVE  n \in Indices(c) /\ Before(start, j, n, c) /\ EndAhead(s, c, start, n)
<1>1. PICK q \in Indices(c) : s[q] = Empty /\ Before(start, j, q, c)
  BY DEF EndAhead
<1>2. n \in Indices(c) /\ Before(start, j, n, c) /\ (q # n => Before(start, n, q, c))
  BY <1>1, CursorNext
<1>3. q # n
  BY <1>1
<1> QED BY <1>1, <1>2, <1>3 DEF EndAhead

\* An entry whose path does not pass the hole stays where it is.
LEMMA ShiftSkips ==
  ASSUME NEW g \in [Keys -> HashValues], NEW c \in Nat \ {0, 1}, NEW s, Table(s, c),
         NEW start, NEW p, NEW j, HoleInv(g, s, c, start, p, j),
         NEW n, n = Along(j, 1, c), s[n] # Empty,
         ~Before(HomeIn(g, s[n].key, c), p, n, c)
  PROVE  HoleInv(g, s, c, start, p, n)
<1>1. /\ start \in Indices(c) /\ p \in Indices(c) /\ j \in Indices(c) /\ s[p] = Empty
      /\ ~Before(start, j, p, c) /\ HoleReach(g, s, c, p) /\ EndAhead(s, c, start, j)
  BY DEF HoleInv
<1>2. n \in Indices(c) /\ Before(start, j, n, c) /\ EndAhead(s, c, start, n)
  BY <1>1, EndStays
<1>3. ~Before(start, n, p, c)
  <2>1. /\ Far(j, start, c) \in Nat /\ Far(n, start, c) \in Nat /\ Far(p, start, c) \in Nat
    BY <1>1, <1>2, FarIndex
  <2> QED BY <1>1, <1>2, <2>1 DEF Before
<1>4. ASSUME NEW i \in UsedIn(s, c), Before(HomeIn(g, s[i].key, c), p, i, c)
      PROVE  Before(p, n, i, c)
  <2>1. i # n /\ i \in Indices(c)
    BY <1>4 DEF UsedIn
  <2>2. Before(p, j, i, c)
    BY <1>4 DEF HoleInv, Ahead
  <2> QED BY <1>1, <2>1, <2>2, CursorNext
<1> QED BY <1>1, <1>2, <1>3, <1>4 DEF HoleInv, Ahead

\* An entry whose path passes the hole moves into it and leaves the hole behind.
LEMMA ShiftMoves ==
  ASSUME NEW g \in [Keys -> HashValues], NEW c \in Nat \ {0, 1}, NEW s,
         Table(s, c), Distinct(s, c),
         NEW start, NEW p, NEW j, HoleInv(g, s, c, start, p, j),
         NEW n, n = Along(j, 1, c), s[n] # Empty,
         Before(HomeIn(g, s[n].key, c), p, n, c),
         NEW t, t = [s EXCEPT ![p] = s[n], ![n] = Empty]
  PROVE  /\ Table(t, c) /\ Distinct(t, c) /\ HoleInv(g, t, c, start, n, n)
         /\ Moved(s, t, c, p, n)
<1>1. /\ start \in Indices(c) /\ p \in Indices(c) /\ j \in Indices(c) /\ s[p] = Empty
      /\ ~Before(start, j, p, c) /\ HoleReach(g, s, c, p) /\ EndAhead(s, c, start, j)
  BY DEF HoleInv
<1>2. n \in Indices(c) /\ Before(start, j, n, c) /\ EndAhead(s, c, start, n)
  BY <1>1, EndStays
<1>3. n # p /\ p \notin UsedIn(s, c) /\ n \in UsedIn(s, c)
  BY <1>1, <1>2 DEF UsedIn
<1>4. t[p] = s[n] /\ t[n] = Empty /\ \A i \in Indices(c) \ {p, n} : t[i] = s[i]
  BY <1>1, <1>2, <1>3 DEF Table
<1>5. Table(t, c)
  BY <1>1, <1>2 DEF Table, Cells
<1>6. UsedIn(t, c) = (UsedIn(s, c) \ {n}) \cup {p}
  BY <1>1, <1>2, <1>3, <1>4 DEF UsedIn
<1>7. \A i \in UsedIn(t, c) : i = p \/ (i \in UsedIn(s, c) /\ i # n /\ i # p /\ t[i] = s[i])
  BY <1>4, <1>6 DEF UsedIn
<1>8. Distinct(t, c)
  <2>1. SUFFICES ASSUME NEW a \in UsedIn(t, c), NEW b \in UsedIn(t, c), t[a].key = t[b].key
                 PROVE  a = b
    BY DEF Distinct
  <2>2. PICK x \in UsedIn(s, c) : s[x] = t[a] /\ x = IF a = p THEN n ELSE a
    BY <1>3, <1>4, <1>7
  <2>3. PICK y \in UsedIn(s, c) : s[y] = t[b] /\ y = IF b = p THEN n ELSE b
    BY <1>3, <1>4, <1>7
  <2>4. x = y
    BY <2>1, <2>2, <2>3 DEF Distinct
  <2>5. (a = p \/ a # n) /\ (b = p \/ b # n)
    BY <1>7
  <2>6. x = (IF a = p THEN n ELSE a) /\ y = (IF b = p THEN n ELSE b)
    BY <2>2, <2>3
  <2> QED BY <2>4, <2>5, <2>6
<1>9. ASSUME NEW i \in UsedIn(t, c), NEW m \in Indices(c),
             Before(HomeIn(g, t[i].key, c), m, i, c), m # n
      PROVE  t[m] # Empty
  <2>1. m = p => t[m] # Empty
    BY <1>4
  <2>2. CASE i = p
    <3> DEFINE h == HomeIn(g, s[n].key, c)
    <3>1. s[n].key \in Keys
      BY <1>3, UsedEntry
    <3>2. h \in Indices(c)
      BY <3>1, HomeIndex
    <3>3. Before(h, m, p, c) /\ Before(h, p, n, c)
      BY <1>4, <1>9, <2>2
    <3>4. Before(h, m, n, c) /\ m # p
      <4> HIDE DEF h
      <4>1. Far(m, h, c) \in Nat /\ Far(n, h, c) \in Nat /\ Far(p, h, c) \in Nat
        BY <1>1, <1>2, <3>2, FarIndex
      <4> QED BY <3>3, <4>1 DEF Before
    <3>5. s[m] # Empty
      BY <1>1, <1>3, <3>4 DEF HoleReach
    <3> QED BY <1>4, <1>9, <2>1, <3>5
  <2>3. CASE i # p
    <3>1. i \in UsedIn(s, c) /\ t[i] = s[i]
      BY <1>7, <2>3
    <3>2. s[m] # Empty \/ m = p
      BY <1>1, <1>9, <3>1 DEF HoleReach
    <3> QED BY <1>4, <1>9, <2>1, <3>2
  <2> QED BY <2>2, <2>3
<1>10. HoleReach(g, t, c, n)
  BY <1>9 DEF HoleReach
<1>11. Ahead(g, t, c, n, n)
  <2>1. \A i \in UsedIn(t, c) : i \in Indices(c) /\ i # n
    BY <1>4 DEF UsedIn
  <2> QED BY <1>2, <2>1, FarSelf DEF Ahead, Before
<1>12. EndAhead(t, c, start, n)
  <2>1. PICK q \in Indices(c) : s[q] = Empty /\ Before(start, n, q, c)
    BY <1>2 DEF EndAhead
  <2>2. Far(j, start, c) \in Nat /\ Far(n, start, c) \in Nat /\ Far(q, start, c) \in Nat
    BY <1>1, <1>2, FarIndex
  <2>3. q # p
    BY <1>1, <1>2, <2>1, <2>2 DEF Before
  <2>4. q # n
    BY <2>1
  <2> QED BY <1>4, <2>1, <2>3, <2>4 DEF EndAhead
<1>13. ~Before(start, n, n, c)
  BY <1>1, <1>2, FarIndex DEF Before
<1>14. HoleInv(g, t, c, start, n, n)
  BY <1>1, <1>2, <1>4, <1>10, <1>11, <1>12, <1>13 DEF HoleInv
<1> QED BY <1>3, <1>4, <1>5, <1>6, <1>8, <1>14 DEF Moved

----------------------------------------------------------------------------
(* The entries as a map.                                                   *)

Contents(s, c) == {s[i] : i \in UsedIn(s, c)}

\* The entries of other keys.
Others(s, c, k) == {e \in Contents(s, c) : e.key # k}

MapOf(s, c) ==
  [k \in {s[i].key : i \in UsedIn(s, c)} |->
     s[CHOOSE i \in UsedIn(s, c) : s[i].key = k].val]

LEMMA BindingsMap == Bindings = MapOf(slots, cap) /\ (Bindings = MapOf(slots, cap))'
BY DEF Bindings, Bound, Used, MapOf

LEMMA MapOfContents ==
  ASSUME NEW s, NEW c, Distinct(s, c)
  PROVE  /\ DOMAIN MapOf(s, c) = {e.key : e \in Contents(s, c)}
         /\ \A e \in Contents(s, c) : MapOf(s, c)[e.key] = e.val
<1>1. DOMAIN MapOf(s, c) = {e.key : e \in Contents(s, c)}
  BY DEF MapOf, Contents
<1>2. ASSUME NEW i \in UsedIn(s, c) PROVE MapOf(s, c)[s[i].key] = s[i].val
  <2> DEFINE k == s[i].key
             a == CHOOSE x \in UsedIn(s, c) : s[x].key = k
  <2>1. a \in UsedIn(s, c) /\ s[a].key = k
    OBVIOUS
  <2>2. a = i
    <3> HIDE DEF a
    <3> QED BY <2>1 DEF Distinct
  <2>3. MapOf(s, c)[k] = s[a].val
    BY DEF MapOf
  <2> QED BY <2>2, <2>3
<1> QED BY <1>1, <1>2 DEF Contents

LEMMA MapOfFunction ==
  ASSUME NEW s, NEW c
  PROVE  MapOf(s, c) = [k \in DOMAIN MapOf(s, c) |-> MapOf(s, c)[k]]
BY DEF MapOf

LEMMA SameMap ==
  ASSUME NEW s, NEW c, NEW t, NEW d, Distinct(s, c), Distinct(t, d),
         Contents(s, c) = Contents(t, d)
  PROVE  MapOf(s, c) = MapOf(t, d)
<1>a. /\ DOMAIN MapOf(s, c) = {e.key : e \in Contents(s, c)}
      /\ \A e \in Contents(s, c) : MapOf(s, c)[e.key] = e.val
  BY MapOfContents
<1>b. /\ DOMAIN MapOf(t, d) = {e.key : e \in Contents(t, d)}
      /\ \A e \in Contents(t, d) : MapOf(t, d)[e.key] = e.val
  BY MapOfContents
<1>1. DOMAIN MapOf(s, c) = DOMAIN MapOf(t, d)
  BY <1>a, <1>b
<1>2. \A k \in DOMAIN MapOf(s, c) : MapOf(s, c)[k] = MapOf(t, d)[k]
  BY <1>a, <1>b
<1> QED BY <1>1, <1>2, MapOfFunction

LEMMA MapPut ==
  ASSUME NEW s, NEW c, NEW t, NEW d, Distinct(s, c), Distinct(t, d),
         NEW k \in Keys, NEW v \in Vals,
         Contents(t, d) = Others(s, c, k) \cup {Entry(k, v)}
  PROVE  MapOf(t, d) = [x \in DOMAIN MapOf(s, c) \cup {k} |->
                          IF x = k THEN v ELSE MapOf(s, c)[x]]
<1> DEFINE new == [x \in DOMAIN MapOf(s, c) \cup {k} |-> IF x = k THEN v ELSE MapOf(s, c)[x]]
<1>a. /\ DOMAIN MapOf(s, c) = {e.key : e \in Contents(s, c)}
      /\ \A e \in Contents(s, c) : MapOf(s, c)[e.key] = e.val
  BY MapOfContents
<1>b. /\ DOMAIN MapOf(t, d) = {e.key : e \in Contents(t, d)}
      /\ \A e \in Contents(t, d) : MapOf(t, d)[e.key] = e.val
  BY MapOfContents
<1>1. Entry(k, v).key = k /\ Entry(k, v).val = v
  BY EntryParts
<1>2. DOMAIN MapOf(t, d) = DOMAIN new
  BY <1>1, <1>a, <1>b DEF Others
<1>3. ASSUME NEW x \in DOMAIN MapOf(t, d) PROVE MapOf(t, d)[x] = new[x]
  <2>1. PICK e \in Contents(t, d) : e.key = x
    BY <1>a, <1>b DEF Others
  <2>2. MapOf(t, d)[x] = e.val
    BY <2>1, <1>a, <1>b DEF Others
  <2>3. CASE e = Entry(k, v)
    BY <1>1, <1>2, <2>1, <2>2, <2>3
  <2>4. CASE e \in Contents(s, c) /\ e.key # k
    <3>1. MapOf(s, c)[x] = e.val
      BY <2>1, <2>4, <1>a, <1>b
    <3> QED BY <1>2, <2>1, <2>2, <2>4, <3>1
  <2> QED BY <2>1, <2>3, <2>4 DEF Others
<1> QED BY <1>2, <1>3, MapOfFunction

Unbind(f, k) == [x \in DOMAIN f \ {k} |-> f[x]]

LEMMA MapDel ==
  ASSUME NEW s, NEW c, NEW t, NEW d, Distinct(s, c), Distinct(t, d),
         NEW k \in Keys,
         Contents(t, d) = Others(s, c, k)
  PROVE  MapOf(t, d) = Unbind(MapOf(s, c), k)
<1> DEFINE new == [x \in DOMAIN MapOf(s, c) \ {k} |-> MapOf(s, c)[x]]
<1>a. /\ DOMAIN MapOf(s, c) = {e.key : e \in Contents(s, c)}
      /\ \A e \in Contents(s, c) : MapOf(s, c)[e.key] = e.val
  BY MapOfContents
<1>b. /\ DOMAIN MapOf(t, d) = {e.key : e \in Contents(t, d)}
      /\ \A e \in Contents(t, d) : MapOf(t, d)[e.key] = e.val
  BY MapOfContents
<1>1. DOMAIN MapOf(t, d) = DOMAIN new
  BY <1>a, <1>b DEF Others
<1>2. ASSUME NEW x \in DOMAIN MapOf(t, d) PROVE MapOf(t, d)[x] = new[x]
  <2>1. PICK e \in Contents(t, d) : e.key = x
    BY <1>a, <1>b DEF Others
  <2>2. MapOf(t, d)[x] = e.val /\ MapOf(s, c)[x] = e.val
    BY <2>1, <1>a, <1>b DEF Others
  <2> QED BY <1>1, <2>2
<1> QED BY <1>1, <1>2, MapOfFunction DEF Unbind

LEMMA ContentsWritten ==
  ASSUME NEW s, NEW t, NEW c, NEW p, NEW e, Written(s, t, c, p, e)
  PROVE  Contents(t, c) = Others(s, c, e.key) \cup {e}
<1>0. /\ p \in Indices(c) /\ UsedIn(t, c) = UsedIn(s, c) \cup {p}
      /\ t[p] = e /\ \A i \in Indices(c) \ {p} : t[i] = s[i]
      /\ \A i \in UsedIn(s, c) : s[i].key = e.key <=> i = p
  BY DEF Written
<1>1. ASSUME NEW i \in UsedIn(t, c)
      PROVE  t[i] \in Others(s, c, e.key) \cup {e}
  <2>1. CASE i = p
    BY <1>0, <2>1
  <2>2. CASE i # p
    <3>1. i \in UsedIn(s, c) /\ i \in Indices(c)
      BY <1>0, <2>2 DEF UsedIn
    <3>2. t[i] = s[i] /\ s[i].key # e.key
      BY <1>0, <2>2, <3>1
    <3> QED BY <3>1, <3>2 DEF Contents, Others
  <2> QED BY <2>1, <2>2
<1>2. ASSUME NEW i \in UsedIn(s, c), s[i].key # e.key
      PROVE  i \in UsedIn(t, c) /\ t[i] = s[i]
  BY <1>0, <1>2 DEF UsedIn
<1>3. p \in UsedIn(t, c) /\ t[p] = e
  BY <1>0
<1>4. Contents(t, c) \subseteq Others(s, c, e.key) \cup {e}
  BY <1>1 DEF Contents, Others
<1>5. Others(s, c, e.key) \subseteq Contents(t, c)
  BY <1>2 DEF Contents, Others
<1>6. e \in Contents(t, c)
  BY <1>3 DEF Contents, Others
<1> QED BY <1>4, <1>5, <1>6

LEMMA ContentsOpened ==
  ASSUME NEW s, NEW t, NEW c, NEW p, Distinct(s, c), Removed(s, t, c, p)
  PROVE  Contents(t, c) = Others(s, c, s[p].key)
<1>1. ASSUME NEW i \in UsedIn(t, c)
      PROVE  t[i] \in Contents(s, c) /\ t[i].key # s[p].key
  <2>1. i \in UsedIn(s, c) /\ i # p /\ t[i] = s[i]
    BY DEF UsedIn, Removed
  <2>2. s[i].key # s[p].key
    BY <2>1 DEF Distinct, Removed
  <2> QED BY <2>1, <2>2 DEF Contents, Others
<1>2. ASSUME NEW i \in UsedIn(s, c), s[i].key # s[p].key
      PROVE  i \in UsedIn(t, c) /\ t[i] = s[i]
  BY <1>2 DEF UsedIn, Removed
<1>3. Contents(t, c) \subseteq Others(s, c, s[p].key)
  BY <1>1 DEF Contents, Others
<1>4. Others(s, c, s[p].key) \subseteq Contents(t, c)
  BY <1>2 DEF Contents, Others
<1> QED BY <1>3, <1>4

LEMMA ContentsMoved ==
  ASSUME NEW s, NEW t, NEW c, NEW p, NEW n, Moved(s, t, c, p, n)
  PROVE  Contents(t, c) = Contents(s, c)
<1>1. ASSUME NEW i \in UsedIn(t, c) PROVE t[i] \in Contents(s, c)
  <2>1. CASE i = p
    BY <2>1 DEF Contents, Moved
  <2>2. CASE i # p
    <3>1. i \in UsedIn(s, c) /\ t[i] = s[i]
      BY <2>2 DEF UsedIn, Moved
    <3> QED BY <3>1 DEF Contents
  <2> QED BY <2>1, <2>2
<1>2. ASSUME NEW i \in UsedIn(s, c) PROVE s[i] \in Contents(t, c)
  <2>1. CASE i = n
    BY <2>1 DEF Contents, Moved
  <2>2. CASE i # n
    <3>1. i \in UsedIn(t, c) /\ t[i] = s[i]
      BY <2>2 DEF UsedIn, Moved
    <3> QED BY <3>1 DEF Contents
  <2> QED BY <2>1, <2>2
<1>3. Contents(t, c) \subseteq Contents(s, c)
  BY <1>1 DEF Contents
<1>4. Contents(s, c) \subseteq Contents(t, c)
  BY <1>2 DEF Contents
<1> QED BY <1>3, <1>4

\* A write that keeps the key of its slot.
LEMMA Rewritten ==
  ASSUME NEW g, NEW c, NEW s, Table(s, c), Distinct(s, c), Reach(g, s, c),
         NEW p \in UsedIn(s, c), NEW e \in Entries, e.key = s[p].key,
         NEW t, t = [s EXCEPT ![p] = e]
  PROVE  Table(t, c) /\ Distinct(t, c) /\ Reach(g, t, c) /\ Written(s, t, c, p, e)
<1>1. p \in Indices(c) /\ s[p] # Empty /\ e # Empty
  BY UsedEntry, EntryParts
<1>2. t[p] = e /\ \A i \in Indices(c) \ {p} : t[i] = s[i]
  BY <1>1 DEF Table
<1>3. Table(t, c)
  BY <1>1 DEF Table, Cells
<1>4. UsedIn(t, c) = UsedIn(s, c)
  BY <1>1, <1>2 DEF UsedIn
<1>5. \A i \in UsedIn(s, c) : t[i].key = s[i].key
  BY <1>1, <1>2 DEF UsedIn
<1>6. Distinct(t, c)
  BY <1>4, <1>5 DEF Distinct
<1>7. \A m \in Indices(c) : s[m] # Empty => t[m] # Empty
  BY <1>1, <1>2
<1>8. Reach(g, t, c)
  BY <1>4, <1>5, <1>7 DEF Reach
<1>9. UsedIn(t, c) = UsedIn(s, c) \cup {p}
  BY <1>4
<1>10. \A i \in UsedIn(s, c) : s[i].key = e.key <=> i = p
  BY <1>1 DEF Distinct
<1> QED BY <1>1, <1>2, <1>3, <1>6, <1>8, <1>9, <1>10 DEF Written

----------------------------------------------------------------------------
(* The inductive invariant.                                                *)

TableInv ==
  /\ hash \in [Keys -> HashValues]
  /\ cap \in Nat \ {1}
  /\ Table(slots, cap) /\ Distinct(slots, cap)
  /\ len = Cardinality(UsedIn(slots, cap))
  /\ len * 4 <= cap * 3
  /\ ptr # NoPtr => ptr.index \in Indices(cap)

\* What strmap_grow has copied so far are the first slots of the table.
GrowInv(g, s, c, f) ==
  /\ f.key \in Keys /\ f.val \in Vals
  /\ f.i \in 0 .. c
  /\ f.newcap = IF c = 0 THEN StartCap ELSE c * 2
  /\ Table(f.newslots, f.newcap) /\ Distinct(f.newslots, f.newcap)
  /\ Reach(g, f.newslots, f.newcap)
  /\ Contents(f.newslots, f.newcap) = Contents(s, f.i)
  /\ Cardinality(UsedIn(f.newslots, f.newcap)) = Cardinality(UsedIn(s, f.i))

FrameInv ==
  /\ frame.op \in {"none", "grow", "put", "del"}
  /\ frame.op # "del" => Reach(hash, slots, cap)
  /\ frame.op = "grow" => GrowInv(hash, slots, cap, frame)
  /\ frame.op = "put" => /\ frame.key \in Keys /\ frame.val \in Vals
                         /\ (len + 1) * 4 <= cap * 3
  /\ frame.op = "del" => /\ cap # 0
                         /\ HoleInv(hash, slots, cap, frame.start, frame.hole, frame.j)

MapInv == TableInv /\ FrameInv

\* A quarter of the table is free.
LEMMA RoomLeft ==
  ASSUME TableInv, cap # 0
  PROVE  \E e \in Indices(cap) : slots[e] = Empty
<1>1. cap \in Nat /\ len = Cardinality(UsedIn(slots, cap)) /\ len * 4 <= cap * 3
  BY DEF TableInv
<1>2. len \in Nat
  BY <1>1, UsedCount
<1>3. Cardinality(UsedIn(slots, cap)) < cap
  BY <1>1, <1>2
<1> QED BY <1>1, <1>3, UsedCount

\* Probing the table.
LEMMA MapProbe ==
  ASSUME TableInv, cap # 0, NEW k \in Keys
  PROVE  ProbeEnd(hash, slots, cap, k, strmap_probe(slots, cap, k))
<1>1. PICK e \in Indices(cap) : slots[e] = Empty
  BY RoomLeft
<1>2. hash \in [Keys -> HashValues] /\ cap \in Nat \ {0}
  BY DEF TableInv
<1> QED BY <1>1, <1>2, ProbeEnds

\* The end of strmap_put.
LEMMA InsertInv ==
  ASSUME TableInv, FrameInv, frame.op # "del", (len + 1) * 4 <= cap * 3,
         NEW k \in Keys, NEW v \in Vals, Insert(k, v)
  PROVE  /\ TableInv' /\ FrameInv'
         /\ Written(slots, slots', cap, strmap_probe(slots, cap, k), Entry(k, v))
<1> DEFINE p == strmap_probe(slots, cap, k)
           e == Entry(k, v)
<1>1. /\ slots' = [slots EXCEPT ![p] = e]
      /\ len' = IF slots[p] = Empty THEN len + 1 ELSE len
      /\ frame' = NoFrame /\ hash' = hash /\ cap' = cap /\ ptr' = ptr
  BY DEF Insert
<1>2. /\ hash \in [Keys -> HashValues] /\ cap \in Nat \ {1}
      /\ Table(slots, cap) /\ Distinct(slots, cap) /\ Reach(hash, slots, cap)
      /\ len = Cardinality(UsedIn(slots, cap)) /\ len * 4 <= cap * 3
      /\ ptr # NoPtr => ptr.index \in Indices(cap)
  BY DEF TableInv, FrameInv
<1>3. IsFiniteSet(UsedIn(slots, cap)) /\ len \in Nat
  BY <1>2, UsedCount
<1>4. cap \in Nat \ {0}
  BY <1>2, <1>3
<1>5. e \in Entries /\ e.key = k
  BY EntryParts
<1>6. ProbeEnd(hash, slots, cap, e.key, p)
  BY <1>4, <1>5, MapProbe
<1> HIDE DEF e, p
<1>7. /\ Table(slots', cap) /\ Distinct(slots', cap) /\ Reach(hash, slots', cap)
      /\ Written(slots, slots', cap, p, e)
  BY <1>1, <1>2, <1>4, <1>5, <1>6, Inserted
<1>8. p \in Indices(cap) /\ UsedIn(slots', cap) = UsedIn(slots, cap) \cup {p}
  BY <1>7 DEF Written
<1>9. slots[p] = Empty <=> p \notin UsedIn(slots, cap)
  BY <1>8 DEF UsedIn
<1>10. len' = Cardinality(UsedIn(slots', cap))
  BY <1>1, <1>2, <1>3, <1>8, <1>9, FS_AddElement
<1>11. len' * 4 <= cap * 3
  BY <1>1, <1>2, <1>3
<1>12. TableInv'
  BY <1>1, <1>2, <1>7, <1>10, <1>11 DEF TableInv
<1>13. FrameInv'
  BY <1>1, <1>7 DEF FrameInv, NoFrame
<1> QED BY <1>7, <1>12, <1>13 DEF p, e

\* A table without entries.
LEMMA NewTable ==
  ASSUME NEW g, NEW c \in Nat, NEW s, s = NewSlots(c)
  PROVE  /\ Table(s, c) /\ Distinct(s, c) /\ Reach(g, s, c)
         /\ UsedIn(s, c) = {} /\ Contents(s, c) = {} /\ Cardinality(UsedIn(s, c)) = 0
<1>1. s \in [Indices(c) -> Cells] /\ \A i \in Indices(c) : s[i] = Empty
  BY DEF NewSlots, Cells
<1>2. UsedIn(s, c) = {}
  BY <1>1 DEF UsedIn
<1>3. Cardinality(UsedIn(s, c)) = 0
  BY <1>2, FS_EmptySet
<1> QED BY <1>1, <1>2, <1>3 DEF Table, Distinct, Reach, Contents

LEMMA InitMapInv == Init => MapInv
<1> SUFFICES ASSUME Init PROVE MapInv
  OBVIOUS
<1>1. /\ hash \in [Keys -> HashValues] /\ slots = NewSlots(0) /\ len = 0 /\ cap = 0
      /\ ptr = NoPtr /\ frame = NoFrame
  BY DEF Init
<1>2. /\ Table(slots, cap) /\ Distinct(slots, cap) /\ Reach(hash, slots, cap)
      /\ Cardinality(UsedIn(slots, cap)) = 0
  BY <1>1, NewTable
<1>3. TableInv
  BY <1>1, <1>2 DEF TableInv
<1>4. FrameInv
  BY <1>1, <1>2 DEF FrameInv, NoFrame
<1> QED BY <1>3, <1>4 DEF MapInv

LEMMA GrowBeginInv ==
  ASSUME MapInv, NEW k \in Keys, NEW v \in Vals, GrowBegin(k, v)
  PROVE  MapInv'
<1> DEFINE c == IF cap = 0 THEN StartCap ELSE cap * 2
<1>1. /\ frame = NoFrame /\ frame' = GrowFrame(k, v, NewSlots(c), c, 0)
      /\ hash' = hash /\ slots' = slots /\ len' = len /\ cap' = cap /\ ptr' = ptr
  BY DEF GrowBegin
<1>2. cap \in Nat /\ c \in Nat /\ Reach(hash, slots, cap)
  BY <1>1 DEF MapInv, TableInv, FrameInv, NoFrame
<1> DEFINE n == NewSlots(c)
<1>3. /\ Table(n, c) /\ Distinct(n, c) /\ Reach(hash, n, c)
      /\ Contents(n, c) = {} /\ Cardinality(UsedIn(n, c)) = 0
  BY <1>2, NewTable
<1>4. UsedIn(slots, 0) = {}
  BY DEF UsedIn, Indices
<1>5. Contents(slots, 0) = {} /\ Cardinality(UsedIn(slots, 0)) = 0
  BY <1>4, FS_EmptySet DEF Contents
<1>6. /\ frame'.op = "grow" /\ frame'.key = k /\ frame'.val = v
      /\ frame'.newslots = n /\ frame'.newcap = c /\ frame'.i = 0
  BY <1>1 DEF GrowFrame
<1>7. 0 \in 0 .. cap
  BY <1>2
<1>8. c = IF cap = 0 THEN StartCap ELSE cap * 2
  OBVIOUS
<1> HIDE DEF c, n
<1>9. GrowInv(hash, slots, cap, frame')
  BY <1>3, <1>5, <1>6, <1>7, <1>8 DEF GrowInv
<1>10. FrameInv'
  BY <1>1, <1>2, <1>6, <1>9 DEF FrameInv
<1>11. TableInv'
  BY <1>1 DEF MapInv, TableInv
<1> QED BY <1>10, <1>11 DEF MapInv

\* The slots up to i, and one more.
LEMMA OneMore ==
  ASSUME NEW s, NEW i \in Nat
  PROVE  /\ s[i] = Empty => UsedIn(s, i + 1) = UsedIn(s, i)
         /\ s[i] # Empty => UsedIn(s, i + 1) = UsedIn(s, i) \cup {i} /\ i \notin UsedIn(s, i)
<1>1. Indices(i + 1) = Indices(i) \cup {i} /\ i \notin Indices(i)
  BY DEF Indices
<1> QED BY <1>1 DEF UsedIn

\* There is room in the table that strmap_grow fills.
LEMMA GrowRoom ==
  ASSUME MapInv, frame.op = "grow"
  PROVE  \E e \in Indices(frame.newcap) : frame.newslots[e] = Empty
<1> DEFINE i == frame.i
           c == frame.newcap
           s == frame.newslots
<1>1. /\ i \in 0 .. cap /\ c = IF cap = 0 THEN StartCap ELSE cap * 2
      /\ Cardinality(UsedIn(s, c)) = Cardinality(UsedIn(slots, i))
  BY DEF MapInv, FrameInv, GrowInv
<1>2. cap \in Nat /\ len = Cardinality(UsedIn(slots, cap)) /\ len * 4 <= cap * 3
  BY DEF MapInv, TableInv
<1> HIDE DEF i, c, s
<1>3. UsedIn(slots, i) \subseteq UsedIn(slots, cap)
  BY <1>1, <1>2 DEF UsedIn, Indices
<1>4. i \in Nat /\ c \in Nat \ {0}
  BY <1>1, <1>2
<1>5. /\ IsFiniteSet(UsedIn(slots, cap)) /\ len \in Nat /\ Cardinality(UsedIn(s, c)) \in Nat
  BY <1>2, <1>4, UsedCount
<1>6. Cardinality(UsedIn(slots, i)) <= len
  BY <1>2, <1>3, <1>5, FS_Subset
<1>7. Cardinality(UsedIn(s, c)) < c
  BY <1>1, <1>2, <1>5, <1>6
<1> QED BY <1>4, <1>7, UsedCount DEF c, s

LEMMA RehashInv ==
  ASSUME MapInv, Rehash
  PROVE  MapInv'
<1> DEFINE i == frame.i
           c == frame.newcap
           s == frame.newslots
           old == slots[i]
           p == strmap_probe(s, c, old.key)
           t == IF old = Empty THEN s ELSE [s EXCEPT ![p] = old]
<1>1. /\ frame.op = "grow" /\ i < cap
      /\ frame' = GrowFrame(frame.key, frame.val, t, c, i + 1)
      /\ hash' = hash /\ slots' = slots /\ len' = len /\ cap' = cap /\ ptr' = ptr
  BY DEF Rehash
<1>2. /\ frame.key \in Keys /\ frame.val \in Vals /\ i \in 0 .. cap
      /\ c = IF cap = 0 THEN StartCap ELSE cap * 2
      /\ Table(s, c) /\ Distinct(s, c) /\ Reach(hash, s, c)
      /\ Contents(s, c) = Contents(slots, i)
      /\ Cardinality(UsedIn(s, c)) = Cardinality(UsedIn(slots, i))
  BY <1>1 DEF MapInv, FrameInv, GrowInv
<1>3. /\ hash \in [Keys -> HashValues] /\ cap \in Nat /\ Table(slots, cap)
      /\ Distinct(slots, cap) /\ Reach(hash, slots, cap)
      /\ len = Cardinality(UsedIn(slots, cap)) /\ len * 4 <= cap * 3
  BY <1>1 DEF MapInv, TableInv, FrameInv
<1>4. i \in Nat /\ i \in Indices(cap) /\ c \in Nat \ {0} /\ i + 1 \in 0 .. cap
  BY <1>1, <1>2, <1>3 DEF Indices
<1>5. /\ frame'.op = "grow" /\ frame'.key = frame.key /\ frame'.val = frame.val
      /\ frame'.newslots = t /\ frame'.newcap = c /\ frame'.i = i + 1
  BY <1>1 DEF GrowFrame
<1>6. /\ Table(t, c) /\ Distinct(t, c) /\ Reach(hash, t, c)
      /\ Contents(t, c) = Contents(slots, i + 1)
      /\ Cardinality(UsedIn(t, c)) = Cardinality(UsedIn(slots, i + 1))
  <2>1. CASE old = Empty
    <3>1. UsedIn(slots, i + 1) = UsedIn(slots, i) /\ t = s
      BY <1>4, <2>1, OneMore
    <3> HIDE DEF i, c, s, t
    <3> QED BY <1>2, <3>1 DEF Contents
  <2>2. CASE old # Empty
    <3> HIDE DEF i, c, s, p
    <3>1. UsedIn(slots, i + 1) = UsedIn(slots, i) \cup {i} /\ i \notin UsedIn(slots, i)
      BY <1>4, <2>2, OneMore
    <3>2. i \in UsedIn(slots, cap) /\ UsedIn(slots, i) \subseteq UsedIn(slots, cap)
      BY <1>2, <1>3, <1>4, <2>2 DEF UsedIn, Indices
    <3>3. old \in Entries /\ old.key \in Keys
      BY <1>3, <3>2, UsedEntry
    <3>4. \A e \in Contents(s, c) : e.key # old.key
      <4>1. \A a \in UsedIn(slots, i) : slots[a].key # slots[i].key
        BY <1>3, <3>1, <3>2 DEF Distinct
      <4> QED BY <1>2, <4>1 DEF Contents
    <3>5. IsFiniteSet(UsedIn(slots, i)) /\ IsFiniteSet(UsedIn(s, c))
      BY <1>4, UsedCount
    <3>9. PICK e \in Indices(c) : s[e] = Empty
      BY <1>1, GrowRoom DEF c, s
    <3>10. ProbeEnd(hash, s, c, old.key, p)
      BY <1>3, <1>4, <3>3, <3>9, ProbeEnds DEF p
    <3>11. t = [s EXCEPT ![p] = old]
      BY <2>2
    <3> HIDE DEF old, t
    <3>12. Table(t, c) /\ Distinct(t, c) /\ Reach(hash, t, c) /\ Written(s, t, c, p, old)
      BY <1>2, <1>3, <1>4, <3>3, <3>10, <3>11, Inserted
    <3>13. Contents(t, c) = Others(s, c, old.key) \cup {old}
      BY <3>12, ContentsWritten
    <3>14. Others(s, c, old.key) = Contents(s, c)
      BY <3>4 DEF Others
    <3>15. Contents(slots, i + 1) = Contents(slots, i) \cup {old}
      BY <3>1 DEF Contents, old
    <3>16. p \notin UsedIn(s, c)
      <4>1. \A a \in UsedIn(s, c) : s[a].key # old.key
        BY <3>4 DEF Contents
      <4> QED BY <3>12, <4>1 DEF Written
    <3>17. UsedIn(t, c) = UsedIn(s, c) \cup {p}
      BY <3>12 DEF Written
    <3>18. Cardinality(UsedIn(t, c)) = Cardinality(UsedIn(s, c)) + 1
      BY <3>5, <3>16, <3>17, FS_AddElement
    <3>19. Cardinality(UsedIn(slots, i + 1)) = Cardinality(UsedIn(slots, i)) + 1
      BY <3>1, <3>5, FS_AddElement
    <3> QED BY <1>2, <3>12, <3>13, <3>14, <3>15, <3>18, <3>19
  <2> QED BY <2>1, <2>2
<1> HIDE DEF i, c, s, t
<1>7. GrowInv(hash, slots, cap, frame')
  BY <1>2, <1>4, <1>5, <1>6 DEF GrowInv
<1>8. FrameInv'
  BY <1>1, <1>3, <1>5, <1>7 DEF FrameInv
<1>9. TableInv'
  BY <1>1 DEF MapInv, TableInv
<1> QED BY <1>8, <1>9 DEF MapInv

LEMMA GrowEndInv ==
  ASSUME MapInv, GrowEnd
  PROVE  MapInv' /\ Contents(slots', cap') = Contents(slots, cap)
<1>1. /\ frame.op = "grow" /\ frame.i = cap
      /\ slots' = frame.newslots /\ cap' = frame.newcap /\ ptr' = NoPtr
      /\ frame' = PutFrame(frame.key, frame.val) /\ hash' = hash /\ len' = len
  BY DEF GrowEnd
<1>2. /\ frame.key \in Keys /\ frame.val \in Vals
      /\ cap' = IF cap = 0 THEN StartCap ELSE cap * 2
      /\ Table(slots', cap') /\ Distinct(slots', cap') /\ Reach(hash, slots', cap')
      /\ Contents(slots', cap') = Contents(slots, cap)
      /\ Cardinality(UsedIn(slots', cap')) = Cardinality(UsedIn(slots, cap))
  BY <1>1 DEF MapInv, FrameInv, GrowInv
<1>3. /\ hash \in [Keys -> HashValues] /\ cap \in Nat \ {1}
      /\ len = Cardinality(UsedIn(slots, cap)) /\ len * 4 <= cap * 3
  BY DEF MapInv, TableInv
<1>4. len \in Nat
  BY <1>3, UsedCount
<1>5. cap' \in Nat \ {1} /\ len * 4 <= cap' * 3 /\ (len + 1) * 4 <= cap' * 3
  BY <1>2, <1>3, <1>4
<1>6. TableInv'
  BY <1>1, <1>2, <1>3, <1>5 DEF TableInv
<1>7. frame'.op = "put" /\ frame'.key = frame.key /\ frame'.val = frame.val
  BY <1>1 DEF PutFrame
<1>8. FrameInv'
  BY <1>1, <1>2, <1>5, <1>7 DEF FrameInv
<1> QED BY <1>2, <1>6, <1>8 DEF MapInv

\* What Present says, and the slot it is about.
LEMMA PresentSlot ==
  ASSUME MapInv, frame.op # "del", NEW k \in Keys, Present(k)
  PROVE  /\ cap \in Nat \ {0, 1}
         /\ strmap_probe(slots, cap, k) \in UsedIn(slots, cap)
         /\ slots[strmap_probe(slots, cap, k)].key = k
<1> DEFINE p == strmap_probe(slots, cap, k)
<1>1. cap # 0 /\ slots[p] # Empty
  BY DEF Present
<1>2. cap \in Nat \ {0, 1}
  BY <1>1 DEF MapInv, TableInv
<1>3. ProbeEnd(hash, slots, cap, k, p)
  BY <1>1, MapProbe DEF MapInv
<1> QED BY <1>1, <1>2, <1>3 DEF ProbeEnd, UsedIn

LEMMA DelInv ==
  ASSUME MapInv, NEW k \in Keys, strmap_del(k)
  PROVE  /\ MapInv'
         /\ Contents(slots', cap') = Others(slots, cap, k)
<1> DEFINE p == strmap_probe(slots, cap, k)
<1>1. /\ frame = NoFrame /\ Present(k) /\ slots' = [slots EXCEPT ![p] = Empty]
      /\ frame' = DelFrame(p, p, p) /\ len' = len - 1 /\ hash' = hash /\ cap' = cap
      /\ ptr' = NoPtr \/ ptr' = ptr
  BY DEF strmap_del
<1>2. frame.op # "del"
  BY <1>1 DEF NoFrame
<1>3. cap \in Nat \ {0, 1} /\ p \in UsedIn(slots, cap) /\ slots[p].key = k
  BY <1>1, <1>2, PresentSlot
<1>4. /\ hash \in [Keys -> HashValues] /\ Table(slots, cap) /\ Distinct(slots, cap)
      /\ Reach(hash, slots, cap)
      /\ len = Cardinality(UsedIn(slots, cap)) /\ len * 4 <= cap * 3
      /\ ptr # NoPtr => ptr.index \in Indices(cap)
  BY <1>2 DEF MapInv, TableInv, FrameInv
<1>5. PICK e \in Indices(cap) : slots[e] = Empty
  BY <1>3, RoomLeft DEF MapInv
<1> HIDE DEF p
<1>6. /\ Table(slots', cap) /\ Distinct(slots', cap) /\ HoleInv(hash, slots', cap, p, p, p)
      /\ Removed(slots, slots', cap, p)
  <2>1. cap \in Nat \ {0} /\ slots' = [slots EXCEPT ![p] = Empty]
    BY <1>1, <1>3
  <2> QED BY <1>3, <1>4, <1>5, <2>1, Opened
<1>7. Contents(slots', cap) = Others(slots, cap, slots[p].key)
  BY <1>3, <1>4, <1>6, ContentsOpened
<1>8. IsFiniteSet(UsedIn(slots, cap)) /\ len \in Nat
  BY <1>3, <1>4, UsedCount
<1>9. len' = Cardinality(UsedIn(slots', cap)) /\ len' * 4 <= cap * 3
  <2>1. Cardinality(UsedIn(slots, cap) \ {p}) = len - 1
    BY <1>3, <1>4, <1>8, FS_RemoveElement
  <2>2. len' * 4 <= cap * 3
    BY <1>1, <1>3, <1>4, <1>8
  <2> QED BY <1>1, <1>6, <2>1, <2>2 DEF Removed
<1>10. TableInv'
  BY <1>1, <1>3, <1>4, <1>6, <1>9 DEF TableInv
<1>11. frame'.op = "del" /\ frame'.start = p /\ frame'.hole = p /\ frame'.j = p
  BY <1>1 DEF DelFrame
<1>12. FrameInv'
  BY <1>1, <1>3, <1>6, <1>11 DEF FrameInv
<1> QED BY <1>1, <1>3, <1>7, <1>10, <1>12 DEF MapInv

\* The test of the code is that the hole comes before the entry on its path.
LEMMA OnPathBefore ==
  ASSUME TableInv, NEW p \in Indices(cap), NEW n \in UsedIn(slots, cap)
  PROVE  OnPath(p, n) <=> Before(HomeIn(hash, slots[n].key, cap), p, n, cap)
<1> DEFINE h == HomeIn(hash, slots[n].key, cap)
<1>1. n \in Indices(cap) /\ slots[n].key \in Keys
  BY UsedEntry DEF TableInv
<1>2. cap \in Nat \ {0}
  BY <1>1 DEF TableInv, Indices
<1>3. h \in Indices(cap) /\ Home(slots[n].key, cap) = h
  BY <1>1, <1>2, HomeIndex DEF TableInv, Home, HomeIn
<1> HIDE DEF h
<1>4. Dist(p, h, cap) = Far(p, h, cap) /\ Dist(n, h, cap) = Far(n, h, cap)
  BY <1>1, <1>2, <1>3, DistFar
<1>5. OnPath(p, n) <=> Dist(p, h, cap) < Dist(n, h, cap)
  BY <1>3 DEF OnPath
<1> QED BY <1>4, <1>5 DEF Before, h

LEMMA ShiftNextInv ==
  ASSUME MapInv, ShiftNext
  PROVE  MapInv' /\ Contents(slots', cap') = Contents(slots, cap)
<1> DEFINE n == Along(frame.j, 1, cap)
           p == frame.hole
<1>1. /\ frame.op = "del" /\ hash' = hash /\ len' = len /\ cap' = cap /\ ptr' = ptr
      /\ \/ slots[n] = Empty /\ frame' = NoFrame /\ slots' = slots
         \/ /\ slots[n] # Empty /\ OnPath(p, n)
            /\ slots' = [slots EXCEPT ![p] = slots[n], ![n] = Empty]
            /\ frame' = DelFrame(frame.start, n, n)
         \/ /\ slots[n] # Empty /\ ~OnPath(p, n)
            /\ slots' = slots /\ frame' = DelFrame(frame.start, p, n)
  BY DEF ShiftNext
<1>2. /\ hash \in [Keys -> HashValues] /\ cap \in Nat \ {0, 1}
      /\ Table(slots, cap) /\ Distinct(slots, cap)
      /\ len = Cardinality(UsedIn(slots, cap)) /\ len * 4 <= cap * 3
      /\ ptr # NoPtr => ptr.index \in Indices(cap)
      /\ HoleInv(hash, slots, cap, frame.start, p, frame.j)
  BY <1>1 DEF MapInv, TableInv, FrameInv
<1>3. p \in Indices(cap) /\ frame.j \in Indices(cap)
  BY <1>2 DEF HoleInv
<1>4. n \in Indices(cap)
  BY <1>2, <1>3, FarNext
<1>5. slots[n] # Empty =>
        (OnPath(p, n) <=> Before(HomeIn(hash, slots[n].key, cap), p, n, cap))
  BY <1>3, <1>4, OnPathBefore DEF MapInv, UsedIn
<1>6. slots' = slots => TableInv'
  BY <1>1 DEF MapInv, TableInv
<1>7. CASE slots[n] = Empty /\ frame' = NoFrame /\ slots' = slots
  <2>1. Reach(hash, slots, cap)
    BY <1>2, <1>7, ShiftEnds
  <2>2. FrameInv'
    BY <1>1, <1>7, <2>1 DEF FrameInv, NoFrame
  <2> QED BY <1>1, <1>6, <1>7, <2>2 DEF MapInv
<1>8. CASE /\ slots[n] # Empty /\ OnPath(p, n)
           /\ slots' = [slots EXCEPT ![p] = slots[n], ![n] = Empty]
           /\ frame' = DelFrame(frame.start, n, n)
  <2>1. Before(HomeIn(hash, slots[n].key, cap), p, n, cap)
    BY <1>5, <1>8
  <2>2. slots[n] # Empty /\ slots' = [slots EXCEPT ![p] = slots[n], ![n] = Empty]
    BY <1>8
  <2>3. n = Along(frame.j, 1, cap)
    OBVIOUS
  <2>4. frame'.op = "del" /\ frame'.start = frame.start /\ frame'.hole = n /\ frame'.j = n
    BY <1>8 DEF DelFrame
  <2> HIDE DEF n, p
  <2>5. /\ Table(slots', cap) /\ Distinct(slots', cap)
        /\ HoleInv(hash, slots', cap, frame.start, n, n)
        /\ Moved(slots, slots', cap, p, n)
    BY <1>2, <2>1, <2>2, <2>3, ShiftMoves
  <2>6. Contents(slots', cap) = Contents(slots, cap)
    BY <2>5, ContentsMoved
  <2>7. IsFiniteSet(UsedIn(slots, cap)) /\ len \in Nat
    BY <1>2, UsedCount
  <2>8. /\ IsFiniteSet(UsedIn(slots, cap) \ {n})
        /\ Cardinality(UsedIn(slots, cap) \ {n}) = len - 1
    BY <1>2, <2>5, <2>7, FS_RemoveElement DEF Moved
  <2>9. /\ p \notin UsedIn(slots, cap) \ {n}
        /\ UsedIn(slots', cap) = (UsedIn(slots, cap) \ {n}) \cup {p}
    BY <2>5 DEF Moved
  <2>10. len = Cardinality(UsedIn(slots', cap))
    <3> DEFINE S == UsedIn(slots, cap) \ {n}
    <3>1. IsFiniteSet(S) /\ Cardinality(S) = len - 1 /\ p \notin S
      BY <2>8, <2>9
    <3> HIDE DEF S
    <3>2. Cardinality(S \cup {p}) = len - 1 + 1
      BY <3>1, FS_AddElement
    <3>3. len - 1 + 1 = len
      BY <2>7
    <3> QED BY <2>9, <3>2, <3>3 DEF S
  <2>11. TableInv'
    BY <1>1, <1>2, <2>5, <2>10 DEF TableInv
  <2>12. FrameInv'
    BY <1>1, <1>2, <2>4, <2>5 DEF FrameInv
  <2> QED BY <1>1, <2>6, <2>11, <2>12 DEF MapInv
<1>9. CASE /\ slots[n] # Empty /\ ~OnPath(p, n)
           /\ slots' = slots /\ frame' = DelFrame(frame.start, p, n)
  <2>1. slots[n] # Empty /\ ~Before(HomeIn(hash, slots[n].key, cap), p, n, cap)
    BY <1>5, <1>9
  <2>2. frame'.op = "del" /\ frame'.start = frame.start /\ frame'.hole = p /\ frame'.j = n
    BY <1>9 DEF DelFrame
  <2>3. n = Along(frame.j, 1, cap)
    OBVIOUS
  <2> HIDE DEF n, p
  <2>4. HoleInv(hash, slots, cap, frame.start, p, n)
    BY <1>2, <2>1, <2>3, ShiftSkips
  <2>5. FrameInv'
    BY <1>1, <1>2, <1>9, <2>2, <2>4 DEF FrameInv
  <2> QED BY <1>1, <1>6, <1>9, <2>5 DEF MapInv
<1> QED BY <1>1, <1>7, <1>8, <1>9

LEMMA FreeInv ==
  ASSUME MapInv, strmap_free
  PROVE  MapInv' /\ Contents(slots', cap') = {}
<1>1. /\ frame = NoFrame /\ slots' = NewSlots(0) /\ len' = 0 /\ cap' = 0 /\ ptr' = NoPtr
      /\ hash' = hash /\ frame' = frame
  BY DEF strmap_free
<1>2. /\ Table(slots', 0) /\ Distinct(slots', 0) /\ Reach(hash, slots', 0)
      /\ Cardinality(UsedIn(slots', 0)) = 0 /\ Contents(slots', 0) = {}
  BY <1>1, NewTable
<1>3. TableInv'
  BY <1>1, <1>2 DEF MapInv, TableInv
<1>4. FrameInv'
  BY <1>1, <1>2 DEF FrameInv, NoFrame
<1> QED BY <1>1, <1>2, <1>3, <1>4 DEF MapInv

LEMMA GetInv ==
  ASSUME MapInv, NEW k \in Keys, strmap_get(k)
  PROVE  MapInv'
<1> DEFINE p == strmap_probe(slots, cap, k)
<1>1. /\ frame = NoFrame /\ Present(k) /\ ptr' = Pointer(k, p)
      /\ hash' = hash /\ slots' = slots /\ len' = len /\ cap' = cap /\ frame' = frame
  BY DEF strmap_get
<1>2. p \in UsedIn(slots, cap)
  BY <1>1, PresentSlot DEF NoFrame
<1>3. ptr'.index \in Indices(cap)
  BY <1>1, <1>2 DEF Pointer, UsedIn
<1>4. TableInv'
  BY <1>1, <1>3 DEF MapInv, TableInv
<1>5. FrameInv'
  BY <1>1 DEF MapInv, FrameInv, GrowInv, NoFrame
<1> QED BY <1>4, <1>5 DEF MapInv

\* A write through a pointer changes the value of whatever entry is there.
LEMMA WriteInv ==
  ASSUME MapInv, NEW v \in Vals, WriteThrough(v)
  PROVE  /\ MapInv'
         /\ slots[ptr.index] # Empty =>
              Written(slots, slots', cap, ptr.index, Entry(slots[ptr.index].key, v))
<1> DEFINE p == ptr.index
           e == Entry(slots[p].key, v)
<1>1. /\ frame = NoFrame /\ p \in Indices(cap)
      /\ slots' = IF slots[p] = Empty THEN slots ELSE [slots EXCEPT ![p] = e]
      /\ hash' = hash /\ len' = len /\ cap' = cap /\ ptr' = ptr /\ frame' = frame
  BY DEF WriteThrough, MapInv, TableInv
<1>2. /\ frame'.op = "none" /\ Table(slots, cap) /\ Distinct(slots, cap)
      /\ Reach(hash, slots, cap)
  BY <1>1 DEF MapInv, TableInv, FrameInv, NoFrame
<1>3. CASE slots[p] = Empty
  <2>1. TableInv' /\ FrameInv'
    BY <1>1, <1>2, <1>3 DEF MapInv, TableInv, FrameInv
  <2> QED BY <1>3, <2>1 DEF MapInv
<1>4. CASE slots[p] # Empty
  <2>1. p \in UsedIn(slots, cap) /\ slots' = [slots EXCEPT ![p] = e]
    BY <1>1, <1>4 DEF UsedIn
  <2>2. slots[p].key \in Keys
    BY <1>2, <2>1, UsedEntry
  <2>3. e \in Entries /\ e.key = slots[p].key
    BY <2>2, EntryParts
  <2> HIDE DEF p, e
  <2>4. /\ Table(slots', cap) /\ Distinct(slots', cap) /\ Reach(hash, slots', cap)
        /\ Written(slots, slots', cap, p, e)
    BY <1>2, <2>1, <2>3, Rewritten
  <2>5. UsedIn(slots', cap) = UsedIn(slots, cap)
    BY <2>1, <2>4 DEF Written
  <2>6. TableInv'
    BY <1>1, <2>4, <2>5 DEF MapInv, TableInv
  <2>7. FrameInv'
    BY <1>1, <1>2, <2>4 DEF FrameInv
  <2> QED BY <1>1, <2>4, <2>6, <2>7 DEF MapInv, p, e
<1> QED BY <1>3, <1>4

LEMMA PutInv ==
  ASSUME MapInv, NEW k \in Keys, NEW v \in Vals, strmap_put(k, v)
  PROVE  MapInv' /\ Written(slots, slots', cap, strmap_probe(slots, cap, k), Entry(k, v))
<1>1. frame.op # "del" /\ Insert(k, v) /\ ~((len + 1) * 4 > cap * 3)
  BY DEF strmap_put, MustGrow, NoFrame
<1>2. cap \in Nat /\ len \in Nat
  BY UsedCount DEF MapInv, TableInv
<1>3. (len + 1) * 4 <= cap * 3
  BY <1>1, <1>2
<1> QED BY <1>1, <1>3, InsertInv DEF MapInv

LEMMA PutGrownInv ==
  ASSUME MapInv, PutGrown
  PROVE  /\ frame.key \in Keys /\ frame.val \in Vals
         /\ MapInv'
         /\ Written(slots, slots', cap, strmap_probe(slots, cap, frame.key),
                    Entry(frame.key, frame.val))
<1>1. frame.op = "put" /\ Insert(frame.key, frame.val)
  BY DEF PutGrown
<1>2. frame.key \in Keys /\ frame.val \in Vals /\ (len + 1) * 4 <= cap * 3
  BY <1>1 DEF MapInv, FrameInv
<1> QED BY <1>1, <1>2, InsertInv DEF MapInv

LEMMA StutterMapInv == MapInv /\ UNCHANGED vars => MapInv'
BY DEF vars, MapInv, TableInv, FrameInv, GrowInv

LEMMA NextMapInv == MapInv /\ [Next]_vars => MapInv'
BY PutInv, GrowBeginInv, RehashInv, GrowEndInv, PutGrownInv, DelInv, GetInv, ShiftNextInv,
   WriteInv, FreeInv, StutterMapInv, Zenon DEF Next

----------------------------------------------------------------------------
(* What the invariant says.                                                *)

LEMMA MapReachable ==
  ASSUME MapInv
  PROVE  EntriesReachable
<1>1. /\ hash \in [Keys -> HashValues] /\ cap \in Nat
      /\ Table(slots, cap) /\ Distinct(slots, cap) /\ len = Cardinality(UsedIn(slots, cap))
      /\ frame.op # "del" => Reach(hash, slots, cap)
  BY DEF MapInv, TableInv, FrameInv
<1>2. ASSUME frame.op # "del", NEW i \in Used
      PROVE  strmap_probe(slots, cap, slots[i].key) = i
  <2>1. i \in UsedIn(slots, cap) /\ i \in Indices(cap) /\ slots[i].key \in Keys
    BY <1>1, UsedEntry DEF Used
  <2>2. cap \in Nat \ {0}
    BY <1>1, <2>1 DEF Indices
  <2>3. ProbeEnd(hash, slots, cap, slots[i].key, strmap_probe(slots, cap, slots[i].key))
    BY <2>1, <2>2, MapProbe DEF MapInv
  <2> QED BY <1>1, <1>2, <2>1, <2>2, <2>3, ProbeFinds
<1>3. ASSUME frame.op # "del", NEW k \in Keys
      PROVE  Present(k) <=> k \in Bound
  <2>1. Present(k) => k \in Bound
    BY <1>3, PresentSlot DEF Bound, Used
  <2>2. ASSUME NEW i \in Used, slots[i].key = k PROVE Present(k)
    <3>1. i \in Indices(cap) /\ slots[i] # Empty
      BY DEF Used, UsedIn
    <3>2. cap # 0
      BY <1>1, <3>1 DEF Indices
    <3> QED BY <1>2, <1>3, <2>2, <3>1, <3>2 DEF Present
  <2> QED BY <2>1, <2>2 DEF Bound
<1> QED BY <1>1, <1>2, <1>3 DEF EntriesReachable, Used

LEMMA MapRoom ==
  ASSUME MapInv
  PROVE  RoomToProbe
<1>1. cap \in Nat \ {1} /\ len * 4 <= cap * 3
  BY DEF MapInv, TableInv
<1>2. cap # 0 => Used # Indices(cap)
  BY RoomLeft DEF MapInv, Used, UsedIn
<1>3. frame.op = "grow" => UsedIn(frame.newslots, frame.newcap) # Indices(frame.newcap)
  BY GrowRoom DEF UsedIn
<1>4. ASSUME frame.op = "del"
      PROVE  \E i \in Indices(cap) : /\ slots[i] = Empty
                                     /\ Dist(i, frame.start, cap) > Dist(frame.j, frame.start, cap)
  <2>1. /\ cap \in Nat \ {0} /\ frame.start \in Indices(cap) /\ frame.j \in Indices(cap)
        /\ EndAhead(slots, cap, frame.start, frame.j)
    BY <1>1, <1>4 DEF MapInv, FrameInv, HoleInv
  <2>2. PICK q \in Indices(cap) : slots[q] = Empty /\ Before(frame.start, frame.j, q, cap)
    BY <2>1 DEF EndAhead
  <2>3. /\ Dist(q, frame.start, cap) = Far(q, frame.start, cap)
        /\ Dist(frame.j, frame.start, cap) = Far(frame.j, frame.start, cap)
    BY <2>1, DistFar
  <2> QED BY <2>2, <2>3 DEF Before
<1> QED BY <1>1, <1>2, <1>3, <1>4 DEF RoomToProbe

(***************************************************************************)
(* For any keys, hash and first capacity and after any calls: strmap_probe *)
(* finds every entry and nothing else, its `unreachable` is not reached,   *)
(* in the table that strmap_grow fills neither, and the loop of strmap_del *)
(* has an empty slot ahead of it.                                          *)
(***************************************************************************)
THEOREM AlwaysSearchable == Spec => []Searchable
<1>1. MapInv => Searchable
  BY MapReachable, MapRoom DEF Searchable
<1> QED BY <1>1, InitMapInv, NextMapInv, PTL DEF Spec

----------------------------------------------------------------------------
(* The client's pointer.                                                   *)

PointerInv ==
  /\ ptr # NoPtr => /\ ptr.index \in UsedIn(slots, cap)
                    /\ slots[ptr.index].key = ptr.key
  /\ frame.op = "del" => ptr = NoPtr

\* A write of an entry leaves the key in the pointer's slot alone.
LEMMA WrittenPointer ==
  ASSUME PointerInv, NEW p, NEW e, Written(slots, slots', cap, p, e),
         ptr' = ptr, cap' = cap, frame'.op # "del"
  PROVE  PointerInv'
<1>1. SUFFICES ASSUME ptr # NoPtr
               PROVE  ptr.index \in UsedIn(slots', cap) /\ slots'[ptr.index].key = ptr.key
  BY DEF PointerInv
<1>2. /\ ptr.index \in UsedIn(slots, cap) /\ ptr.index \in Indices(cap)
      /\ slots[ptr.index].key = ptr.key
  BY <1>1 DEF PointerInv, UsedIn
<1>3. ptr.index \in UsedIn(slots', cap)
  BY <1>2 DEF Written
<1>4. CASE ptr.index = p
  BY <1>2, <1>4 DEF Written
<1>5. CASE ptr.index # p
  BY <1>2, <1>5 DEF Written
<1> QED BY <1>3, <1>4, <1>5

LEMMA NextPointerInv ==
  ASSUME ~HoldAcrossDel, MapInv, PointerInv, [Next]_vars
  PROVE  PointerInv'
<1>1. ASSUME NEW k \in Keys, NEW v \in Vals, strmap_put(k, v) PROVE PointerInv'
  <2>1. ptr' = ptr /\ cap' = cap /\ frame'.op # "del"
    BY <1>1 DEF strmap_put, Insert, NoFrame
  <2> QED BY <1>1, <2>1, PutInv, WrittenPointer
<1>2. ASSUME NEW k \in Keys, NEW v \in Vals, GrowBegin(k, v) PROVE PointerInv'
  BY <1>2 DEF GrowBegin, GrowFrame, PointerInv
<1>3. CASE Rehash
  BY <1>3 DEF Rehash, GrowFrame, PointerInv
<1>4. CASE GrowEnd
  BY <1>4 DEF GrowEnd, PointerInv
<1>5. CASE PutGrown
  <2>1. ptr' = ptr /\ cap' = cap /\ frame'.op # "del"
    BY <1>5 DEF PutGrown, Insert, NoFrame
  <2> QED BY <1>5, <2>1, PutGrownInv, WrittenPointer
<1>6. ASSUME NEW k \in Keys, strmap_del(k) PROVE PointerInv'
  BY <1>6 DEF strmap_del, PointerInv
<1>7. ASSUME NEW k \in Keys, strmap_get(k) PROVE PointerInv'
  <2>1. /\ frame.op # "del" /\ Present(k) /\ ptr' = Pointer(k, strmap_probe(slots, cap, k))
        /\ slots' = slots /\ cap' = cap /\ frame' = frame
    BY <1>7 DEF strmap_get, NoFrame
  <2>2. /\ strmap_probe(slots, cap, k) \in UsedIn(slots, cap)
        /\ slots[strmap_probe(slots, cap, k)].key = k
    BY <2>1, PresentSlot
  <2>3. ptr'.index = strmap_probe(slots, cap, k) /\ ptr'.key = k
    BY <2>1 DEF Pointer
  <2> QED BY <2>1, <2>2, <2>3 DEF PointerInv
<1>8. CASE ShiftNext
  <2>1. frame.op = "del" /\ ptr' = ptr
    BY <1>8 DEF ShiftNext
  <2> QED BY <2>1 DEF PointerInv
<1>9. ASSUME NEW v \in Vals, WriteThrough(v) PROVE PointerInv'
  <2>1. ptr' = ptr /\ cap' = cap /\ frame'.op # "del" /\ ptr # NoPtr
    BY <1>9 DEF WriteThrough, NoFrame
  <2>2. slots[ptr.index] # Empty
    BY <2>1 DEF PointerInv, UsedIn
  <2> QED BY <1>9, <2>1, <2>2, WriteInv, WrittenPointer
<1>10. CASE strmap_free
  BY <1>10 DEF strmap_free, PointerInv
<1>11. CASE UNCHANGED vars
  BY <1>11 DEF vars, PointerInv
<1> QED BY <1>1, <1>2, <1>3, <1>4, <1>5, <1>6, <1>7, <1>8, <1>9, <1>10, <1>11 DEF Next

LEMMA SpecPointerInv ==
  ASSUME ~HoldAcrossDel
  PROVE  Spec => [](MapInv /\ PointerInv)
<1>1. Init => PointerInv
  BY DEF Init, PointerInv, NoFrame
<1>2. MapInv /\ PointerInv /\ [Next]_vars => MapInv' /\ PointerInv'
  BY NextMapInv, NextPointerInv
<1> QED BY <1>1, <1>2, InitMapInv, PTL DEF Spec

(***************************************************************************)
(* The pointer that strmap_get returned stays with the entry of the key    *)
(* asked for until a grow, for a client that gives it up when it deletes.  *)
(***************************************************************************)
THEOREM PointerStaysValid ==
  ASSUME ~HoldAcrossDel
  PROVE  Spec => []PointerValid
<1>1. PointerInv => PointerValid
  BY DEF PointerInv, PointerValid, UsedIn
<1> QED BY <1>1, SpecPointerInv, PTL

----------------------------------------------------------------------------
(* The abstract map.                                                       *)

LEMMA WrittenPut ==
  ASSUME MapInv, MapInv', cap' = cap, NEW k \in Keys, NEW v \in Vals, NEW p,
         Written(slots, slots', cap, p, Entry(k, v))
  PROVE  Map!Put(k, v)
<1>1. Distinct(slots, cap) /\ Distinct(slots', cap')
  BY DEF MapInv, TableInv
<1>2. Entry(k, v).key = k
  BY EntryParts
<1>3. Contents(slots', cap') = Others(slots, cap, k) \cup {Entry(k, v)}
  BY <1>2, ContentsWritten
<1>4. MapOf(slots', cap') = [x \in DOMAIN MapOf(slots, cap) \cup {k} |->
                               IF x = k THEN v ELSE MapOf(slots, cap)[x]]
  BY <1>1, <1>3, MapPut
<1> QED BY <1>4, BindingsMap DEF Map!Put

LEMMA SameSame ==
  ASSUME MapInv, MapInv', Contents(slots', cap') = Contents(slots, cap)
  PROVE  Map!Same
<1>1. Distinct(slots, cap) /\ Distinct(slots', cap')
  BY DEF MapInv, TableInv
<1>2. MapOf(slots', cap') = MapOf(slots, cap)
  BY <1>1, SameMap
<1> QED BY <1>2, BindingsMap DEF Map!Same

LEMMA StepsOfMap ==
  ASSUME MapInv, PointerInv
  PROVE  MapSteps
<1>1. ASSUME NEW k \in Keys, NEW v \in Vals, strmap_put(k, v) PROVE Map!Put(k, v)
  <2>1. cap' = cap
    BY <1>1 DEF strmap_put, Insert
  <2> QED BY <1>1, <2>1, PutInv, WrittenPut
<1>2. ASSUME NEW k \in Keys, NEW v \in Vals, GrowBegin(k, v) PROVE Map!Same
  <2>1. slots' = slots /\ cap' = cap
    BY <1>2 DEF GrowBegin
  <2> QED BY <1>2, <2>1, GrowBeginInv, SameSame
<1>3. ASSUME Rehash PROVE Map!Same
  <2>1. slots' = slots /\ cap' = cap
    BY <1>3 DEF Rehash
  <2> QED BY <1>3, <2>1, RehashInv, SameSame
<1>4. ASSUME GrowEnd PROVE Map!Same
  BY <1>4, GrowEndInv, SameSame
<1>5. ASSUME ShiftNext PROVE Map!Same
  BY <1>5, ShiftNextInv, SameSame
<1>6. ASSUME PutGrown PROVE Map!Put(frame.key, frame.val)
  <2>1. cap' = cap
    BY <1>6 DEF PutGrown, Insert
  <2> QED BY <1>6, <2>1, PutGrownInv, WrittenPut
<1>7. ASSUME NEW k \in Keys, strmap_del(k) PROVE Map!Del(k)
  <2>1. MapInv' /\ Contents(slots', cap') = Others(slots, cap, k)
    BY <1>7, DelInv
  <2>2. Distinct(slots, cap) /\ Distinct(slots', cap')
    BY <2>1 DEF MapInv, TableInv
  <2>3. MapOf(slots', cap') = Unbind(MapOf(slots, cap), k)
    BY <2>1, <2>2, MapDel
  <2> QED BY <2>3, BindingsMap DEF Map!Del, Unbind
<1>8. ASSUME NEW k \in Keys, strmap_get(k) PROVE Map!Same
  <2>1. slots' = slots /\ cap' = cap
    BY <1>8 DEF strmap_get
  <2> QED BY <1>8, <2>1, GetInv, SameSame
<1>9. ASSUME NEW v \in Vals, WriteThrough(v) PROVE Map!Put(ptr.key, v)
  <2>1. ptr # NoPtr /\ cap' = cap
    BY <1>9 DEF WriteThrough
  <2>2. ptr.index \in UsedIn(slots, cap) /\ slots[ptr.index].key = ptr.key
    BY <2>1 DEF PointerInv
  <2>3. slots[ptr.index] # Empty /\ ptr.key \in Keys
    BY <2>2, UsedEntry DEF MapInv, TableInv
  <2>4. MapInv' /\ Written(slots, slots', cap, ptr.index, Entry(ptr.key, v))
    BY <1>9, <2>2, <2>3, WriteInv
  <2> QED BY <2>1, <2>3, <2>4, WrittenPut
<1>10. ASSUME strmap_free PROVE Map!Free
  <2>1. MapInv' /\ Contents(slots', cap') = {}
    BY <1>10, FreeInv
  <2>2. Distinct(slots', cap')
    BY <2>1 DEF MapInv, TableInv
  <2>3. DOMAIN MapOf(slots', cap') = {e.key : e \in Contents(slots', cap')}
    BY <2>2, MapOfContents
  <2> QED BY <2>1, <2>3, BindingsMap DEF Map!Free
<1> QED BY <1>1, <1>2, <1>3, <1>4, <1>5, <1>6, <1>7, <1>8, <1>9, <1>10 DEF MapSteps

(***************************************************************************)
(* Every call does to the finite map of the entries what it promises, and  *)
(* the steps of strmap_grow and of strmap_del's loop leave it as it is.    *)
(***************************************************************************)
THEOREM MapRefinement ==
  ASSUME ~HoldAcrossDel
  PROVE  Spec => ImplementsMap
<1>1. Init => Map!New
  <2> SUFFICES ASSUME Init PROVE Map!New
    OBVIOUS
  <2>1. slots = NewSlots(0) /\ cap = 0
    BY DEF Init
  <2>2. UsedIn(slots, cap) = {}
    BY <2>1, NewTable
  <2> QED BY <2>2 DEF Map!New, Bindings, Bound, Used
<1>2. MapInv /\ PointerInv => MapSteps
  BY StepsOfMap
<1> QED BY <1>1, <1>2, SpecPointerInv, PTL DEF Spec, ImplementsMap

=============================================================================
