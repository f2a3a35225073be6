---------------------------- MODULE TableLemmas ----------------------------
(***************************************************************************)
(* Lemmas about the operators of Table and View, for any keys and values:  *)
(* what reads return, which reads a compaction leaves alone, what a view   *)
(* reads after a write, and what a table reads after a view over it is     *)
(* merged in.                                                              *)
(***************************************************************************)
EXTENDS View, OrderLemmas

-----------------------------------------------------------------------------
(* The newest version.                                                     *)

\* Versions whose sequences are bounded have a newest one, even when there are
\* infinitely many of them: count down from the bound.
LEMMA BoundedHasNewest ==
    ASSUME NEW S \in SUBSET SeqMarkeds, S # {}, NEW n \in Nat,
           \A m \in S : m.seq <= n
    PROVE  \E m \in S : \A x \in S : Leq(x, m)
<1> DEFINE height(m) == 2 * n + 1 - (2 * m.seq + m.mark)
           heights == {height(m) : m \in S}
<1>0. \A m \in S : m.seq \in Nat /\ m.mark \in {0, 1}
    BY SeqMarkedFields
<1>1. \A m \in S : height(m) \in Nat
    BY <1>0
<1>2. PICK h \in heights : \A y \in heights : h <= y
  <2>1. heights \subseteq Nat /\ heights # {}
      BY <1>1
  <2> QED BY <2>1, NonemptyNatSetHasMin
<1>3. PICK m \in S : h = height(m)
    OBVIOUS
<1>4. ASSUME NEW x \in S PROVE Leq(x, m)
  <2>1. height(m) <= height(x)
      BY <1>2, <1>3
  <2>2. 2 * x.seq + x.mark <= 2 * m.seq + m.mark
      BY <2>1, <1>0
  <2>3. /\ m.seq \in Nat /\ m.mark \in {0, 1}
        /\ x.seq \in Nat /\ x.mark \in {0, 1}
      BY <1>0
  <2> QED BY <2>2, <2>3 DEF Leq, Lt, SameOrder
<1> QED BY <1>4

\* So Newest is what its name says on every bounded nonempty set of versions.
LEMMA NewestIsNewest ==
    ASSUME NEW S \in SUBSET SeqMarkeds, S # {}, NEW n \in Nat,
           \A m \in S : m.seq <= n
    PROVE  Newest(S) \in S /\ \A x \in S : Leq(x, Newest(S))
<1>1. \E m \in S : \A x \in S : Leq(x, m)
    BY BoundedHasNewest
<1> QED BY <1>1 DEF Newest

-----------------------------------------------------------------------------
(* Reads.                                                                  *)

\* The versions visible at a sequence are those at or below it.
LEMMA VisibleIs ==
    ASSUME NEW versions \in SUBSET SeqMarkeds, NEW upto \in Nat
    PROVE  Visible(versions, upto) = {m \in versions : m.seq <= upto}
<1>1. \A m \in versions : m.seq \in Nat /\ m.mark \in {0, 1}
    BY SeqMarkedFields
<1> QED BY <1>1 DEF Visible, Leq, Lt, SameOrder, NewTombstone, TombStone

\* The newest visible version, where there is one.
LEMMA NewestVisible ==
    ASSUME NEW versions \in SUBSET SeqMarkeds, NEW upto \in Nat,
           Visible(versions, upto) # {}
    PROVE  LET newest == Newest(Visible(versions, upto))
           IN /\ newest \in versions
              /\ newest.seq <= upto
              /\ \A m \in versions : m.seq <= upto => Leq(m, newest)
<1>1. Visible(versions, upto) = {m \in versions : m.seq <= upto}
    BY VisibleIs
<1>2. /\ Visible(versions, upto) \in SUBSET SeqMarkeds
      /\ \A m \in Visible(versions, upto) : m.seq <= upto
    BY <1>1
<1>3. /\ Newest(Visible(versions, upto)) \in Visible(versions, upto)
      /\ \A m \in Visible(versions, upto) : Leq(m, Newest(Visible(versions, upto)))
    BY <1>2, NewestIsNewest
<1> QED BY <1>1, <1>3

\* A read returns a version, at or below the sequence read at.
LEMMA GetType ==
    ASSUME NEW t \in Tables, NEW k \in Keys, NEW upto \in Nat
    PROVE  Get(t, k, upto) \in SeqMarkeds /\ Get(t, k, upto).seq <= upto
<1>1. t.inner[k] \in SUBSET SeqMarkeds
    BY DEF Tables
<1>2. NotFound \in SeqMarkeds /\ NotFound.seq <= upto
    BY DEF NotFound, NewTombstone, SeqMarkeds, Marks, TombStone, Normal
<1>3. CASE Visible(t.inner[k], upto) = {}
    BY <1>2, <1>3 DEF Get
<1>4. CASE Visible(t.inner[k], upto) # {}
  <2>1. Get(t, k, upto) = Newest(Visible(t.inner[k], upto))
      BY <1>4 DEF Get
  <2> QED BY <1>1, <1>4, <2>1, NewestVisible
<1> QED BY <1>3, <1>4

\* An entry of the range is one of the key's versions.
LEMMA RangeEntry ==
    ASSUME NEW t \in Tables, NEW upto \in Nat, NEW k \in DOMAIN RangeUpto(t, upto)
    PROVE  /\ k \in Keys
           /\ RangeUpto(t, upto)[k] \in t.inner[k]
           /\ RangeUpto(t, upto)[k] \in SeqMarkeds
           /\ RangeUpto(t, upto)[k].seq \in Nat
           /\ RangeUpto(t, upto)[k].seq <= upto
<1> DEFINE entry == RangeUpto(t, upto)[k]
<1>1. /\ k \in Keys /\ Visible(t.inner[k], upto) # {}
      /\ entry = Newest(Visible(t.inner[k], upto))
      /\ t.inner[k] \in SUBSET SeqMarkeds
    BY DEF RangeUpto, Tables
<1> HIDE DEF entry
<1>2. entry \in t.inner[k] /\ entry.seq <= upto
    BY <1>1, NewestVisible
<1>3. entry \in SeqMarkeds /\ entry.seq \in Nat
    BY <1>1, <1>2, SeqMarkedFields
<1> QED BY <1>1, <1>2, <1>3 DEF entry

\* A read depends only on the versions at or below its sequence, and on those
\* only through the newest: two sets of versions, one within the other, that
\* share the newest visible version read the same.
LEMMA SameNewest ==
    ASSUME NEW big \in SUBSET SeqMarkeds, NEW small \in SUBSET big,
           \A m, n \in big : SameOrder(m, n) => m = n,
           NEW upto \in Nat, Visible(big, upto) # {},
           Newest(Visible(big, upto)) \in small
    PROVE  /\ Visible(small, upto) # {}
           /\ Newest(Visible(small, upto)) = Newest(Visible(big, upto))
<1> DEFINE n == Newest(Visible(big, upto))
           o == Newest(Visible(small, upto))
<1>1. n \in big /\ n.seq <= upto /\ \A m \in big : m.seq <= upto => Leq(m, n)
    BY NewestVisible
<1>2. small \in SUBSET SeqMarkeds
    OBVIOUS
<1>3. Visible(small, upto) # {}
    BY <1>1, <1>2, VisibleIs
<1>4. o \in small /\ o.seq <= upto /\ \A m \in small : m.seq <= upto => Leq(m, o)
    BY <1>2, <1>3, NewestVisible
<1>5. Leq(o, n) /\ Leq(n, o)
    BY <1>1, <1>4
<1>6. /\ n.seq \in Nat /\ n.mark \in {0, 1}
      /\ o.seq \in Nat /\ o.mark \in {0, 1}
    BY <1>1, <1>2, <1>4, SeqMarkedFields
<1> HIDE DEF n, o
<1>7. SameOrder(o, n)
    BY <1>5, <1>6 DEF Leq, Lt, SameOrder
<1>8. o = n
    BY <1>1, <1>4, <1>7
<1> QED BY <1>3, <1>8 DEF n, o

-----------------------------------------------------------------------------
(* Compaction.                                                             *)

\* Compaction at min leaves every read at or above min alone: the newest
\* visible version has no newer visible one to be shadowed by.
LEMMA SurvivorsReadSame ==
    ASSUME NEW versions \in SUBSET SeqMarkeds,
           \A m, n \in versions : SameOrder(m, n) => m = n,
           NEW min \in Nat, NEW upto \in Nat, min <= upto
    PROVE  LET kept == Survivors(versions, min)
           IN /\ Visible(kept, upto) = {} <=> Visible(versions, upto) = {}
              /\ Visible(versions, upto) # {} =>
                   Newest(Visible(kept, upto)) = Newest(Visible(versions, upto))
<1> DEFINE kept == Survivors(versions, min)
           n == Newest(Visible(versions, upto))
<1>1. kept \in SUBSET versions
    BY DEF Survivors
<1>2. CASE Visible(versions, upto) = {}
  <2>1. Visible(kept, upto) = {}
      BY <1>1, <1>2 DEF Visible
  <2> QED BY <1>2, <2>1
<1>3. CASE Visible(versions, upto) # {}
  <2>1. n \in versions /\ \A m \in versions : m.seq <= upto => Leq(m, n)
      BY <1>3, NewestVisible
  <2>2. ASSUME NEW g \in versions, g.seq <= min, Lt(n, g) PROVE FALSE
    <3>1. /\ g.seq \in Nat /\ g.mark \in {0, 1}
          /\ n.seq \in Nat /\ n.mark \in {0, 1}
        BY <2>1, SeqMarkedFields
    <3>2. Leq(g, n)
        BY <2>1, <2>2, <3>1
    <3> HIDE DEF n
    <3> QED BY <2>2, <3>1, <3>2 DEF Leq, Lt, SameOrder
  <2>3. n \in kept
      BY <2>1, <2>2 DEF Survivors, Shadowed
  <2> QED BY <1>1, <1>3, <2>3, SameNewest
<1> QED BY <1>2, <1>3

\* The same for two tables: versions above a sequence do not change what is
\* read at it, whether they are in the other table or not.
LEMMA ReadBelow ==
    ASSUME NEW old \in SUBSET SeqMarkeds, NEW new \in SUBSET SeqMarkeds,
           NEW upto \in Nat, \A m \in new : upto < m.seq
    PROVE  Visible(old \cup new, upto) = Visible(old, upto)
<1>1. /\ Visible(old \cup new, upto) = {m \in old \cup new : m.seq <= upto}
      /\ Visible(old, upto) = {m \in old : m.seq <= upto}
    BY VisibleIs
<1>2. \A m \in new : m.seq \in Nat
    BY SeqMarkedFields
<1>3. \A m \in new : ~(m.seq <= upto)
    BY <1>2
<1> QED BY <1>1, <1>3

\* Changes above a sequence, applied, do not change what is read at it: the
\* versions they replace are above it too.
LEMMA ApplyReadsBelow ==
    ASSUME NEW t \in Tables, NEW changes \in Tables, NEW k \in Keys, NEW upto \in Nat,
           \A m \in changes.inner[k] : upto < m.seq
    PROVE  Get(Apply(t, changes), k, upto) = Get(t, k, upto)
<1> DEFINE u == Apply(t, changes)
           old == {n \in t.inner[k] : \A m \in changes.inner[k] : ~SameOrder(n, m)}
<1>1. /\ u.inner[k] = old \cup changes.inner[k]
      /\ old \in SUBSET SeqMarkeds /\ changes.inner[k] \in SUBSET SeqMarkeds
      /\ t.inner[k] \in SUBSET SeqMarkeds
    BY DEF Apply, Extend, Tables
<1> HIDE DEF u, old
<1>2. Visible(u.inner[k], upto) = Visible(old, upto)
  <2>1. Visible(old \cup changes.inner[k], upto) = Visible(old, upto)
      BY <1>1, ReadBelow
  <2> QED BY <1>1, <2>1
<1>3. ASSUME NEW n \in t.inner[k], n.seq <= upto, NEW m \in changes.inner[k]
      PROVE  ~SameOrder(n, m)
  <2>1. n.seq \in Nat /\ m.seq \in Nat /\ upto < m.seq
      BY <1>1, SeqMarkedFields
  <2> QED BY <1>3, <2>1 DEF SameOrder
<1>4. Visible(old, upto) = Visible(t.inner[k], upto)
  <2>1. /\ Visible(old, upto) = {n \in old : n.seq <= upto}
        /\ Visible(t.inner[k], upto) = {n \in t.inner[k] : n.seq <= upto}
      BY <1>1, VisibleIs
  <2> QED BY <1>3, <2>1 DEF old
<1> QED BY <1>2, <1>4 DEF Get, u

\* compact(changes, table) at min reads as the table did between min and the
\* changes, when no (key, order key) is on both sides.
LEMMA CompactReadsBelow ==
    ASSUME NEW changes \in Tables, Unique(changes), NEW t \in Tables, Unique(t),
           NEW k \in Keys, NEW min \in Nat, NEW upto \in Nat, min <= upto,
           \A m \in changes.inner[k] : upto < m.seq,
           \A m \in changes.inner[k], n \in t.inner[k] : n.seq < m.seq
    PROVE  Get(Compact(changes, t, min), k, upto) = Get(t, k, upto)
<1> DEFINE u == Compact(changes, t, min)
           both == changes.inner[k] \cup t.inner[k]
<1>1. /\ u.inner[k] = Survivors(both, min)
      /\ changes.inner[k] \in SUBSET SeqMarkeds /\ t.inner[k] \in SUBSET SeqMarkeds
      /\ both \in SUBSET SeqMarkeds
    BY DEF Compact, Tables
<1>2. \A m \in changes.inner[k], n \in t.inner[k] : ~SameOrder(m, n) /\ ~SameOrder(n, m)
  <2>1. ASSUME NEW m \in changes.inner[k], NEW n \in t.inner[k]
        PROVE  ~SameOrder(m, n) /\ ~SameOrder(n, m)
    <3>1. m.seq \in Nat /\ n.seq \in Nat /\ n.seq < m.seq
        BY <1>1, SeqMarkedFields
    <3> QED BY <3>1 DEF SameOrder
  <2> QED BY <2>1
<1>3. \A m, n \in both : SameOrder(m, n) => m = n
    BY <1>2 DEF Unique
<1>4. Visible(both, upto) = Visible(t.inner[k], upto)
  <2>1. Visible(t.inner[k] \cup changes.inner[k], upto) = Visible(t.inner[k], upto)
      BY <1>1, ReadBelow
  <2>2. both = t.inner[k] \cup changes.inner[k]
      OBVIOUS
  <2> QED BY <2>1, <2>2
<1> HIDE DEF both, u
<1>5. /\ Visible(u.inner[k], upto) = {} <=> Visible(both, upto) = {}
      /\ Visible(both, upto) # {} =>
           Newest(Visible(u.inner[k], upto)) = Newest(Visible(both, upto))
    BY <1>1, <1>3, SurvivorsReadSame
<1> QED BY <1>4, <1>5 DEF Get, u

\* Compaction of a table on its own keeps every read at or above min.
LEMMA CompactAloneReads ==
    ASSUME NEW t \in Tables, Unique(t), NEW k \in Keys, NEW min \in Nat,
           NEW upto \in Nat, min <= upto
    PROVE  Get(Compact(t, NewTable, min), k, upto) = Get(t, k, upto)
<1> DEFINE u == Compact(t, NewTable, min)
<1>1. u.inner[k] = Survivors(t.inner[k], min) /\ t.inner[k] \in SUBSET SeqMarkeds
  <2>1. t.inner[k] \cup NewTable.inner[k] = t.inner[k]
      BY DEF NewTable
  <2> QED BY <2>1 DEF Compact, Tables
<1>2. \A m, n \in t.inner[k] : SameOrder(m, n) => m = n
    BY DEF Unique
<1>3. /\ Visible(u.inner[k], upto) = {} <=> Visible(t.inner[k], upto) = {}
      /\ Visible(t.inner[k], upto) # {} =>
           Newest(Visible(u.inner[k], upto)) = Newest(Visible(t.inner[k], upto))
    BY <1>1, <1>2, SurvivorsReadSame
<1> HIDE DEF u
<1> QED BY <1>3 DEF Get, u

-----------------------------------------------------------------------------
(* The operations on tables keep them well formed.                         *)

WellFormed(t) == t \in Tables /\ Unique(t) /\ Highest(t)

\* Table::new is well formed.
LEMMA NewTableWellFormed == WellFormed(NewTable)
BY DEF WellFormed, NewTable, Tables, Unique, Highest, NoVersions, Zero, OrderKeys,
       Marks, Normal, TombStone

\* Insertion at or above the last sequence: the new version is the highest.
LEMMA InsertWellFormed ==
    ASSUME NEW t, WellFormed(t), NEW k \in Keys,
           NEW seq \in Nat, NEW value \in Values \cup {NoValue}, t.last_seq.seq <= seq
    PROVE  WellFormed(Insert(t, k, NewMarked(seq, value)))
<1> DEFINE m == NewMarked(seq, value)
           u == Insert(t, k, m)
<1>1. m \in SeqMarkeds /\ m.seq = seq /\ OrderKey(m) \in OrderKeys /\ OrderKey(m).seq = seq
    BY NewMarkedType
<1> HIDE DEF m
<1>2. /\ u.inner = [t.inner EXCEPT ![k] = Put(@, m)]
      /\ u.last_seq = OrderKey(m)
      /\ u = [inner |-> u.inner, last_seq |-> u.last_seq]
    BY DEF Insert
<1>3. Put(t.inner[k], m) \in SUBSET SeqMarkeds
    BY <1>1 DEF Put, Tables, WellFormed
<1>4. u \in Tables
    BY <1>1, <1>2, <1>3 DEF Tables, WellFormed
<1> HIDE DEF u
<1>5. /\ u.inner[k] = {x \in t.inner[k] : ~SameOrder(x, m)} \cup {m}
      /\ \A j \in Keys : j # k => u.inner[j] = t.inner[j]
    BY <1>2 DEF Tables, Put, WellFormed
<1>6. ASSUME NEW j \in Keys, NEW a \in u.inner[j], NEW b \in u.inner[j], SameOrder(a, b)
      PROVE  a = b
  <2>1. SameOrder(b, a)
      BY <1>6 DEF SameOrder
  <2>2. CASE j # k
      BY <1>5, <1>6, <2>2 DEF WellFormed, Unique
  <2>3. CASE j = k
      BY <1>5, <1>6, <2>1, <2>3 DEF WellFormed, Unique
  <2> QED BY <2>2, <2>3
<1>7. ASSUME NEW j \in Keys, NEW x \in u.inner[j] PROVE x.seq <= seq
  <2>1. x \in t.inner[j] \/ x = m
      BY <1>5
  <2>2. x \in t.inner[j] => x \in SeqMarkeds /\ x.seq <= t.last_seq.seq
      BY DEF WellFormed, Tables, Highest
  <2>3. t.last_seq.seq \in Nat
      BY DEF WellFormed, Tables, OrderKeys
  <2> QED BY <1>1, <2>1, <2>2, <2>3, SeqMarkedFields
<1>8. m \in u.inner[k] /\ u.last_seq.seq = seq
    BY <1>1, <1>2, <1>5
<1>9. Highest(u)
    BY <1>1, <1>7, <1>8 DEF Highest
<1> QED BY <1>4, <1>6, <1>9 DEF WellFormed, Unique, u, m

\* apply of a change set that passes the assertion.
LEMMA ApplyWellFormed ==
    ASSUME NEW t, WellFormed(t), NEW changes, WellFormed(changes), CanApply(t, changes)
    PROVE  WellFormed(Apply(t, changes))
<1> DEFINE u == Apply(t, changes)
<1>1. /\ \A k \in Keys : u.inner[k] =
            {n \in t.inner[k] : \A m \in changes.inner[k] : ~SameOrder(n, m)}
               \cup changes.inner[k]
      /\ u.last_seq = changes.last_seq
      /\ u \in Tables
    BY DEF Apply, Extend, Tables, WellFormed
<1> HIDE DEF u
<1>2. ASSUME NEW k \in Keys, NEW a \in u.inner[k], NEW b \in u.inner[k], SameOrder(a, b)
      PROVE  a = b
  <2>1. SameOrder(b, a)
      BY <1>2 DEF SameOrder
  <2> QED BY <1>1, <1>2, <2>1 DEF Unique, WellFormed
<1>3. /\ t.last_seq.seq \in Nat /\ t.last_seq.mark \in {0, 1}
      /\ changes.last_seq.seq \in Nat /\ changes.last_seq.mark \in {0, 1}
    BY DEF WellFormed, Tables, OrderKeys, Marks, Normal, TombStone
<1>4. t.last_seq.seq <= changes.last_seq.seq
    BY <1>3 DEF CanApply, Leq, Lt, SameOrder
<1>5. ASSUME NEW k \in Keys, NEW x \in u.inner[k] PROVE x.seq <= u.last_seq.seq
  <2>1. x \in SeqMarkeds /\ (x \in t.inner[k] \/ x \in changes.inner[k])
      BY <1>1 DEF Tables
  <2>2. x.seq <= t.last_seq.seq \/ x.seq <= changes.last_seq.seq
      BY <2>1 DEF WellFormed, Highest
  <2>3. x.seq \in Nat
      BY <2>1, SeqMarkedFields
  <2> QED BY <1>1, <1>3, <1>4, <2>2, <2>3
<1>6. \/ NoVersions(u) /\ u.last_seq = Zero
      \/ \E k \in Keys : \E m \in u.inner[k] : m.seq = u.last_seq.seq
  <2>1. CASE \E k \in Keys : \E m \in changes.inner[k] : m.seq = changes.last_seq.seq
      BY <1>1, <2>1
  <2>2. CASE NoVersions(changes) /\ changes.last_seq = Zero
    <3>1. t.last_seq.seq = changes.last_seq.seq
        BY <1>3, <1>4, <2>2 DEF Zero
    <3>2. \A k \in Keys : u.inner[k] = t.inner[k]
        BY <1>1, <2>2 DEF NoVersions
    <3> QED BY <1>1, <2>2, <3>1, <3>2 DEF WellFormed, Highest, NoVersions
  <2> QED BY <2>1, <2>2 DEF WellFormed, Highest
<1> QED BY <1>1, <1>2, <1>5, <1>6 DEF WellFormed, Unique, Highest, u

\* compact of two tables whose merge passes the assertion.  The version with
\* the highest sequence survives, or one of the same sequence that shadows it.
LEMMA CompactWellFormed ==
    ASSUME NEW t, WellFormed(t), NEW other, WellFormed(other), NEW min \in Nat,
           ~CompactPanics(t, other, min)
    PROVE  WellFormed(Compact(t, other, min))
<1> DEFINE u == Compact(t, other, min)
           both(k) == t.inner[k] \cup other.inner[k]
<1>1. /\ \A k \in Keys : u.inner[k] = Survivors(both(k), min)
      /\ u.last_seq = IF Lt(other.last_seq, t.last_seq) THEN t.last_seq ELSE other.last_seq
      /\ u \in Tables
    BY DEF Compact, Tables, WellFormed, Survivors
<1> HIDE DEF u
<1>2. ASSUME NEW k \in Keys, NEW a \in u.inner[k], NEW b \in u.inner[k], SameOrder(a, b)
      PROVE  a = b
  <2>1. SameOrder(b, a)
      BY <1>2 DEF SameOrder
  <2>2. /\ a \in both(k) /\ ~Shadowed(both(k), a, min)
        /\ b \in both(k) /\ ~Shadowed(both(k), b, min)
      BY <1>1, <1>2 DEF Survivors
  <2>3. ~(a \in t.inner[k] /\ b \in other.inner[k])
      BY <1>2, <2>2 DEF CompactPanics
  <2>4. ~(b \in t.inner[k] /\ a \in other.inner[k])
      BY <2>1, <2>2 DEF CompactPanics
  <2> QED BY <1>2, <2>2, <2>3, <2>4 DEF Unique, WellFormed
<1>3. /\ t.last_seq.seq \in Nat /\ other.last_seq.seq \in Nat
      /\ t.last_seq.seq <= u.last_seq.seq /\ other.last_seq.seq <= u.last_seq.seq
      /\ u.last_seq = t.last_seq \/ u.last_seq = other.last_seq
  <2>1. t.last_seq \in OrderKeys /\ other.last_seq \in OrderKeys
      BY DEF WellFormed, Tables
  <2> QED BY <1>1, <2>1 DEF OrderKeys, Lt, Marks, Normal, TombStone
<1>4. \A k \in Keys : /\ both(k) \in SUBSET SeqMarkeds
                      /\ \A x \in both(k) : x.seq \in Nat /\ x.seq <= u.last_seq.seq
  <2>1. ASSUME NEW k \in Keys, NEW x \in both(k)
        PROVE  x \in SeqMarkeds /\ x.seq \in Nat /\ x.seq <= u.last_seq.seq
    <3>1. x \in SeqMarkeds /\ x.seq \in Nat
        BY SeqMarkedFields DEF WellFormed, Tables
    <3>2. x.seq <= t.last_seq.seq \/ x.seq <= other.last_seq.seq
        BY DEF WellFormed, Highest
    <3>3. u.last_seq.seq \in Nat
        BY <1>3
    <3> QED BY <1>3, <3>1, <3>2, <3>3
  <2> QED BY <2>1
<1>5. \A k \in Keys : \A x \in u.inner[k] : x.seq <= u.last_seq.seq
    BY <1>1, <1>4 DEF Survivors
<1>6. ASSUME NEW k \in Keys, NEW top \in both(k), top.seq = u.last_seq.seq
      PROVE  \E x \in u.inner[k] : x.seq = u.last_seq.seq
  <2>1. both(k) \in SUBSET SeqMarkeds /\ u.last_seq.seq \in Nat
        /\ \A x \in both(k) : x.seq <= u.last_seq.seq
      BY <1>3, <1>4
  <2>2. PICK x \in both(k) : \A y \in both(k) : Leq(y, x)
      BY <2>1, BoundedHasNewest
  <2>3. \A y \in both(k) : y.seq \in Nat /\ y.mark \in {0, 1}
      BY <2>1, SeqMarkedFields
  <2>4. x.seq = u.last_seq.seq
      BY <1>6, <2>1, <2>2, <2>3 DEF Leq, Lt, SameOrder
  <2>5. ~Shadowed(both(k), x, min)
      BY <2>2, <2>3 DEF Shadowed, Leq, Lt, SameOrder
  <2> QED BY <1>1, <2>4, <2>5 DEF Survivors
<1>7. \/ NoVersions(u) /\ u.last_seq = Zero
      \/ \E k \in Keys : \E m \in u.inner[k] : m.seq = u.last_seq.seq
  <2>1. CASE \E k \in Keys : \E m \in both(k) : m.seq = u.last_seq.seq
      BY <1>6, <2>1
  <2>2. CASE ~\E k \in Keys : \E m \in both(k) : m.seq = u.last_seq.seq
    <3>1. u.last_seq = Zero
        BY <1>3, <2>2 DEF WellFormed, Highest
    <3>2. t.last_seq.seq = 0 /\ other.last_seq.seq = 0
        BY <1>3, <3>1 DEF Zero
    <3>3. NoVersions(t) /\ NoVersions(other)
        BY <2>2, <3>1, <3>2 DEF WellFormed, Highest, Zero
    <3>4. NoVersions(u)
        BY <1>1, <3>3 DEF NoVersions, Survivors
    <3> QED BY <3>1, <3>4
  <2> QED BY <2>1, <2>2
<1> QED BY <1>1, <1>2, <1>5, <1>7 DEF WellFormed, Unique, Highest, u

\* from_stream of the table's own newest entries.
LEMMA ReloadWellFormed ==
    ASSUME NEW t, WellFormed(t)
    PROVE  WellFormed(FromStream(RangeUpto(t, t.last_seq.seq)))
<1> DEFINE n == t.last_seq.seq
           entries == RangeUpto(t, n)
           streamed == {entries[k] : k \in DOMAIN entries}
           u == FromStream(entries)
<1>1. n \in Nat /\ t.inner \in [Keys -> SUBSET SeqMarkeds]
    BY DEF WellFormed, Tables, OrderKeys
<1>2. /\ DOMAIN entries = {k \in Keys : Visible(t.inner[k], n) # {}}
      /\ \A k \in DOMAIN entries : entries[k] = Newest(Visible(t.inner[k], n))
    BY DEF RangeUpto
<1>3. \A k \in DOMAIN entries : entries[k] \in t.inner[k] /\ entries[k].seq <= n
    BY <1>1, RangeEntry DEF WellFormed
<1>4. streamed \in SUBSET SeqMarkeds /\ \A m \in streamed : m.seq <= n
    BY <1>1, <1>2, <1>3
<1>5. /\ u.inner = [k \in Keys |-> IF k \in DOMAIN entries THEN {entries[k]} ELSE {}]
      /\ u.last_seq = IF streamed = {} THEN Zero ELSE OrderKey(Newest(streamed))
      /\ u = [inner |-> u.inner, last_seq |-> u.last_seq]
    BY DEF FromStream
<1> HIDE DEF u, streamed, entries, n
<1>6. u.inner \in [Keys -> SUBSET SeqMarkeds] /\ Unique(u)
    BY <1>1, <1>2, <1>3, <1>5 DEF Unique
<1>7. CASE streamed = {}
  <2>1. NoVersions(u) /\ u.last_seq = Zero
      BY <1>5, <1>7 DEF NoVersions, streamed
  <2> QED
      BY <1>5, <1>6, <2>1
      DEF WellFormed, Tables, Highest, NoVersions, Zero, OrderKeys, Marks, Normal, TombStone, u, entries, n
<1>8. CASE streamed # {}
  <2> DEFINE top == Newest(streamed)
  <2>1. top \in streamed /\ \A m \in streamed : Leq(m, top)
      BY <1>1, <1>4, <1>8, NewestIsNewest
  <2>2. /\ \A m \in streamed : m.seq \in Nat /\ m.mark \in {0, 1}
        /\ top \in SeqMarkeds
      BY <1>4, <2>1, SeqMarkedFields
  <2> HIDE DEF top
  <2>3. u.last_seq = OrderKey(top) /\ u.last_seq.seq = top.seq /\ u.last_seq \in OrderKeys
      BY <1>5, <1>8, <2>2 DEF OrderKey, OrderKeys, SeqMarkeds, top
  <2>4. \A k \in Keys : \A m \in u.inner[k] : m \in streamed
      BY <1>5 DEF streamed
  <2>5. \A m \in streamed : m.seq <= u.last_seq.seq
      BY <2>1, <2>2, <2>3 DEF Leq, Lt, SameOrder
  <2>6. \E k \in Keys : \E m \in u.inner[k] : m.seq = u.last_seq.seq
    <3>1. PICK k \in DOMAIN entries : top = entries[k]
        BY <2>1 DEF streamed
    <3>2. k \in Keys /\ u.inner[k] = {top}
        BY <1>2, <1>5, <3>1
    <3> QED BY <2>3, <3>2
  <2>7. Highest(u)
      BY <2>4, <2>5, <2>6 DEF Highest
  <2> QED BY <1>5, <1>6, <2>3, <2>7 DEF WellFormed, Tables, u, entries, n
<1> QED BY <1>7, <1>8

-----------------------------------------------------------------------------
(* The newest entry of a key.                                              *)

\* What a read of everything returns.
Latest(versions) == IF versions = {} THEN NotFound ELSE Newest(versions)

\* A version at or above all the others is the newest one.
LEMMA NewestIs ==
    ASSUME NEW versions \in SUBSET SeqMarkeds,
           \A m, n \in versions : SameOrder(m, n) => m = n,
           NEW top \in versions, \A m \in versions : Leq(m, top)
    PROVE  Newest(versions) = top
<1> DEFINE newest == Newest(versions)
<1>1. newest \in versions /\ \A m \in versions : Leq(m, newest)
    BY DEF Newest
<1>2. /\ top.seq \in Nat /\ top.mark \in {0, 1}
      /\ newest.seq \in Nat /\ newest.mark \in {0, 1}
    BY <1>1, SeqMarkedFields
<1>3. Leq(top, newest) /\ Leq(newest, top)
    BY <1>1
<1> HIDE DEF newest
<1>4. SameOrder(newest, top)
    BY <1>2, <1>3 DEF Leq, Lt, SameOrder
<1> QED BY <1>1, <1>4 DEF newest

\* Bounded versions and their newest one.
LEMMA LatestIsNewest ==
    ASSUME NEW versions \in SUBSET SeqMarkeds, versions # {}, NEW n \in Nat,
           \A m \in versions : m.seq <= n
    PROVE  Latest(versions) \in versions /\ \A m \in versions : Leq(m, Latest(versions))
BY NewestIsNewest DEF Latest

\* A read at or above last_seq sees every version.
LEMMA ReadLatest ==
    ASSUME NEW t, WellFormed(t), NEW k \in Keys, NEW upto \in Nat, t.last_seq.seq <= upto
    PROVE  Get(t, k, upto) = Latest(t.inner[k])
<1>1. /\ t.inner[k] \in SUBSET SeqMarkeds /\ t.last_seq.seq \in Nat
      /\ \A m \in t.inner[k] : m.seq <= t.last_seq.seq
    BY DEF WellFormed, Tables, OrderKeys, Highest
<1>2. \A m \in t.inner[k] : m.seq \in Nat
    BY <1>1, SeqMarkedFields
<1>3. \A m \in t.inner[k] : m.seq <= upto
    BY <1>1, <1>2
<1>4. Visible(t.inner[k], upto) = t.inner[k]
    BY <1>1, <1>3, VisibleIs
<1> QED BY <1>4 DEF Get, Latest

\* The newest version survives every compaction, whatever its minimum.
LEMMA SurvivorsLatest ==
    ASSUME NEW versions \in SUBSET SeqMarkeds, NEW min \in Nat,
           \A m, n \in versions : SameOrder(m, n) => m = n,
           NEW bound \in Nat, \A m \in versions : m.seq <= bound
    PROVE  Latest(Survivors(versions, min)) = Latest(versions)
<1> DEFINE kept == Survivors(versions, min)
           top == Latest(versions)
<1>1. kept \in SUBSET versions /\ kept \in SUBSET SeqMarkeds
    BY DEF Survivors
<1>2. CASE versions = {}
    BY <1>1, <1>2 DEF Latest
<1>3. CASE versions # {}
  <2>1. top \in versions /\ \A m \in versions : Leq(m, top)
      BY <1>3, LatestIsNewest
  <2>2. \A m \in versions : m.seq \in Nat /\ m.mark \in {0, 1}
      BY SeqMarkedFields
  <2> HIDE DEF top
  <2>3. ~Shadowed(versions, top, min)
      BY <2>1, <2>2 DEF Shadowed, Leq, Lt, SameOrder
  <2>4. top \in kept
      BY <2>1, <2>3 DEF Survivors
  <2>5. /\ \A m \in kept : Leq(m, top)
        /\ \A m, n \in kept : SameOrder(m, n) => m = n
      BY <1>1, <2>1
  <2> HIDE DEF kept
  <2>6. Newest(kept) = top
      BY <1>1, <2>4, <2>5, NewestIs
  <2> QED BY <2>4, <2>6 DEF Latest, kept, top
<1> QED BY <1>2, <1>3

\* from_stream of a table's newest entries keeps them.
LEMMA ReloadLatest ==
    ASSUME NEW t, WellFormed(t), NEW k \in Keys
    PROVE  LET u == FromStream(RangeUpto(t, t.last_seq.seq))
           IN  Latest(u.inner[k]) = Latest(t.inner[k])
<1> DEFINE n == t.last_seq.seq
           entries == RangeUpto(t, n)
           u == FromStream(entries)
<1>1. n \in Nat /\ t.inner[k] \in SUBSET SeqMarkeds /\ \A m \in t.inner[k] : m.seq <= n
    BY DEF WellFormed, Tables, OrderKeys, Highest
<1>2. Visible(t.inner[k], n) = t.inner[k]
    BY <1>1, VisibleIs
<1>3. /\ k \in DOMAIN entries <=> t.inner[k] # {}
      /\ k \in DOMAIN entries => entries[k] = Newest(t.inner[k])
    BY <1>2 DEF RangeUpto
<1>4. u.inner[k] = IF k \in DOMAIN entries THEN {entries[k]} ELSE {}
    BY DEF FromStream
<1> HIDE DEF entries, u, n
<1>5. CASE t.inner[k] = {}
    BY <1>3, <1>4, <1>5 DEF Latest, u, entries, n
<1>6. CASE t.inner[k] # {}
  <2> DEFINE top == Newest(t.inner[k])
  <2>1. u.inner[k] = {top}
      BY <1>3, <1>4, <1>6
  <2>2. Newest({top}) = top
    <3>1. Leq(top, top)
        BY DEF Leq, SameOrder
    <3> QED BY <3>1 DEF Newest
  <2> QED BY <1>6, <2>1, <2>2 DEF Latest, u, entries, n
<1> QED BY <1>5, <1>6

\* A key the changes do not touch keeps its versions when they are applied.
LEMMA ApplyUntouched ==
    ASSUME NEW t \in Tables, NEW changes \in Tables, NEW k \in Keys, changes.inner[k] = {}
    PROVE  Apply(t, changes).inner[k] = t.inner[k]
BY DEF Apply, Extend, Tables

\* The entries from_stream keeps are versions of the table it was streamed from.
LEMMA ReloadKeeps ==
    ASSUME NEW t \in Tables, NEW upto \in Nat, NEW k \in Keys,
           NEW m \in FromStream(RangeUpto(t, upto)).inner[k]
    PROVE  m \in t.inner[k]
<1> DEFINE entries == RangeUpto(t, upto)
<1>1. FromStream(entries).inner[k] = IF k \in DOMAIN entries THEN {entries[k]} ELSE {}
    BY DEF FromStream
<1>2. k \in DOMAIN entries /\ m = entries[k]
    BY <1>1
<1> QED BY <1>2, RangeEntry

\* A reload keeps the sequence of last_seq.
LEMMA ReloadSeq ==
    ASSUME NEW t, WellFormed(t)
    PROVE  FromStream(RangeUpto(t, t.last_seq.seq)).last_seq.seq = t.last_seq.seq
<1> DEFINE u == FromStream(RangeUpto(t, t.last_seq.seq))
<1>1. /\ WellFormed(u) /\ u.last_seq.seq \in Nat
      /\ t.last_seq.seq \in Nat
    BY ReloadWellFormed DEF WellFormed, Tables, OrderKeys
<1>2. \A k \in Keys : \A m \in u.inner[k] : m \in t.inner[k]
    BY <1>1, ReloadKeeps DEF WellFormed
<1>3. \A k \in Keys : Latest(u.inner[k]) = Latest(t.inner[k])
    BY ReloadLatest
<1> HIDE DEF u
<1>4. u.last_seq.seq <= t.last_seq.seq
  <2>1. CASE u.last_seq = Zero
      BY <1>1, <2>1 DEF Zero
  <2>2. CASE \E k \in Keys : \E m \in u.inner[k] : m.seq = u.last_seq.seq
      BY <1>2, <2>2 DEF WellFormed, Highest
  <2> QED BY <1>1, <2>1, <2>2 DEF WellFormed, Highest
<1>5. t.last_seq.seq <= u.last_seq.seq
  <2>1. CASE t.last_seq = Zero
      BY <1>1, <2>1 DEF Zero
  <2>2. ASSUME NEW k \in Keys, NEW m \in t.inner[k], m.seq = t.last_seq.seq
        PROVE  t.last_seq.seq <= u.last_seq.seq
    <3> DEFINE top == Latest(t.inner[k])
    <3>1. t.inner[k] \in SUBSET SeqMarkeds /\ \A x \in t.inner[k] : x.seq <= t.last_seq.seq
        BY DEF WellFormed, Tables, Highest
    <3>2. top \in t.inner[k] /\ Leq(m, top)
        BY <1>1, <3>1, LatestIsNewest
    <3>3. /\ m.seq \in Nat /\ top.seq \in Nat /\ top \in SeqMarkeds
          /\ top # NotFound \/ t.last_seq.seq = 0
      <4>1. m.seq \in Nat /\ top.seq \in Nat /\ top \in SeqMarkeds
          BY <3>1, <3>2, SeqMarkedFields
      <4> HIDE DEF top
      <4> QED BY <2>2, <3>2, <4>1 DEF NotFound, NewTombstone, Leq, Lt, SameOrder
    <3> HIDE DEF top
    <3>4. m.seq <= top.seq
        BY <3>2, <3>3 DEF Leq, Lt, SameOrder
    <3>5. CASE u.inner[k] = {}
      <4>1. top = NotFound
          BY <1>3, <3>5 DEF Latest, top
      <4> QED BY <1>1, <3>3, <4>1
    <3>6. CASE u.inner[k] # {}
      <4>1. u.inner[k] \in SUBSET SeqMarkeds /\ \A x \in u.inner[k] : x.seq <= u.last_seq.seq
          BY <1>1 DEF WellFormed, Tables, Highest
      <4>2. top \in u.inner[k]
          BY <1>1, <1>3, <3>6, <4>1, LatestIsNewest DEF top
      <4> QED BY <1>1, <2>2, <3>3, <3>4, <4>1, <4>2
    <3> QED BY <3>5, <3>6
  <2> QED BY <2>1, <2>2 DEF WellFormed, Highest
<1> QED BY <1>1, <1>4, <1>5 DEF u

\* A merge by compact takes the greater last_seq, one by apply the changes'.
LEMMA MergeSeqRises ==
    ASSUME NEW t \in Tables, NEW other \in Tables, NEW min
    PROVE  /\ CanApply(t, other) => t.last_seq.seq <= Apply(t, other).last_seq.seq
           /\ t.last_seq.seq <= Compact(other, t, min).last_seq.seq
           /\ t.last_seq.seq <= Compact(t, other, min).last_seq.seq
<1>1. /\ t.last_seq.seq \in Nat /\ t.last_seq.mark \in {0, 1}
      /\ other.last_seq.seq \in Nat /\ other.last_seq.mark \in {0, 1}
    BY DEF Tables, OrderKeys, Marks, Normal, TombStone
<1> QED BY <1>1 DEF CanApply, Apply, Compact, Leq, Lt, SameOrder

-----------------------------------------------------------------------------
(* last_seq as an order key: no version is above it, and one is at it.     *)

TopOK(t) ==
    /\ \A k \in Keys : \A m \in t.inner[k] : Leq(m, t.last_seq)
    /\ \/ NoVersions(t) /\ t.last_seq = Zero
       \/ \E k \in Keys : \E m \in t.inner[k] : SameOrder(m, t.last_seq)

\* Insertion of a version that is not below it.
LEMMA InsertTop ==
    ASSUME NEW t \in Tables, TopOK(t), NEW k \in Keys, NEW m \in SeqMarkeds, Leq(t.last_seq, m)
    PROVE  TopOK(Insert(t, k, m))
<1> DEFINE u == Insert(t, k, m)
<1>1. /\ \A j \in Keys : u.inner[j] = IF j = k THEN {n \in t.inner[k] : ~SameOrder(n, m)} \cup {m}
                                                ELSE t.inner[j]
      /\ u.last_seq = [seq |-> m.seq, mark |-> m.mark]
    BY DEF Insert, Put, OrderKey, Tables
<1>2. /\ t.last_seq.seq \in Nat /\ t.last_seq.mark \in {0, 1}
      /\ m.seq \in Nat /\ m.mark \in {0, 1}
    BY SeqMarkedFields DEF Tables, OrderKeys, Marks, Normal, TombStone
<1> HIDE DEF u
<1>3. ASSUME NEW j \in Keys, NEW n \in u.inner[j] PROVE Leq(n, u.last_seq)
  <2>1. CASE n = m
      BY <1>1, <2>1 DEF Leq, SameOrder
  <2>2. CASE n \in t.inner[j]
    <3>1. n.seq \in Nat /\ n.mark \in {0, 1} /\ Leq(n, t.last_seq)
        BY <2>2, SeqMarkedFields DEF Tables, TopOK
    <3> QED BY <1>1, <1>2, <3>1 DEF Leq, Lt, SameOrder
  <2> QED BY <1>1, <1>3, <2>1, <2>2
<1>4. m \in u.inner[k]
    BY <1>1
<1>5. SameOrder(m, u.last_seq)
    BY <1>1 DEF SameOrder
<1> QED BY <1>3, <1>4, <1>5 DEF TopOK, u

\* A merge of changes whose last_seq is not below the table's.
LEMMA ApplyTop ==
    ASSUME NEW t \in Tables, TopOK(t), NEW changes \in Tables, TopOK(changes),
           CanApply(t, changes), ~NoVersions(changes)
    PROVE  TopOK(Apply(t, changes))
<1> DEFINE u == Apply(t, changes)
<1>1. /\ \A k \in Keys : /\ u.inner[k] \subseteq t.inner[k] \cup changes.inner[k]
                         /\ changes.inner[k] \subseteq u.inner[k]
      /\ u.last_seq = changes.last_seq
    BY DEF Apply, Extend
<1>2. /\ t.last_seq.seq \in Nat /\ t.last_seq.mark \in {0, 1}
      /\ u.last_seq.seq \in Nat /\ u.last_seq.mark \in {0, 1}
      /\ Leq(t.last_seq, u.last_seq)
    BY <1>1 DEF Tables, OrderKeys, Marks, Normal, TombStone, CanApply
<1> HIDE DEF u
<1>3. ASSUME NEW k \in Keys, NEW n \in u.inner[k] PROVE Leq(n, u.last_seq)
  <2>1. CASE n \in changes.inner[k]
      BY <1>1, <2>1 DEF TopOK
  <2>2. CASE n \in t.inner[k]
    <3>1. n.seq \in Nat /\ n.mark \in {0, 1} /\ Leq(n, t.last_seq)
        BY <2>2, SeqMarkedFields DEF Tables, TopOK
    <3> QED BY <1>2, <3>1 DEF Leq, Lt, SameOrder
  <2> QED BY <1>1, <1>3, <2>1, <2>2
<1>4. \E k \in Keys : \E n \in u.inner[k] : SameOrder(n, u.last_seq)
    BY <1>1 DEF TopOK
<1> QED BY <1>3, <1>4 DEF TopOK, u

\* Compaction of the table alone keeps last_seq, whose version stays.
LEMMA CompactTop ==
    ASSUME NEW t \in Tables, TopOK(t), NEW min
    PROVE  /\ TopOK(Compact(t, NewTable, min))
           /\ Compact(t, NewTable, min).last_seq = t.last_seq
<1> DEFINE u == Compact(t, NewTable, min)
<1>1. \A k \in Keys : u.inner[k] = Survivors(t.inner[k], min)
  <2>1. \A k \in Keys : t.inner[k] \cup NewTable.inner[k] = t.inner[k]
      BY DEF NewTable
  <2> QED BY <2>1 DEF Compact
<1>2. t.last_seq \in OrderKeys
    BY DEF Tables
<1>3. u.last_seq = t.last_seq
    BY <1>2 DEF Compact, NewTable, Lt, Zero, OrderKeys, Marks, Normal, TombStone
<1>4. t.last_seq.seq \in Nat /\ t.last_seq.mark \in {0, 1}
    BY <1>2 DEF OrderKeys, Marks, Normal, TombStone
<1>5. ASSUME NEW k \in Keys, NEW m \in t.inner[k], SameOrder(m, t.last_seq)
      PROVE  m \in u.inner[k]
  <2>1. ASSUME NEW g \in t.inner[k] PROVE ~Lt(m, g)
    <3>1. Leq(g, t.last_seq) /\ g.seq \in Nat /\ g.mark \in {0, 1}
        BY SeqMarkedFields DEF TopOK, Tables
    <3> QED BY <1>4, <1>5, <3>1 DEF Leq, Lt, SameOrder
  <2> QED BY <1>1, <2>1 DEF Survivors, Shadowed
<1> HIDE DEF u
<1>6. \A k \in Keys : u.inner[k] \subseteq t.inner[k]
    BY <1>1 DEF Survivors
<1>7. TopOK(u)
    BY <1>3, <1>5, <1>6 DEF TopOK, NoVersions
<1> QED BY <1>3, <1>7 DEF u

\* A restart finds the same last_seq in the stream of newest entries.
LEMMA ReloadTop ==
    ASSUME NEW t, WellFormed(t), TopOK(t)
    PROVE  LET u == FromStream(RangeUpto(t, t.last_seq.seq))
           IN  TopOK(u) /\ u.last_seq = t.last_seq
<1> DEFINE n == t.last_seq.seq
           entries == RangeUpto(t, n)
           streamed == {entries[k] : k \in DOMAIN entries}
           u == FromStream(entries)
<1>0. /\ t \in Tables /\ n \in Nat /\ t.last_seq.mark \in {0, 1}
      /\ t.last_seq = [seq |-> t.last_seq.seq, mark |-> t.last_seq.mark]
    BY DEF WellFormed, Tables, OrderKeys, Marks, Normal, TombStone
<1>1. /\ \A k \in Keys : u.inner[k] = IF k \in DOMAIN entries THEN {entries[k]} ELSE {}
      /\ u.last_seq = IF streamed = {} THEN Zero ELSE OrderKey(Newest(streamed))
    BY DEF FromStream
<1>2. \A k \in DOMAIN entries : k \in Keys /\ entries[k] \in t.inner[k] /\ entries[k] \in SeqMarkeds
    BY <1>0, RangeEntry
<1>3. ASSUME NEW m \in streamed PROVE Leq(m, t.last_seq)
    BY <1>2 DEF TopOK
<1>4. streamed \in SUBSET SeqMarkeds
    BY <1>2
<1>5. CASE NoVersions(t) /\ t.last_seq = Zero
  <2>1. DOMAIN entries = {}
      BY <1>2, <1>5 DEF NoVersions
  <2>2. u.last_seq = Zero /\ \A k \in Keys : u.inner[k] = {}
      BY <1>1, <2>1
  <2> QED BY <1>5, <2>2 DEF TopOK, NoVersions
<1>6. ASSUME NEW k \in Keys, NEW m \in t.inner[k], SameOrder(m, t.last_seq)
      PROVE  TopOK(u) /\ u.last_seq = t.last_seq
  <2>1. /\ \A j \in Keys : t.inner[j] \in SUBSET SeqMarkeds
        /\ \A x \in t.inner[k] : x.seq \in Nat /\ x.seq <= n
        /\ m.seq = n /\ m.mark = t.last_seq.mark
      BY <1>0, <1>6, SeqMarkedFields DEF WellFormed, Tables, Highest, SameOrder
  <2>2. m \in Visible(t.inner[k], n)
      BY <1>0, <2>1, VisibleIs
  <2>3. k \in DOMAIN entries /\ entries[k] = Newest(Visible(t.inner[k], n))
      BY <2>2 DEF RangeUpto
  <2>4. Leq(m, entries[k])
      BY <1>0, <2>1, <2>2, <2>3, NewestVisible
  <2> DEFINE top == entries[k]
  <2>5. top \in streamed /\ top \in SeqMarkeds /\ Leq(top, t.last_seq) /\ Leq(m, top)
      BY <1>2, <1>3, <2>3, <2>4
  <2> HIDE DEF top, streamed, entries, u, n
  <2>6. top.seq = t.last_seq.seq /\ top.mark = t.last_seq.mark
    <3>1. top.seq \in Nat /\ top.mark \in {0, 1} /\ n \in Nat /\ n = t.last_seq.seq
        BY <1>0, <2>5, SeqMarkedFields DEF n
    <3> QED BY <1>0, <2>1, <2>5, <3>1 DEF Leq, Lt, SameOrder
  <2>7. ASSUME NEW x \in streamed PROVE Leq(x, top)
      BY <1>3, <2>6 DEF Leq, Lt, SameOrder
  <2>8. Newest(streamed) \in streamed /\ Leq(top, Newest(streamed))
    <3>1. \E x \in streamed : \A y \in streamed : Leq(y, x)
        BY <2>5, <2>7
    <3> QED BY <2>5, <3>1 DEF Newest
  <2>9. SameOrder(Newest(streamed), t.last_seq)
    <3>1. Leq(Newest(streamed), top) /\ Newest(streamed) \in SeqMarkeds
        BY <1>4, <2>7, <2>8
    <3>2. /\ Newest(streamed).seq \in Nat /\ Newest(streamed).mark \in {0, 1}
          /\ top.seq \in Nat /\ top.mark \in {0, 1}
        BY <2>5, <3>1, SeqMarkedFields
    <3> QED BY <2>6, <2>8, <3>1, <3>2 DEF Leq, Lt, SameOrder
  <2>10. u.last_seq = t.last_seq
      BY <1>0, <1>1, <2>5, <2>9 DEF OrderKey, SameOrder
  <2>11. top \in u.inner[k] /\ SameOrder(top, u.last_seq)
      BY <1>1, <2>3, <2>6, <2>10 DEF top, SameOrder
  <2>12. \A j \in Keys : \A x \in u.inner[j] : Leq(x, u.last_seq)
    <3>1. \A j \in Keys : \A x \in u.inner[j] : x \in streamed
        BY <1>1 DEF streamed
    <3> QED BY <1>3, <2>10, <3>1
  <2> QED BY <2>10, <2>11, <2>12 DEF TopOK
<1> HIDE DEF u
<1> QED BY <1>5, <1>6 DEF TopOK, u

-----------------------------------------------------------------------------
(* Views and their writes.                                                 *)

\* View::get returns a version.
LEMMA ViewGetType ==
    ASSUME NEW t \in Tables, NEW view \in Views, NEW k \in Keys
    PROVE  ViewGet(t, view, k) \in SeqMarkeds
<1>1. /\ view.changes \in Tables
      /\ view.last_seq \in Nat /\ view.snapshot_seq \in Nat
    BY DEF Views
<1>2. /\ Get(view.changes, k, view.last_seq) \in SeqMarkeds
      /\ Get(t, k, view.snapshot_seq) \in SeqMarkeds
    BY <1>1, GetType
<1> QED BY <1>2 DEF ViewGet, CompactPair

\* A view whose changes are well formed and not ahead of its own sequence.
ViewOK(view) ==
    /\ view \in Views
    /\ WellFormed(view.changes)
    /\ view.changes.last_seq.seq <= view.last_seq

\* View::new.
LEMMA NewViewOK ==
    ASSUME NEW base \in Nat, NEW initial \in Nat, NEW increase \in BOOLEAN
    PROVE  ViewOK(NewView(base, initial, increase))
<1>1. WellFormed(NewTable) /\ NewTable \in Tables /\ NewTable.last_seq.seq = 0
    BY NewTableWellFormed DEF WellFormed, NewTable, Zero
<1> QED BY <1>1 DEF ViewOK, NewView, Views

\* View::set and set_without_seq_increment: their insert never fails, because
\* the sequence they take is not below the last one staged.
LEMMA StageOK ==
    ASSUME NEW view, ViewOK(view), NEW k \in Keys, NEW value \in OptionalValues,
           NEW increase \in BOOLEAN
    PROVE  LET staged == Stage(view, k, value, increase)
           IN /\ ViewOK(staged)
              /\ view.last_seq <= staged.last_seq
              /\ staged.snapshot_seq = view.snapshot_seq
              /\ staged.increase_seq_for_tombstone = view.increase_seq_for_tombstone
<1> DEFINE seq == NextSeq(view, value, increase)
           changes == Insert(view.changes, k, NewMarked(seq, value))
           staged == Stage(view, k, value, increase)
<1>1. /\ view \in Views /\ view.last_seq \in Nat /\ view.changes.last_seq.seq \in Nat
      /\ WellFormed(view.changes)
    BY DEF ViewOK, Views, Tables, OrderKeys
<1>2. seq \in Nat /\ view.last_seq <= seq /\ view.changes.last_seq.seq <= seq
    BY <1>1 DEF NextSeq, ViewOK
<1>3. WellFormed(changes)
    BY <1>1, <1>2, InsertWellFormed DEF OptionalValues
<1>4. changes.last_seq.seq = seq
    BY <1>2, NewMarkedType DEF Insert, OptionalValues
<1>5. staged = [view EXCEPT !.last_seq = seq, !.changes = changes]
    BY DEF Stage
<1> HIDE DEF seq, changes, staged
<1>6. /\ staged \in Views
      /\ staged.last_seq = seq /\ staged.changes = changes
      /\ staged.snapshot_seq = view.snapshot_seq
      /\ staged.increase_seq_for_tombstone = view.increase_seq_for_tombstone
    BY <1>1, <1>2, <1>3, <1>5 DEF Views, WellFormed
<1>7. ViewOK(staged)
    BY <1>2, <1>3, <1>4, <1>6 DEF ViewOK
<1> QED BY <1>2, <1>6, <1>7 DEF staged

-----------------------------------------------------------------------------
(* Views whose writes are over their base.                                 *)

\* What a view stages is at or above its base, and only a deletion is at it.
OverBase(view) ==
    /\ view.snapshot_seq <= view.last_seq
    /\ \A k \in Keys : \A m \in view.changes.inner[k] :
          /\ view.snapshot_seq <= m.seq
          /\ m.mark = Normal => view.snapshot_seq < m.seq

\* A value takes a new sequence, or one the view allocated and did not delete
\* the key at.
FreshWrite(view, k, value, increase) ==
    \/ increase
    \/ value = NoValue
    \/ /\ view.last_seq > view.snapshot_seq
       /\ NewTombstone(view.last_seq) \notin view.changes.inner[k]

\* No value is stored under sequence 0, the sequence of the not-found marker.
ValuesAboveZero(t) == \A k \in Keys : \A m \in t.inner[k] : m.mark = Normal => 0 < m.seq

\* Two answers that are one to a caller, who sees a deletion as no record.
SameRecord(a, b) == a = b \/ (a.mark = TombStone /\ b.mark = TombStone)

\* They carry the same value.
LEMMA SameRecordSameData ==
    ASSUME NEW a \in SeqMarkeds, NEW b \in SeqMarkeds, SameRecord(a, b)
    PROVE  a.data = b.data
BY DEF SameRecord, SeqMarkeds

\* A write puts a version over all those of its key, the view's own included:
\* it takes a greater sequence, or it is a deletion at the same one, or the key
\* has no deletion there.
LEMMA StageIs ==
    ASSUME NEW view, ViewOK(view), OverBase(view), NEW k \in Keys,
           NEW value \in OptionalValues, NEW increase \in BOOLEAN,
           FreshWrite(view, k, value, increase)
    PROVE  LET staged == Stage(view, k, value, increase)
               m == NewMarked(staged.last_seq, value)
           IN /\ staged.last_seq \in Nat /\ view.last_seq <= staged.last_seq
              /\ staged.snapshot_seq = view.snapshot_seq
              /\ m \in SeqMarkeds /\ m.seq = staged.last_seq /\ m.data = value
              /\ m.mark = Normal => view.snapshot_seq < m.seq
              /\ staged.changes.inner =
                    [view.changes.inner EXCEPT ![k] = {x \in @ : ~SameOrder(x, m)} \cup {m}]
              /\ \A x \in staged.changes.inner[k] : Leq(x, m)
<1> DEFINE seq == NextSeq(view, value, increase)
           m == NewMarked(seq, value)
           staged == Stage(view, k, value, increase)
<1>1. /\ view.last_seq \in Nat /\ view.snapshot_seq \in Nat
      /\ view.snapshot_seq <= view.last_seq
      /\ view.changes \in Tables /\ view.changes.last_seq.seq \in Nat
      /\ view.changes.inner[k] \in SUBSET SeqMarkeds
      /\ \A x \in view.changes.inner[k] : x.seq <= view.changes.last_seq.seq
      /\ view.changes.last_seq.seq <= view.last_seq
    BY DEF ViewOK, Views, OverBase, Tables, OrderKeys, WellFormed, Highest
<1>2. seq \in Nat /\ view.last_seq <= seq
    BY <1>1 DEF NextSeq
<1>3. m \in SeqMarkeds /\ m.seq = seq
    BY <1>2, NewMarkedType DEF OptionalValues
<1>4. /\ m.data = value
      /\ m.mark = IF value = NoValue THEN TombStone ELSE Normal
    BY DEF NewMarked, NewTombstone, NewNormal
<1>5. /\ staged.last_seq = seq
      /\ staged.snapshot_seq = view.snapshot_seq
      /\ staged.changes.inner =
            [view.changes.inner EXCEPT ![k] = {x \in @ : ~SameOrder(x, m)} \cup {m}]
    BY DEF Stage, Insert, Put, ViewOK, Views
<1>6. value # NoValue => \/ seq = view.last_seq + 1
                         \/ /\ seq = view.last_seq
                            /\ view.last_seq > view.snapshot_seq
                            /\ NewTombstone(view.last_seq) \notin view.changes.inner[k]
    BY DEF NextSeq, FreshWrite
<1>7. m.mark = Normal => view.snapshot_seq < seq
    BY <1>1, <1>4, <1>6 DEF Normal, TombStone
<1>8. ASSUME NEW x \in view.changes.inner[k], ~SameOrder(x, m) PROVE Leq(x, m)
  <2>1. /\ x.seq \in Nat /\ x.mark \in {0, 1} /\ x.seq <= seq
        /\ m.seq = seq /\ m.mark \in {0, 1}
      BY <1>1, <1>2, <1>3, SeqMarkedFields
  <2>2. CASE x.seq < seq
      BY <2>1, <2>2 DEF Leq, Lt
  <2>3. CASE x.seq = seq /\ value = NoValue
      BY <1>4, <2>1, <2>3 DEF Leq, Lt, SameOrder, TombStone
  <2>4. CASE x.seq = seq /\ value # NoValue
    <3>1. seq = view.last_seq /\ NewTombstone(view.last_seq) \notin view.changes.inner[k]
        BY <1>1, <1>6, <2>1, <2>4
    <3>2. x.mark = 1
        BY <1>4, <1>8, <2>1, <2>4 DEF SameOrder, Normal
    <3>3. x = NewTombstone(seq)
        BY <1>1, <2>4, <3>2 DEF NewTombstone, SeqMarkeds, TombStone, Normal, Marks
    <3> QED BY <3>1, <3>3
  <2> QED BY <1>2, <2>1, <2>2, <2>3, <2>4
<1>9. Leq(m, m)
    BY DEF Leq, SameOrder
<1> HIDE DEF seq, m
<1>10. \A x \in staged.changes.inner[k] : Leq(x, m)
  <2>1. staged.changes.inner[k] = {x \in view.changes.inner[k] : ~SameOrder(x, m)} \cup {m}
      BY <1>1, <1>5 DEF Tables
  <2> QED BY <1>8, <1>9, <2>1
<1> HIDE DEF staged
<1>11. m = NewMarked(staged.last_seq, value)
    BY <1>5 DEF m
<1> QED BY <1>2, <1>3, <1>4, <1>5, <1>7, <1>10, <1>11 DEF staged

\* So what is staged stays over the base.
LEMMA StageOverBase ==
    ASSUME NEW view, ViewOK(view), OverBase(view), NEW k \in Keys,
           NEW value \in OptionalValues, NEW increase \in BOOLEAN,
           FreshWrite(view, k, value, increase)
    PROVE  OverBase(Stage(view, k, value, increase))
<1> DEFINE staged == Stage(view, k, value, increase)
           m == NewMarked(staged.last_seq, value)
<1>1. /\ staged.last_seq \in Nat /\ view.last_seq <= staged.last_seq
      /\ staged.snapshot_seq = view.snapshot_seq
      /\ m.seq = staged.last_seq
      /\ m.mark = Normal => view.snapshot_seq < m.seq
      /\ staged.changes.inner =
            [view.changes.inner EXCEPT ![k] = {x \in @ : ~SameOrder(x, m)} \cup {m}]
    BY StageIs
<1>2. view.last_seq \in Nat /\ view.snapshot_seq \in Nat /\ view.changes \in Tables
    BY DEF ViewOK, Views
<1> HIDE DEF staged, m
<1>3. ASSUME NEW j \in Keys, NEW x \in staged.changes.inner[j]
      PROVE  x \in view.changes.inner[j] \/ x = m
    BY <1>1, <1>2 DEF Tables
<1> QED BY <1>1, <1>2, <1>3 DEF OverBase, staged

-----------------------------------------------------------------------------
(* A view reads its own writes.                                            *)

\* Below the first sequence a value can have, nothing is found.
LEMMA NothingAtZero ==
    ASSUME NEW t \in Tables, ValuesAboveZero(t), NEW k \in Keys
    PROVE  Get(t, k, 0).mark = TombStone
<1> DEFINE m == Get(t, k, 0)
<1>1. m \in SeqMarkeds /\ m.seq <= 0
    BY GetType
<1>2. m = NotFound \/ m \in t.inner[k]
  <2>1. t.inner[k] \in SUBSET SeqMarkeds
      BY DEF Tables
  <2>2. CASE Visible(t.inner[k], 0) = {}
      BY <2>2 DEF Get
  <2>3. CASE Visible(t.inner[k], 0) # {}
      BY <2>1, <2>3, NewestVisible DEF Get
  <2> QED BY <2>2, <2>3
<1> HIDE DEF m
<1>3. m.seq \in Nat
    BY <1>1, SeqMarkedFields
<1>4. CASE m = NotFound
    BY <1>4 DEF NotFound, NewTombstone, m
<1>5. CASE m \in t.inner[k]
    BY <1>1, <1>3, <1>5 DEF ValuesAboveZero, SeqMarkeds, Marks, m
<1> QED BY <1>2, <1>4, <1>5

\* View::get in terms of the newest staged version: it decides, unless it is a
\* deletion at sequence 0, which reads as no entry at all.
LEMMA ViewGetIs ==
    ASSUME NEW t \in Tables, ValuesAboveZero(t), NEW view, ViewOK(view), OverBase(view),
           NEW k \in Keys
    PROVE  LET staged == view.changes.inner[k]
           IN  SameRecord(ViewGet(t, view, k),
                          IF staged = {} THEN Get(t, k, view.snapshot_seq) ELSE Latest(staged))
<1> DEFINE V == view.changes.inner[k]
           staged == Latest(V)
<1>1. /\ WellFormed(view.changes) /\ view.last_seq \in Nat
      /\ view.changes.last_seq.seq <= view.last_seq
      /\ V \in SUBSET SeqMarkeds
      /\ view.changes.last_seq.seq \in Nat
      /\ \A m \in V : m.seq <= view.changes.last_seq.seq
      /\ view.snapshot_seq \in Nat
    BY DEF ViewOK, Views, WellFormed, Tables, OrderKeys, Highest
<1>2. Get(view.changes, k, view.last_seq) = staged
    BY <1>1, ReadLatest
<1>3. ViewGet(t, view, k) = IF IsNotFound(staged) THEN Get(t, k, view.snapshot_seq) ELSE staged
    BY <1>2 DEF ViewGet, CompactPair
<1>4. CASE V = {}
  <2>1. IsNotFound(staged)
      BY <1>4 DEF Latest, IsNotFound, NotFound, NewTombstone
  <2> QED BY <1>3, <1>4, <2>1 DEF SameRecord
<1>5. CASE V # {} /\ ~IsNotFound(staged)
    BY <1>3, <1>5 DEF SameRecord
<1>6. CASE V # {} /\ IsNotFound(staged)
  <2>1. staged \in V /\ staged \in SeqMarkeds
      BY <1>1, <1>6, LatestIsNewest
  <2> HIDE DEF staged
  <2>2. staged.seq = 0 /\ staged.mark = TombStone /\ staged.data = NoValue
      BY <1>6, <2>1 DEF IsNotFound, SeqMarkeds
  <2>3. view.snapshot_seq = 0
    <3>1. view.snapshot_seq <= staged.seq
        BY <2>1 DEF OverBase
    <3> QED BY <1>1, <2>2, <3>1
  <2>4. Get(t, k, view.snapshot_seq).mark = TombStone
      BY <2>3, NothingAtZero
  <2> QED BY <1>3, <1>6, <2>2, <2>4 DEF staged, SameRecord
<1> QED BY <1>4, <1>5, <1>6

\* After a write, the view reads the new version under the key and what it read
\* before under the others.
LEMMA StageReads ==
    ASSUME NEW t \in Tables, ValuesAboveZero(t),
           NEW view, ViewOK(view), OverBase(view), NEW k \in Keys,
           NEW value \in OptionalValues, NEW increase \in BOOLEAN,
           FreshWrite(view, k, value, increase), NEW j \in Keys
    PROVE  LET staged == Stage(view, k, value, increase)
           IN IF j = k THEN SameRecord(ViewGet(t, staged, j), NewMarked(staged.last_seq, value))
              ELSE \E m \in SeqMarkeds : /\ SameRecord(ViewGet(t, staged, j), m)
                                         /\ SameRecord(ViewGet(t, view, j), m)
<1> DEFINE staged == Stage(view, k, value, increase)
           m == NewMarked(staged.last_seq, value)
           read(v) == IF v.changes.inner[j] = {} THEN Get(t, j, v.snapshot_seq)
                                                 ELSE Latest(v.changes.inner[j])
<1>1. ViewOK(staged) /\ OverBase(staged)
    BY StageOK, StageOverBase
<1>2. /\ staged.snapshot_seq = view.snapshot_seq
      /\ staged.changes.inner =
            [view.changes.inner EXCEPT ![k] = {x \in @ : ~SameOrder(x, m)} \cup {m}]
      /\ \A x \in staged.changes.inner[k] : Leq(x, m)
    BY StageIs
<1>3. view.changes.inner \in [Keys -> SUBSET SeqMarkeds]
    BY DEF ViewOK, Views, Tables
<1>4. /\ SameRecord(ViewGet(t, staged, j), read(staged))
      /\ SameRecord(ViewGet(t, view, j), read(view))
    BY <1>1, ViewGetIs
<1>5. /\ staged.changes.inner[k] \in SUBSET SeqMarkeds
      /\ \A a, b \in staged.changes.inner[k] : SameOrder(a, b) => a = b
    BY <1>1 DEF ViewOK, WellFormed, Tables, Unique
<1> HIDE DEF staged, m
<1>6. CASE j # k
  <2>1. staged.changes.inner[j] = view.changes.inner[j]
      BY <1>2, <1>3, <1>6
  <2>2. read(staged) = read(view)
      BY <1>2, <2>1
  <2>3. read(view) \in SeqMarkeds
    <3>1. view.changes.inner[j] = {} => read(view) \in SeqMarkeds
        BY GetType DEF ViewOK, Views
    <3>2. view.changes.inner[j] # {} => Latest(view.changes.inner[j]) \in SeqMarkeds
        BY LatestIsNewest DEF ViewOK, WellFormed, Tables, OrderKeys, Highest
    <3> QED BY <3>1, <3>2
  <2> QED BY <1>4, <1>6, <2>2, <2>3 DEF staged
<1>7. CASE j = k
  <2>1. m \in staged.changes.inner[k]
      BY <1>2, <1>3
  <2>2. Newest(staged.changes.inner[k]) = m
      BY <1>2, <1>5, <2>1, NewestIs
  <2>3. Latest(staged.changes.inner[j]) = m /\ staged.changes.inner[j] # {}
      BY <1>7, <2>1, <2>2 DEF Latest
  <2> QED BY <1>4, <1>7, <2>3 DEF staged, m
<1> QED BY <1>6, <1>7

-----------------------------------------------------------------------------
(* Merging a view into the table it is over.                               *)

\* The versions of a key in the table and in a view over it: all the staged
\* ones are at or above last_seq, and what shares an order key is the same
\* deletion.
LEMMA StagedOverTable ==
    ASSUME NEW t, WellFormed(t), NEW view, ViewOK(view), OverBase(view),
           t.last_seq.seq = view.snapshot_seq, NEW k \in Keys
    PROVE  LET last == t.last_seq.seq
               old  == t.inner[k]
               new  == view.changes.inner[k]
           IN /\ last \in Nat
              /\ old \in SUBSET SeqMarkeds /\ new \in SUBSET SeqMarkeds
              /\ \A n \in old : n.seq \in Nat /\ n.mark \in {0, 1} /\ n.seq <= last
              /\ \A m \in new : /\ m.seq \in Nat /\ m.mark \in {0, 1} /\ last <= m.seq
                                /\ m.mark = Normal => last < m.seq
              /\ \A m \in new, n \in old : SameOrder(n, m) => n = m
              /\ \A m, n \in old \cup new : SameOrder(m, n) => m = n
              /\ \E bound \in Nat : \A m \in old \cup new : m.seq <= bound
<1> DEFINE last == t.last_seq.seq
           old  == t.inner[k]
           new  == view.changes.inner[k]
           staged == view.changes.last_seq.seq
<1>1. /\ last \in Nat /\ last = view.snapshot_seq /\ staged \in Nat
      /\ old \in SUBSET SeqMarkeds /\ new \in SUBSET SeqMarkeds
      /\ \A n \in old : n.seq <= last
      /\ \A m \in new : m.seq <= staged
      /\ \A m, n \in old : SameOrder(m, n) => m = n
      /\ \A m, n \in new : SameOrder(m, n) => m = n
    BY DEF ViewOK, WellFormed, Tables, OrderKeys, Highest, Unique
<1>2. \A m \in new : last <= m.seq /\ (m.mark = Normal => last < m.seq)
    BY <1>1 DEF OverBase
<1> HIDE DEF last, old, new, staged
<1>3. \A m \in old \cup new : m.seq \in Nat /\ m.mark \in {0, 1}
    BY <1>1, SeqMarkedFields
<1>4. ASSUME NEW m \in new, NEW n \in old, SameOrder(n, m) PROVE n = m
  <2>1. m.seq = last /\ n.seq = last /\ n.mark = m.mark
      BY <1>1, <1>2, <1>3, <1>4 DEF SameOrder
  <2>2. m.mark = TombStone /\ n.mark = TombStone
      BY <1>1, <1>2, <1>3, <2>1 DEF Normal, TombStone
  <2>3. /\ m = [seq |-> m.seq, mark |-> m.mark, data |-> NoValue]
        /\ n = [seq |-> n.seq, mark |-> n.mark, data |-> NoValue]
      BY <1>1, <2>2 DEF SeqMarkeds
  <2> QED BY <2>1, <2>3
<1>5. \A m, n \in old \cup new : SameOrder(m, n) => m = n
    BY <1>1, <1>4 DEF SameOrder
<1>6. \E bound \in Nat : \A m \in old \cup new : m.seq <= bound
  <2> DEFINE bound == last + staged
  <2>1. ASSUME NEW m \in old \cup new PROVE m.seq <= bound
      BY <1>1, <1>3
  <2>2. bound \in Nat
      BY <1>1
  <2> QED BY <2>1, <2>2
<1> QED BY <1>1, <1>2, <1>3, <1>4, <1>5, <1>6 DEF last, old, new

\* Apply leaves the versions of both sides.
LEMMA ApplyIsUnion ==
    ASSUME NEW t, WellFormed(t), NEW view, ViewOK(view), OverBase(view),
           t.last_seq.seq = view.snapshot_seq, NEW k \in Keys
    PROVE  Apply(t, view.changes).inner[k] = t.inner[k] \cup view.changes.inner[k]
<1> DEFINE old == t.inner[k]
           new == view.changes.inner[k]
<1>1. Apply(t, view.changes).inner[k] = {n \in old : \A m \in new : ~SameOrder(n, m)} \cup new
    BY DEF Apply, Extend
<1>2. \A m \in new, n \in old : SameOrder(n, m) => n = m
    BY StagedOverTable
<1> QED BY <1>1, <1>2

\* What is staged for a key is newer than what the table has for it: the newest
\* version of both is what the view reads.
LEMMA UnionReads ==
    ASSUME NEW t, WellFormed(t), ValuesAboveZero(t), NEW view, ViewOK(view), OverBase(view),
           t.last_seq.seq = view.snapshot_seq, NEW k \in Keys
    PROVE  SameRecord(ViewGet(t, view, k), Latest(t.inner[k] \cup view.changes.inner[k]))
<1> DEFINE last == t.last_seq.seq
           old  == t.inner[k]
           new  == view.changes.inner[k]
           top  == Latest(new)
<1>1. /\ last \in Nat
      /\ old \in SUBSET SeqMarkeds /\ new \in SUBSET SeqMarkeds
      /\ \A n \in old : n.seq \in Nat /\ n.mark \in {0, 1} /\ n.seq <= last
      /\ \A m \in new : /\ m.seq \in Nat /\ m.mark \in {0, 1} /\ last <= m.seq
                        /\ m.mark = Normal => last < m.seq
      /\ \A m, n \in old \cup new : SameOrder(m, n) => m = n
      /\ \E bound \in Nat : \A m \in new : m.seq <= bound
    BY StagedOverTable
<1>2. SameRecord(ViewGet(t, view, k), IF new = {} THEN Get(t, k, last) ELSE top)
    BY ViewGetIs DEF WellFormed
<1>3. CASE new = {}
  <2>1. old \cup new = old
      BY <1>3
  <2>2. Get(t, k, last) = Latest(old)
      BY <1>1, ReadLatest
  <2> QED BY <1>2, <1>3, <2>1, <2>2
<1>4. CASE new # {}
  <2>1. top \in new /\ \A m \in new : Leq(m, top)
      BY <1>1, <1>4, LatestIsNewest
  <2> HIDE DEF top, old, new, last
  <2>2. ASSUME NEW n \in old PROVE Leq(n, top)
    <3>1. /\ n.seq \in Nat /\ n.mark \in {0, 1} /\ n.seq <= last
          /\ top.seq \in Nat /\ top.mark \in {0, 1} /\ last <= top.seq
          /\ top.mark = 0 => last < top.seq
        BY <1>1, <2>1 DEF Normal
    <3> QED BY <1>1, <3>1 DEF Leq, Lt, SameOrder
  <2>3. old \cup new \in SUBSET SeqMarkeds /\ top \in old \cup new
        /\ \A m \in old \cup new : Leq(m, top)
      BY <1>1, <2>1, <2>2
  <2>4. Newest(old \cup new) = top
      BY <1>1, <2>3, NewestIs
  <2>5. old \cup new # {}
      BY <1>4
  <2>6. Latest(old \cup new) = top
      BY <2>4, <2>5 DEF Latest
  <2> QED BY <1>2, <1>4, <2>6 DEF old, new
<1> QED BY <1>3, <1>4

-----------------------------------------------------------------------------
(* A commit by compact and a commit by apply.                              *)

\* compact(changes, table) at min reads, at or above min, as the table does
\* with the changes applied, whenever the assertion of coalesce passes.  The
\* version apply makes the newest is shadowed by none; an equal version of the
\* table beside it would have tripped the assertion.
LEMMA CompactReadsAsApplied ==
    ASSUME NEW changes \in Tables, Unique(changes), NEW t \in Tables, Unique(t),
           NEW k \in Keys, NEW min \in Nat, NEW upto \in Nat, min <= upto,
           ~CompactPanics(changes, t, min)
    PROVE  Get(Compact(changes, t, min), k, upto) = Get(Apply(t, changes), k, upto)
<1> DEFINE new     == changes.inner[k]
           old     == t.inner[k]
           both    == new \cup old
           kept    == Survivors(both, min)
           applied == {n \in old : \A m \in new : ~SameOrder(n, m)} \cup new
           top     == Newest(Visible(applied, upto))
<1>1. /\ Compact(changes, t, min).inner[k] = kept
      /\ Apply(t, changes).inner[k] = applied
    BY DEF Compact, Apply, Extend
<1>2. /\ both \in SUBSET SeqMarkeds
      /\ kept \in SUBSET both /\ applied \in SUBSET both
      /\ \A m \in both : m.seq \in Nat /\ m.mark \in {0, 1}
  <2>1. both \in SUBSET SeqMarkeds
      BY DEF Tables
  <2>2. \A m \in both : m.seq \in Nat /\ m.mark \in {0, 1}
      BY <2>1, SeqMarkedFields
  <2>3. kept \in SUBSET both /\ applied \in SUBSET both
      BY DEF Survivors
  <2> QED BY <2>1, <2>2, <2>3
<1>3. \A m \in both : \E n \in applied : SameOrder(m, n)
    BY <1>2 DEF SameOrder
<1>4. \A m, n \in kept : SameOrder(m, n) => m = n
  <2>1. ASSUME NEW m \in kept, NEW n \in kept, SameOrder(m, n) PROVE m = n
    <3>1. /\ m \in both /\ ~Shadowed(both, m, min)
          /\ n \in both /\ ~Shadowed(both, n, min)
        BY DEF Survivors
    <3>2. SameOrder(n, m)
        BY <2>1 DEF SameOrder
    <3>3. ~(m \in new /\ n \in old) /\ ~(n \in new /\ m \in old)
        BY <2>1, <3>1, <3>2 DEF CompactPanics
    <3> QED BY <2>1, <3>1, <3>3 DEF Unique
  <2> QED BY <2>1
<1>5. /\ Visible(kept, upto) = {m \in kept : m.seq <= upto}
      /\ Visible(applied, upto) = {m \in applied : m.seq <= upto}
    BY <1>2, VisibleIs
<1> HIDE DEF new, old, both, kept, applied
<1>6. CASE Visible(applied, upto) = {}
  <2>1. ASSUME NEW m \in kept, m.seq <= upto PROVE FALSE
    <3>1. PICK n \in applied : SameOrder(m, n)
        BY <1>2, <1>3
    <3> QED BY <1>5, <1>6, <2>1, <3>1 DEF SameOrder
  <2>2. Visible(kept, upto) = {}
      BY <1>5, <2>1
  <2> QED BY <1>1, <1>6, <2>2 DEF Get
<1>7. CASE Visible(applied, upto) # {}
  <2>1. top \in applied /\ top.seq <= upto /\ \A n \in applied : n.seq <= upto => Leq(n, top)
      BY <1>2, <1>7, NewestVisible
  <2> HIDE DEF top
  <2>2. \A m \in both : m.seq <= upto => Leq(m, top)
    <3>1. ASSUME NEW m \in both, m.seq <= upto PROVE Leq(m, top)
      <4>1. PICK n \in applied : SameOrder(m, n)
          BY <1>3
      <4>2. Leq(n, top)
          BY <2>1, <3>1, <4>1 DEF SameOrder
      <4> QED BY <4>1, <4>2 DEF Leq, Lt, SameOrder
    <3> QED BY <3>1
  <2>3. top \in kept
    <3>1. ASSUME NEW g \in both, g.seq <= min, Lt(top, g) PROVE FALSE
      <4>1. /\ g.seq \in Nat /\ g.mark \in {0, 1}
            /\ top.seq \in Nat /\ top.mark \in {0, 1}
          BY <1>2, <2>1
      <4>2. Leq(g, top)
          BY <2>2, <3>1, <4>1
      <4> QED BY <3>1, <4>1, <4>2 DEF Leq, Lt, SameOrder
    <3> QED BY <1>2, <2>1, <3>1 DEF kept, Survivors, Shadowed
  <2>4. /\ Visible(kept, upto) \in SUBSET SeqMarkeds
        /\ \A m, n \in Visible(kept, upto) : SameOrder(m, n) => m = n
        /\ top \in Visible(kept, upto)
        /\ \A m \in Visible(kept, upto) : Leq(m, top)
      BY <1>2, <1>4, <1>5, <2>1, <2>2, <2>3
  <2>5. Newest(Visible(kept, upto)) = top
      BY <2>4, NewestIs
  <2> QED BY <1>1, <1>7, <2>4, <2>5 DEF Get, top
<1> QED BY <1>6, <1>7
=============================================================================
