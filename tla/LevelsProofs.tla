---------------------------- MODULE LevelsProofs ----------------------------
(***************************************************************************)
(* What holds of a map kept in levels for all keys, values and bounds: the *)
(* levels are one map to their readers, the two reads agree and the merge  *)
(* never fails.                                                            *)
(***************************************************************************)
EXTENDS Levels, SequenceTheorems, OrderLemmas

-----------------------------------------------------------------------------
(* Types as sets.                                                          *)

EntryMaps    == UNION {[ks -> SeqMarkeds] : ks \in SUBSET Keys}
LevelRecords == [seq : Nat, entries : EntryMaps]

Typed ==
    /\ top \in LevelRecords
    /\ immutables \in Seq(LevelRecords)
    /\ persisted \in Seq(EntryMaps)
    /\ merging \in 0..Len(immutables)

-----------------------------------------------------------------------------
(* Stacks.                                                                 *)

\* What makes a stack of levels sound: the counter bounds every sequence, values
\* have a sequence, and of one key the entry of a higher level is newer, or the
\* same deletion.
Bounded(s, bound) ==
    \A i \in DOMAIN s : \A k \in DOMAIN s[i] :
        /\ s[i][k].seq <= bound
        /\ s[i][k].mark = Normal => s[i][k].seq > 0

Before(old, new) == Lt(old, new) \/ (old = new /\ new.mark = TombStone)

NewestFirst(s) ==
    \A i, j \in DOMAIN s : \A k \in Keys :
        i < j /\ k \in DOMAIN s[i] /\ k \in DOMAIN s[j] => Before(s[j][k], s[i][k])

StackInv == Typed /\ Bounded(Stack, top.seq) /\ NewestFirst(Stack)

-----------------------------------------------------------------------------
(* Entries and levels.                                                     *)

\* The entries of a level, without a union.
LEMMA EntryMapsAre ==
    ASSUME NEW e
    PROVE  e \in EntryMaps <=> DOMAIN e \in SUBSET Keys /\ e \in [DOMAIN e -> SeqMarkeds]
BY DEF EntryMaps

\* The state has its types.
LEMMA TypedIsTypeOK == Typed => TypeOK
<1> SUFFICES ASSUME Typed PROVE TypeOK
    OBVIOUS
<1>1. ASSUME NEW e \in EntryMaps PROVE IsEntries(e)
    BY EntryMapsAre DEF IsEntries
<1>2. ASSUME NEW l \in LevelRecords PROVE IsLevel(l)
    BY <1>1 DEF LevelRecords, IsLevel
<1>3. ASSUME NEW S, NEW s \in Seq(S)
      PROVE  s \in Seq(Each(s)) /\ Each(s) \subseteq S
  <2>1. Len(s) \in Nat /\ DOMAIN s = 1..Len(s) /\ s \in [1..Len(s) -> S]
      BY LenProperties
  <2>2. s \in [1..Len(s) -> Each(s)] /\ Each(s) \subseteq S
      BY <2>1 DEF Each
  <2> QED BY <2>1, <2>2
<1> QED BY <1>1, <1>2, <1>3 DEF Typed, TypeOK

\* An empty level has entries, of no key.
LEMMA NoEntries == << >> \in EntryMaps /\ DOMAIN << >> = {}
<1>1. << >> \in Seq(SeqMarkeds) /\ Len(<< >>) = 0
    BY EmptySeq
<1>2. << >> \in [1..0 -> SeqMarkeds]
    BY <1>1, LenProperties
<1>3. 1..0 = {}
    OBVIOUS
<1> QED BY <1>2, <1>3 DEF EntryMaps

\* What a write to a level makes of it.
LEMMA LevelSetType ==
    ASSUME NEW level \in LevelRecords, NEW k \in Keys, NEW value \in Values \cup {NoValue}
    PROVE  LET after == LevelSet(level, k, value)
               seq == IF value = NoValue THEN level.seq ELSE level.seq + 1
           IN /\ after \in LevelRecords
              /\ after.seq = seq
              /\ DOMAIN after.entries = DOMAIN level.entries \cup {k}
              /\ after.entries[k] = NewMarked(seq, value)
              /\ \A j \in DOMAIN level.entries : j # k => after.entries[j] = level.entries[j]
<1> DEFINE seq == IF value = NoValue THEN level.seq ELSE level.seq + 1
           after == LevelSet(level, k, value)
<1>1. seq \in Nat /\ level.entries \in EntryMaps
    BY DEF LevelRecords
<1>2. /\ after.seq = seq
      /\ after = [seq |-> seq, entries |-> after.entries]
      /\ after.entries = [j \in DOMAIN level.entries \cup {k} |->
                            IF j = k THEN NewMarked(seq, value) ELSE level.entries[j]]
    BY DEF LevelSet
<1>3. NewMarked(seq, value) \in SeqMarkeds
    BY <1>1, NewMarkedType
<1>4. after.entries \in EntryMaps
    BY <1>1, <1>2, <1>3, EntryMapsAre
<1>5. after \in LevelRecords
    BY <1>1, <1>2, <1>4 DEF LevelRecords
<1> QED BY <1>2, <1>5

\* The order on entries.
LEMMA BeforeIsOrder ==
    ASSUME NEW a \in SeqMarkeds, NEW b \in SeqMarkeds
    PROVE  /\ Before(a, b) => Leq(a, b)
           /\ Before(a, b) /\ Leq(b, a) => a = b /\ b.mark = TombStone
           /\ Leq(a, a)
<1>1. /\ a.seq \in Nat /\ a.mark \in {0, 1}
      /\ b.seq \in Nat /\ b.mark \in {0, 1}
    BY SeqMarkedFields
<1> QED BY <1>1 DEF Before, Leq, Lt, SameOrder, TombStone

\* Regrouping levels, in order, keeps a stack sound.
LEMMA Regroup ==
    ASSUME NEW s, NEW t, NEW bound, DOMAIN t \subseteq Nat,
           Bounded(s, bound), NewestFirst(s),
           NEW origin \in [DOMAIN t -> SUBSET DOMAIN s],
           \A i \in DOMAIN t : \A k \in DOMAIN t[i] :
              \E j \in origin[i] : k \in DOMAIN s[j] /\ s[j][k] = t[i][k],
           \A i, j \in DOMAIN t : i < j => \A a \in origin[i], b \in origin[j] : a < b
    PROVE  Bounded(t, bound) /\ NewestFirst(t)
<1>1. Bounded(t, bound)
    BY DEF Bounded
<1>2. ASSUME NEW i \in DOMAIN t, NEW j \in DOMAIN t, NEW k \in Keys,
             i < j, k \in DOMAIN t[i], k \in DOMAIN t[j]
      PROVE  Before(t[j][k], t[i][k])
  <2>1. PICK a \in origin[i] : k \in DOMAIN s[a] /\ s[a][k] = t[i][k]
      BY <1>2
  <2>2. PICK b \in origin[j] : k \in DOMAIN s[b] /\ s[b][k] = t[j][k]
      BY <1>2
  <2>3. a < b
      BY <1>2
  <2> QED BY <2>1, <2>2, <2>3 DEF NewestFirst
<1> QED BY <1>1, <1>2 DEF NewestFirst

\* t is s with the low levels from 2 + n on replaced by one that holds entries
\* of theirs.
Replaces(t, s, n, low, rest) ==
    /\ DOMAIN s = 1..(1 + n + low + rest)
    /\ DOMAIN t = 1..(2 + n + rest)
    /\ \A i \in 1..(1 + n) : t[i] = s[i]
    /\ \A k \in DOMAIN t[2 + n] : \E i \in 1..low :
          k \in DOMAIN s[1 + n + i] /\ s[1 + n + i][k] = t[2 + n][k]
    /\ \A q \in 1..rest : t[2 + n + q] = s[1 + n + low + q]

\* So a level that holds entries of adjacent ones can be put where they were.
LEMMA ReplacedIsSound ==
    ASSUME NEW s, NEW t, NEW bound, NEW n \in Nat, NEW low \in Nat, NEW rest \in Nat,
           Bounded(s, bound), NewestFirst(s), Replaces(t, s, n, low, rest)
    PROVE  Bounded(t, bound) /\ NewestFirst(t)
<1> USE DEF Replaces
<1> DEFINE Origin(i) == IF i <= 1 + n THEN {i}
                        ELSE IF i = 2 + n THEN (2 + n)..(1 + n + low)
                        ELSE {i - 1 + low}
           origin == [i \in DOMAIN t |-> Origin(i)]
<1>1. ASSUME NEW i \in 1..(1 + n)
      PROVE  i \in DOMAIN t /\ i \in DOMAIN s /\ Origin(i) = {i}
    OBVIOUS
<1>2. 2 + n \in DOMAIN t /\ Origin(2 + n) = (2 + n)..(1 + n + low)
    OBVIOUS
<1>3. ASSUME NEW q \in 1..rest
      PROVE  /\ 2 + n + q \in DOMAIN t /\ 1 + n + low + q \in DOMAIN s
             /\ Origin(2 + n + q) = {1 + n + low + q}
    OBVIOUS
<1>4. ASSUME NEW i \in DOMAIN t
      PROVE  i \in 1..(1 + n) \/ i = 2 + n \/ \E q \in 1..rest : i = 2 + n + q
  <2>1. CASE i > 2 + n
    <3>1. i - (2 + n) \in 1..rest /\ i = 2 + n + (i - (2 + n))
        BY <2>1
    <3> QED BY <3>1
  <2>2. CASE ~(i > 2 + n)
      BY <2>2
  <2> QED BY <2>1, <2>2
<1>5. \A i \in DOMAIN t : Origin(i) \subseteq DOMAIN s
  <2> TAKE i \in DOMAIN t
  <2>1. (2 + n)..(1 + n + low) \subseteq DOMAIN s
      OBVIOUS
  <2> HIDE DEF Origin
  <2>2. CASE i \in 1..(1 + n)
      BY <1>1, <2>2
  <2>3. CASE i = 2 + n
      BY <1>2, <2>1, <2>3
  <2>4. CASE \E q \in 1..rest : i = 2 + n + q
      BY <1>3, <2>4
  <2> QED BY <1>4, <2>2, <2>3, <2>4
<1>6. \A i \in DOMAIN t : \A k \in DOMAIN t[i] :
          \E j \in Origin(i) : k \in DOMAIN s[j] /\ s[j][k] = t[i][k]
  <2> TAKE i \in DOMAIN t
  <2> TAKE k \in DOMAIN t[i]
  <2> HIDE DEF Origin
  <2>1. CASE i \in 1..(1 + n)
      BY <1>1, <2>1
  <2>2. CASE i = 2 + n
    <3>1. PICK h \in 1..low : k \in DOMAIN s[1 + n + h] /\ s[1 + n + h][k] = t[2 + n][k]
        BY <2>2
    <3>2. 1 + n + h \in (2 + n)..(1 + n + low)
        OBVIOUS
    <3> QED BY <1>2, <2>2, <3>1, <3>2
  <2>3. CASE \E q \in 1..rest : i = 2 + n + q
      BY <1>3, <2>3
  <2> QED BY <1>4, <2>1, <2>2, <2>3
<1>7. \A i, j \in DOMAIN t : i < j => \A a \in Origin(i), b \in Origin(j) : a < b
    BY Z3
<1> HIDE DEF Origin
<1>8. /\ origin \in [DOMAIN t -> SUBSET DOMAIN s]
      /\ \A i \in DOMAIN t : origin[i] = Origin(i)
    BY <1>5
<1>9. DOMAIN t \subseteq Nat
    OBVIOUS
<1> HIDE DEF origin
<1>10. \A i \in DOMAIN t : \A k \in DOMAIN t[i] :
          \E j \in origin[i] : k \in DOMAIN s[j] /\ s[j][k] = t[i][k]
    BY <1>6, <1>8
<1>11. \A i, j \in DOMAIN t : i < j => \A a \in origin[i], b \in origin[j] : a < b
    BY <1>7, <1>8
<1> QED BY <1>8, <1>9, <1>10, <1>11, Regroup

\* t is s with a key of its first level written.
Writes(t, s, k, value) ==
    /\ DOMAIN t = DOMAIN s
    /\ 1 \in DOMAIN s
    /\ \A i \in DOMAIN s : i # 1 => 1 < i /\ t[i] = s[i]
    /\ DOMAIN t[1] = DOMAIN s[1] \cup {k}
    /\ t[1][k].data = value
    /\ \A j \in DOMAIN s[1] : j # k => t[1][j] = s[1][j]

\* t is s below an empty level.
Pushes(t, s) ==
    /\ DOMAIN t[1] = {}
    /\ 1 \in DOMAIN t
    /\ \A i \in DOMAIN s : 1 + i \in DOMAIN t /\ t[1 + i] = s[i]
    /\ \A i \in DOMAIN t : i # 1 => i - 1 \in DOMAIN s /\ 1 + (i - 1) = i

\* The first entry of a key in the replaced levels is the one kept, or it is a
\* deletion that hides nothing.
KeepsFirst(t, s, n, low, rest) ==
    \A k \in Keys : \A h \in 1..low :
        /\ k \in DOMAIN s[1 + n + h]
        /\ \A g \in 1..low : k \in DOMAIN s[1 + n + g] => h <= g
        => \/ k \in DOMAIN t[2 + n] /\ t[2 + n][k] = s[1 + n + h][k]
           \/ k \notin DOMAIN t[2 + n] /\ rest = 0 /\ s[1 + n + h][k].data = NoValue

\* A key some level of a stack has is newest in the first level that has it.
LEMMA FirstIsGreatest ==
    ASSUME NEW s \in Seq(EntryMaps), NewestFirst(s), NEW k \in Keys,
           \E i \in DOMAIN s : k \in DOMAIN s[i]
    PROVE  \E i \in DOMAIN s :
              /\ k \in DOMAIN s[i]
              /\ \A j \in DOMAIN s : k \in DOMAIN s[j] =>
                    i <= j /\ Leq(s[j][k], s[i][k])
<1> DEFINE having == {i \in DOMAIN s : k \in DOMAIN s[i]}
<1>1. DOMAIN s \subseteq Nat /\ \A i \in DOMAIN s : s[i] \in EntryMaps
    BY LenProperties, ElementOfSeq
<1>2. PICK i \in having : \A j \in having : i <= j
    BY <1>1, NonemptyNatSetHasMin
<1>3. ASSUME NEW j \in having PROVE Leq(s[j][k], s[i][k])
  <2>1. s[i][k] \in SeqMarkeds /\ s[j][k] \in SeqMarkeds
      BY <1>1, EntryMapsAre
  <2>2. CASE i = j
      BY <2>1, <2>2, BeforeIsOrder
  <2>3. CASE i < j
      BY <2>1, <2>3, BeforeIsOrder DEF NewestFirst
  <2> QED BY <1>1, <1>2, <2>2, <2>3
<1> QED BY <1>2, <1>3

\* compacted_range takes its entries from the levels, and the greatest.
LEMMA RangeOfStack ==
    ASSUME NEW s \in Seq(EntryMaps), NewestFirst(s)
    PROVE  /\ CompactedRange(s) \in EntryMaps
           /\ \A k \in DOMAIN CompactedRange(s) : \E i \in DOMAIN s :
                 /\ k \in DOMAIN s[i] /\ s[i][k] = CompactedRange(s)[k]
                 /\ \A j \in DOMAIN s : k \in DOMAIN s[j] => Leq(s[j][k], s[i][k])
           /\ DOMAIN CompactedRange(s) = {k \in Keys : \E i \in DOMAIN s : k \in DOMAIN s[i]}
<1> DEFINE range == CompactedRange(s)
<1>1. \A i \in DOMAIN s : s[i] \in EntryMaps
    BY LenProperties, ElementOfSeq
<1>2. /\ DOMAIN range = UNION {DOMAIN s[i] : i \in DOMAIN s}
      /\ \A k \in DOMAIN range : range[k] = Greatest(EntriesFor(s, k))
      /\ range = [k \in DOMAIN range |-> range[k]]
    BY DEF CompactedRange
<1>3. DOMAIN range = {k \in Keys : \E i \in DOMAIN s : k \in DOMAIN s[i]}
    BY <1>1, <1>2, EntryMapsAre
<1>4. ASSUME NEW k \in DOMAIN range
      PROVE  \E i \in DOMAIN s :
                /\ k \in DOMAIN s[i] /\ s[i][k] = range[k]
                /\ \A j \in DOMAIN s : k \in DOMAIN s[j] => Leq(s[j][k], s[i][k])
  <2>1. PICK i \in DOMAIN s :
              /\ k \in DOMAIN s[i]
              /\ \A j \in DOMAIN s : k \in DOMAIN s[j] => Leq(s[j][k], s[i][k])
      BY <1>3, FirstIsGreatest
  <2>2. /\ s[i][k] \in EntriesFor(s, k)
        /\ \A n \in EntriesFor(s, k) : Leq(n, s[i][k])
      BY <2>1 DEF EntriesFor
  <2>3. /\ range[k] \in EntriesFor(s, k)
        /\ \A n \in EntriesFor(s, k) : Leq(n, range[k])
      BY <1>2, <2>2 DEF Greatest
  <2> QED BY <2>3 DEF EntriesFor
<1>5. ASSUME NEW k \in DOMAIN range PROVE range[k] \in SeqMarkeds
    BY <1>1, <1>4, EntryMapsAre
<1>6. range \in EntryMaps
    BY <1>2, <1>3, <1>5, EntryMapsAre
<1> QED BY <1>3, <1>4, <1>6 DEF range

-----------------------------------------------------------------------------
(* The stack of the store.                                                 *)

\* Where the levels are in a stack.
LEMMA StackOfLevels ==
    ASSUME NEW t \in LevelRecords, NEW imm \in Seq(LevelRecords), NEW pers \in Seq(EntryMaps)
    PROVE  LET s == <<t.entries>> \o [i \in DOMAIN imm |-> imm[i].entries] \o pers
           IN /\ s \in Seq(EntryMaps)
              /\ DOMAIN s = 1..(1 + Len(imm) + Len(pers))
              /\ s[1] = t.entries
              /\ \A i \in 1..Len(imm) : s[1 + i] = imm[i].entries
              /\ \A i \in 1..Len(pers) : s[1 + Len(imm) + i] = pers[i]
<1> DEFINE frozen == [i \in DOMAIN imm |-> imm[i].entries]
           upper == <<t.entries>> \o frozen
           s == upper \o pers
<1>1. t.entries \in EntryMaps /\ \A i \in DOMAIN imm : imm[i].entries \in EntryMaps
  <2>1. imm \in [1..Len(imm) -> LevelRecords]
      BY LenProperties
  <2> QED BY <2>1 DEF LevelRecords
<1>2. /\ <<t.entries>> \in Seq(EntryMaps) /\ Len(<<t.entries>>) = 1
      /\ <<t.entries>>[1] = t.entries
    BY <1>1
<1>3. DOMAIN imm = 1..Len(imm) /\ Len(imm) \in Nat /\ Len(pers) \in Nat
    BY LenProperties
<1>4. frozen \in Seq(EntryMaps) /\ Len(frozen) = Len(imm)
    BY <1>1, <1>3
<1>5. \A i \in 1..Len(imm) : frozen[i] = imm[i].entries
    BY <1>3
<1> HIDE DEF frozen
<1>6. /\ upper \in Seq(EntryMaps)
      /\ Len(upper) = 1 + Len(imm)
      /\ \A i \in 1..(1 + Len(imm)) :
            upper[i] = IF i <= 1 THEN <<t.entries>>[i] ELSE frozen[i - 1]
    BY <1>2, <1>4, ConcatProperties
<1>7. upper[1] = t.entries /\ \A i \in 1..Len(imm) : upper[1 + i] = imm[i].entries
  <2>1. upper[1] = t.entries
      BY <1>2, <1>3, <1>6
  <2>2. ASSUME NEW i \in 1..Len(imm) PROVE upper[1 + i] = imm[i].entries
    <3>1. /\ 1 + i \in 1..(1 + Len(imm))
          /\ ~(1 + i <= 1)
          /\ (1 + i) - 1 = i
        BY <1>3
    <3> QED BY <1>5, <1>6, <3>1
  <2> QED BY <2>1, <2>2
<1> HIDE DEF upper
<1>8. /\ s \in Seq(EntryMaps)
      /\ Len(s) = 1 + Len(imm) + Len(pers)
      /\ \A i \in 1..(1 + Len(imm) + Len(pers)) :
            s[i] = IF i <= 1 + Len(imm) THEN upper[i] ELSE pers[i - (1 + Len(imm))]
  <2>1. /\ s \in Seq(EntryMaps)
        /\ Len(s) = Len(upper) + Len(pers)
        /\ \A i \in 1..(Len(upper) + Len(pers)) :
              s[i] = IF i <= Len(upper) THEN upper[i] ELSE pers[i - Len(upper)]
      BY <1>6, ConcatProperties
  <2> QED BY <1>6, <2>1
<1>9. DOMAIN s = 1..(1 + Len(imm) + Len(pers))
    BY <1>8, LenProperties
<1>10. s[1] = t.entries
    BY <1>3, <1>7, <1>8
<1>11. \A i \in 1..Len(imm) : s[1 + i] = imm[i].entries
  <2> TAKE i \in 1..Len(imm)
  <2>1. 1 + i \in 1..(1 + Len(imm) + Len(pers)) /\ 1 + i <= 1 + Len(imm)
      BY <1>3
  <2> QED BY <1>7, <1>8, <2>1
<1>12. \A i \in 1..Len(pers) : s[1 + Len(imm) + i] = pers[i]
  <2> TAKE i \in 1..Len(pers)
  <2>1. /\ 1 + Len(imm) + i \in 1..(1 + Len(imm) + Len(pers))
        /\ ~(1 + Len(imm) + i <= 1 + Len(imm))
        /\ (1 + Len(imm) + i) - (1 + Len(imm)) = i
      BY <1>3
  <2> QED BY <1>8, <2>1
<1> QED BY <1>8, <1>9, <1>10, <1>11, <1>12 DEF upper, frozen

\* The same of the state.
LEMMA StackIs ==
    ASSUME Typed
    PROVE  /\ Stack \in Seq(EntryMaps)
           /\ DOMAIN Stack = 1..(1 + Len(immutables) + Len(persisted))
           /\ Stack[1] = top.entries
           /\ \A i \in 1..Len(immutables) : Stack[1 + i] = immutables[i].entries
           /\ \A i \in 1..Len(persisted) : Stack[1 + Len(immutables) + i] = persisted[i]
           /\ Len(immutables) \in Nat /\ Len(persisted) \in Nat
BY StackOfLevels, LenProperties DEF Typed, Stack, Frozen

\* The levels a merge reads follow each other in the stack.
LEMMA MergedIs ==
    ASSUME Typed, NEW deep \in BOOLEAN
    PROVE  LET count == merging + IF deep THEN Len(persisted) ELSE 0
           IN /\ Merged(deep) \in Seq(EntryMaps)
              /\ DOMAIN Merged(deep) = 1..count
              /\ \A i \in 1..count : Merged(deep)[i] = Stack[1 + Untouched + i]
<1> DEFINE m == Len(immutables)
           taken == SubSeq(Frozen, Untouched + 1, m)
           below == IF deep THEN persisted ELSE << >>
<1>1. /\ m \in Nat /\ merging \in Nat /\ Untouched \in Nat /\ Untouched + merging = m
      /\ Len(persisted) \in Nat
    BY StackIs DEF Typed, Untouched
<1>2. DOMAIN immutables = 1..m /\ \A i \in 1..m : immutables[i].entries \in EntryMaps
  <2>1. immutables \in [1..m -> LevelRecords]
      BY LenProperties DEF Typed
  <2> QED BY <2>1 DEF LevelRecords
<1>3. \A i \in 1..m : Frozen[i] = immutables[i].entries /\ Frozen[i] \in EntryMaps
    BY <1>2 DEF Frozen
<1>4. /\ taken \in Seq(EntryMaps)
      /\ Len(taken) = merging
      /\ \A i \in 1..merging : taken[i] = Frozen[Untouched + i]
  <2>1. \A i \in (Untouched + 1)..m : Frozen[i] \in EntryMaps
      BY <1>1, <1>3
  <2>2. /\ taken \in Seq(EntryMaps)
        /\ Len(taken) = IF Untouched + 1 <= m THEN m - (Untouched + 1) + 1 ELSE 0
        /\ \A i \in 1..(m - (Untouched + 1) + 1) : taken[i] = Frozen[(Untouched + 1) + i - 1]
      BY <1>1, <2>1, SubSeqProperties
  <2>3. m - (Untouched + 1) + 1 = merging /\ (Untouched + 1 <= m <=> merging > 0)
      BY <1>1
  <2>4. ASSUME NEW i \in 1..merging PROVE (Untouched + 1) + i - 1 = Untouched + i
      BY <1>1
  <2> QED BY <1>1, <2>2, <2>3, <2>4
<1>5. below \in Seq(EntryMaps) /\ Len(below) = IF deep THEN Len(persisted) ELSE 0
    BY EmptySeq DEF Typed
<1> HIDE DEF taken, below
<1>6. /\ taken \o below \in Seq(EntryMaps)
      /\ Len(taken \o below) = merging + Len(below)
      /\ \A i \in 1..(merging + Len(below)) :
            (taken \o below)[i] = IF i <= merging THEN taken[i] ELSE below[i - merging]
    BY <1>4, <1>5, ConcatProperties
<1>7. Merged(deep) = taken \o below
    BY DEF Merged, taken, below
<1>8. ASSUME NEW i \in 1..(merging + Len(below))
      PROVE  Merged(deep)[i] = Stack[1 + Untouched + i]
  <2>0. Len(below) \in Nat
      BY <1>1, <1>5
  <2>1. CASE i <= merging
    <3>1. i \in 1..merging /\ Untouched + i \in 1..m /\ 1 + (Untouched + i) = 1 + Untouched + i
        BY <1>1, <2>0, <2>1
    <3>2. Stack[1 + (Untouched + i)] = Frozen[Untouched + i]
        BY <1>3, <3>1, StackIs
    <3> QED BY <1>4, <1>6, <1>7, <2>1, <3>1, <3>2
  <2>2. CASE ~(i <= merging)
    <3>1. deep
        BY <1>1, <1>5, <2>2
    <3>2. /\ i - merging \in 1..Len(persisted)
          /\ 1 + m + (i - merging) = 1 + Untouched + i
        BY <1>1, <1>5, <2>2, <3>1
    <3>3. Merged(deep)[i] = persisted[i - merging]
        BY <1>6, <1>7, <2>2, <3>1 DEF below
    <3> QED BY <3>2, <3>3, StackIs
  <2> QED BY <2>1, <2>2
<1>9. DOMAIN Merged(deep) = 1..(merging + Len(below))
    BY <1>6, <1>7, LenProperties
<1> QED BY <1>5, <1>6, <1>7, <1>8, <1>9

-----------------------------------------------------------------------------
(* The invariant.                                                          *)

\* The same of the next state.
LEMMA StackIsPrime ==
    ASSUME Typed'
    PROVE  /\ Stack' \in Seq(EntryMaps)
           /\ DOMAIN Stack' = 1..(1 + Len(immutables') + Len(persisted'))
           /\ Stack'[1] = top'.entries
           /\ \A i \in 1..Len(immutables') : Stack'[1 + i] = immutables'[i].entries
           /\ \A i \in 1..Len(persisted') : Stack'[1 + Len(immutables') + i] = persisted'[i]
           /\ Len(immutables') \in Nat /\ Len(persisted') \in Nat
BY StackOfLevels, LenProperties DEF Typed, Stack, Frozen

\* A tombstone is determined by its sequence.
LEMMA TombstoneIs ==
    ASSUME NEW m \in SeqMarkeds, m.mark = TombStone
    PROVE  m = NewTombstone(m.seq)
BY DEF SeqMarkeds, NewTombstone

\* What a level writes comes before everything at or below its counter.
LEMMA WrittenIsNewest ==
    ASSUME NEW m \in SeqMarkeds, NEW seq \in Nat, NEW value \in Values \cup {NoValue},
           m.seq <= seq
    PROVE  LET next == IF value = NoValue THEN seq ELSE seq + 1
           IN Before(m, NewMarked(next, value))
<1>1. m.seq \in Nat /\ m.mark \in {0, 1}
    BY SeqMarkedFields
<1>2. CASE value # NoValue
  <2>1. NewMarked(seq + 1, value).seq = seq + 1
      BY <1>2, NewMarkedType
  <2> QED BY <1>1, <1>2, <2>1 DEF Before, Lt
<1>3. CASE value = NoValue
  <2>1. /\ NewMarked(seq, value) = NewTombstone(seq)
        /\ NewTombstone(seq).seq = seq /\ NewTombstone(seq).mark = 1
      BY <1>3 DEF NewMarked, NewTombstone, TombStone
  <2>2. CASE m.seq < seq \/ m.mark = 0
      BY <1>1, <1>3, <2>1, <2>2 DEF Before, Lt
  <2>3. CASE m.seq = seq /\ m.mark = 1
    <3>1. m = NewTombstone(seq)
        BY <2>3, TombstoneIs DEF TombStone
    <3> QED BY <1>3, <2>1, <3>1 DEF Before, TombStone
  <2> QED BY <1>1, <2>2, <2>3
<1> QED BY <1>2, <1>3

\* One empty level is a sound stack.
LEMMA StackInit == Init => StackInv
<1> SUFFICES ASSUME Init PROVE StackInv
    OBVIOUS
<1>1. Typed
  <2>1. top \in LevelRecords
      BY NoEntries DEF Init, LevelRecords
  <2>2. /\ immutables = << >> /\ immutables \in Seq(LevelRecords) /\ Len(immutables) = 0
        /\ persisted = << >> /\ persisted \in Seq(EntryMaps) /\ Len(persisted) = 0
      BY EmptySeq DEF Init
  <2> QED BY <2>1, <2>2 DEF Init, Typed
<1>2. DOMAIN Stack = {1} /\ DOMAIN Stack[1] = {}
  <2>1. Len(immutables) = 0 /\ Len(persisted) = 0 /\ top.entries = << >>
      BY EmptySeq DEF Init
  <2> QED BY <1>1, <2>1, StackIs, NoEntries
<1> QED BY <1>1, <1>2 DEF StackInv, Bounded, NewestFirst

\* A write puts an entry on top that is newer than all others of its key.
LEMMA SetKeeps ==
    ASSUME StackInv, NEW k \in Keys, NEW value \in Values \cup {NoValue}, Set(k, value)
    PROVE  StackInv' /\ Writes(Stack', Stack, k, value)
<1> DEFINE seq == IF value = NoValue THEN top.seq ELSE top.seq + 1
<1>1. /\ Typed /\ top \in LevelRecords /\ top.seq \in Nat
      /\ Bounded(Stack, top.seq) /\ NewestFirst(Stack)
    BY DEF StackInv, Typed, LevelRecords
<1>2. /\ top' = LevelSet(top, k, value)
      /\ immutables' = immutables /\ persisted' = persisted /\ merging' = merging
    BY DEF Set
<1>3. /\ top' \in LevelRecords
      /\ top'.seq = seq
      /\ DOMAIN top'.entries = DOMAIN top.entries \cup {k}
      /\ top'.entries[k] = NewMarked(seq, value)
      /\ \A j \in DOMAIN top.entries : j # k => top'.entries[j] = top.entries[j]
    BY <1>1, <1>2, LevelSetType
<1>4. Typed'
    BY <1>1, <1>2, <1>3 DEF Typed
<1>5. /\ DOMAIN Stack' = DOMAIN Stack
      /\ Stack'[1] = top'.entries /\ Stack[1] = top.entries
      /\ 1 \in DOMAIN Stack
      /\ \A i \in DOMAIN Stack : i # 1 => 1 < i /\ Stack'[i] = Stack[i]
  <2>1. ASSUME NEW i \in DOMAIN Stack, i # 1 PROVE 1 < i /\ Stack'[i] = Stack[i]
    <3>1. CASE i <= 1 + Len(immutables)
      <4>1. i - 1 \in 1..Len(immutables) /\ 1 + (i - 1) = i /\ 1 < i
          BY <1>1, <2>1, <3>1, StackIs
      <4>2. Stack[1 + (i - 1)] = immutables[i - 1].entries
          BY <1>1, <4>1, StackIs
      <4>3. Stack'[1 + (i - 1)] = immutables[i - 1].entries
          BY <1>2, <1>4, <4>1, StackIsPrime
      <4> QED BY <4>1, <4>2, <4>3
    <3>2. CASE ~(i <= 1 + Len(immutables))
      <4>1. /\ i - (1 + Len(immutables)) \in 1..Len(persisted)
            /\ 1 + Len(immutables) + (i - (1 + Len(immutables))) = i
            /\ 1 < i
          BY <1>1, <2>1, <3>2, StackIs
      <4> QED BY <1>1, <1>2, <1>4, <4>1, StackIs, StackIsPrime
    <3> QED BY <3>1, <3>2
  <2> QED BY <1>1, <1>2, <1>4, <2>1, StackIs, StackIsPrime
<1>6. \A i \in DOMAIN Stack : \A j \in DOMAIN Stack[i] : j \in Keys /\ Stack[i][j] \in SeqMarkeds
    BY <1>1, StackIs, ElementOfSeq, LenProperties, EntryMapsAre
<1>7. Bounded(Stack', top'.seq)
  <2> SUFFICES ASSUME NEW i \in DOMAIN Stack', NEW j \in DOMAIN Stack'[i]
               PROVE  /\ Stack'[i][j].seq <= top'.seq
                      /\ Stack'[i][j].mark = Normal => Stack'[i][j].seq > 0
      BY DEF Bounded
  <2>1. CASE i = 1 /\ j = k
    <3>1. NewMarked(seq, value).seq = seq /\ (value # NoValue => seq > 0)
        BY <1>1, NewMarkedType
    <3>2. NewMarked(seq, value).mark = Normal => value # NoValue
        BY DEF NewMarked, NewTombstone, TombStone, Normal
    <3> QED BY <1>1, <1>3, <1>5, <2>1, <3>1, <3>2
  <2>2. CASE ~(i = 1 /\ j = k)
    <3>1. i \in DOMAIN Stack /\ j \in DOMAIN Stack[i] /\ Stack'[i][j] = Stack[i][j]
        BY <1>3, <1>5, <2>2
    <3>2. Stack[i][j].seq <= top.seq /\ Stack[i][j].seq \in Nat
        BY <1>1, <1>6, <3>1, SeqMarkedFields DEF Bounded
    <3> QED BY <1>1, <1>3, <3>1, <3>2 DEF Bounded
  <2> QED BY <2>1, <2>2
<1>8. NewestFirst(Stack')
  <2> SUFFICES ASSUME NEW i \in DOMAIN Stack', NEW j \in DOMAIN Stack', NEW h \in Keys,
                      i < j, h \in DOMAIN Stack'[i], h \in DOMAIN Stack'[j]
               PROVE  Before(Stack'[j][h], Stack'[i][h])
      BY DEF NewestFirst
  <2>1. /\ i \in DOMAIN Stack /\ j \in DOMAIN Stack /\ j # 1
        /\ h \in DOMAIN Stack[j] /\ Stack'[j][h] = Stack[j][h]
      BY <1>1, <1>5, StackIs
  <2>2. CASE i = 1 /\ h = k
    <3>1. Stack[j][h] \in SeqMarkeds /\ Stack[j][h].seq <= top.seq
        BY <1>1, <1>6, <2>1 DEF Bounded
    <3>2. Before(Stack[j][h], NewMarked(seq, value))
        BY <1>1, <3>1, WrittenIsNewest
    <3> QED BY <1>3, <1>5, <2>1, <2>2, <3>2
  <2>3. CASE ~(i = 1 /\ h = k)
    <3>1. h \in DOMAIN Stack[i] /\ Stack'[i][h] = Stack[i][h]
        BY <1>3, <1>5, <2>1, <2>3
    <3> QED BY <1>1, <2>1, <3>1 DEF NewestFirst
  <2> QED BY <2>2, <2>3
<1>9. Writes(Stack', Stack, k, value)
  <2>1. NewMarked(seq, value).data = value
      BY DEF NewMarked, NewNormal, NewTombstone
  <2> QED BY <1>3, <1>5, <2>1 DEF Writes
<1> QED BY <1>4, <1>7, <1>8, <1>9 DEF StackInv

\* Freezing puts an empty level on top and moves the others one down.
LEMMA FreezeKeeps ==
    ASSUME StackInv, Freeze
    PROVE  StackInv' /\ Pushes(Stack', Stack)
<1> DEFINE m == Len(immutables)
           p == Len(persisted)
<1>1. /\ Typed /\ top \in LevelRecords
      /\ Bounded(Stack, top.seq) /\ NewestFirst(Stack)
      /\ immutables \in Seq(LevelRecords) /\ m \in Nat /\ p \in Nat
    BY StackIs DEF StackInv, Typed
<1>2. /\ immutables' = <<top>> \o immutables
      /\ top' = NewLevel(top)
      /\ persisted' = persisted /\ merging' = merging
    BY DEF Freeze
<1>3. top' \in LevelRecords /\ top'.seq = top.seq /\ top'.entries = << >>
    BY <1>1, <1>2, NoEntries DEF NewLevel, LevelRecords
<1>4. /\ immutables' \in Seq(LevelRecords)
      /\ Len(immutables') = m + 1
      /\ immutables'[1] = top
      /\ \A i \in 1..m : immutables'[1 + i] = immutables[i]
  <2>1. <<top>> \in Seq(LevelRecords) /\ Len(<<top>>) = 1 /\ <<top>>[1] = top
      BY <1>1
  <2>2. /\ immutables' \in Seq(LevelRecords)
        /\ Len(immutables') = 1 + m
        /\ \A i \in 1..(1 + m) :
              immutables'[i] = IF i <= 1 THEN <<top>>[i] ELSE immutables[i - 1]
      BY <1>1, <1>2, <2>1, ConcatProperties
  <2>3. \A i \in 1..m : 1 + i \in 1..(1 + m) /\ ~(1 + i <= 1) /\ (1 + i) - 1 = i
      BY <1>1
  <2> QED BY <1>1, <2>1, <2>2, <2>3
<1>5. Typed'
    BY <1>1, <1>2, <1>3, <1>4 DEF Typed
<1>6. DOMAIN Stack = 1..(1 + m + p) /\ DOMAIN Stack' = 1..(2 + m + p)
    BY <1>1, <1>2, <1>4, <1>5, StackIs, StackIsPrime
<1>7. ASSUME NEW i \in DOMAIN Stack PROVE Stack'[1 + i] = Stack[i]
  <2>1. CASE i = 1
    <3>1. Stack'[1 + 1] = immutables'[1].entries
        BY <1>1, <1>4, <1>5, StackIsPrime
    <3> QED BY <1>1, <1>4, <2>1, <3>1, StackIs
  <2>2. CASE 1 < i /\ i <= 1 + m
    <3>1. i - 1 \in 1..m /\ 1 + (i - 1) = i /\ i \in 1..Len(immutables')
        BY <1>1, <1>4, <1>6, <2>2
    <3>2. Stack[1 + (i - 1)] = immutables[i - 1].entries
        BY <1>1, <3>1, StackIs
    <3>3. Stack'[1 + i] = immutables'[i].entries
        BY <1>5, <3>1, StackIsPrime
    <3>4. immutables'[1 + (i - 1)] = immutables[i - 1]
        BY <1>4, <3>1
    <3> QED BY <3>1, <3>2, <3>3, <3>4
  <2>3. CASE 1 + m < i
    <3>0. m \in Nat /\ p \in Nat /\ i \in Nat /\ i <= 1 + m + p
        BY <1>1, <1>6
    <3>1. PICK q \in 1..p : i = 1 + m + q
      <4>1. i - (1 + m) \in 1..p
          BY <3>0, <2>3
      <4> QED BY <3>0, <4>1
    <3>2. Stack[1 + m + q] = persisted[q]
        BY <1>1, <3>1, StackIs
    <3>3. Stack'[1 + (m + 1) + q] = persisted[q]
        BY <1>2, <1>4, <1>5, <3>1, StackIsPrime
    <3>4. 1 + (m + 1) + q = 1 + i
        BY <3>0, <3>1
    <3> QED BY <3>1, <3>2, <3>3, <3>4
  <2> QED BY <1>1, <1>6, <2>1, <2>2, <2>3
<1>8. DOMAIN Stack'[1] = {}
    BY <1>3, <1>5, StackIsPrime, NoEntries
<1> DEFINE origin == [i \in DOMAIN Stack' |-> IF i = 1 THEN {} ELSE {i - 1}]
<1>9. \A i \in DOMAIN Stack' : i # 1 => i - 1 \in DOMAIN Stack /\ 1 + (i - 1) = i
    BY <1>1, <1>6
<1>10. origin \in [DOMAIN Stack' -> SUBSET DOMAIN Stack]
    BY <1>9
<1>11. \A i \in DOMAIN Stack' : \A k \in DOMAIN Stack'[i] :
          \E j \in origin[i] : k \in DOMAIN Stack[j] /\ Stack[j][k] = Stack'[i][k]
  <2> TAKE i \in DOMAIN Stack'
  <2> TAKE k \in DOMAIN Stack'[i]
  <2>1. i # 1
      BY <1>8
  <2>2. Stack'[i] = Stack[i - 1]
      BY <1>7, <1>9, <2>1
  <2>3. i - 1 \in origin[i]
      BY <2>1
  <2> QED BY <2>2, <2>3
<1>12. \A i, j \in DOMAIN Stack' : i < j => \A a \in origin[i], b \in origin[j] : a < b
    BY <1>6, <1>1
<1>13. Bounded(Stack', top.seq) /\ NewestFirst(Stack')
  <2>1. DOMAIN Stack' \subseteq Nat
      BY <1>6
  <2> HIDE DEF origin
  <2> QED BY <1>1, <1>10, <1>11, <1>12, <2>1, Regroup
<1>14. Pushes(Stack', Stack)
  <2>1. \A i \in DOMAIN Stack : 1 + i \in DOMAIN Stack'
      BY <1>1, <1>6
  <2>2. 1 \in DOMAIN Stack'
      BY <1>1, <1>6
  <2> QED BY <1>7, <1>8, <1>9, <2>1, <2>2 DEF Pushes
<1> QED BY <1>3, <1>5, <1>13, <1>14 DEF StackInv

\* The levels a merge reads are themselves a sound stack.
LEMMA MergedNewestFirst ==
    ASSUME StackInv, NEW deep \in BOOLEAN
    PROVE  NewestFirst(Merged(deep))
<1> DEFINE count == merging + IF deep THEN Len(persisted) ELSE 0
           origin == [i \in 1..count |-> {1 + Untouched + i}]
<1>1. /\ Typed /\ Bounded(Stack, top.seq) /\ NewestFirst(Stack)
      /\ merging \in Nat /\ Untouched \in Nat /\ Untouched + merging = Len(immutables)
      /\ Len(persisted) \in Nat
    BY StackIs DEF StackInv, Typed, Untouched
<1>2. /\ DOMAIN Merged(deep) = 1..count
      /\ \A i \in 1..count : Merged(deep)[i] = Stack[1 + Untouched + i]
    BY <1>1, MergedIs
<1>3. \A i \in 1..count : 1 + Untouched + i \in DOMAIN Stack
    BY <1>1, StackIs
<1>4. origin \in [DOMAIN Merged(deep) -> SUBSET DOMAIN Stack]
    BY <1>2, <1>3
<1>5. \A i \in DOMAIN Merged(deep) : \A k \in DOMAIN Merged(deep)[i] :
          \E j \in origin[i] : k \in DOMAIN Stack[j] /\ Stack[j][k] = Merged(deep)[i][k]
    BY <1>2
<1>6. \A i, j \in DOMAIN Merged(deep) :
          i < j => \A a \in origin[i], b \in origin[j] : a < b
    BY <1>1, <1>2
<1>7. DOMAIN Merged(deep) \subseteq Nat
    BY <1>2
<1>8. Bounded(Stack, top.seq) /\ NewestFirst(Stack)
    BY <1>1
<1> HIDE DEF origin
<1> QED BY <1>4, <1>5, <1>6, <1>7, <1>8, Regroup

\* What a merge writes: entries of the levels it reads.
LEMMA MergeWrites ==
    ASSUME StackInv, NEW deep \in BOOLEAN, NEW purge \in BOOLEAN
    PROVE  LET range == CompactedRange(Merged(deep))
               written == IF purge THEN Normals(range) ELSE range
           IN /\ written \in EntryMaps
              /\ \A k \in DOMAIN written : \E i \in DOMAIN Merged(deep) :
                    k \in DOMAIN Merged(deep)[i] /\ Merged(deep)[i][k] = written[k]
<1> DEFINE range == CompactedRange(Merged(deep))
           written == IF purge THEN Normals(range) ELSE range
<1>1. /\ range \in EntryMaps
      /\ \A k \in DOMAIN range : \E i \in DOMAIN Merged(deep) :
            k \in DOMAIN Merged(deep)[i] /\ Merged(deep)[i][k] = range[k]
  <2>1. Typed
      BY DEF StackInv
  <2>2. Merged(deep) \in Seq(EntryMaps) /\ NewestFirst(Merged(deep))
      BY <2>1, MergedIs, MergedNewestFirst
  <2> QED BY <2>2, RangeOfStack
<1> HIDE DEF range
<1>2. DOMAIN range \in SUBSET Keys /\ \A k \in DOMAIN range : range[k] \in SeqMarkeds
    BY <1>1, EntryMapsAre
<1>3. /\ DOMAIN Normals(range) \subseteq DOMAIN range
      /\ \A k \in DOMAIN Normals(range) : Normals(range)[k] = range[k]
      /\ Normals(range) = [k \in DOMAIN Normals(range) |-> range[k]]
    BY DEF Normals
<1>4. Normals(range) \in EntryMaps
    BY <1>2, <1>3, EntryMapsAre
<1> QED BY <1>1, <1>3, <1>4 DEF range

\* What a merge reads of a key: its entry in the first level that has it.
LEMMA MergeReads ==
    ASSUME StackInv, NEW deep \in BOOLEAN
    PROVE  LET range == CompactedRange(Merged(deep))
           IN /\ range \in EntryMaps
              /\ \A k \in Keys, h \in DOMAIN Merged(deep) :
                    /\ k \in DOMAIN Merged(deep)[h]
                    /\ \A g \in DOMAIN Merged(deep) : k \in DOMAIN Merged(deep)[g] => h <= g
                    => k \in DOMAIN range /\ range[k] = Merged(deep)[h][k]
<1> DEFINE s == Merged(deep)
           range == CompactedRange(s)
<1>1. s \in Seq(EntryMaps) /\ NewestFirst(s)
    BY MergedIs, MergedNewestFirst DEF StackInv
<1>2. \A i \in DOMAIN s : i \in Nat /\ s[i] \in EntryMaps
    BY <1>1, LenProperties, ElementOfSeq
<1> HIDE DEF s
<1>3. ASSUME NEW k \in Keys, NEW h \in DOMAIN s, k \in DOMAIN s[h],
             \A g \in DOMAIN s : k \in DOMAIN s[g] => h <= g
      PROVE  k \in DOMAIN range /\ range[k] = s[h][k]
  <2>1. k \in DOMAIN range
    <3>1. DOMAIN range = {j \in Keys : \E i \in DOMAIN s : j \in DOMAIN s[i]}
        BY <1>1, RangeOfStack
    <3> QED BY <1>3, <3>1
  <2>2. PICK j \in DOMAIN s :
            /\ k \in DOMAIN s[j] /\ s[j][k] = range[k]
            /\ \A i \in DOMAIN s : k \in DOMAIN s[i] => Leq(s[i][k], s[j][k])
      BY <1>1, <2>1, RangeOfStack
  <2>3. h = j \/ h < j
      BY <1>2, <1>3, <2>2
  <2>4. s[h][k] \in SeqMarkeds /\ s[j][k] \in SeqMarkeds
      BY <1>2, <1>3, <2>2, EntryMapsAre
  <2>5. CASE h < j
    <3>1. Before(s[j][k], s[h][k])
        BY <1>1, <1>3, <2>2, <2>5 DEF NewestFirst
    <3> QED BY <1>3, <2>1, <2>2, <2>4, <3>1, BeforeIsOrder
  <2> QED BY <2>1, <2>2, <2>3, <2>5
<1> QED BY <1>1, <1>3, RangeOfStack DEF s

\* A merge puts its result where the levels were that it read.
LEMMA FinishKeeps ==
    ASSUME StackInv, NEW deep \in BOOLEAN, NEW purge \in BOOLEAN, FinishMerge(deep, purge)
    PROVE  /\ StackInv'
           /\ \E n, low, rest \in Nat :
                 /\ Replaces(Stack', Stack, n, low, rest)
                 /\ KeepsFirst(Stack', Stack, n, low, rest)
<1> DEFINE m == Len(immutables)
           p == Len(persisted)
           n == Untouched
           below == IF deep THEN p ELSE 0
           rest == IF deep THEN 0 ELSE p
           range == CompactedRange(Merged(deep))
           written == IF purge THEN Normals(range) ELSE range
<1>1. /\ Typed /\ top.seq \in Nat
      /\ Bounded(Stack, top.seq) /\ NewestFirst(Stack)
      /\ immutables \in Seq(LevelRecords) /\ m \in Nat
      /\ persisted \in Seq(EntryMaps) /\ p \in Nat
      /\ merging \in Nat /\ n \in Nat /\ n + merging = m
    BY StackIs DEF StackInv, Typed, LevelRecords, Untouched
<1>0. /\ m \in Nat /\ p \in Nat /\ n \in Nat /\ merging \in Nat /\ n + merging = m
      /\ rest \in Nat /\ below \in Nat /\ below + rest = p
      /\ deep => rest = 0
      /\ ~deep => below = 0
  <2>1. m \in Nat /\ p \in Nat /\ n \in Nat /\ merging \in Nat /\ n + merging = m
      BY <1>1
  <2> HIDE DEF m, p, n
  <2> QED BY <2>1
<1>2. /\ persisted' = <<written>> \o (IF deep THEN << >> ELSE persisted)
      /\ immutables' = SubSeq(immutables, 1, n)
      /\ merging' = 0 /\ top' = top
    BY DEF FinishMerge
<1>3. /\ written \in EntryMaps
      /\ \A k \in DOMAIN written : \E i \in DOMAIN Merged(deep) :
            k \in DOMAIN Merged(deep)[i] /\ Merged(deep)[i][k] = written[k]
    BY MergeWrites
<1> HIDE DEF written
<1>4. /\ immutables' \in Seq(LevelRecords)
      /\ Len(immutables') = n
      /\ \A i \in 1..n : immutables'[i] = immutables[i]
  <2>1. \A i \in 1..n : immutables[i] \in LevelRecords
    <3>1. immutables \in [1..m -> LevelRecords]
        BY <1>1, LenProperties
    <3> QED BY <1>1, <3>1
  <2>2. /\ immutables' \in Seq(LevelRecords)
        /\ Len(immutables') = IF 1 <= n THEN n - 1 + 1 ELSE 0
        /\ \A i \in 1..(n - 1 + 1) : immutables'[i] = immutables[1 + i - 1]
      BY <1>1, <1>2, <2>1, SubSeqProperties
  <2> QED BY <1>1, <2>2
<1>5. /\ persisted' \in Seq(EntryMaps)
      /\ Len(persisted') = 1 + rest
      /\ persisted'[1] = written
      /\ \A q \in 1..rest : persisted'[1 + q] = persisted[q]
  <2> DEFINE old == IF deep THEN << >> ELSE persisted
  <2>1. <<written>> \in Seq(EntryMaps) /\ Len(<<written>>) = 1 /\ <<written>>[1] = written
      BY <1>3
  <2>2. old \in Seq(EntryMaps) /\ Len(old) = rest
      BY <1>1, EmptySeq
  <2>3. /\ persisted' \in Seq(EntryMaps)
        /\ Len(persisted') = 1 + rest
        /\ \A i \in 1..(1 + rest) : persisted'[i] = IF i <= 1 THEN <<written>>[i] ELSE old[i - 1]
    <3> HIDE DEF old
    <3> QED BY <1>2, <2>1, <2>2, ConcatProperties DEF old
  <2>4. \A q \in 1..rest : 1 + q \in 1..(1 + rest) /\ ~(1 + q <= 1) /\ (1 + q) - 1 = q
      BY <1>1
  <2> QED BY <1>1, <2>1, <2>3, <2>4
<1>6. Typed'
    BY <1>1, <1>2, <1>4, <1>5 DEF Typed
<1>7. DOMAIN Stack = 1..(1 + m + p) /\ DOMAIN Stack' = 1..(2 + n + rest)
  <2>1. DOMAIN Stack = 1..(1 + m + p)
      BY <1>1, StackIs
  <2>2. DOMAIN Stack' = 1..(1 + Len(immutables') + Len(persisted'))
      BY <1>6, StackIsPrime
  <2>3. 1 + n + (1 + rest) = 2 + n + rest
    <3>1. n \in Nat /\ rest \in Nat
        BY <1>0
    <3> HIDE DEF n, rest
    <3> QED BY <3>1
  <2>4. Len(immutables') = n /\ Len(persisted') = 1 + rest
      BY <1>4, <1>5
  <2> HIDE DEF n, rest
  <2> QED BY <2>1, <2>2, <2>3, <2>4
<1>8. ASSUME NEW i \in 1..(1 + n) PROVE i \in DOMAIN Stack /\ Stack'[i] = Stack[i]
  <2>1. CASE i = 1
    <3>1. 1 \in DOMAIN Stack
        BY <1>1, <1>7
    <3>2. Stack[1] = top.entries /\ Stack'[1] = top.entries
        BY <1>1, <1>2, <1>6, StackIs, StackIsPrime
    <3> QED BY <2>1, <3>1, <3>2
  <2>2. CASE i # 1
    <3>1. PICK h \in 1..n : i = 1 + h
      <4>1. i - 1 \in 1..n /\ i = 1 + (i - 1)
          BY <1>1, <2>2
      <4> QED BY <4>1
    <3>2. h \in 1..m /\ Stack[1 + h] = immutables[h].entries
        BY <1>1, <3>1, StackIs
    <3>3. Stack'[1 + h] = immutables'[h].entries
        BY <1>4, <1>6, <3>1, StackIsPrime
    <3>4. i \in DOMAIN Stack
        BY <1>1, <1>7, <3>1, <3>2
    <3> QED BY <1>4, <3>1, <3>2, <3>3, <3>4
  <2> QED BY <2>1, <2>2
<1>9. Stack'[2 + n] = written
  <2>1. 1 \in 1..Len(persisted') /\ 1 + Len(immutables') + 1 = 2 + n
      BY <1>1, <1>4, <1>5
  <2> QED BY <1>5, <1>6, <2>1, StackIsPrime
<1>10. ASSUME NEW q \in 1..rest
       PROVE  1 + m + q \in DOMAIN Stack /\ Stack'[2 + n + q] = Stack[1 + m + q]
  <2>1. /\ 1 + q \in 1..Len(persisted') /\ 1 + Len(immutables') + (1 + q) = 2 + n + q
        /\ q \in 1..p /\ 1 + m + q \in 1..(1 + m + p)
      BY <1>1, <1>4, <1>5
  <2>2. Stack'[1 + Len(immutables') + (1 + q)] = persisted'[1 + q]
      BY <1>6, <2>1, StackIsPrime
  <2>3. Stack[1 + m + q] = persisted[q]
      BY <1>1, <2>1, StackIs
  <2> QED BY <1>5, <1>7, <2>1, <2>2, <2>3
<1>11. /\ DOMAIN Merged(deep) = 1..(merging + below)
       /\ \A i \in DOMAIN Merged(deep) : Merged(deep)[i] = Stack[1 + n + i]
    BY <1>1, MergedIs
<1> DEFINE low == merging + below
<1>12. /\ low \in Nat /\ rest \in Nat
       /\ 1 + m + p = 1 + n + low + rest
       /\ deep => rest = 0
       /\ ~deep => low = merging
  <2> HIDE DEF m, p, n, rest, below
  <2> QED BY <1>0
<1>13. \A k \in DOMAIN Stack'[2 + n] : \E i \in 1..low :
           k \in DOMAIN Stack[1 + n + i] /\ Stack[1 + n + i][k] = Stack'[2 + n][k]
    BY <1>3, <1>9, <1>11
<1>14. \A i \in 1..(1 + n) : Stack'[i] = Stack[i]
    BY <1>8
<1>15. \A q \in 1..rest : Stack'[2 + n + q] = Stack[1 + n + low + q]
  <2> TAKE q \in 1..rest
  <2>1. ~deep
      BY <1>12
  <2>2. 1 + m + q = 1 + n + low + q
    <3>1. low = merging /\ q \in Nat
      <4>1. q \in Nat
          BY <1>0
      <4> QED BY <1>12, <2>1, <4>1
    <3> HIDE DEF m, p, n, rest, low
    <3> QED BY <1>0, <3>1
  <2> QED BY <1>10, <2>2
<1>16. DOMAIN Stack = 1..(1 + n + low + rest)
    BY <1>7, <1>12
<1>17. n \in Nat /\ low \in Nat /\ rest \in Nat /\ Replaces(Stack', Stack, n, low, rest)
  <2>1. DOMAIN Stack' = 1..(2 + n + rest)
      BY <1>7
  <2>2. n \in Nat /\ low \in Nat /\ rest \in Nat
      BY <1>0, <1>12
  <2> HIDE DEF m, p, n, below, low, rest
  <2> QED BY <1>13, <1>14, <1>15, <1>16, <2>1, <2>2 DEF Replaces
<1>18. Bounded(Stack', top.seq) /\ NewestFirst(Stack')
  <2>1. Bounded(Stack, top.seq) /\ NewestFirst(Stack)
      BY <1>1
  <2> HIDE DEF m, p, n, below, low, rest
  <2> QED BY <1>17, <2>1, ReplacedIsSound
<1>19. ASSUME NEW k \in Keys, NEW h \in 1..low, k \in DOMAIN Stack[1 + n + h],
              \A g \in 1..low : k \in DOMAIN Stack[1 + n + g] => h <= g
       PROVE  \/ k \in DOMAIN written /\ written[k] = Stack[1 + n + h][k]
              \/ k \notin DOMAIN written /\ rest = 0 /\ Stack[1 + n + h][k].data = NoValue
  <2>1. /\ h \in DOMAIN Merged(deep) /\ k \in DOMAIN Merged(deep)[h]
        /\ Merged(deep)[h] = Stack[1 + n + h]
        /\ \A g \in DOMAIN Merged(deep) : k \in DOMAIN Merged(deep)[g] => h <= g
      BY <1>11, <1>19
  <2>2. k \in DOMAIN range /\ range[k] = Stack[1 + n + h][k]
      BY <2>1, MergeReads
  <2>3. purge => rest = 0
      BY DEF FinishMerge
  <2>4. Stack[1 + n + h][k] \in SeqMarkeds
      BY <2>2, MergeReads, EntryMapsAre
  <2>5. Stack[1 + n + h][k].mark # Normal => Stack[1 + n + h][k].data = NoValue
      BY <2>4, SeqMarkedFields DEF SeqMarkeds, Normal, TombStone
  <2> HIDE DEF range, low, n, rest
  <2> QED BY <2>2, <2>3, <2>5 DEF written, Normals
<1>20. KeepsFirst(Stack', Stack, n, low, rest)
  <2> HIDE DEF low, n, rest
  <2> QED BY <1>9, <1>19 DEF KeepsFirst
<1> HIDE DEF n, low, rest
<1> QED BY <1>2, <1>6, <1>17, <1>18, <1>20 DEF StackInv

\* A step keeps the stack sound: only the top is written, and merging moves
\* entries that keep their order.
LEMMA StackStep == StackInv /\ [Next]_vars => StackInv'
<1> SUFFICES ASSUME StackInv, [Next]_vars PROVE StackInv'
    OBVIOUS
<1>1. ASSUME NEW k \in Keys, NEW value \in Values \cup {NoValue}, Set(k, value)
      PROVE  StackInv'
    BY <1>1, SetKeeps
<1>2. CASE Freeze
    BY <1>2, FreezeKeeps
<1>3. ASSUME NEW deep \in BOOLEAN, NEW purge \in BOOLEAN, FinishMerge(deep, purge)
      PROVE  StackInv'
    BY <1>3, FinishKeeps
<1>4. ASSUME UNCHANGED <<top, immutables, persisted>>, merging' \in 0..Len(immutables)
      PROVE  StackInv'
  <2>1. Stack' = Stack
      BY <1>4 DEF Stack, Frozen
  <2> QED BY <1>4, <2>1 DEF StackInv, Typed
<1>5. ASSUME NEW count \in 1..MaxLevels, StartMerge(count) PROVE StackInv'
  <2>1. count \in 0..Len(immutables)
      BY <1>5, StackIs DEF StartMerge, StackInv
  <2> QED BY <1>4, <1>5, <2>1 DEF StartMerge
<1>6. CASE MergeFails
  <2>1. 0 \in 0..Len(immutables)
      BY StackIs DEF StackInv
  <2> QED BY <1>4, <1>6, <2>1 DEF MergeFails
<1>7. CASE UNCHANGED vars
    BY <1>4, <1>7 DEF vars, StackInv, Typed
<1> QED BY <1>1, <1>2, <1>3, <1>5, <1>6, <1>7 DEF Next

\* In every state the levels are a sound stack.
THEOREM AlwaysStacked == Spec => []StackInv
BY StackInit, StackStep, PTL DEF Spec

-----------------------------------------------------------------------------
(* What follows.                                                           *)

\* Every variable of the store keeps its type.
THEOREM LevelsTypeCorrect == Spec => []TypeOK
<1>1. StackInv => TypeOK
    BY TypedIsTypeOK DEF StackInv
<1> QED BY <1>1, AlwaysStacked, PTL

\* The assertion of by_key_seq (util.rs) holds when compacted_range merges the
\* levels of a store, however they were frozen, merged and purged.
THEOREM MergesNeverPanic == Spec => []LevelsNeverPanic
<1>1. ASSUME StackInv PROVE LevelsNeverPanic
  <2> SUFFICES ASSUME NEW i \in DOMAIN Stack, NEW j \in DOMAIN Stack, i < j,
                      NEW k \in DOMAIN Stack[i], k \in DOMAIN Stack[j],
                      SameOrder(Stack[i][k], Stack[j][k]), Stack[i][k].mark = Normal
               PROVE  FALSE
      BY DEF LevelsNeverPanic, CompactedRangePanics
  <2>1. /\ k \in Keys
        /\ Stack[i][k] \in SeqMarkeds /\ Stack[j][k] \in SeqMarkeds
      BY <1>1, StackIs, ElementOfSeq, LenProperties, EntryMapsAre DEF StackInv
  <2>2. Before(Stack[j][k], Stack[i][k])
      BY <1>1, <2>1 DEF StackInv, NewestFirst
  <2>3. Stack[i][k] = Stack[j][k] /\ Stack[i][k].mark = TombStone
      BY <2>1, <2>2, BeforeIsOrder DEF Leq, SameOrder
  <2> QED BY <2>3 DEF Normal, TombStone
<1> QED BY <1>1, AlwaysStacked, PTL

\* Of a key compacted_get returns the entry of the first level that has it, and
\* compacted_range keeps the same one.
LEMMA ReadsOfStack ==
    ASSUME NEW s \in Seq(EntryMaps), NEW bound, Bounded(s, bound), NewestFirst(s),
           NEW k \in Keys
    PROVE  /\ CompactedGet(s, k) = LevelGet(CompactedRange(s), k)
           /\ \A i \in DOMAIN s :
                 /\ k \in DOMAIN s[i]
                 /\ \A j \in DOMAIN s : k \in DOMAIN s[j] => i <= j
                 => CompactedGet(s, k) = s[i][k]
           /\ (\A i \in DOMAIN s : k \notin DOMAIN s[i]) => CompactedGet(s, k) = NotFound
<1> DEFINE range == CompactedRange(s)
           found == {i \in DOMAIN s : ~IsNotFound(LevelGet(s[i], k))}
<1>1. \A i \in DOMAIN s : i \in Nat /\ s[i] \in EntryMaps
    BY LenProperties, ElementOfSeq
<1>2. \A i \in DOMAIN s : k \in DOMAIN s[i] => s[i][k] \in SeqMarkeds
    BY <1>1, EntryMapsAre
<1>3. IsNotFound(NotFound)
    BY DEF IsNotFound, NotFound, NewTombstone
<1>4. \A i \in found : i \in DOMAIN s /\ k \in DOMAIN s[i]
    BY <1>3 DEF LevelGet
<1>5. DOMAIN range = {h \in Keys : \E i \in DOMAIN s : h \in DOMAIN s[i]}
    BY RangeOfStack
<1>6. ASSUME \A i \in DOMAIN s : k \notin DOMAIN s[i]
      PROVE  CompactedGet(s, k) = NotFound /\ LevelGet(range, k) = NotFound
  <2>1. found = {}
      BY <1>4, <1>6
  <2>2. k \notin DOMAIN range
      BY <1>5, <1>6
  <2> QED BY <2>1, <2>2 DEF CompactedGet, LevelGet
<1>7. ASSUME NEW i \in DOMAIN s, k \in DOMAIN s[i],
             \A j \in DOMAIN s : k \in DOMAIN s[j] => i <= j
      PROVE  CompactedGet(s, k) = s[i][k] /\ LevelGet(range, k) = s[i][k]
  <2>1. ASSUME NEW j \in DOMAIN s, k \in DOMAIN s[j]
        PROVE  Leq(s[j][k], s[i][k]) /\ (Leq(s[i][k], s[j][k]) => s[j][k] = s[i][k])
    <3>1. CASE i = j
        BY <1>2, <1>7, <3>1, BeforeIsOrder
    <3>2. CASE i < j
        BY <1>2, <1>7, <2>1, <3>2, BeforeIsOrder DEF NewestFirst
    <3> QED BY <1>1, <1>7, <2>1, <3>1, <3>2
  <2>2. LevelGet(range, k) = s[i][k]
    <3>1. k \in DOMAIN range
        BY <1>5, <1>7
    <3>2. PICK j \in DOMAIN s :
              /\ k \in DOMAIN s[j] /\ s[j][k] = range[k]
              /\ \A h \in DOMAIN s : k \in DOMAIN s[h] => Leq(s[h][k], s[j][k])
        BY <3>1, RangeOfStack
    <3> QED BY <1>7, <2>1, <3>1, <3>2 DEF LevelGet
  <2>3. CASE IsNotFound(s[i][k])
    <3>1. s[i][k] = NotFound
        BY <1>2, <1>7, <2>3, TombstoneIs DEF IsNotFound, NotFound
    <3>2. ASSUME NEW j \in DOMAIN s, k \in DOMAIN s[j] PROVE IsNotFound(s[j][k])
      <4>1. s[j][k].seq \in Nat /\ s[j][k].mark \in {0, 1}
          BY <1>2, <3>2, SeqMarkedFields
      <4>2. s[j][k].seq = 0
          BY <2>1, <2>3, <3>2, <4>1 DEF Leq, Lt, SameOrder, IsNotFound
      <4>3. s[j][k].mark # Normal
          BY <3>2, <4>2 DEF Bounded
      <4> QED BY <4>1, <4>2, <4>3 DEF IsNotFound, Normal, TombStone
    <3>3. found = {}
        BY <1>4, <3>2 DEF LevelGet
    <3> QED BY <2>2, <3>1, <3>3 DEF CompactedGet
  <2>4. CASE ~IsNotFound(s[i][k])
    <3>1. i \in found /\ \A j \in found : i <= j
        BY <1>4, <1>7, <2>4 DEF LevelGet
    <3>2. ASSUME NEW h \in found, \A j \in found : h <= j PROVE h = i
        BY <1>1, <3>1, <3>2
    <3> HIDE DEF found
    <3>3. (CHOOSE h \in found : \A j \in found : h <= j) = i
        BY <3>1, <3>2
    <3>4. CompactedGet(s, k) = LevelGet(s[i], k)
        BY <3>1, <3>3 DEF CompactedGet, found
    <3> QED BY <1>7, <2>2, <3>4 DEF LevelGet
  <2> QED BY <2>3, <2>4, <2>2
<1>8. (\E i \in DOMAIN s : k \in DOMAIN s[i]) => CompactedGet(s, k) = LevelGet(range, k)
    BY <1>7, FirstIsGreatest
<1> QED BY <1>6, <1>7, <1>8

\* compacted_get and compacted_range agree on every store that can be reached,
\* although one stops at the first level and the other compares sequences.
THEOREM ReadsAlwaysAgree == Spec => []LevelReadsAgree
<1>1. StackInv => LevelReadsAgree
    BY StackIs, ReadsOfStack DEF StackInv, LevelReadsAgree
<1> QED BY <1>1, AlwaysStacked, PTL

\* What a read sees of a sound stack: the data of the first entry.
LEMMA DataOfStack ==
    ASSUME NEW s \in Seq(EntryMaps), NEW bound, Bounded(s, bound), NewestFirst(s),
           NEW k \in Keys
    PROVE  /\ \A i \in DOMAIN s :
                 /\ k \in DOMAIN s[i]
                 /\ \A j \in DOMAIN s : k \in DOMAIN s[j] => i <= j
                 => CompactedGet(s, k).data = s[i][k].data
           /\ (\A i \in DOMAIN s : k \notin DOMAIN s[i]) => CompactedGet(s, k).data = NoValue
BY ReadsOfStack DEF NotFound, NewTombstone

\* Either no level has a key, or one is the first that has it.
LEMMA SomeIsFirst ==
    ASSUME NEW s \in Seq(EntryMaps), NEW k
    PROVE  \/ \A i \in DOMAIN s : k \notin DOMAIN s[i]
           \/ \E i \in DOMAIN s :
                 /\ k \in DOMAIN s[i]
                 /\ \A j \in DOMAIN s : k \in DOMAIN s[j] => i <= j
<1> DEFINE having == {i \in DOMAIN s : k \in DOMAIN s[i]}
<1>1. having \subseteq Nat
    BY LenProperties
<1>2. CASE having # {}
    BY <1>1, <1>2, NonemptyNatSetHasMin
<1> QED BY <1>2

\* A write is seen by the reads of its key, and by no other read.
LEMMA WriteIsSeen ==
    ASSUME NEW s \in Seq(EntryMaps), NEW t \in Seq(EntryMaps), NEW b, NEW c,
           Bounded(s, b), NewestFirst(s), Bounded(t, c), NewestFirst(t),
           NEW j \in Keys, NEW value, Writes(t, s, j, value), NEW k \in Keys
    PROVE  CompactedGet(t, k).data = IF k = j THEN value ELSE CompactedGet(s, k).data
<1>1. DOMAIN s \subseteq Nat /\ \A i \in DOMAIN s : 1 <= i
    BY LenProperties DEF Writes
<1>2. CASE k = j
  <2>1. /\ 1 \in DOMAIN t /\ k \in DOMAIN t[1] /\ t[1][k].data = value
        /\ \A i \in DOMAIN t : 1 <= i
      BY <1>1, <1>2 DEF Writes
  <2> QED BY <1>2, <2>1, DataOfStack
<1>3. CASE k # j
  <2>1. \A i \in DOMAIN s : /\ k \in DOMAIN t[i] <=> k \in DOMAIN s[i]
                            /\ k \in DOMAIN s[i] => t[i][k] = s[i][k]
      BY <1>3 DEF Writes
  <2>2. DOMAIN t = DOMAIN s
      BY DEF Writes
  <2>3. CASE \A i \in DOMAIN s : k \notin DOMAIN s[i]
    <3>1. CompactedGet(s, k).data = NoValue
        BY <2>3, DataOfStack
    <3>2. CompactedGet(t, k).data = NoValue
        BY <2>1, <2>2, <2>3, DataOfStack
    <3> QED BY <1>3, <3>1, <3>2
  <2>4. ASSUME NEW i \in DOMAIN s, k \in DOMAIN s[i],
               \A g \in DOMAIN s : k \in DOMAIN s[g] => i <= g
        PROVE  CompactedGet(t, k).data = CompactedGet(s, k).data
    <3>1. CompactedGet(s, k).data = s[i][k].data
        BY <2>4, DataOfStack
    <3>2. i \in DOMAIN t /\ k \in DOMAIN t[i] /\ \A g \in DOMAIN t : k \in DOMAIN t[g] => i <= g
        BY <2>1, <2>2, <2>4
    <3>3. CompactedGet(t, k).data = t[i][k].data
        BY <3>2, DataOfStack
    <3> QED BY <2>1, <2>4, <3>1, <3>3
  <2> QED BY <1>3, <2>3, <2>4, SomeIsFirst
<1> QED BY <1>2, <1>3

\* An empty level on top changes no read.
LEMMA PushIsUnseen ==
    ASSUME NEW s \in Seq(EntryMaps), NEW t \in Seq(EntryMaps), NEW b, NEW c,
           Bounded(s, b), NewestFirst(s), Bounded(t, c), NewestFirst(t),
           Pushes(t, s), NEW k \in Keys
    PROVE  CompactedGet(t, k).data = CompactedGet(s, k).data
<1>1. DOMAIN s \subseteq Nat /\ DOMAIN t \subseteq Nat
    BY LenProperties
<1>2. ASSUME NEW i \in DOMAIN t, k \in DOMAIN t[i]
      PROVE  \E h \in DOMAIN s : i = 1 + h /\ t[i] = s[h]
    BY <1>2 DEF Pushes
<1>3. CASE \A i \in DOMAIN s : k \notin DOMAIN s[i]
  <2>1. \A i \in DOMAIN t : k \notin DOMAIN t[i]
      BY <1>2, <1>3
  <2>2. CompactedGet(t, k).data = NoValue
      BY <2>1, DataOfStack
  <2>3. CompactedGet(s, k).data = NoValue
      BY <1>3, DataOfStack
  <2> QED BY <2>2, <2>3
<1>4. ASSUME NEW i \in DOMAIN s, k \in DOMAIN s[i],
             \A g \in DOMAIN s : k \in DOMAIN s[g] => i <= g
      PROVE  CompactedGet(t, k).data = CompactedGet(s, k).data
  <2>1. 1 + i \in DOMAIN t /\ t[1 + i] = s[i]
      BY DEF Pushes
  <2>2. ASSUME NEW g \in DOMAIN t, k \in DOMAIN t[g] PROVE 1 + i <= g
    <3>1. PICK h \in DOMAIN s : g = 1 + h /\ t[g] = s[h]
        BY <1>2, <2>2
    <3>2. i <= h
        BY <1>4, <2>2, <3>1
    <3> QED BY <1>1, <3>1, <3>2
  <2>3. CompactedGet(t, k).data = t[1 + i][k].data
      BY <1>4, <2>1, <2>2, DataOfStack
  <2>4. CompactedGet(s, k).data = s[i][k].data
      BY <1>4, DataOfStack
  <2> QED BY <2>1, <2>3, <2>4
<1> QED BY <1>3, <1>4, SomeIsFirst

\* Merging levels into one changes no read, purged or not.
LEMMA MergeIsUnseen ==
    ASSUME NEW s \in Seq(EntryMaps), NEW t \in Seq(EntryMaps), NEW b, NEW c,
           Bounded(s, b), NewestFirst(s), Bounded(t, c), NewestFirst(t),
           NEW n \in Nat, NEW low \in Nat, NEW rest \in Nat,
           Replaces(t, s, n, low, rest), KeepsFirst(t, s, n, low, rest), NEW k \in Keys
    PROVE  CompactedGet(t, k).data = CompactedGet(s, k).data
<1> DEFINE First(q, i) == /\ i \in DOMAIN q /\ k \in DOMAIN q[i]
                          /\ \A j \in DOMAIN q : k \in DOMAIN q[j] => i <= j
<1>1. /\ DOMAIN s = 1..(1 + n + low + rest)
      /\ DOMAIN t = 1..(2 + n + rest)
      /\ \A i \in 1..(1 + n) : t[i] = s[i]
      /\ \A q \in 1..rest : t[2 + n + q] = s[1 + n + low + q]
    BY DEF Replaces
<1>2. ASSUME NEW g \in DOMAIN t, k \in DOMAIN t[g]
      PROVE  \/ g \in 1..(1 + n) /\ g \in DOMAIN s /\ k \in DOMAIN s[g]
             \/ g = 2 + n /\ \E h \in 1..low : 1 + n + h \in DOMAIN s /\ k \in DOMAIN s[1 + n + h]
             \/ \E q \in 1..rest : /\ g = 2 + n + q
                                   /\ 1 + n + low + q \in DOMAIN s
                                   /\ k \in DOMAIN s[1 + n + low + q]
  <2>1. CASE g <= 1 + n
      BY <1>1, <1>2, <2>1
  <2>2. CASE g = 2 + n
    <3>1. PICK h \in 1..low : k \in DOMAIN s[1 + n + h]
        BY <1>2, <2>2 DEF Replaces
    <3>2. 1 + n + h \in DOMAIN s
        BY <1>1
    <3> QED BY <2>2, <3>1, <3>2
  <2>3. CASE g > 2 + n
    <3>1. g - (2 + n) \in 1..rest /\ g = 2 + n + (g - (2 + n))
        BY <1>1, <2>3
    <3>2. 1 + n + low + (g - (2 + n)) \in DOMAIN s
        BY <1>1, <3>1
    <3>3. t[2 + n + (g - (2 + n))] = s[1 + n + low + (g - (2 + n))]
        BY <1>1, <3>1
    <3> QED BY <1>2, <3>1, <3>2, <3>3
  <2> QED BY <1>1, <2>1, <2>2, <2>3
<1>3. CASE \A i \in DOMAIN s : k \notin DOMAIN s[i]
  <2>1. \A i \in DOMAIN t : k \notin DOMAIN t[i]
      BY <1>2, <1>3
  <2>2. CompactedGet(t, k).data = NoValue
      BY <2>1, DataOfStack
  <2>3. CompactedGet(s, k).data = NoValue
      BY <1>3, DataOfStack
  <2> QED BY <2>2, <2>3
<1>4. ASSUME NEW i, First(s, i)
      PROVE  CompactedGet(t, k).data = s[i][k].data
  <2>1. CASE i <= 1 + n
    <3>1. i \in 1..(1 + n) /\ i \in DOMAIN t
        BY <1>1, <1>4, <2>1
    <3>2. ASSUME NEW g \in DOMAIN t, k \in DOMAIN t[g] PROVE i <= g
      <4>1. CASE g \in 1..(1 + n)
          BY <1>1, <1>2, <1>4, <3>2, <4>1
      <4>2. CASE ~(g \in 1..(1 + n))
          BY <1>1, <3>1, <4>2
      <4> QED BY <4>1, <4>2
    <3>3. CompactedGet(t, k).data = t[i][k].data
        BY <1>1, <1>4, <3>1, <3>2, DataOfStack
    <3> QED BY <1>1, <3>1, <3>3
  <2>2. CASE \E h \in 1..low : i = 1 + n + h
    <3>1. PICK h \in 1..low : i = 1 + n + h
        BY <2>2
    <3>2. ASSUME NEW g \in 1..low, k \in DOMAIN s[1 + n + g] PROVE h <= g
      <4>1. 1 + n + g \in DOMAIN s
          BY <1>1
      <4>2. i <= 1 + n + g
          BY <1>4, <3>2, <4>1
      <4> QED BY <3>1, <4>2
    <3>3. \/ k \in DOMAIN t[2 + n] /\ t[2 + n][k] = s[i][k]
          \/ k \notin DOMAIN t[2 + n] /\ rest = 0 /\ s[i][k].data = NoValue
        BY <1>4, <3>1, <3>2 DEF KeepsFirst
    <3>4. ASSUME NEW g \in DOMAIN t, k \in DOMAIN t[g] PROVE ~(g \in 1..(1 + n))
      <4> SUFFICES ASSUME g \in 1..(1 + n) PROVE FALSE
          OBVIOUS
      <4>1. g \in DOMAIN s /\ k \in DOMAIN s[g]
          BY <1>1, <3>4
      <4>2. i <= g
          BY <1>4, <4>1
      <4> QED BY <3>1, <4>2
    <3>5. CASE k \in DOMAIN t[2 + n]
      <4>1. 2 + n \in DOMAIN t /\ \A g \in DOMAIN t : k \in DOMAIN t[g] => 2 + n <= g
          BY <1>1, <3>4
      <4>2. CompactedGet(t, k).data = t[2 + n][k].data
          BY <3>5, <4>1, DataOfStack
      <4> QED BY <3>3, <3>5, <4>2
    <3>6. CASE k \notin DOMAIN t[2 + n]
      <4>1. rest = 0 /\ s[i][k].data = NoValue
          BY <3>3, <3>6
      <4>2. ASSUME NEW g \in DOMAIN t PROVE k \notin DOMAIN t[g]
        <5>1. g \in 1..(1 + n) \/ g = 2 + n
            BY <1>1, <4>1
        <5> QED BY <3>4, <3>6, <5>1
      <4>3. CompactedGet(t, k).data = NoValue
          BY <4>2, DataOfStack
      <4> QED BY <4>1, <4>3
    <3> QED BY <3>5, <3>6
  <2>3. CASE \E q \in 1..rest : i = 1 + n + low + q
    <3>1. PICK q \in 1..rest : i = 1 + n + low + q
        BY <2>3
    <3>2. 2 + n + q \in DOMAIN t /\ t[2 + n + q] = s[i]
      <4>1. 2 + n + q \in 1..(2 + n + rest)
          OBVIOUS
      <4>2. t[2 + n + q] = s[1 + n + low + q]
          BY <1>1
      <4> QED BY <1>1, <3>1, <4>1, <4>2
    <3>3. ASSUME NEW g \in DOMAIN t, k \in DOMAIN t[g] PROVE 2 + n + q <= g
      <4>1. ~(g \in 1..(1 + n) /\ g \in DOMAIN s /\ k \in DOMAIN s[g])
          BY <1>4, <3>1
      <4>2. ~ \E h \in 1..low : 1 + n + h \in DOMAIN s /\ k \in DOMAIN s[1 + n + h]
        <5> SUFFICES ASSUME NEW h \in 1..low, 1 + n + h \in DOMAIN s, k \in DOMAIN s[1 + n + h]
                     PROVE  FALSE
            OBVIOUS
        <5>1. i <= 1 + n + h
            BY <1>4
        <5> QED BY <3>1, <5>1
      <4>3. PICK r \in 1..rest : /\ g = 2 + n + r
                                 /\ 1 + n + low + r \in DOMAIN s
                                 /\ k \in DOMAIN s[1 + n + low + r]
          BY <1>2, <3>3, <4>1, <4>2
      <4>4. i <= 1 + n + low + r
          BY <1>4, <4>3
      <4> QED BY <3>1, <4>3, <4>4
    <3>4. CompactedGet(t, k).data = t[2 + n + q][k].data
        BY <1>4, <3>2, <3>3, DataOfStack
    <3> QED BY <3>2, <3>4
  <2>4. \/ i <= 1 + n
        \/ \E h \in 1..low : i = 1 + n + h
        \/ \E q \in 1..rest : i = 1 + n + low + q
    <3>1. i \in 1..(1 + n + low + rest)
        BY <1>1, <1>4
    <3>2. CASE 1 + n < i /\ i <= 1 + n + low
      <4>1. i - (1 + n) \in 1..low /\ i = 1 + n + (i - (1 + n))
          BY <3>1, <3>2
      <4> QED BY <4>1
    <3>3. CASE 1 + n + low < i
      <4>1. i - (1 + n + low) \in 1..rest /\ i = 1 + n + low + (i - (1 + n + low))
          BY <3>1, <3>3
      <4> QED BY <4>1
    <3> QED BY <3>1, <3>2, <3>3
  <2> QED BY <2>1, <2>2, <2>3, <2>4
<1>5. ASSUME NEW i \in DOMAIN s, k \in DOMAIN s[i],
             \A j \in DOMAIN s : k \in DOMAIN s[j] => i <= j
      PROVE  CompactedGet(t, k).data = CompactedGet(s, k).data
  <2>1. CompactedGet(s, k).data = s[i][k].data
      BY <1>5, DataOfStack
  <2>2. First(s, i)
      BY <1>5
  <2> QED BY <1>4, <2>1, <2>2
<1> QED BY <1>3, <1>5, SomeIsFirst

\* A step that moves levels, or none, changes no read.
LEMMA MoveIsUnseen ==
    ASSUME StackInv, [Next]_vars,
           ~ \E k \in Keys, value \in Values \cup {NoValue} : Set(k, value)
    PROVE  Reads' = Reads
<1>1. /\ Stack \in Seq(EntryMaps) /\ Bounded(Stack, top.seq) /\ NewestFirst(Stack)
      /\ Stack' \in Seq(EntryMaps) /\ Bounded(Stack', top'.seq) /\ NewestFirst(Stack')
    BY StackStep, StackIs, StackIsPrime DEF StackInv
<1>2. CASE Freeze
  <2>1. Pushes(Stack', Stack)
      BY <1>2, FreezeKeeps
  <2> QED BY <1>1, <2>1, PushIsUnseen DEF Reads
<1>3. ASSUME NEW deep \in BOOLEAN, NEW purge \in BOOLEAN, FinishMerge(deep, purge)
      PROVE  Reads' = Reads
  <2>1. PICK n, low, rest \in Nat :
            Replaces(Stack', Stack, n, low, rest) /\ KeepsFirst(Stack', Stack, n, low, rest)
      BY <1>3, FinishKeeps
  <2> QED BY <1>1, <2>1, MergeIsUnseen DEF Reads
<1>4. CASE UNCHANGED <<top, immutables, persisted>>
    BY <1>4 DEF Reads, Stack, Frozen
<1> QED BY <1>2, <1>3, <1>4 DEF Next, StartMerge, MergeFails, vars

\* To a reader the levels are one map: a write is seen at once and alone, and
\* neither freezing a level nor merging levels, with or without their
\* deletions, changes what any key reads (compact.rs, level.rs).
THEOREM LevelsAreOneMap == Spec => ReadsFollowWrites
<1> DEFINE Followed ==
        /\ \A k \in Keys, value \in Values \cup {NoValue} :
              Set(k, value) => Reads' = [Reads EXCEPT ![k] = value]
        /\ top' \in {top, NewLevel(top)} => Reads' = Reads
<1>1. ASSUME StackInv, NEW k \in Keys, NEW value \in Values \cup {NoValue}, Set(k, value)
      PROVE  /\ Reads' = [Reads EXCEPT ![k] = value]
             /\ top' \in {top, NewLevel(top)} => Reads' = Reads
  <2>1. /\ StackInv' /\ Writes(Stack', Stack, k, value)
        /\ immutables' = immutables /\ persisted' = persisted
      BY <1>1, SetKeeps DEF Set
  <2>2. /\ Stack \in Seq(EntryMaps) /\ Bounded(Stack, top.seq) /\ NewestFirst(Stack)
        /\ Stack' \in Seq(EntryMaps) /\ Bounded(Stack', top'.seq) /\ NewestFirst(Stack')
      BY <1>1, <2>1, StackIs, StackIsPrime DEF StackInv
  <2>3. \A j \in Keys : CompactedGet(Stack', j).data =
                            IF j = k THEN value ELSE CompactedGet(Stack, j).data
      BY <2>1, <2>2, WriteIsSeen
  <2>4. Reads' = [Reads EXCEPT ![k] = value]
    <3>1. Reads = [j \in Keys |-> CompactedGet(Stack, j).data]
        BY DEF Reads
    <3>2. Reads' = [j \in Keys |-> CompactedGet(Stack', j).data]
        BY DEF Reads
    <3> QED BY <2>3, <3>1, <3>2
  <2>5. ASSUME top' = top PROVE Reads' = Reads
      BY <2>1, <2>5 DEF Reads, Stack, Frozen
  <2>6. top' # NewLevel(top)
    <3>1. k \in DOMAIN top'.entries
        BY <1>1, LevelSetType DEF Set, StackInv, Typed
    <3> QED BY <3>1, NoEntries DEF NewLevel
  <2> QED BY <2>4, <2>5, <2>6
<1>2. ASSUME StackInv, [Next]_vars PROVE Followed
  <2>1. CASE \E k \in Keys, value \in Values \cup {NoValue} : Set(k, value)
      BY <1>1, <1>2, <2>1
  <2>2. CASE ~ \E k \in Keys, value \in Values \cup {NoValue} : Set(k, value)
      BY <1>2, <2>2, MoveIsUnseen
  <2> QED BY <2>1, <2>2
<1>3. StackInv /\ [Next]_vars => [Followed]_vars
    BY <1>2
<1> QED BY <1>3, AlwaysStacked, PTL DEF ReadsFollowWrites, Spec
=============================================================================
