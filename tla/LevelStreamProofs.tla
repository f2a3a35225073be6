-------------------------- MODULE LevelStreamProofs --------------------------
(***************************************************************************)
(* What holds of the stream of compacted_range for any number of levels,   *)
(* any entries and any range: drained without an error it is the range,    *)
(* until a level fails what has come is final, and whichever levels fail   *)
(* nothing is lost.                                                        *)
(***************************************************************************)
EXTENDS LevelStream, StreamLemmas

-----------------------------------------------------------------------------
(* The invariant of the merge: s is the sources, one for each level, q the  *)
(* queues of what is left of them, known what the consumer knows.           *)

Sources(s) ==
    \A i \in DOMAIN s : DOMAIN s[i] \subseteq Keys /\ s[i] \in [DOMAIN s[i] -> SeqMarkeds]

\* The entry m of key k, or a newer one, is known.
Delivered(known, k, m) ==
    \E h \in DOMAIN known : IsOk(known[h]) /\ known[h].key = k /\ Leq(m, known[h].sm)

\* Each entry of a source is to come or has been delivered.
Accounted(q, known, source) ==
    \A k \in DOMAIN source : k \in KeysOf(q) \/ Delivered(known, k, source[k])

\* Whichever sources have failed.
KeptOK(q, known, s, bad) ==
    /\ Sources(s) /\ DOMAIN q = DOMAIN s
    /\ known \in Seq(Item)
    /\ \A i \in DOMAIN s : LeftOf(q[i], s[i])
    /\ \A i \in DOMAIN s \ bad : AllOk(q[i]) /\ Accounted(q[i], known, s[i])
    /\ bad # {} => HasError(known) \/ \E i \in DOMAIN s : HasError(q[i])

\* Two entries that trip the assertion.
Collide(m, n) == SameOrder(m, n) /\ m.mark = Normal

\* As long as none has: what is known is entries of the sources, in key order and
\* before all that is to come, and of entries that would trip the assertion both
\* are to come.
MergeOK(q, known, s) ==
    /\ AllOk(known) /\ KeysAscend(known)
    /\ \A h \in DOMAIN known : \E i \in DOMAIN s :
          known[h].key \in DOMAIN s[i] /\ known[h].sm = s[i][known[h].key]
    /\ \A i \in DOMAIN s : \A k \in KeysOf(q[i]) : \A h \in DOMAIN known : known[h].key <= k
    /\ \A i, j \in DOMAIN s : \A k \in DOMAIN s[i] \cap DOMAIN s[j] :
          i # j /\ k \notin KeysOf(q[i]) => ~Collide(s[i][k], s[j][k])

-----------------------------------------------------------------------------
(* The inductive invariant of the specification.                            *)

Known == yielded \o held

CallOK ==
    /\ levels \in Stacks /\ range \in Ranges
    /\ phase \in {"idle", "open", "refused", "panicked", "done"}
    /\ DOMAIN queues = DOMAIN levels /\ queues = [i \in DOMAIN levels |-> queues[i]]
    /\ \A i \in DOMAIN levels : queues[i] \in Seq(Item)
    /\ failed \subseteq DOMAIN levels
    /\ held \in Seq(Item) /\ Len(held) <= 1
    /\ yielded \in Seq(Item)

PhaseOK ==
    /\ phase \in {"idle", "refused"} => failed = {} /\ held = << >>
    /\ held = << >> /\ phase # "done" => yielded = << >>
    /\ phase = "done" => held = << >> /\ Heads(queues) = {}
    /\ phase = "panicked" => InvertedRange(range) \/ CompactedRangePanics(Opened)

MergeInv ==
    phase \in {"open", "done"} \/ held # << >> =>
        /\ KeptOK(queues, Known, Opened, failed)
        /\ failed = {} => MergeOK(queues, Known, Opened)

StreamInv == CallOK /\ PhaseOK /\ MergeInv

-----------------------------------------------------------------------------
(* Lemmas about the order of entries.                                       *)

\* Leq orders entries; two that it does not tell apart have one order key.
LEMMA LeqIsOrder ==
    ASSUME NEW m \in SeqMarkeds, NEW n \in SeqMarkeds
    PROVE  /\ Leq(m, m)
           /\ Leq(m, n) \/ Leq(n, m)
           /\ Leq(m, n) /\ Leq(n, m) => SameOrder(m, n)
           /\ \A o \in SeqMarkeds : Leq(m, n) /\ Leq(n, o) => Leq(m, o)
           /\ Leq(m, Newer(m, n)) /\ Leq(n, Newer(m, n)) /\ Newer(m, n) \in SeqMarkeds
<1>1. \A o \in SeqMarkeds : o.seq \in Nat /\ o.mark \in {0, 1}
    BY SeqMarkedFields
<1>2. Leq(m, n) \/ Leq(n, m)
    BY <1>1 DEF Leq, Lt, SameOrder
<1>3. Leq(m, m) /\ Leq(n, n)
    BY <1>1 DEF Leq, Lt, SameOrder
<1>4. Leq(m, n) /\ Leq(n, m) => SameOrder(m, n)
    BY <1>1 DEF Leq, Lt, SameOrder
<1>5. \A o \in SeqMarkeds : Leq(m, n) /\ Leq(n, o) => Leq(m, o)
    BY <1>1 DEF Leq, Lt, SameOrder
<1> QED BY <1>2, <1>3, <1>4, <1>5 DEF Newer

\* Two entries of one order key that do not collide are one: equal deletions.
LEMMA SameUnlessCollide ==
    ASSUME NEW m \in SeqMarkeds, NEW n \in SeqMarkeds, SameOrder(m, n), ~Collide(m, n)
    PROVE  m = n
<1>1. m.mark \in {0, 1}
    BY SeqMarkedFields
<1>2. m.mark = TombStone /\ n.mark = TombStone /\ m.seq = n.seq
    BY <1>1 DEF SameOrder, Collide, Normal, TombStone
<1> QED BY <1>2 DEF SeqMarkeds

\* Which of the two is met first makes no difference.
LEMMA CollideCommutes ==
    ASSUME NEW m, NEW n
    PROVE  Collide(m, n) <=> Collide(n, m)
BY DEF Collide, SameOrder

-----------------------------------------------------------------------------
(* What a step of the merge keeps.                                          *)

\* An entry delivered stays so, and the one that is taken is delivered.
LEMMA TakenDelivered ==
    ASSUME NEW known \in Seq(Item), NEW r \in Item
    PROVE  /\ \A k : \A m \in SeqMarkeds :
                 Delivered(known, k, m) => Delivered(Taken(known, r), k, m)
           /\ IsOk(r) => Delivered(Taken(known, r), r.key, r.sm)
<1> DEFINE next == Taken(known, r)
           len == Len(known)
<1>1. /\ len \in Nat /\ DOMAIN known = 1..len
      /\ \A h \in 1..len : IsOk(known[h]) => known[h].sm \in SeqMarkeds
      /\ IsOk(r) => r.sm \in SeqMarkeds
  <2>1. \A x \in Item : IsOk(x) => x.sm \in SeqMarkeds
      BY ItemIs DEF Positions
  <2> QED BY <2>1
<1>2. CASE len > 0 /\ CanMerge(known[len], r)
  <2>1. /\ DOMAIN next = 1..len
        /\ IsOk(known[len]) /\ IsOk(r) /\ known[len].key = r.key
        /\ next[len] = [key |-> r.key, sm |-> Newer(known[len].sm, r.sm)] /\ IsOk(next[len])
        /\ \A h \in 1..(len - 1) : next[h] = known[h]
      BY <1>2, TakenIs
  <2> HIDE DEF next
  <2>2. len \in 1..len
      BY <1>1, <1>2
  <2> HIDE DEF len
  <2>3. /\ next[len].key = r.key /\ next[len].sm \in SeqMarkeds
        /\ Leq(known[len].sm, next[len].sm) /\ Leq(r.sm, next[len].sm)
      BY <1>1, <2>1, <2>2, LeqIsOrder
  <2>4. ASSUME NEW k, NEW m \in SeqMarkeds, Delivered(known, k, m) PROVE Delivered(next, k, m)
    <3>1. PICK h \in 1..len : IsOk(known[h]) /\ known[h].key = k /\ Leq(m, known[h].sm)
        BY <1>1, <2>4 DEF Delivered
    <3>2. CASE h = len
      <4>1. Leq(m, next[len].sm)
          BY <1>1, <2>2, <2>3, <3>1, <3>2, LeqIsOrder
      <4> QED BY <2>1, <2>2, <2>3, <3>1, <3>2, <4>1 DEF Delivered
    <3>3. CASE h # len
      <4>1. h \in 1..(len - 1)
          BY <1>1, <3>3
      <4> QED BY <2>1, <3>1, <4>1 DEF Delivered
    <3> QED BY <3>2, <3>3
  <2>5. Delivered(next, r.key, r.sm)
      BY <2>1, <2>2, <2>3 DEF Delivered
  <2> QED BY <2>4, <2>5 DEF next
<1>3. CASE ~(len > 0 /\ CanMerge(known[len], r))
  <2>1. /\ DOMAIN next = 1..(len + 1)
        /\ next[len + 1] = r
        /\ \A h \in 1..len : next[h] = known[h]
      BY <1>3, TakenIs
  <2> HIDE DEF next, len
  <2>2. len + 1 \in 1..(len + 1) /\ \A h \in 1..len : h \in 1..(len + 1)
      BY <1>1
  <2>3. ASSUME NEW k, NEW m \in SeqMarkeds, Delivered(known, k, m) PROVE Delivered(next, k, m)
    <3>1. PICK h \in 1..len : IsOk(known[h]) /\ known[h].key = k /\ Leq(m, known[h].sm)
        BY <1>1, <2>3 DEF Delivered
    <3> QED BY <2>1, <2>2, <3>1 DEF Delivered
  <2>4. IsOk(r) => Delivered(next, r.key, r.sm)
    <3>1. IsOk(r) => Leq(r.sm, r.sm)
        BY <1>1, LeqIsOrder
    <3> QED BY <2>1, <2>2, <3>1 DEF Delivered
  <2> QED BY <2>3, <2>4 DEF next
<1> QED BY <1>2, <1>3

\* A queue gives its head away: nothing of the sources is lost, whatever failed.
LEMMA TakeKept ==
    ASSUME NEW q, NEW known, NEW s, NEW bad, KeptOK(q, known, s, bad),
           NEW i \in DOMAIN s, q[i] # << >>
    PROVE  KeptOK([q EXCEPT ![i] = Tail(@)], Taken(known, Head(q[i])), s, bad)
<1> DEFINE r == Head(q[i])
           next == Taken(known, r)
           qq == [q EXCEPT ![i] = Tail(@)]
<1>1. /\ Sources(s) /\ DOMAIN q = DOMAIN s /\ known \in Seq(Item)
      /\ \A j \in DOMAIN s : LeftOf(q[j], s[j])
      /\ \A j \in DOMAIN s \ bad : AllOk(q[j]) /\ Accounted(q[j], known, s[j])
      /\ bad # {} => HasError(known) \/ \E j \in DOMAIN s : HasError(q[j])
    BY DEF KeptOK
<1>2. /\ DOMAIN qq = DOMAIN s /\ qq[i] = Tail(q[i])
      /\ \A j \in DOMAIN s : j # i => qq[j] = q[j]
    BY <1>1
<1> HIDE DEF qq
<1>3. /\ q[i] \in Seq(Item) /\ KeysAscend(q[i]) /\ r \in Item
      /\ LeftOf(Tail(q[i]), s[i])
      /\ IsOk(r) => r.key \in DOMAIN s[i] /\ r.sm = s[i][r.key]
      /\ KeysOf(q[i]) = KeysOf(Tail(q[i])) \cup (IF IsOk(r) THEN {r.key} ELSE {})
      /\ AllOk(q[i]) => AllOk(Tail(q[i]))
  <2>1. q[i] \in Seq(Item) /\ KeysAscend(q[i])
      BY <1>1 DEF LeftOf
  <2>2. r \in Item /\ (AllOk(q[i]) => AllOk(Tail(q[i])))
        /\ KeysOf(q[i]) = KeysOf(Tail(q[i])) \cup (IF IsOk(r) THEN {r.key} ELSE {})
      BY <2>1, TailIs
  <2> HIDE DEF r
  <2>3. LeftOf(Tail(q[i]), s[i])
      BY <1>1, HeadIs
  <2>4. IsOk(r) => r.key \in DOMAIN s[i] /\ r.sm = s[i][r.key]
      BY <1>1, HeadIs DEF r
  <2> QED BY <2>1, <2>2, <2>3, <2>4
<1> HIDE DEF r
<1>4. next \in Seq(Item)
    BY <1>1, <1>3, TakenIs
<1>5. /\ \A k : \A m \in SeqMarkeds : Delivered(known, k, m) => Delivered(next, k, m)
      /\ IsOk(r) => Delivered(next, r.key, r.sm)
      /\ HasError(known) \/ ~IsOk(r) => HasError(next)
    BY <1>1, <1>3, TakenDelivered, ErrorTaken
<1> HIDE DEF next
<1>6. ASSUME NEW j \in DOMAIN s \ bad PROVE AllOk(qq[j]) /\ Accounted(qq[j], next, s[j])
  <2>1. AllOk(qq[j])
      BY <1>1, <1>2, <1>3
  <2>2. ASSUME NEW k \in DOMAIN s[j] PROVE k \in KeysOf(qq[j]) \/ Delivered(next, k, s[j][k])
    <3>1. s[j][k] \in SeqMarkeds
        BY <1>1 DEF Sources
    <3>2. k \in KeysOf(q[j]) \/ Delivered(known, k, s[j][k])
        BY <1>1 DEF Accounted
    <3>3. CASE Delivered(known, k, s[j][k])
        BY <1>5, <3>1, <3>3
    <3>4. CASE k \in KeysOf(q[j]) /\ j # i
        BY <1>2, <3>4
    <3>5. CASE k \in KeysOf(q[j]) /\ j = i
      <4>1. k \in KeysOf(qq[j]) \/ (IsOk(r) /\ k = r.key)
          BY <1>2, <1>3, <3>5
      <4> QED BY <1>3, <1>5, <3>5, <4>1
    <3> QED BY <3>2, <3>3, <3>4, <3>5
  <2> QED BY <2>1, <2>2 DEF Accounted
<1>7. ASSUME bad # {} PROVE HasError(next) \/ \E j \in DOMAIN s : HasError(qq[j])
  <2>1. CASE HasError(known) \/ ~IsOk(r)
      BY <1>5, <2>1
  <2>2. CASE IsOk(r) /\ \E j \in DOMAIN s : HasError(q[j])
    <3>1. PICK j \in DOMAIN s : HasError(q[j])
        BY <2>2
    <3>2. CASE j = i
        BY <1>2, <1>3, <2>2, <3>1, <3>2, ErrorStays DEF r
    <3>3. CASE j # i
        BY <1>2, <3>1, <3>3
    <3> QED BY <3>2, <3>3
  <2> QED BY <1>1, <1>7, <2>1, <2>2
<1>8. \A j \in DOMAIN s : LeftOf(qq[j], s[j])
    BY <1>1, <1>2, <1>3
<1> QED BY <1>1, <1>2, <1>4, <1>6, <1>7, <1>8 DEF KeptOK, qq, next, r

\* The head that goes first is before all that is to come, and no other entry to
\* come or gone of its key trips the assertion with it.
LEMMA FirstIs ==
    ASSUME NEW q, NEW known, NEW s, KeptOK(q, known, s, {}), MergeOK(q, known, s),
           NEW i \in DOMAIN s, GoesFirst(q, i),
           \A j \in Heads(q) \ {i} : ~Clash(Head(q[i]), Head(q[j]))
    PROVE  LET r == Head(q[i])
           IN /\ r \in Item /\ IsOk(r) /\ r.key \in Nat /\ r.key \in KeysOf(q[i])
              /\ r.key \in DOMAIN s[i] /\ r.sm = s[i][r.key]
              /\ \A j \in DOMAIN s : \A k \in KeysOf(q[j]) : r.key <= k
              /\ \A h \in DOMAIN known : known[h].key <= r.key
              /\ \A j \in DOMAIN s : j # i /\ r.key \in DOMAIN s[j] => ~Collide(r.sm, s[j][r.key])
<1> DEFINE r == Head(q[i])
<1>1. /\ DOMAIN q = DOMAIN s
      /\ \A j \in DOMAIN s : LeftOf(q[j], s[j]) /\ q[j] \in Seq(Item) /\ KeysAscend(q[j]) /\ AllOk(q[j])
      /\ q[i] # << >>
    BY DEF KeptOK, LeftOf, GoesFirst, Heads
<1>2. ASSUME NEW j \in DOMAIN s, q[j] # << >>
      PROVE  LET e == Head(q[j])
             IN /\ e \in Item /\ IsOk(e) /\ e \in Positions /\ e.key \in KeysOf(q[j])
                /\ e.key \in DOMAIN s[j] /\ e.sm = s[j][e.key]
                /\ \A k \in KeysOf(q[j]) : e.key <= k /\ k \in Nat
  <2> DEFINE e == Head(q[j])
  <2>1. /\ e \in Item /\ 1 \in DOMAIN q[j] /\ e = q[j][1]
        /\ KeysOf(q[j]) = KeysOf(Tail(q[j])) \cup (IF IsOk(e) THEN {e.key} ELSE {})
      BY <1>1, <1>2, TailIs
  <2>2. /\ IsOk(e) => e.key \in DOMAIN s[j] /\ e.sm = s[j][e.key]
        /\ \A k \in KeysOf(q[j]) : IsOk(e) => e.key <= k
      BY <1>1, <1>2, HeadIs
  <2> HIDE DEF e
  <2>3. IsOk(e)
      BY <1>1, <2>1 DEF AllOk
  <2>4. e \in Positions
      BY <2>1, <2>3, ItemIs
  <2>5. KeysOf(q[j]) \subseteq Nat
      BY <1>1, KeysAreNumbers
  <2> QED BY <2>1, <2>2, <2>3, <2>4, <2>5 DEF e
<1>3. /\ r \in Item /\ IsOk(r) /\ r \in Positions /\ r.key \in Nat /\ r.key \in KeysOf(q[i])
      /\ r.key \in DOMAIN s[i] /\ r.sm = s[i][r.key]
      /\ \A k \in KeysOf(q[i]) : r.key <= k
    BY <1>1, <1>2 DEF Positions
<1>4. \A j \in Heads(q) \ {i} : PlacedBefore(r, Head(q[j])) /\ ~Clash(r, Head(q[j]))
  <2>1. \A j \in Heads(q) : Head(q[j]) \in Item
      BY <1>1, <1>2 DEF Heads
  <2> QED BY <2>1, GoesFirstIs
<1> HIDE DEF r
<1>5. ASSUME NEW j \in DOMAIN s, NEW k \in KeysOf(q[j]) PROVE r.key <= k
  <2>1. CASE j = i
      BY <1>3, <1>5, <2>1
  <2>2. CASE j # i
    <3>1. q[j] # << >>
        BY <1>5 DEF KeysOf
    <3> DEFINE e == Head(q[j])
    <3>2. IsOk(e) /\ e \in Positions /\ e.key <= k /\ k \in Nat
        BY <1>2, <1>5, <3>1
    <3>3. PlacedBefore(r, e)
        BY <1>1, <1>4, <2>2, <3>1 DEF Heads
    <3> HIDE DEF e
    <3>4. e.key \in Nat /\ (r.key < e.key \/ r.key = e.key)
        BY <1>3, <3>2, <3>3 DEF PlacedBefore, Positions
    <3> QED BY <1>3, <3>2, <3>4
  <2> QED BY <2>1, <2>2
<1>6. \A h \in DOMAIN known : known[h].key <= r.key
    BY <1>3 DEF MergeOK
<1>7. ASSUME NEW j \in DOMAIN s, j # i, r.key \in DOMAIN s[j]
      PROVE  ~Collide(r.sm, s[j][r.key])
  <2>1. CASE r.key \notin KeysOf(q[j])
    <3>1. ~Collide(s[j][r.key], s[i][r.key])
        BY <1>3, <1>7, <2>1 DEF MergeOK
    <3> QED BY <1>3, <3>1, CollideCommutes
  <2>2. CASE r.key \in KeysOf(q[j])
    <3>1. q[j] # << >>
        BY <2>2 DEF KeysOf
    <3> DEFINE e == Head(q[j])
    <3>2. IsOk(e) /\ e \in Positions /\ e.key <= r.key /\ e.key \in KeysOf(q[j]) /\ e.sm = s[j][e.key]
        BY <1>2, <2>2, <3>1
    <3>3. ~Clash(r, e)
        BY <1>1, <1>4, <1>7, <3>1 DEF Heads
    <3> HIDE DEF e
    <3>4. e.key \in Nat /\ r.key <= e.key
        BY <1>5, <3>2 DEF Positions
    <3>5. r.key = e.key
        BY <1>3, <3>2, <3>4
    <3> QED BY <1>3, <3>2, <3>3, <3>5 DEF Clash, Collide
  <2> QED BY <2>1, <2>2
<1> QED BY <1>3, <1>5, <1>6, <1>7 DEF r

\* Taking it keeps what is known entries, in key order and before all that is to come.
LEMMA TakeMerges ==
    ASSUME NEW q, NEW known, NEW s, KeptOK(q, known, s, {}), MergeOK(q, known, s),
           NEW i \in DOMAIN s, GoesFirst(q, i),
           \A j \in Heads(q) \ {i} : ~Clash(Head(q[i]), Head(q[j]))
    PROVE  MergeOK([q EXCEPT ![i] = Tail(@)], Taken(known, Head(q[i])), s)
<1> DEFINE r == Head(q[i])
           next == Taken(known, r)
           qq == [q EXCEPT ![i] = Tail(@)]
           len == Len(known)
<1>1. /\ r \in Item /\ IsOk(r) /\ r.key \in Nat
      /\ r.key \in DOMAIN s[i] /\ r.sm = s[i][r.key]
      /\ \A j \in DOMAIN s : \A k \in KeysOf(q[j]) : r.key <= k
      /\ \A h \in DOMAIN known : known[h].key <= r.key
      /\ \A j \in DOMAIN s : j # i /\ r.key \in DOMAIN s[j] => ~Collide(r.sm, s[j][r.key])
    BY FirstIs
<1>2. /\ DOMAIN q = DOMAIN s /\ known \in Seq(Item) /\ Sources(s)
      /\ q[i] # << >> /\ q[i] \in Seq(Item) /\ KeysAscend(q[i])
    BY DEF KeptOK, LeftOf, GoesFirst, Heads
<1>3. /\ AllOk(known) /\ KeysAscend(known)
      /\ \A h \in DOMAIN known : \E j \in DOMAIN s :
            known[h].key \in DOMAIN s[j] /\ known[h].sm = s[j][known[h].key]
      /\ \A j \in DOMAIN s : \A k \in KeysOf(q[j]) : \A h \in DOMAIN known : known[h].key <= k
      /\ \A j, l \in DOMAIN s : \A k \in DOMAIN s[j] \cap DOMAIN s[l] :
            j # l /\ k \notin KeysOf(q[j]) => ~Collide(s[j][k], s[l][k])
    BY DEF MergeOK
<1>4. /\ len \in Nat /\ DOMAIN known = 1..len
      /\ \A h \in 1..len : IsOk(known[h]) /\ known[h].key \in Nat
    BY <1>2, <1>3, KeysAreNumbers DEF AllOk
<1>5. /\ qq[i] = Tail(q[i]) /\ \A j \in DOMAIN s : j # i => qq[j] = q[j]
      /\ KeysOf(q[i]) = KeysOf(Tail(q[i])) \cup {r.key}
    BY <1>1, <1>2, TailIs
<1> HIDE DEF qq
<1>6. \A j \in DOMAIN s : KeysOf(qq[j]) \subseteq KeysOf(q[j])
    BY <1>5
<1>7. ASSUME NEW j \in DOMAIN s, NEW l \in DOMAIN s, NEW k \in DOMAIN s[j] \cap DOMAIN s[l],
             j # l, k \notin KeysOf(qq[j])
      PROVE  ~Collide(s[j][k], s[l][k])
  <2>1. CASE k \notin KeysOf(q[j])
      BY <1>3, <1>7, <2>1
  <2>2. CASE k \in KeysOf(q[j])
    <3>1. j = i /\ k = r.key
        BY <1>5, <1>7, <2>2
    <3> QED BY <1>1, <1>7, <3>1
  <2> QED BY <2>1, <2>2
<1>8. CASE len > 0 /\ CanMerge(known[len], r)
  <2>1. /\ DOMAIN next = 1..len /\ known[len].key = r.key
        /\ next[len] = [key |-> r.key, sm |-> Newer(known[len].sm, r.sm)] /\ IsOk(next[len])
        /\ \A h \in 1..(len - 1) : next[h] = known[h]
      BY <1>1, <1>2, <1>8, TakenIs
  <2> HIDE DEF next, r
  <2>2. len \in 1..len /\ \A h \in 1..len : h = len \/ h \in 1..(len - 1)
      BY <1>4, <1>8
  <2> HIDE DEF len
  <2>3. \A h \in 1..len : IsOk(next[h]) /\ next[h].key = known[h].key
      BY <1>4, <2>1, <2>2
  <2>4. AllOk(next) /\ KeysAscend(next)
      BY <1>3, <1>4, <2>1, <2>3 DEF AllOk, KeysAscend
  <2>5. ASSUME NEW h \in 1..len
        PROVE  \E j \in DOMAIN s : next[h].key \in DOMAIN s[j] /\ next[h].sm = s[j][next[h].key]
    <3>1. CASE h # len
        BY <1>3, <1>4, <2>1, <2>2, <3>1
    <3>2. CASE h = len
      <4>1. next[h].key = r.key /\ next[h].sm \in {known[len].sm, r.sm}
          BY <2>1, <3>2, NewerIs
      <4>2. CASE next[h].sm = r.sm
          BY <1>1, <4>1, <4>2
      <4>3. CASE next[h].sm = known[len].sm
          BY <1>3, <1>4, <2>1, <2>2, <4>1, <4>3
      <4> QED BY <4>1, <4>2, <4>3
    <3> QED BY <3>1, <3>2
  <2>6. ASSUME NEW j \in DOMAIN s, NEW k \in KeysOf(qq[j]), NEW h \in 1..len
        PROVE  next[h].key <= k
      BY <1>3, <1>4, <1>6, <2>3
  <2> QED BY <1>7, <2>1, <2>4, <2>5, <2>6 DEF MergeOK, qq, next, r
<1>9. CASE ~(len > 0 /\ CanMerge(known[len], r))
  <2>1. /\ DOMAIN next = 1..(len + 1)
        /\ next[len + 1] = r
        /\ \A h \in 1..len : next[h] = known[h]
      BY <1>1, <1>2, <1>9, TakenIs
  <2>2. ASSUME NEW h \in 1..len PROVE known[h].key < r.key
    <3> HIDE DEF r, next
    <3>1. len > 0 /\ len \in 1..len
        BY <1>4
    <3> HIDE DEF len
    <3>2. known[len].key # r.key
        BY <1>1, <1>4, <1>9, <3>1 DEF CanMerge
    <3>3. known[len].key < r.key
        BY <1>1, <1>4, <3>1, <3>2
    <3>4. h = len \/ known[h].key < known[len].key
        BY <1>3, <1>4, <3>1 DEF KeysAscend
    <3> QED BY <1>1, <1>4, <3>1, <3>3, <3>4
  <2> HIDE DEF next, r, len
  <2>3. /\ \A h \in 1..(len + 1) : h = len + 1 \/ h \in 1..len
        /\ \A h \in 1..len : h # len + 1 /\ h < len + 1 /\ h \in Nat
      BY <1>4
  <2>4. AllOk(next)
      BY <1>1, <1>4, <2>1, <2>3 DEF AllOk
  <2>5. KeysAscend(next)
    <3> SUFFICES ASSUME NEW h \in 1..(len + 1), NEW g \in 1..(len + 1), h < g
                 PROVE  next[h].key < next[g].key
        BY <2>1 DEF KeysAscend
    <3>1. h \in 1..len
        BY <1>4
    <3>2. CASE g = len + 1
        BY <2>1, <2>2, <3>1, <3>2
    <3>3. CASE g \in 1..len
        BY <1>3, <1>4, <2>1, <3>1, <3>3 DEF KeysAscend
    <3> QED BY <2>3, <3>2, <3>3
  <2>6. ASSUME NEW h \in 1..(len + 1)
        PROVE  \E j \in DOMAIN s : next[h].key \in DOMAIN s[j] /\ next[h].sm = s[j][next[h].key]
      BY <1>1, <1>3, <1>4, <2>1, <2>3
  <2>7. ASSUME NEW j \in DOMAIN s, NEW k \in KeysOf(qq[j]), NEW h \in 1..(len + 1)
        PROVE  next[h].key <= k
    <3>1. k \in KeysOf(q[j])
        BY <1>6
    <3>2. CASE h = len + 1
        BY <1>1, <2>1, <3>1, <3>2
    <3>3. CASE h \in 1..len
        BY <1>3, <1>4, <2>1, <3>1, <3>3
    <3> QED BY <2>3, <3>2, <3>3
  <2> QED BY <1>7, <2>1, <2>4, <2>5, <2>6, <2>7 DEF MergeOK, qq, next, r
<1> QED BY <1>8, <1>9

\* A source fails: nothing of the others is lost, and the error is to come.
LEMMA FailKept ==
    ASSUME NEW q, NEW known, NEW s, NEW bad, KeptOK(q, known, s, bad),
           NEW i \in DOMAIN s, NEW skipped \in 0..Len(q[i])
    PROVE  KeptOK([q EXCEPT ![i] = <<Failure>> \o SubSeq(@, skipped + 1, Len(@))],
                  known, s, bad \cup {i})
<1> DEFINE left == <<Failure>> \o SubSeq(q[i], skipped + 1, Len(q[i]))
           qq == [q EXCEPT ![i] = <<Failure>> \o SubSeq(@, skipped + 1, Len(@))]
<1>1. /\ Sources(s) /\ DOMAIN q = DOMAIN s /\ known \in Seq(Item)
      /\ \A j \in DOMAIN s : LeftOf(q[j], s[j])
      /\ \A j \in DOMAIN s \ bad : AllOk(q[j]) /\ Accounted(q[j], known, s[j])
    BY DEF KeptOK
<1>2. LeftOf(left, s[i]) /\ HasError(left)
    BY <1>1, FailedIs
<1>3. DOMAIN qq = DOMAIN s /\ qq[i] = left /\ \A j \in DOMAIN s : j # i => qq[j] = q[j]
    BY <1>1
<1> HIDE DEF qq, left
<1> QED BY <1>1, <1>2, <1>3 DEF KeptOK, qq

\* All sources in order, nothing known yet: the merge starts well.
LEMMA MergeStarts ==
    ASSUME NEW s, Sources(s)
    PROVE  LET q == [i \in DOMAIN s |-> InOrder(EntriesOf(s[i]))]
           IN KeptOK(q, << >>, s, {}) /\ MergeOK(q, << >>, s)
<1> DEFINE q == [i \in DOMAIN s |-> InOrder(EntriesOf(s[i]))]
<1>1. ASSUME NEW i \in DOMAIN s
      PROVE  LeftOf(q[i], s[i]) /\ AllOk(q[i]) /\ DOMAIN s[i] \subseteq KeysOf(q[i])
  <2>1. DOMAIN s[i] \subseteq Keys /\ s[i] \in [DOMAIN s[i] -> SeqMarkeds]
      BY DEF Sources
  <2>2. q[i] = InOrder(EntriesOf(s[i]))
      OBVIOUS
  <2> HIDE DEF q
  <2> QED BY <2>1, <2>2, QueueOf, LevelStreamAssumption
<1>2. DOMAIN q = DOMAIN s
    OBVIOUS
<1> HIDE DEF q
<1>3. << >> \in Seq(Item) /\ DOMAIN << >> = {}
    OBVIOUS
<1>4. KeptOK(q, << >>, s, {})
    BY <1>1, <1>2, <1>3 DEF KeptOK, Accounted
<1>5. MergeOK(q, << >>, s)
    BY <1>1, <1>2, <1>3 DEF MergeOK, AllOk, KeysAscend
<1> QED BY <1>4, <1>5 DEF q

\* What is known and no longer to come is final: it is the greatest entry of its
\* key, and nothing before it is missing.
LEMMA FinalIs ==
    ASSUME NEW q, NEW known, NEW s, KeptOK(q, known, s, {}), MergeOK(q, known, s),
           NEW h \in DOMAIN known, \A i \in DOMAIN s : known[h].key \notin KeysOf(q[i])
    PROVE  LET k == known[h].key
               asked == CompactedRange(s)
           IN /\ h > 1 => known[h - 1].key < k
              /\ k \in DOMAIN asked /\ known[h].sm = asked[k]
              /\ \A j \in DOMAIN asked : j < k => \E g \in 1..h : known[g].key = j
<1> DEFINE x == known[h]
           k == x.key
           asked == CompactedRange(s)
<1>1. /\ Sources(s) /\ known \in Seq(Item)
      /\ \A i \in DOMAIN s : LeftOf(q[i], s[i]) /\ Accounted(q[i], known, s[i])
      /\ AllOk(known) /\ KeysAscend(known)
      /\ \A i \in DOMAIN s : \A j \in KeysOf(q[i]) : \A g \in DOMAIN known : known[g].key <= j
    BY DEF KeptOK, MergeOK
<1>2. /\ Len(known) \in Nat /\ DOMAIN known = 1..Len(known)
      /\ \A g \in DOMAIN known : IsOk(known[g]) /\ known[g].key \in Nat /\ known[g].sm \in SeqMarkeds
  <2>1. \A g \in DOMAIN known : known[g] \in Item /\ IsOk(known[g])
      BY <1>1 DEF AllOk
  <2> QED BY <1>1, <2>1, ItemIs DEF Positions
<1>3. \A g, f \in DOMAIN known : g < f => known[g].key < known[f].key
    BY <1>1, <1>2 DEF KeysAscend
<1>4. DOMAIN asked = UNION {DOMAIN s[i] : i \in DOMAIN s} /\ \A j \in DOMAIN asked : asked[j] = Greatest(EntriesFor(s, j))
    BY DEF CompactedRange
<1>5. \A i \in DOMAIN s : \A j \in DOMAIN s[i] : s[i][j] \in SeqMarkeds /\ j \in Nat
    BY <1>1, RangeIterAssumption DEF Sources
<1>6. PICK i \in DOMAIN s : k \in DOMAIN s[i] /\ x.sm = s[i][k]
    BY DEF MergeOK
<1> HIDE DEF asked
<1>7. k \in DOMAIN asked
    BY <1>4, <1>6
<1>8. ASSUME NEW j \in DOMAIN s, k \in DOMAIN s[j] PROVE Leq(s[j][k], x.sm)
  <2>1. Delivered(known, k, s[j][k])
      BY <1>1, <1>8 DEF Accounted
  <2>2. PICK g \in DOMAIN known : known[g].key = k /\ Leq(s[j][k], known[g].sm)
      BY <2>1 DEF Delivered
  <2>3. g = h
    <3>1. ~(g < h) /\ ~(h < g)
        BY <1>2, <1>3, <2>2
    <3>2. g \in Nat /\ h \in Nat
        BY <1>2
    <3> QED BY <3>1, <3>2
  <2> QED BY <2>2, <2>3
<1>9. x.sm = Greatest(EntriesFor(s, k))
  <2> DEFINE entries == EntriesFor(s, k)
  <2>1. \A m \in entries : \E j \in DOMAIN s : k \in DOMAIN s[j] /\ m = s[j][k]
      BY DEF EntriesFor
  <2>2. x.sm \in entries
      BY <1>6 DEF EntriesFor
  <2> HIDE DEF entries, x, k
  <2>3. x.sm \in SeqMarkeds /\ entries \subseteq SeqMarkeds
      BY <1>5, <1>6, <2>1
  <2>4. \A m \in entries : Leq(m, x.sm)
      BY <1>8, <2>1
  <2>5. ASSUME NEW m \in entries, \A n \in entries : Leq(n, m) PROVE m = x.sm
    <3>1. PICK j \in DOMAIN s : k \in DOMAIN s[j] /\ m = s[j][k]
        BY <2>1
    <3>2. CASE j = i
        BY <1>6, <3>1, <3>2
    <3>3. CASE j # i
      <4>1. ~Collide(s[j][k], s[i][k])
          BY <1>6, <3>1, <3>3 DEF MergeOK, x, k
      <4>2. SameOrder(m, x.sm)
          BY <2>2, <2>3, <2>4, <2>5, LeqIsOrder
      <4> QED BY <1>6, <2>3, <3>1, <4>1, <4>2, SameUnlessCollide
    <3> QED BY <3>2, <3>3
  <2>6. Greatest(entries) = x.sm
      BY <2>2, <2>4, <2>5 DEF Greatest
  <2> QED BY <2>6 DEF entries
<1>10. ASSUME NEW j \in DOMAIN asked, j < k PROVE \E g \in 1..h : known[g].key = j
  <2>1. PICK l \in DOMAIN s : j \in DOMAIN s[l]
      BY <1>4
  <2>2. j \in Nat /\ k \in Nat
      BY <1>2, <1>5, <2>1
  <2>3. j \notin KeysOf(q[l])
    <3>1. ~(k <= j)
        BY <1>10, <2>2
    <3> QED BY <1>1, <3>1
  <2>4. Delivered(known, j, s[l][j])
      BY <1>1, <2>1, <2>3 DEF Accounted
  <2>5. PICK g \in DOMAIN known : known[g].key = j
      BY <2>4 DEF Delivered
  <2>6. ~(h < g)
      BY <1>2, <1>3, <1>10, <2>2, <2>5
  <2>7. g \in 1..h
      BY <1>2, <2>6
  <2> QED BY <2>5, <2>7
<1>11. h > 1 => known[h - 1].key < k
  <2>1. h > 1 => h - 1 \in DOMAIN known /\ h - 1 < h
      BY <1>2
  <2> QED BY <1>3, <2>1
<1> QED BY <1>4, <1>7, <1>9, <1>10, <1>11 DEF x, k, asked

\* Nothing to come and no source failed: what is known is the range of them all,
\* and no entries tripped the assertion.
LEMMA MergeEnds ==
    ASSUME NEW q, NEW known, NEW s, KeptOK(q, known, s, {}), MergeOK(q, known, s),
           DOMAIN s \subseteq Nat, \A i \in DOMAIN s : KeysOf(q[i]) = {}
    PROVE  known = InOrder(EntriesOf(CompactedRange(s))) /\ ~CompactedRangePanics(s)
<1> DEFINE asked == CompactedRange(s)
           E == EntriesOf(asked)
<1>1. \A i \in DOMAIN s : KeysOf(q[i]) = {}
    OBVIOUS
<1>2. /\ Sources(s) /\ known \in Seq(Item) /\ AllOk(known) /\ KeysAscend(known)
      /\ \A i \in DOMAIN s : Accounted(q[i], known, s[i])
    BY DEF KeptOK, MergeOK
<1>3. \A h \in DOMAIN known : known[h].key \in DOMAIN asked /\ known[h].sm = asked[known[h].key]
    BY <1>1, FinalIs
<1>4. DOMAIN asked = UNION {DOMAIN s[i] : i \in DOMAIN s} /\ asked = [k \in DOMAIN asked |-> asked[k]]
    BY DEF CompactedRange
<1> HIDE DEF asked
<1>5. \A h \in DOMAIN known : known[h] \in Item /\ IsOk(known[h])
    BY <1>2 DEF AllOk
<1>6. ASSUME NEW k \in DOMAIN asked PROVE \E h \in DOMAIN known : known[h].key = k
  <2>1. PICK i \in DOMAIN s : k \in DOMAIN s[i]
      BY <1>4
  <2>2. Delivered(known, k, s[i][k])
      BY <1>1, <1>2, <2>1 DEF Accounted
  <2> QED BY <2>2 DEF Delivered
<1>7. DOMAIN asked \subseteq Keys /\ asked \in [DOMAIN asked -> SeqMarkeds]
  <2>1. \A h \in DOMAIN known : known[h] \in [key : Keys, sm : SeqMarkeds]
      BY <1>5, ItemIs
  <2>2. \A k \in DOMAIN asked : k \in Keys /\ asked[k] \in SeqMarkeds
      BY <1>3, <1>6, <2>1
  <2> QED BY <1>4, <2>2
<1>8. Chain(E) /\ E \subseteq [key : Keys, sm : SeqMarkeds]
    BY <1>7, EntriesChain, LevelStreamAssumption
<1>9. \A h \in DOMAIN known : known[h] = [key |-> known[h].key, sm |-> known[h].sm]
    BY <1>5, ItemIs
<1>10. \A h \in DOMAIN known : known[h] \in E
    BY <1>3, <1>9 DEF EntriesOf
<1>11. ASSUME NEW e \in E PROVE \E h \in DOMAIN known : known[h] = e
  <2>1. PICK k \in DOMAIN asked : e = [key |-> k, sm |-> asked[k]]
      BY DEF EntriesOf
  <2> QED BY <1>3, <1>6, <1>9, <2>1
<1>12. known \in Seq(E)
    BY <1>2, <1>10
<1>13. Ascending(known)
    BY <1>2, <1>5 DEF Ascending, KeysAscend, Before
<1> HIDE DEF E
<1>14. known = InOrder(E)
    BY <1>8, <1>11, <1>12, <1>13, AscendingIsInOrder
<1>15. ~CompactedRangePanics(s)
  <2>1. ASSUME NEW i \in DOMAIN s, NEW j \in DOMAIN s, NEW k \in DOMAIN s[i] \cap DOMAIN s[j], i # j
        PROVE  ~Collide(s[i][k], s[j][k])
      BY <1>1, <2>1 DEF MergeOK
  <2> SUFFICES ASSUME NEW i \in DOMAIN s, NEW j \in DOMAIN s, NEW k \in DOMAIN s[i] \cap DOMAIN s[j],
                      i < j, SameOrder(s[i][k], s[j][k]), s[i][k].mark = Normal
               PROVE  FALSE
      BY DEF CompactedRangePanics
  <2>2. i # j
      OBVIOUS
  <2> QED BY <2>1, <2>2 DEF Collide
<1> QED BY <1>14, <1>15 DEF E, asked

-----------------------------------------------------------------------------
(* The steps of the specification.                                          *)

\* The levels cut to the range: their entries are those of the levels, and so is
\* what the range is of them.
LEMMA OpenedIs ==
    ASSUME levels \in Stacks
    PROVE  /\ DOMAIN levels \subseteq Nat /\ DOMAIN Opened = DOMAIN levels /\ Sources(Opened)
           /\ \A i \in DOMAIN levels : AsSequence(levels[i], range) = InOrder(EntriesOf(Opened[i]))
           /\ \A k : k \in DOMAIN CompactedRange(Opened) <=>
                        k \in DOMAIN CompactedRange(levels) /\ Inside(range, k)
           /\ \A k \in DOMAIN CompactedRange(Opened) :
                 CompactedRange(Opened)[k] = CompactedRange(levels)[k]
           /\ AsSequence(CompactedRange(levels), range) = InOrder(EntriesOf(CompactedRange(Opened)))
<1> DEFINE asked == CompactedRange(levels)
           inside == CompactedRange(Opened)
<1>1. DOMAIN levels \subseteq Nat
  <2>1. levels \in Seq({levels[i] : i \in DOMAIN levels})
      BY LevelStreamAssumption
  <2> DEFINE V == {levels[i] : i \in DOMAIN levels}
  <2> HIDE DEF V
  <2>2. levels \in Seq(V)
      BY <2>1 DEF V
  <2>3. DOMAIN levels = 1..Len(levels) /\ Len(levels) \in Nat
      BY <2>2
  <2> QED BY <2>3
<1>2. /\ DOMAIN Opened = DOMAIN levels
      /\ \A i \in DOMAIN levels :
            /\ DOMAIN Opened[i] = {j \in DOMAIN levels[i] : Inside(range, j)}
            /\ Opened[i] = [k \in DOMAIN Opened[i] |-> levels[i][k]]
            /\ \A k \in DOMAIN Opened[i] : Opened[i][k] = levels[i][k]
    BY DEF Opened
<1>3. Sources(Opened)
  <2> SUFFICES ASSUME NEW i \in DOMAIN levels
               PROVE  DOMAIN Opened[i] \subseteq Keys /\ Opened[i] \in [DOMAIN Opened[i] -> SeqMarkeds]
      BY <1>2 DEF Sources
  <2>1. DOMAIN levels[i] \subseteq Keys /\ \A k \in DOMAIN levels[i] : levels[i][k] \in SeqMarkeds
      BY LevelStreamAssumption DEF IsEntries
  <2>2. DOMAIN Opened[i] \subseteq DOMAIN levels[i]
      BY <1>2
  <2>3. Opened[i] = [k \in DOMAIN Opened[i] |-> levels[i][k]]
      BY <1>2
  <2> DEFINE o == Opened[i]
  <2> HIDE DEF o
  <2> SUFFICES DOMAIN o \subseteq Keys /\ o \in [DOMAIN o -> SeqMarkeds]
      BY DEF o
  <2>4. o = [k \in DOMAIN o |-> levels[i][k]] /\ DOMAIN o \subseteq DOMAIN levels[i]
      BY <2>2, <2>3 DEF o
  <2> QED BY <2>1, <2>4
<1>4. ASSUME NEW i \in DOMAIN levels
      PROVE  AsSequence(levels[i], range) = InOrder(EntriesOf(Opened[i]))
  <2>1. EntriesOf(Opened[i])
           = {[key |-> k, sm |-> levels[i][k]] : k \in {j \in DOMAIN levels[i] : Inside(range, j)}}
      BY <1>2 DEF EntriesOf
  <2> QED BY <2>1 DEF AsSequence
<1>5. /\ DOMAIN asked = UNION {DOMAIN levels[i] : i \in DOMAIN levels}
      /\ \A k \in DOMAIN asked : asked[k] = Greatest(EntriesFor(levels, k))
      /\ DOMAIN inside = UNION {DOMAIN Opened[i] : i \in DOMAIN Opened}
      /\ \A k \in DOMAIN inside : inside[k] = Greatest(EntriesFor(Opened, k))
    BY DEF CompactedRange
<1> HIDE DEF asked, inside
<1>6. ASSUME NEW k PROVE k \in DOMAIN inside <=> k \in DOMAIN asked /\ Inside(range, k)
    BY <1>2, <1>5
<1>7. ASSUME NEW k \in DOMAIN inside PROVE inside[k] = asked[k]
  <2>1. Inside(range, k) /\ k \in DOMAIN asked
      BY <1>6
  <2>2. ASSUME NEW i \in DOMAIN levels PROVE k \in DOMAIN Opened[i] <=> k \in DOMAIN levels[i]
      BY <1>2, <2>1
  <2>3. {j \in DOMAIN Opened : k \in DOMAIN Opened[j]} = {j \in DOMAIN levels : k \in DOMAIN levels[j]}
      BY <1>2, <2>2
  <2>4. EntriesFor(Opened, k) = EntriesFor(levels, k)
    <3> DEFINE J == {j \in DOMAIN levels : k \in DOMAIN levels[j]}
    <3>1. \A j \in J : Opened[j][k] = levels[j][k]
        BY <1>2, <2>1
    <3>2. EntriesFor(Opened, k) = {Opened[j][k] : j \in J} /\ EntriesFor(levels, k) = {levels[j][k] : j \in J}
        BY <2>3 DEF EntriesFor
    <3> HIDE DEF J
    <3> QED BY <3>1, <3>2
  <2> QED BY <1>5, <2>1, <2>4
<1>8. AsSequence(asked, range) = InOrder(EntriesOf(inside))
  <2>1. EntriesOf(inside)
           = {[key |-> k, sm |-> asked[k]] : k \in {j \in DOMAIN asked : Inside(range, j)}}
      BY <1>6, <1>7 DEF EntriesOf
  <2> QED BY <2>1 DEF AsSequence
<1> QED BY <1>1, <1>2, <1>3, <1>4, <1>6, <1>7, <1>8 DEF asked, inside

\* The call has not begun.
LEMMA StreamInit == Init => StreamInv
<1> SUFFICES ASSUME Init PROVE StreamInv
    OBVIOUS
<1>1. /\ levels \in Stacks /\ range \in Ranges /\ phase = "idle"
      /\ queues = [i \in DOMAIN levels |-> << >>]
      /\ failed = {} /\ held = << >> /\ yielded = << >>
    BY DEF Init
<1>2. << >> \in Seq(Item) /\ Len(<< >>) <= 1
    OBVIOUS
<1>3. DOMAIN queues = DOMAIN levels /\ \A i \in DOMAIN levels : queues[i] = << >>
    BY <1>1
<1>4. CallOK
    BY <1>1, <1>2, <1>3 DEF CallOK
<1>5. PhaseOK /\ MergeInv
    BY <1>1 DEF PhaseOK, MergeInv
<1> QED BY <1>4, <1>5 DEF StreamInv

\* Opening fills the queues, or the range panics.
LEMMA OpenKeeps == StreamInv /\ Open => StreamInv'
<1> SUFFICES ASSUME StreamInv, Open PROVE StreamInv'
    OBVIOUS
<1>1. /\ CallOK /\ PhaseOK /\ phase = "idle" /\ failed = {} /\ held = << >> /\ yielded = << >>
      /\ UNCHANGED <<levels, range, failed, held, yielded>>
    BY DEF StreamInv, PhaseOK, Open
<1>2. Opened' = Opened /\ Known' = << >>
    BY <1>1 DEF Opened, Known
<1>3. CASE levels # << >> /\ InvertedRange(range)
  <2>1. phase' = "panicked" /\ queues' = queues
      BY <1>3 DEF Open
  <2>2. CallOK'
      BY <1>1, <2>1 DEF CallOK
  <2>3. PhaseOK' /\ MergeInv'
      BY <1>1, <1>3, <2>1 DEF PhaseOK, MergeInv
  <2> QED BY <2>2, <2>3 DEF StreamInv
<1>4. CASE ~(levels # << >> /\ InvertedRange(range))
  <2>1. phase' = "open" /\ queues' = [i \in DOMAIN levels |-> AsSequence(levels[i], range)]
      BY <1>4 DEF Open
  <2>2. /\ DOMAIN Opened = DOMAIN levels /\ Sources(Opened)
        /\ \A i \in DOMAIN levels : AsSequence(levels[i], range) = InOrder(EntriesOf(Opened[i]))
      BY <1>1, OpenedIs DEF CallOK
  <2>3. queues' = [i \in DOMAIN Opened |-> InOrder(EntriesOf(Opened[i]))]
      BY <2>1, <2>2
  <2>4. KeptOK(queues', << >>, Opened, {}) /\ MergeOK(queues', << >>, Opened)
      BY <2>2, <2>3, MergeStarts
  <2>5. \A i \in DOMAIN levels : queues'[i] \in Seq(Item)
      BY <2>2, <2>4 DEF KeptOK, LeftOf
  <2>6. DOMAIN queues' = DOMAIN levels /\ queues' = [i \in DOMAIN levels |-> queues'[i]]
      BY <2>1
  <2>7. CallOK'
      BY <1>1, <2>1, <2>5, <2>6 DEF CallOK
  <2>8. PhaseOK'
      BY <1>1, <2>1 DEF PhaseOK
  <2>9. MergeInv'
      BY <1>1, <1>2, <2>4 DEF MergeInv
  <2> QED BY <2>7, <2>8, <2>9 DEF StreamInv
<1> QED BY <1>3, <1>4

\* Taking an item.
LEMMA TakeKeeps ==
    ASSUME StreamInv, NEW i \in DOMAIN queues, Take(i)
    PROVE  StreamInv'
<1> DEFINE r == Head(queues[i])
<1>1. /\ CallOK /\ PhaseOK /\ phase = "open" /\ phase' = phase
      /\ KeptOK(queues, Known, Opened, failed)
      /\ failed = {} => MergeOK(queues, Known, Opened)
      /\ queues' = [queues EXCEPT ![i] = Tail(@)]
      /\ held' = HeldAfter(held, r) /\ yielded' = yielded \o GivenOut(held, r)
      /\ UNCHANGED <<levels, range, failed>>
      /\ MayGo(i) /\ i \in Heads(queues)
    BY DEF StreamInv, MergeInv, Take, MayGo, GoesFirst
<1>2. Opened' = Opened /\ DOMAIN Opened = DOMAIN levels
    BY <1>1 DEF Opened
<1>3. /\ held \in Seq(Item) /\ Len(held) <= 1 /\ yielded \in Seq(Item)
      /\ held = << >> => yielded = << >>
      /\ DOMAIN queues = DOMAIN levels /\ \A j \in DOMAIN levels : queues[j] \in Seq(Item)
      /\ Known \in Seq(Item)
    BY <1>1 DEF CallOK, PhaseOK, KeptOK
<1>4. queues[i] # << >> /\ queues[i] \in Seq(Item)
    BY <1>1, <1>3 DEF Heads
<1>5. r \in Item /\ Tail(queues[i]) \in Seq(Item)
    BY <1>4
<1> HIDE DEF r
<1>6. /\ (yielded \o GivenOut(held, r)) \o HeldAfter(held, r) = Taken(yielded \o held, r)
      /\ yielded' \in Seq(Item) /\ held' \in Seq(Item) /\ Len(held') = 1
    BY <1>1, <1>3, <1>5, TakenKnown
<1>7. Known' = Taken(Known, r)
    BY <1>1, <1>6 DEF Known
<1>8. held' # << >>
    BY <1>1 DEF HeldAfter
<1>9. DOMAIN queues' = DOMAIN levels /\ queues' = [j \in DOMAIN levels |-> queues'[j]]
    BY <1>1, <1>3
<1>10. ASSUME NEW j \in DOMAIN levels PROVE queues'[j] \in Seq(Item)
    BY <1>1, <1>3, <1>5
<1>11. CallOK'
    BY <1>1, <1>6, <1>9, <1>10 DEF CallOK
<1>12. PhaseOK'
    BY <1>1, <1>8 DEF PhaseOK
<1>13. KeptOK(queues', Known', Opened', failed')
    BY <1>1, <1>2, <1>3, <1>4, <1>7, TakeKept DEF r
<1>14. ASSUME failed = {} PROVE MergeOK(queues', Known', Opened')
  <2>1. GoesFirst(queues, i) /\ \A j \in Heads(queues) \ {i} : ~Clash(Head(queues[i]), Head(queues[j]))
      BY <1>1, <1>14 DEF MayGo
  <2>2. KeptOK(queues, Known, Opened, {}) /\ MergeOK(queues, Known, Opened) /\ i \in DOMAIN Opened
      BY <1>1, <1>2, <1>3, <1>14
  <2>3. MergeOK([queues EXCEPT ![i] = Tail(@)], Taken(Known, Head(queues[i])), Opened)
      BY <2>1, <2>2, TakeMerges
  <2> QED BY <1>1, <1>2, <1>7, <2>3 DEF r
<1>15. MergeInv'
    BY <1>1, <1>13, <1>14 DEF MergeInv
<1> QED BY <1>11, <1>12, <1>15 DEF StreamInv

\* A level fails.
LEMMA FailKeeps ==
    ASSUME StreamInv, NEW i \in DOMAIN queues, NEW skipped \in 0..Len(queues[i]), Fail(i, skipped)
    PROVE  StreamInv'
<1> DEFINE rest == <<Failure>> \o SubSeq(queues[i], skipped + 1, Len(queues[i]))
<1>1. /\ CallOK /\ PhaseOK /\ phase = "open" /\ phase' = phase
      /\ KeptOK(queues, Known, Opened, failed)
      /\ queues' = [queues EXCEPT ![i] = <<Failure>> \o SubSeq(@, skipped + 1, Len(@))]
      /\ failed' = failed \cup {i}
      /\ UNCHANGED <<levels, range, held, yielded>>
    BY DEF StreamInv, MergeInv, Fail
<1>2. Opened' = Opened /\ Known' = Known /\ DOMAIN Opened = DOMAIN levels /\ DOMAIN queues = DOMAIN levels
    BY <1>1 DEF Opened, Known, CallOK
<1>3. KeptOK(queues', Known', Opened', failed')
  <2>1. KeptOK([queues EXCEPT ![i] = <<Failure>> \o SubSeq(@, skipped + 1, Len(@))],
               Known, Opened, failed \cup {i})
      BY <1>1, <1>2, FailKept
  <2> QED BY <1>1, <1>2, <2>1
<1>4. failed' # {}
    BY <1>1
<1>5. \A j \in DOMAIN levels : queues'[j] \in Seq(Item)
    BY <1>2, <1>3 DEF KeptOK, LeftOf
<1>6. DOMAIN queues' = DOMAIN levels /\ queues' = [j \in DOMAIN levels |-> queues'[j]]
    BY <1>1, <1>2 DEF CallOK
<1>7. CallOK'
    BY <1>1, <1>2, <1>5, <1>6 DEF CallOK
<1>8. PhaseOK'
    BY <1>1 DEF PhaseOK
<1>9. MergeInv'
    BY <1>3, <1>4 DEF MergeInv
<1> QED BY <1>7, <1>8, <1>9 DEF StreamInv

\* The assertion fails where two levels have inadmissible entries of one key.
LEMMA PanicKeeps == StreamInv /\ Panic => StreamInv'
<1> SUFFICES ASSUME StreamInv, Panic PROVE StreamInv'
    OBVIOUS
<1>1. /\ CallOK /\ PhaseOK /\ MergeInv /\ phase = "open" /\ phase' = "panicked" /\ HeadsClash(queues)
      /\ KeptOK(queues, Known, Opened, failed)
      /\ UNCHANGED <<levels, range, queues, failed, held, yielded>>
    BY DEF StreamInv, MergeInv, Panic
<1>2. Opened' = Opened /\ Known' = Known /\ DOMAIN Opened = DOMAIN levels /\ DOMAIN queues = DOMAIN levels
    BY <1>1 DEF Opened, Known, CallOK
<1>3. CompactedRangePanics(Opened)
  <2>1. PICK i \in Heads(queues), j \in Heads(queues) : i # j /\ Clash(Head(queues[i]), Head(queues[j]))
      BY <1>1 DEF HeadsClash
  <2> DEFINE x == Head(queues[i])
             y == Head(queues[j])
  <2>2. /\ i \in DOMAIN Opened /\ j \in DOMAIN Opened /\ i \in Nat /\ j \in Nat
        /\ queues[i] # << >> /\ queues[j] # << >>
        /\ LeftOf(queues[i], Opened[i]) /\ LeftOf(queues[j], Opened[j])
      BY <1>1, <1>2, OpenedIs DEF CallOK, KeptOK, Heads
  <2>3. /\ IsOk(x) /\ IsOk(y) /\ x.key = y.key /\ SameOrder(x.sm, y.sm) /\ x.sm.mark = Normal
      BY <2>1 DEF Clash
  <2>4. /\ IsOk(x) => x.key \in DOMAIN Opened[i] /\ x.sm = Opened[i][x.key]
        /\ IsOk(y) => y.key \in DOMAIN Opened[j] /\ y.sm = Opened[j][y.key]
      BY <2>2, HeadIs
  <2> HIDE DEF x, y
  <2> DEFINE k == x.key
  <2>5. /\ k \in DOMAIN Opened[i] \cap DOMAIN Opened[j]
        /\ SameOrder(Opened[i][k], Opened[j][k]) /\ Opened[i][k].mark = Normal
        /\ SameOrder(Opened[j][k], Opened[i][k]) /\ Opened[j][k].mark = Normal
      BY <2>3, <2>4 DEF SameOrder
  <2> HIDE DEF k
  <2>6. i < j \/ j < i
      BY <2>1, <2>2
  <2> QED BY <2>2, <2>5, <2>6 DEF CompactedRangePanics
<1>4. CallOK'
    BY <1>1 DEF CallOK
<1>5. PhaseOK'
    BY <1>1, <1>2, <1>3 DEF PhaseOK
<1>6. MergeInv'
    BY <1>1, <1>2 DEF MergeInv
<1> QED BY <1>4, <1>5, <1>6 DEF StreamInv

\* All streams have ended: the item held is given out.
LEMMA FinishKeeps == StreamInv /\ Finish => StreamInv'
<1> SUFFICES ASSUME StreamInv, Finish PROVE StreamInv'
    OBVIOUS
<1>1. /\ CallOK /\ PhaseOK /\ phase = "open" /\ phase' = "done" /\ Heads(queues) = {}
      /\ KeptOK(queues, Known, Opened, failed)
      /\ failed = {} => MergeOK(queues, Known, Opened)
      /\ yielded' = yielded \o held /\ held' = << >>
      /\ UNCHANGED <<levels, range, queues, failed>>
    BY DEF StreamInv, MergeInv, Finish
<1>2. Known \in Seq(Item) /\ yielded' = Known
    BY <1>1 DEF KeptOK, Known
<1>3. Opened' = Opened /\ Known' = Known
  <2>1. Known \o << >> = Known
      BY <1>2
  <2> QED BY <1>1, <1>2, <2>1 DEF Opened, Known
<1>4. << >> \in Seq(Item) /\ Len(<< >>) <= 1
    OBVIOUS
<1>5. CallOK'
    BY <1>1, <1>2, <1>4 DEF CallOK
<1>6. PhaseOK'
    BY <1>1 DEF PhaseOK
<1>7. MergeInv'
    BY <1>1, <1>3 DEF MergeInv
<1> QED BY <1>5, <1>6, <1>7 DEF StreamInv

\* Every step keeps the invariant.
LEMMA StreamStep == StreamInv /\ [Next]_vars => StreamInv'
<1> SUFFICES ASSUME StreamInv, [Next]_vars PROVE StreamInv'
    OBVIOUS
<1>1. CASE Open
    BY <1>1, OpenKeeps
<1>2. CASE Refuse
  <2>1. /\ phase = "idle" /\ phase' = "refused"
        /\ UNCHANGED <<levels, range, queues, failed, held, yielded>>
      BY <1>2 DEF Refuse
  <2>2. CallOK'
      BY <2>1 DEF StreamInv, CallOK
  <2>3. PhaseOK' /\ MergeInv'
      BY <2>1 DEF StreamInv, PhaseOK, MergeInv
  <2> QED BY <2>2, <2>3 DEF StreamInv
<1>3. CASE Panic
    BY <1>3, PanicKeeps
<1>4. CASE Finish
    BY <1>4, FinishKeeps
<1>5. CASE \E i \in DOMAIN queues : Take(i)
    BY <1>5, TakeKeeps
<1>6. CASE \E i \in DOMAIN queues : \E skipped \in 0..Len(queues[i]) : Fail(i, skipped)
    BY <1>6, FailKeeps
<1>7. CASE UNCHANGED vars
  <2>1. UNCHANGED <<levels, range, phase, queues, failed, held, yielded>>
      BY <1>7 DEF vars
  <2>2. Opened' = Opened /\ Known' = Known
      BY <2>1 DEF Opened, Known
  <2>3. CallOK'
      BY <2>1 DEF StreamInv, CallOK
  <2>4. PhaseOK' /\ MergeInv'
      BY <2>1, <2>2 DEF StreamInv, PhaseOK, MergeInv
  <2> QED BY <2>3, <2>4 DEF StreamInv
<1> QED BY <1>1, <1>2, <1>3, <1>4, <1>5, <1>6, <1>7 DEF Next

-----------------------------------------------------------------------------
(* The theorems.                                                            *)

\* The invariant holds throughout, whichever levels fail.
THEOREM StreamInvariant == Spec => []StreamInv
<1>1. Init => StreamInv
    BY StreamInit
<1>2. StreamInv /\ [Next]_vars => StreamInv'
    BY StreamStep
<1> QED BY <1>1, <1>2, PTL DEF Spec

\* Queues, failures and items are what they should be (compact.rs).
THEOREM TypeCorrect == Spec => []TypeOK
<1>1. StreamInv => TypeOK
  <2> SUFFICES ASSUME StreamInv PROVE TypeOK
      OBVIOUS
  <2>1. queues = [i \in DOMAIN levels |-> queues[i]] /\ \A i \in DOMAIN levels : queues[i] \in Seq(Item)
      BY DEF StreamInv, CallOK
  <2>2. queues \in [DOMAIN levels -> Seq(Item)]
      BY <2>1
  <2> QED BY <2>2 DEF StreamInv, CallOK, TypeOK
<1> QED BY <1>1, StreamInvariant, PTL

\* A stream of any number of levels, drained without meeting an error, is the range
\* of them, of every key the greatest entry, and it panics only where two levels
\* have inadmissible entries or the bounds exclude each other (compact.rs, util.rs).
THEOREM DrainedIsRange == Spec => []StreamIsRange
<1>1. StreamInv => StreamIsRange
  <2> SUFFICES ASSUME StreamInv, phase = "done", Failure \notin {yielded[i] : i \in DOMAIN yielded}
               PROVE  yielded = AsSequence(CompactedRange(levels), range) /\ ~CompactedRangePanics(Opened)
      BY DEF StreamIsRange, StreamInv, PhaseOK
  <2>1. /\ CallOK /\ held = << >> /\ Heads(queues) = {} /\ yielded \in Seq(Item)
        /\ KeptOK(queues, Known, Opened, failed)
        /\ failed = {} => MergeOK(queues, Known, Opened)
      BY DEF StreamInv, PhaseOK, MergeInv, CallOK
  <2>2. Known = yielded
    <3>1. yielded \o << >> = yielded
        BY <2>1
    <3> QED BY <2>1, <3>1 DEF Known
  <2>3. DOMAIN Opened = DOMAIN levels /\ DOMAIN levels \subseteq Nat /\ DOMAIN queues = DOMAIN Opened
        /\ AsSequence(CompactedRange(levels), range) = InOrder(EntriesOf(CompactedRange(Opened)))
      BY <2>1, OpenedIs DEF CallOK
  <2>4. ASSUME NEW i \in DOMAIN Opened PROVE KeysOf(queues[i]) = {} /\ ~HasError(queues[i])
    <3>1. queues[i] = << >>
        BY <2>1, <2>3 DEF Heads
    <3>2. DOMAIN << >> = {}
        OBVIOUS
    <3> QED BY <3>1, <3>2 DEF KeysOf, HasError
  <2>5. ~HasError(Known)
      BY <2>2 DEF HasError, IsOk
  <2>6. failed = {}
      BY <2>1, <2>4, <2>5 DEF KeptOK
  <2>7. KeptOK(queues, Known, Opened, {}) /\ MergeOK(queues, Known, Opened)
      BY <2>1, <2>6
  <2>8. Known = InOrder(EntriesOf(CompactedRange(Opened))) /\ ~CompactedRangePanics(Opened)
      BY <2>3, <2>4, <2>7, MergeEnds
  <2> QED BY <2>2, <2>3, <2>8
<1> QED BY <1>1, StreamInvariant, PTL

\* As long as no level has failed, the consumer may use each item as it comes: no
\* level has a newer entry of its key to come, and no key below it is missing
\* (compact.rs).
THEOREM ItemsAreFinal == Spec => []FinalUntilFailure
<1>1. StreamInv => FinalUntilFailure
  <2> SUFFICES ASSUME StreamInv, failed = {}, NEW i \in DOMAIN yielded
               PROVE  LET k == yielded[i].key
                          asked == CompactedRange(levels)
                      IN /\ i > 1 => yielded[i - 1].key < k
                         /\ Inside(range, k) /\ k \in DOMAIN asked /\ yielded[i].sm = asked[k]
                         /\ \A j \in DOMAIN asked : j < k /\ Inside(range, j) =>
                               \E h \in 1..i : yielded[h].key = j
      BY DEF FinalUntilFailure
  <2> DEFINE k == yielded[i].key
             len == Len(yielded)
  <2>1. CallOK /\ PhaseOK /\ yielded \in Seq(Item) /\ held \in Seq(Item) /\ Len(held) <= 1
      BY DEF StreamInv, CallOK
  <2>2. len \in Nat /\ DOMAIN yielded = 1..len /\ i \in Nat /\ i > 0 /\ i <= len
      BY <2>1
  <2>3. held # << >> \/ phase = "done"
    <3>1. yielded # << >>
        BY <2>2
    <3> QED BY <2>1, <3>1 DEF PhaseOK
  <2>4. KeptOK(queues, Known, Opened, {}) /\ MergeOK(queues, Known, Opened)
      BY <2>3 DEF StreamInv, MergeInv
  <2>5. /\ Known \in Seq(Item) /\ Len(Known) = len + Len(held) /\ Len(held) \in Nat
        /\ \A h \in 1..len : Known[h] = yielded[h]
        /\ DOMAIN Known = 1..Len(Known)
    <3>1. /\ yielded \o held \in Seq(Item) /\ Len(yielded \o held) = Len(yielded) + Len(held)
          /\ \A h \in 1..Len(yielded) : (yielded \o held)[h] = yielded[h]
        BY <2>1
    <3> QED BY <2>1, <3>1 DEF Known
  <2> HIDE DEF len
  <2>6. i \in DOMAIN Known /\ Known[i].key = k
      BY <2>2, <2>5
  <2>7. DOMAIN Opened = DOMAIN levels /\ DOMAIN queues = DOMAIN Opened
      BY <2>1, OpenedIs DEF CallOK
  <2>8. ASSUME NEW l \in DOMAIN Opened PROVE Known[i].key \notin KeysOf(queues[l])
    <3>1. CASE held # << >>
      <4> DEFINE last == Len(Known)
      <4>1. last \in DOMAIN Known /\ i < last
        <5>1. Len(held) # 0
            BY <2>1, <3>1
        <5> QED BY <2>2, <2>5, <5>1
      <4> HIDE DEF last
      <4>2. /\ \A h \in DOMAIN Known : IsOk(Known[h]) /\ Known[h].key \in Nat
            /\ Known[i].key < Known[last].key
        <5>1. AllOk(Known) /\ KeysAscend(Known)
            BY <2>4 DEF MergeOK
        <5>2. \A h \in DOMAIN Known : IsOk(Known[h]) /\ Known[h].key \in Nat
            BY <2>5, <5>1, KeysAreNumbers DEF AllOk
        <5> QED BY <2>6, <4>1, <5>1, <5>2 DEF KeysAscend
      <4>3. \A j \in KeysOf(queues[l]) : Known[last].key <= j
          BY <2>4, <4>1 DEF MergeOK
      <4> QED BY <2>6, <4>1, <4>2, <4>3
    <3>2. CASE phase = "done"
      <4>1. queues[l] = << >>
          BY <2>1, <2>7, <3>2 DEF PhaseOK, Heads
      <4>2. DOMAIN << >> = {}
          OBVIOUS
      <4> QED BY <4>1, <4>2 DEF KeysOf
    <3> QED BY <2>3, <3>1, <3>2
  <2> DEFINE inside == CompactedRange(Opened)
             asked == CompactedRange(levels)
  <2>9. /\ i > 1 => Known[i - 1].key < Known[i].key
        /\ Known[i].key \in DOMAIN inside /\ Known[i].sm = inside[Known[i].key]
        /\ \A j \in DOMAIN inside : j < Known[i].key => \E h \in 1..i : Known[h].key = j
      BY <2>4, <2>6, <2>8, FinalIs
  <2>10. /\ \A j : j \in DOMAIN inside <=> j \in DOMAIN asked /\ Inside(range, j)
         /\ \A j \in DOMAIN inside : inside[j] = asked[j]
      BY <2>1, OpenedIs DEF CallOK
  <2> HIDE DEF inside, asked
  <2>11. /\ \A h \in 1..i : Known[h] = yielded[h]
         /\ i > 1 => i - 1 \in 1..i
         /\ Known[i] = yielded[i]
      BY <2>2, <2>5
  <2>12. i > 1 => yielded[i - 1].key < k
      BY <2>6, <2>9, <2>11
  <2>13. Inside(range, k) /\ k \in DOMAIN asked /\ yielded[i].sm = asked[k]
      BY <2>6, <2>9, <2>10, <2>11
  <2>14. ASSUME NEW j \in DOMAIN asked, j < k, Inside(range, j) PROVE \E h \in 1..i : yielded[h].key = j
      BY <2>6, <2>9, <2>10, <2>11, <2>14
  <2> QED BY <2>12, <2>13, <2>14 DEF asked
<1> QED BY <1>1, StreamInvariant, PTL

\* Whichever levels fail and in whatever order their items then come, an error met
\* and each entry of a level that has not failed, or a newer one, stay on their way
\* until the consumer has them (util.rs, compact.rs).
THEOREM NothingEverLost == Spec => []NothingLost
<1>1. StreamInv => NothingLost
  <2> SUFFICES ASSUME StreamInv, phase \in {"open", "done"}
               PROVE  /\ failed # {} => Failure \in Underway
                      /\ \A i \in DOMAIN levels \ failed : \A k \in DOMAIN Opened[i] :
                            \E r \in Underway : IsOk(r) /\ r.key = k /\ Leq(Opened[i][k], r.sm)
      BY DEF NothingLost
  <2>1. /\ KeptOK(queues, Known, Opened, failed)
        /\ DOMAIN Opened = DOMAIN levels /\ DOMAIN queues = DOMAIN levels
        /\ yielded \in Seq(Item) /\ held \in Seq(Item)
    <3>1. CallOK /\ KeptOK(queues, Known, Opened, failed)
        BY DEF StreamInv, MergeInv
    <3> QED BY <3>1, OpenedIs DEF CallOK
  <2> DEFINE parts == {{queues[i][j] : j \in DOMAIN queues[i]} : i \in DOMAIN queues}
             mine == {held[j] : j \in DOMAIN held}
             got == {yielded[j] : j \in DOMAIN yielded}
  <2>2. \A i \in DOMAIN queues : \A j \in DOMAIN queues[i] : queues[i][j] \in Underway
    <3>1. \A i \in DOMAIN queues : {queues[i][j] : j \in DOMAIN queues[i]} \in parts
        OBVIOUS
    <3>2. Underway = UNION (parts \cup {mine, got})
        BY DEF Underway
    <3> HIDE DEF parts
    <3>3. \A S \in parts : S \subseteq Underway
        BY <3>2
    <3> QED BY <3>1, <3>3
  <2>3. ASSUME NEW h \in DOMAIN Known PROVE Known[h] \in Underway
    <3>1. (\E j \in DOMAIN yielded : Known[h] = yielded[j]) \/ (\E j \in DOMAIN held : Known[h] = held[j])
      <4> DEFINE n == Len(yielded)
                 m == Len(held)
                 both == yielded \o held
      <4>1. /\ n \in Nat /\ m \in Nat /\ DOMAIN yielded = 1..n /\ DOMAIN held = 1..m
            /\ DOMAIN both = 1..(n + m)
            /\ \A j \in 1..(n + m) : both[j] = IF j <= n THEN yielded[j] ELSE held[j - n]
          BY <2>1
      <4>2. Known = both
          BY DEF Known
      <4> HIDE DEF n, m, both
      <4>3. h \in 1..(n + m) /\ Known[h] = both[h]
          BY <4>1, <4>2
      <4>4. CASE h <= n
        <5>1. h \in 1..n /\ Known[h] = yielded[h]
            BY <4>1, <4>3, <4>4
        <5> QED BY <4>1, <5>1
      <4>5. CASE ~(h <= n)
        <5>1. h - n \in 1..m /\ Known[h] = held[h - n]
            BY <4>1, <4>3, <4>5
        <5> QED BY <4>1, <5>1
      <4> QED BY <4>4, <4>5
    <3>2. Known[h] \in mine \/ Known[h] \in got
        BY <3>1
    <3>3. Underway = UNION (parts \cup {mine, got})
        BY DEF Underway
    <3> HIDE DEF parts, mine, got
    <3> QED BY <3>2, <3>3
  <2>4. ASSUME failed # {} PROVE Failure \in Underway
    <3>1. CASE HasError(Known)
        BY <2>3, <3>1 DEF HasError, IsOk
    <3>2. CASE \E i \in DOMAIN Opened : HasError(queues[i])
        BY <2>1, <2>2, <3>2 DEF HasError, IsOk
    <3> QED BY <2>1, <2>4, <3>1, <3>2 DEF KeptOK
  <2>5. ASSUME NEW i \in DOMAIN levels \ failed, NEW k \in DOMAIN Opened[i]
        PROVE  \E r \in Underway : IsOk(r) /\ r.key = k /\ Leq(Opened[i][k], r.sm)
    <3>1. k \in KeysOf(queues[i]) \/ Delivered(Known, k, Opened[i][k])
        BY <2>1 DEF KeptOK, Accounted
    <3>2. CASE Delivered(Known, k, Opened[i][k])
        BY <2>3, <3>2 DEF Delivered
    <3>3. CASE k \in KeysOf(queues[i])
      <4>1. PICK j \in DOMAIN queues[i] : IsOk(queues[i][j]) /\ queues[i][j].key = k
          BY <3>3 DEF KeysOf
      <4>2. queues[i][j].sm = Opened[i][k]
          BY <2>1, <4>1 DEF KeptOK, LeftOf
      <4>3. Opened[i][k] \in SeqMarkeds
          BY <2>1 DEF KeptOK, Sources
      <4>4. Leq(Opened[i][k], queues[i][j].sm)
          BY <4>2, <4>3, LeqIsOrder
      <4> QED BY <2>1, <2>2, <4>1, <4>4
    <3> QED BY <3>1, <3>2, <3>3
  <2> QED BY <2>4, <2>5
<1> QED BY <1>1, StreamInvariant, PTL
=============================================================================
