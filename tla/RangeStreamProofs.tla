-------------------------- MODULE RangeStreamProofs --------------------------
(***************************************************************************)
(* What holds of the stream of View::range for every table, view, range    *)
(* and reader: drained without an error it is the range, and up to an      *)
(* error the consumer may trust what it has got.                           *)
(***************************************************************************)
EXTENDS RangeStream, StreamLemmas

-----------------------------------------------------------------------------
(* Two sources: b, what the base has inside the range, and s, what is      *)
(* staged.                                                                 *)

Sources(b, s) ==
    /\ DOMAIN b \subseteq Keys /\ b \in [DOMAIN b -> SeqMarkeds]
    /\ DOMAIN s \subseteq Keys /\ s \in [DOMAIN s -> SeqMarkeds]

\* The staged changes do not fail; errors of the base come first in its queue.
QueuesOK(q1, q2, b, s) ==
    /\ Sources(b, s)
    /\ LeftOf(q1, b) /\ LeftOf(q2, s)
    /\ AllOk(q2)
    /\ \A i, j \in DOMAIN q1 : i < j /\ ~IsOk(q1[j]) => ~IsOk(q1[i])

\* Both sources as one.
Over(b, s) ==
    [k \in DOMAIN b \cup DOMAIN s |->
        CASE k \notin DOMAIN s -> b[k]
          [] k \notin DOMAIN b -> s[k]
          [] OTHER             -> Newer(b[k], s[k])]

-----------------------------------------------------------------------------
(* The invariant of the merge, of what is left of the two sources and of    *)
(* what the consumer knows.                                                 *)

\* An item that is not the last one known is the merged entry of its key or the
\* staged one.
Right(r, b, s) == r.sm = Over(b, s)[r.key] \/ (r.key \in DOMAIN s /\ r.sm = s[r.key])

\* Until an error is known: the last item may be a base entry whose staged
\* successor is next in the staged queue, and no staged entry was left out.
TrustOK(q2, known, b, s) ==
    AllOk(known) =>
    /\ KeysAscend(known)
    /\ \A i \in DOMAIN known :
          /\ known[i].key \in DOMAIN b \cup DOMAIN s
          /\ \/ Right(known[i], b, s)
             \/ /\ i = Len(known)
                /\ known[i].key \in DOMAIN b \cap DOMAIN s \cap KeysOf(q2)
                /\ known[i].sm = b[known[i].key]
    /\ DOMAIN s \subseteq KeysOf(q2) \cup KeysOf(known)
    /\ \A k \in KeysOf(q2) : \A i \in DOMAIN known : known[i].key <= k

\* The merged entry is known, or the one that is still to be merged into it is
\* next in the queue of the other source.
Settled(i, q1, q2, known, b, s) ==
    LET k == known[i].key
    IN \/ k \notin KeysOf(q1) /\ k \notin KeysOf(q2) /\ known[i].sm = Over(b, s)[k]
       \/ /\ i = Len(known) /\ k \in KeysOf(q1) /\ k \notin KeysOf(q2)
          /\ k \in DOMAIN s /\ known[i].sm = s[k] /\ Newer(s[k], b[k]) = Over(b, s)[k]
       \/ /\ i = Len(known) /\ k \notin KeysOf(q1) /\ k \in KeysOf(q2)
          /\ k \in DOMAIN b /\ known[i].sm = b[k]

\* Without an error on the way either nothing is lost at all.
CompleteOK(q1, q2, known, b, s) ==
    AllOk(known) /\ AllOk(q1) =>
    /\ DOMAIN b \subseteq KeysOf(q1) \cup KeysOf(known)
    /\ \A k \in KeysOf(q1) : \A i \in DOMAIN known : known[i].key <= k
    /\ \A i \in DOMAIN known : Settled(i, q1, q2, known, b, s)

MergeOK(q1, q2, known, b, s) ==
    /\ known \in Seq(Item)
    /\ QueuesOK(q1, q2, b, s)
    /\ TrustOK(q2, known, b, s)
    /\ CompleteOK(q1, q2, known, b, s)

\* Over, key by key.
LEMMA OverIs ==
    ASSUME NEW b, NEW s, NEW k \in DOMAIN b \cup DOMAIN s
    PROVE  /\ k \notin DOMAIN s => Over(b, s)[k] = b[k]
           /\ k \notin DOMAIN b => Over(b, s)[k] = s[k]
           /\ k \in DOMAIN b /\ k \in DOMAIN s => Over(b, s)[k] = Newer(b[k], s[k])
BY DEF Over

\* An item that is not merged is above everything known before it.
LEMMA FreshIsAbove ==
    ASSUME NEW known \in Seq(Item), AllOk(known), KeysAscend(known), NEW r \in Item, IsOk(r),
           \A i \in DOMAIN known : known[i].key <= r.key,
           ~(Len(known) > 0 /\ CanMerge(known[Len(known)], r))
    PROVE  /\ \A i \in DOMAIN known : known[i].key < r.key
           /\ r.key \notin KeysOf(known)
<1> DEFINE len == Len(known)
<1>1. len \in Nat /\ DOMAIN known = 1..len
    OBVIOUS
<1>2. r.key \in Nat /\ \A i \in 1..len : known[i].key \in Nat /\ IsOk(known[i])
    BY <1>1, ItemIs, KeysAreNumbers DEF AllOk, Positions
<1> HIDE DEF len
<1>3. ASSUME NEW i \in 1..len PROVE known[i].key < r.key
  <2>1. len > 0 /\ len \in 1..len
      BY <1>1
  <2>2. known[len].key # r.key
      BY <1>2, <2>1 DEF CanMerge, len
  <2>3. known[len].key < r.key
      BY <1>1, <1>2, <2>1, <2>2
  <2>4. i < len => known[i].key < known[len].key
      BY <1>1, <1>2, <2>1 DEF KeysAscend
  <2>5. i = len \/ i < len
      BY <1>1
  <2> QED BY <1>2, <2>1, <2>3, <2>4, <2>5
<1>4. r.key \notin KeysOf(known)
    BY <1>1, <1>2, <1>3 DEF KeysOf
<1> QED BY <1>1, <1>3, <1>4

\* A step that takes the head of the staged changes.
LEMMA TakeStaged ==
    ASSUME NEW q1, NEW q2, NEW known, NEW b, NEW s, MergeOK(q1, q2, known, b, s), q2 # << >>,
           q1 # << >> => PlacedBefore(Head(q2), Head(q1)) /\ ~Clash(Head(q1), Head(q2))
    PROVE  MergeOK(q1, Tail(q2), Taken(known, Head(q2)), b, s)
<1> DEFINE r == Head(q2)
           rest == Tail(q2)
           next == Taken(known, r)
           len == Len(known)
<1>1. /\ known \in Seq(Item) /\ QueuesOK(q1, q2, b, s) /\ Sources(b, s)
      /\ LeftOf(q1, b) /\ LeftOf(q2, s) /\ AllOk(q2)
      /\ q1 \in Seq(Item) /\ q2 \in Seq(Item) /\ KeysAscend(q2)
    BY DEF MergeOK, QueuesOK, LeftOf
<1>2. /\ r \in Item /\ rest \in Seq(Item) /\ IsOk(r) /\ AllOk(rest)
      /\ KeysOf(q2) = KeysOf(rest) \cup {r.key}
      /\ \A k \in KeysOf(rest) : r.key < k
      /\ LeftOf(rest, s) /\ r.key \in DOMAIN s /\ r.sm = s[r.key] /\ r.key \in Nat
      /\ \A k \in KeysOf(q2) : r.key <= k
  <2>1. /\ r \in Item /\ rest \in Seq(Item) /\ AllOk(rest) /\ r = q2[1] /\ 1 \in DOMAIN q2
        /\ KeysOf(q2) = KeysOf(rest) \cup (IF IsOk(r) THEN {r.key} ELSE {})
        /\ IsOk(r) => \A k \in KeysOf(rest) : r.key < k
      BY <1>1, TailIs
  <2>2. IsOk(r)
      BY <1>1, <2>1 DEF AllOk
  <2>3. /\ LeftOf(rest, s) /\ r.key \in DOMAIN s /\ r.sm = s[r.key]
        /\ \A k \in KeysOf(q2) : r.key <= k
      BY <1>1, <2>2, HeadIs
  <2>4. r.key \in Nat
      BY <2>1, <2>2, ItemIs DEF Positions
  <2> QED BY <2>1, <2>2, <2>3, <2>4
<1>3. ASSUME AllOk(q1), NEW k \in KeysOf(q1)
      PROVE  /\ q1 # << >> /\ Head(q1) \in Item /\ IsOk(Head(q1)) /\ Head(q1).key \in Nat
             /\ Head(q1).key \in DOMAIN b /\ Head(q1).sm = b[Head(q1).key]
             /\ r.key <= Head(q1).key /\ Head(q1).key <= k
  <2>1. q1 # << >>
      BY <1>1, <1>3 DEF KeysOf
  <2>2. Head(q1) \in Item /\ Head(q1) = q1[1] /\ 1 \in DOMAIN q1 /\ KeysAscend(q1)
      BY <1>1, <2>1, TailIs DEF LeftOf
  <2>3. IsOk(Head(q1))
      BY <1>3, <2>2 DEF AllOk
  <2>4. /\ Head(q1).key \in DOMAIN b /\ Head(q1).sm = b[Head(q1).key] /\ Head(q1).key <= k
      BY <1>1, <1>3, <2>1, <2>3, HeadIs
  <2>5. Head(q1).key \in Nat
      BY <2>2, <2>3, ItemIs DEF Positions
  <2>6. r.key <= Head(q1).key
      BY <1>2, <2>1, <2>3, <2>5 DEF PlacedBefore
  <2> QED BY <2>1, <2>2, <2>3, <2>4, <2>5, <2>6
<1>4. /\ len \in Nat /\ DOMAIN known = 1..len
      /\ \A k \in KeysOf(q1) \cup KeysOf(q2) \cup KeysOf(known) : k \in Nat
    BY <1>1, KeysAreNumbers
<1>5. /\ QueuesOK(q1, rest, b, s)
    BY <1>1, <1>2 DEF QueuesOK
<1>6. /\ TrustOK(q2, known, b, s) /\ CompleteOK(q1, q2, known, b, s)
    BY DEF MergeOK
<1>7. CASE len > 0 /\ CanMerge(known[len], r)
  <2>1. /\ next \in Seq(Item) /\ Len(next) = len /\ DOMAIN next = 1..len
        /\ IsOk(known[len]) /\ known[len].key = r.key
        /\ next[len] = [key |-> r.key, sm |-> Newer(known[len].sm, r.sm)]
        /\ \A i \in 1..(len - 1) : next[i] = known[i]
        /\ KeysOf(next) = KeysOf(known)
      BY <1>1, <1>2, <1>7, TakenIs
  <2>0. len \in Nat /\ len > 0
      BY <1>4, <1>7
  <2> HIDE DEF r, rest, next, len
  <2>2. /\ \A i \in 1..len : i \in 1..(len - 1) \/ i = len
        /\ \A i \in 1..(len - 1) : i \in 1..len /\ i # len
        /\ len \in 1..len
      BY <2>0
  <2>3. \A i \in 1..len : next[i].key = known[i].key
      BY <2>1, <2>2
  <2>4. AllOk(next) => AllOk(known)
      BY <1>4, <2>1, <2>2 DEF AllOk
  <2>5. r.key \in KeysOf(known)
      BY <1>4, <2>1, <2>2 DEF KeysOf
  <2>6. KeysAscend(known) /\ AllOk(known) => KeysAscend(next)
      BY <1>4, <2>1, <2>3 DEF KeysAscend, AllOk
  <2>7. TrustOK(rest, next, b, s)
    <3> SUFFICES ASSUME AllOk(next)
                 PROVE  /\ KeysAscend(next)
                        /\ \A i \in DOMAIN next : next[i].key \in DOMAIN b \cup DOMAIN s /\ Right(next[i], b, s)
                        /\ DOMAIN s \subseteq KeysOf(rest) \cup KeysOf(next)
                        /\ \A k \in KeysOf(rest) : \A i \in DOMAIN next : next[i].key <= k
        BY DEF TrustOK
    <3>1. /\ AllOk(known) /\ KeysAscend(known)
          /\ \A i \in 1..len :
              /\ known[i].key \in DOMAIN b \cup DOMAIN s
              /\ \/ Right(known[i], b, s)
                 \/ /\ i = len
                    /\ known[i].key \in DOMAIN b \cap DOMAIN s \cap KeysOf(q2)
                    /\ known[i].sm = b[known[i].key]
          /\ DOMAIN s \subseteq KeysOf(q2) \cup KeysOf(known)
          /\ \A k \in KeysOf(q2) : \A i \in 1..len : known[i].key <= k
        BY <1>4, <1>6, <2>4 DEF TrustOK, len
    <3>2. ASSUME NEW i \in 1..len PROVE Right(next[i], b, s)
      <4>1. CASE i \in 1..(len - 1)
          BY <2>1, <2>2, <3>1, <4>1
      <4>2. CASE i = len
        <5>1. CASE Right(known[len], b, s)
          <6>1. next[len].sm \in {known[len].sm, s[r.key]} /\ next[len].key = r.key
              BY <1>2, <2>1, NewerIs
          <6> QED BY <1>2, <2>1, <4>2, <5>1, <6>1 DEF Right
        <5>2. CASE known[len].key \in DOMAIN b \cap DOMAIN s /\ known[len].sm = b[known[len].key]
          <6>1. next[len].sm = Newer(b[r.key], s[r.key]) /\ next[len].key = r.key
              BY <1>2, <2>1, <5>2
          <6> QED BY <2>1, <4>2, <5>2, <6>1, OverIs DEF Right
        <5> QED BY <2>2, <3>1, <5>1, <5>2
      <4> QED BY <2>2, <4>1, <4>2
    <3>3. DOMAIN s \subseteq KeysOf(rest) \cup KeysOf(next)
        BY <1>2, <2>1, <2>5, <3>1
    <3> QED BY <1>2, <2>1, <2>3, <2>6, <3>1, <3>2, <3>3
  <2>8. CompleteOK(q1, rest, next, b, s)
    <3> SUFFICES ASSUME AllOk(next), AllOk(q1)
                 PROVE  /\ DOMAIN b \subseteq KeysOf(q1) \cup KeysOf(next)
                        /\ \A k \in KeysOf(q1) : \A i \in DOMAIN next : next[i].key <= k
                        /\ \A i \in DOMAIN next : Settled(i, q1, rest, next, b, s)
        BY DEF CompleteOK
    <3>1. /\ DOMAIN b \subseteq KeysOf(q1) \cup KeysOf(known)
          /\ \A k \in KeysOf(q1) : \A i \in 1..len : known[i].key <= k
          /\ \A i \in 1..len : Settled(i, q1, q2, known, b, s)
        BY <1>4, <1>6, <2>4 DEF CompleteOK
    <3>2. ASSUME NEW i \in 1..len PROVE Settled(i, q1, rest, next, b, s)
      <4>1. CASE i \in 1..(len - 1)
          BY <1>2, <2>1, <2>2, <3>1, <4>1 DEF Settled, len
      <4>2. CASE i = len
        <5>1. /\ r.key \notin KeysOf(q1) /\ r.key \in DOMAIN b /\ known[len].sm = b[r.key]
          <6>1. Settled(len, q1, q2, known, b, s) /\ r.key \in KeysOf(q2)
              BY <1>2, <2>2, <3>1
          <6> QED BY <2>1, <6>1 DEF Settled
        <5>2. next[len].key = r.key /\ next[len].sm = Over(b, s)[r.key]
            BY <1>2, <2>1, <5>1, OverIs
        <5>3. r.key \notin KeysOf(rest)
            BY <1>2
        <5> QED BY <4>2, <5>1, <5>2, <5>3 DEF Settled
      <4> QED BY <2>2, <4>1, <4>2
    <3> QED BY <2>1, <2>3, <3>1, <3>2
  <2> QED BY <1>5, <2>1, <2>7, <2>8 DEF MergeOK, r, rest, next
<1>8. CASE ~(len > 0 /\ CanMerge(known[len], r))
  <2>1. /\ next \in Seq(Item) /\ Len(next) = len + 1 /\ DOMAIN next = 1..(len + 1)
        /\ next[len + 1] = r
        /\ \A i \in 1..len : next[i] = known[i]
        /\ KeysOf(next) = KeysOf(known) \cup {r.key}
      BY <1>1, <1>2, <1>8, TakenIs
  <2>2. /\ \A i \in 1..(len + 1) : i \in 1..len \/ i = len + 1
        /\ \A i \in 1..len : i \in 1..(len + 1) /\ i # len + 1 /\ i <= len
      BY <1>4
  <2> HIDE DEF r, rest, next
  <2>3. AllOk(next) => AllOk(known)
      BY <1>4, <2>1, <2>2 DEF AllOk
  <2>4. ASSUME AllOk(next)
        PROVE  /\ AllOk(known) /\ KeysAscend(known)
               /\ \A i \in 1..len :
                    /\ known[i].key \in DOMAIN b \cup DOMAIN s
                    /\ \/ Right(known[i], b, s)
                       \/ /\ i = len
                          /\ known[i].key \in DOMAIN b \cap DOMAIN s \cap KeysOf(q2)
                          /\ known[i].sm = b[known[i].key]
               /\ DOMAIN s \subseteq KeysOf(q2) \cup KeysOf(known)
               /\ \A k \in KeysOf(q2) : \A i \in 1..len : known[i].key <= k
               /\ \A i \in 1..len : known[i].key \in Nat /\ known[i].key < r.key
               /\ r.key \notin KeysOf(known)
    <3>1. /\ AllOk(known) /\ KeysAscend(known)
          /\ \A i \in 1..len :
              /\ known[i].key \in DOMAIN b \cup DOMAIN s
              /\ \/ Right(known[i], b, s)
                 \/ /\ i = len
                    /\ known[i].key \in DOMAIN b \cap DOMAIN s \cap KeysOf(q2)
                    /\ known[i].sm = b[known[i].key]
          /\ DOMAIN s \subseteq KeysOf(q2) \cup KeysOf(known)
          /\ \A k \in KeysOf(q2) : \A i \in 1..len : known[i].key <= k
        BY <1>4, <1>6, <2>3, <2>4 DEF TrustOK
    <3>2. \A i \in DOMAIN known : known[i].key <= r.key
        BY <1>2, <1>4, <3>1
    <3>3. \A i \in DOMAIN known : known[i].key < r.key
        BY <1>1, <1>2, <1>8, <3>1, <3>2, FreshIsAbove
    <3>4. r.key \notin KeysOf(known)
        BY <1>1, <1>2, <1>8, <3>1, <3>2, FreshIsAbove
    <3>5. \A i \in DOMAIN known : known[i].key \in Nat
        BY <1>1, <3>1, KeysAreNumbers DEF AllOk
    <3> QED BY <1>4, <3>1, <3>3, <3>4, <3>5
  <2> HIDE DEF len
  <2>5. ASSUME AllOk(next), NEW i \in 1..len PROVE known[i].key \notin KeysOf(q2)
      BY <1>2, <1>4, <2>4, <2>5
  <2>6. TrustOK(rest, next, b, s)
    <3> SUFFICES ASSUME AllOk(next)
                 PROVE  /\ KeysAscend(next)
                        /\ \A i \in DOMAIN next : next[i].key \in DOMAIN b \cup DOMAIN s /\ Right(next[i], b, s)
                        /\ DOMAIN s \subseteq KeysOf(rest) \cup KeysOf(next)
                        /\ \A k \in KeysOf(rest) : \A i \in DOMAIN next : next[i].key <= k
        BY DEF TrustOK
    <3>1. KeysAscend(next)
      <4> SUFFICES ASSUME NEW i \in 1..(len + 1), NEW j \in 1..(len + 1), i < j
                   PROVE  next[i].key < next[j].key
          BY <2>1 DEF KeysAscend
      <4>1. i \in 1..len
          BY <1>4
      <4>2. CASE j \in 1..len
        <5>1. known[i].key < known[j].key
            BY <1>4, <2>4, <4>1, <4>2 DEF KeysAscend, AllOk
        <5> QED BY <2>1, <4>1, <4>2, <5>1
      <4>3. CASE j = len + 1
          BY <2>1, <2>4, <4>1, <4>3
      <4> QED BY <2>2, <4>2, <4>3
    <3>2. ASSUME NEW i \in 1..(len + 1)
          PROVE  next[i].key \in DOMAIN b \cup DOMAIN s /\ Right(next[i], b, s)
      <4>1. CASE i \in 1..len
          BY <2>1, <2>4, <2>5, <4>1
      <4>2. CASE i = len + 1
          BY <1>2, <2>1, <4>2 DEF Right
      <4> QED BY <2>2, <4>1, <4>2
    <3>3. DOMAIN s \subseteq KeysOf(rest) \cup KeysOf(next)
        BY <1>2, <2>1, <2>4
    <3>4. ASSUME NEW k \in KeysOf(rest), NEW i \in 1..(len + 1) PROVE next[i].key <= k
      <4>1. k \in KeysOf(q2) /\ k \in Nat /\ r.key < k
          BY <1>2, <1>4
      <4> QED BY <1>2, <2>1, <2>2, <2>4, <4>1
    <3> QED BY <2>1, <3>1, <3>2, <3>3, <3>4
  <2>7. CompleteOK(q1, rest, next, b, s)
    <3> SUFFICES ASSUME AllOk(next), AllOk(q1)
                 PROVE  /\ DOMAIN b \subseteq KeysOf(q1) \cup KeysOf(next)
                        /\ \A k \in KeysOf(q1) : \A i \in DOMAIN next : next[i].key <= k
                        /\ \A i \in DOMAIN next : Settled(i, q1, rest, next, b, s)
        BY DEF CompleteOK
    <3>1. /\ DOMAIN b \subseteq KeysOf(q1) \cup KeysOf(known)
          /\ \A k \in KeysOf(q1) : \A i \in 1..len : known[i].key <= k
          /\ \A i \in 1..len : Settled(i, q1, q2, known, b, s)
        BY <1>4, <1>6, <2>3 DEF CompleteOK
    <3>2. \A k \in KeysOf(q1) : r.key <= k
        BY <1>2, <1>3, <1>4
    <3>3. ASSUME NEW k \in KeysOf(q1), NEW i \in 1..(len + 1) PROVE next[i].key <= k
        BY <2>1, <2>2, <3>1, <3>2
    <3>4. ASSUME NEW i \in 1..len PROVE Settled(i, q1, rest, next, b, s)
      <4>1. known[i].key \notin KeysOf(q1)
          BY <1>2, <1>4, <2>4, <3>2
      <4>2. known[i].key \notin KeysOf(q2) /\ known[i].key \notin KeysOf(rest)
          BY <1>2, <2>5
      <4>3. known[i].sm = Over(b, s)[known[i].key]
          BY <3>1, <4>1, <4>2 DEF Settled
      <4> QED BY <2>1, <4>1, <4>2, <4>3 DEF Settled
    <3>5. Settled(len + 1, q1, rest, next, b, s)
      <4>1. r.key \notin KeysOf(rest) /\ next[len + 1] = r /\ Len(next) = len + 1
          BY <1>2, <2>1
      <4>2. CASE r.key \notin KeysOf(q1)
        <5>1. r.key \notin DOMAIN b
            BY <2>4, <3>1, <4>2
        <5> QED BY <1>2, <4>1, <4>2, <5>1, OverIs DEF Settled
      <4>3. CASE r.key \in KeysOf(q1)
        <5> DEFINE h == Head(q1)
        <5>1. /\ q1 # << >> /\ h \in Item /\ IsOk(h) /\ h.key = r.key
              /\ r.key \in DOMAIN b /\ h.sm = b[r.key]
            BY <1>2, <1>3, <4>3
        <5>2. ~Clash(h, r)
            BY <5>1 DEF r
        <5>3. ~(SameOrder(b[r.key], s[r.key]) /\ b[r.key].mark = Normal)
            BY <1>2, <5>1, <5>2 DEF Clash
        <5>4. b[r.key] \in SeqMarkeds /\ s[r.key] \in SeqMarkeds
            BY <1>1, <1>2, <5>1 DEF Sources
        <5>5. Newer(s[r.key], b[r.key]) = Over(b, s)[r.key]
            BY <1>2, <5>1, <5>3, <5>4, NewerCommutes, OverIs
        <5> QED BY <1>2, <4>1, <4>3, <5>5 DEF Settled
      <4> QED BY <4>2, <4>3
    <3> QED BY <2>1, <2>2, <3>1, <3>3, <3>4, <3>5
  <2> QED BY <1>5, <2>1, <2>6, <2>7 DEF MergeOK, r, rest, next
<1> QED BY <1>7, <1>8

\* A step that takes the head of the base.
LEMMA TakeBase ==
    ASSUME NEW q1, NEW q2, NEW known, NEW b, NEW s, MergeOK(q1, q2, known, b, s), q1 # << >>,
           q2 # << >> => PlacedBefore(Head(q1), Head(q2))
    PROVE  MergeOK(Tail(q1), q2, Taken(known, Head(q1)), b, s)
<1> DEFINE r == Head(q1)
           rest == Tail(q1)
           next == Taken(known, r)
           len == Len(known)
<1>1. /\ known \in Seq(Item) /\ QueuesOK(q1, q2, b, s) /\ Sources(b, s)
      /\ LeftOf(q1, b) /\ LeftOf(q2, s) /\ AllOk(q2)
      /\ q1 \in Seq(Item) /\ q2 \in Seq(Item) /\ KeysAscend(q1)
      /\ \A i, j \in DOMAIN q1 : i < j /\ ~IsOk(q1[j]) => ~IsOk(q1[i])
    BY DEF MergeOK, QueuesOK, LeftOf
<1>2. /\ r \in Item /\ rest \in Seq(Item) /\ 1 \in DOMAIN q1 /\ r = q1[1] /\ LeftOf(rest, b)
      /\ \A i \in DOMAIN rest : i + 1 \in DOMAIN q1 /\ rest[i] = q1[i + 1] /\ i \in Nat /\ i > 0
      /\ KeysOf(q1) = KeysOf(rest) \cup (IF IsOk(r) THEN {r.key} ELSE {})
      /\ IsOk(r) => \A k \in KeysOf(rest) : r.key < k
      /\ AllOk(q1) => AllOk(rest)
    BY <1>1, TailIs, HeadIs
<1>3. /\ len \in Nat /\ DOMAIN known = 1..len
      /\ \A k \in KeysOf(q1) \cup KeysOf(q2) \cup KeysOf(known) : k \in Nat
    BY <1>1, KeysAreNumbers
<1>4. QueuesOK(rest, q2, b, s)
  <2>1. ASSUME NEW i \in DOMAIN rest, NEW j \in DOMAIN rest, i < j, ~IsOk(rest[j])
        PROVE  ~IsOk(rest[i])
    <3>1. i + 1 \in DOMAIN q1 /\ j + 1 \in DOMAIN q1 /\ i + 1 < j + 1
        BY <1>2, <2>1
    <3> QED BY <1>1, <1>2, <2>1, <3>1
  <2> QED BY <1>1, <1>2, <2>1 DEF QueuesOK
<1>5. /\ TrustOK(q2, known, b, s) /\ CompleteOK(q1, q2, known, b, s)
    BY DEF MergeOK
<1>6. AllOk(next) => AllOk(known) /\ IsOk(r)
  <2>1. CASE len > 0 /\ CanMerge(known[len], r)
    <3>1. /\ next \in Seq(Item) /\ Len(next) = len /\ DOMAIN next = 1..len
          /\ IsOk(known[len]) /\ IsOk(r)
          /\ \A i \in 1..(len - 1) : next[i] = known[i]
        BY <1>1, <1>2, <2>1, TakenIs
    <3> HIDE DEF next, len, r
    <3>2. \A i \in 1..len : i \in 1..(len - 1) \/ i = len
        BY <1>3
    <3> QED BY <1>3, <3>1, <3>2 DEF AllOk
  <2>2. CASE ~(len > 0 /\ CanMerge(known[len], r))
    <3>1. /\ next \in Seq(Item) /\ Len(next) = len + 1 /\ DOMAIN next = 1..(len + 1)
          /\ next[len + 1] = r /\ \A i \in 1..len : next[i] = known[i]
        BY <1>1, <1>2, <2>2, TakenIs
    <3>2. len + 1 \in 1..(len + 1) /\ \A i \in 1..len : i \in 1..(len + 1)
        BY <1>3
    <3> HIDE DEF next, len, r
    <3> QED BY <1>3, <3>1, <3>2 DEF AllOk
  <2> QED BY <2>1, <2>2
<1>7. ASSUME AllOk(next)
      PROVE  /\ IsOk(r) /\ r.key \in Nat /\ r.key \in DOMAIN b /\ r.sm = b[r.key]
             /\ AllOk(q1) /\ AllOk(known) /\ KeysOf(q1) = KeysOf(rest) \cup {r.key}
             /\ \A k \in KeysOf(rest) : r.key < k
             /\ \A k \in KeysOf(q1) \cup KeysOf(q2) : r.key <= k
  <2>1. IsOk(r) /\ AllOk(known) /\ r.key \in Nat
    <3>1. IsOk(r) /\ AllOk(known)
        BY <1>6, <1>7
    <3>2. r \in Positions
        BY <1>2, <3>1, ItemIs
    <3> QED BY <3>1, <3>2 DEF Positions
  <2>2. \A k \in KeysOf(q1) : r.key <= k
      BY <1>1, <2>1, HeadIs
  <2>3. r.key \in DOMAIN b /\ r.sm = b[r.key]
      BY <1>1, <2>1, HeadIs
  <2>4. AllOk(q1)
    <3>1. \A j \in DOMAIN q1 : j \in Nat /\ (j = 1 \/ 1 < j)
        BY <1>1
    <3> QED BY <1>1, <1>2, <2>1, <3>1 DEF AllOk
  <2>5. ASSUME NEW k \in KeysOf(q2) PROVE r.key <= k
    <3>1. q2 # << >>
        BY <1>1 DEF KeysOf
    <3>2. /\ Head(q2) \in Item /\ Head(q2) = q2[1] /\ 1 \in DOMAIN q2
        BY <1>1, <3>1, TailIs DEF LeftOf
    <3>3. IsOk(Head(q2))
        BY <1>1, <3>2 DEF AllOk
    <3>4. Head(q2).key \in Nat /\ Head(q2).key <= k
      <4>1. Head(q2).key <= k
          BY <1>1, <2>5, <3>1, <3>3, HeadIs
      <4> QED BY <3>2, <3>3, <4>1, ItemIs DEF Positions
    <3>5. r.key <= Head(q2).key
        BY <2>1, <3>1, <3>3, <3>4 DEF PlacedBefore
    <3> QED BY <1>3, <2>1, <3>4, <3>5
  <2> QED BY <1>2, <2>1, <2>2, <2>3, <2>4, <2>5
<1>8. ASSUME AllOk(next)
      PROVE  /\ KeysAscend(known)
             /\ \A i \in 1..len :
                  /\ known[i].key \in DOMAIN b \cup DOMAIN s
                  /\ \/ Right(known[i], b, s)
                     \/ /\ i = len
                        /\ known[i].key \in DOMAIN b \cap DOMAIN s \cap KeysOf(q2)
                        /\ known[i].sm = b[known[i].key]
             /\ DOMAIN s \subseteq KeysOf(q2) \cup KeysOf(known)
             /\ \A k \in KeysOf(q2) : \A i \in 1..len : known[i].key <= k
             /\ DOMAIN b \subseteq KeysOf(q1) \cup KeysOf(known)
             /\ \A k \in KeysOf(q1) : \A i \in 1..len : known[i].key <= k
             /\ \A i \in 1..len : Settled(i, q1, q2, known, b, s)
             /\ \A i \in 1..len : known[i].key \in Nat /\ IsOk(known[i])
  <2>1. \A i \in 1..len : known[i].key \in Nat /\ IsOk(known[i])
      BY <1>1, <1>3, <1>7, <1>8, KeysAreNumbers DEF AllOk
  <2>2. AllOk(known) /\ AllOk(q1)
      BY <1>7, <1>8
  <2> QED BY <1>3, <1>5, <2>1, <2>2 DEF TrustOK, CompleteOK
<1>9. CASE len > 0 /\ CanMerge(known[len], r)
  <2>1. /\ next \in Seq(Item) /\ Len(next) = len /\ DOMAIN next = 1..len
        /\ IsOk(known[len]) /\ known[len].key = r.key
        /\ next[len] = [key |-> r.key, sm |-> Newer(known[len].sm, r.sm)]
        /\ \A i \in 1..(len - 1) : next[i] = known[i]
        /\ KeysOf(next) = KeysOf(known)
      BY <1>1, <1>2, <1>9, TakenIs
  <2>0. len \in Nat /\ len > 0
      BY <1>3, <1>9
  <2> HIDE DEF r, rest, next, len
  <2>2. /\ \A i \in 1..len : i \in 1..(len - 1) \/ i = len
        /\ \A i \in 1..(len - 1) : i \in 1..len /\ i # len
        /\ len \in 1..len
      BY <2>0
  <2>3. \A i \in 1..len : next[i].key = known[i].key
      BY <2>1, <2>2
  <2>5. r.key \in KeysOf(known)
      BY <1>3, <2>1, <2>2 DEF KeysOf
  <2>6. KeysAscend(known) /\ AllOk(known) => KeysAscend(next)
      BY <1>3, <2>1, <2>3 DEF KeysAscend, AllOk
  <2>7. ASSUME AllOk(next)
        PROVE  /\ r.key \notin KeysOf(q2) /\ r.key \in DOMAIN s
               /\ next[len].sm = Over(b, s)[r.key] /\ next[len].key = r.key
    <3>1. Settled(len, q1, q2, known, b, s) /\ r.key \in KeysOf(q1) /\ r.sm = b[r.key]
        BY <1>7, <1>8, <2>2, <2>7
    <3>2. /\ r.key \notin KeysOf(q2) /\ r.key \in DOMAIN s /\ known[len].sm = s[r.key]
          /\ Newer(s[r.key], b[r.key]) = Over(b, s)[r.key]
        BY <2>1, <3>1 DEF Settled
    <3> QED BY <2>1, <3>1, <3>2
  <2>8. TrustOK(q2, next, b, s)
    <3> SUFFICES ASSUME AllOk(next)
                 PROVE  /\ KeysAscend(next)
                        /\ \A i \in DOMAIN next : next[i].key \in DOMAIN b \cup DOMAIN s /\ Right(next[i], b, s)
                        /\ DOMAIN s \subseteq KeysOf(q2) \cup KeysOf(next)
                        /\ \A k \in KeysOf(q2) : \A i \in DOMAIN next : next[i].key <= k
        BY DEF TrustOK
    <3>1. ASSUME NEW i \in 1..len PROVE Right(next[i], b, s)
      <4>1. CASE i \in 1..(len - 1)
          BY <1>8, <2>1, <2>2, <4>1
      <4>2. CASE i = len
          BY <2>7, <4>2 DEF Right
      <4> QED BY <2>2, <4>1, <4>2
    <3> QED BY <1>7, <1>8, <2>1, <2>3, <2>6, <3>1
  <2>9. CompleteOK(rest, q2, next, b, s)
    <3> SUFFICES ASSUME AllOk(next)
                 PROVE  /\ DOMAIN b \subseteq KeysOf(rest) \cup KeysOf(next)
                        /\ \A k \in KeysOf(rest) : \A i \in DOMAIN next : next[i].key <= k
                        /\ \A i \in DOMAIN next : Settled(i, rest, q2, next, b, s)
        BY DEF CompleteOK
    <3>1. ASSUME NEW i \in 1..len PROVE Settled(i, rest, q2, next, b, s)
      <4>1. CASE i \in 1..(len - 1)
          BY <1>7, <1>8, <2>1, <2>2, <4>1 DEF Settled, len
      <4>2. CASE i = len
        <5>1. r.key \notin KeysOf(rest)
            BY <1>7
        <5> QED BY <2>7, <4>2, <5>1 DEF Settled
      <4> QED BY <2>2, <4>1, <4>2
    <3> QED BY <1>7, <1>8, <2>1, <2>3, <2>5, <3>1
  <2> QED BY <1>4, <2>1, <2>8, <2>9 DEF MergeOK, r, rest, next
<1>10. CASE ~(len > 0 /\ CanMerge(known[len], r))
  <2>1. /\ next \in Seq(Item) /\ Len(next) = len + 1 /\ DOMAIN next = 1..(len + 1)
        /\ next[len + 1] = r
        /\ \A i \in 1..len : next[i] = known[i]
        /\ KeysOf(next) = KeysOf(known) \cup (IF IsOk(r) THEN {r.key} ELSE {})
      BY <1>1, <1>2, <1>10, TakenIs
  <2>4. ASSUME AllOk(next)
        PROVE  /\ \A i \in 1..len : known[i].key < r.key
               /\ r.key \notin KeysOf(known)
    <3>1. \A i \in DOMAIN known : known[i].key <= r.key
        BY <1>3, <1>7, <1>8, <2>4
    <3>2. AllOk(known) /\ KeysAscend(known) /\ IsOk(r)
        BY <1>7, <1>8, <2>4
    <3>3. \A i \in DOMAIN known : known[i].key < r.key
        BY <1>1, <1>2, <1>10, <3>1, <3>2, FreshIsAbove
    <3>4. r.key \notin KeysOf(known)
        BY <1>1, <1>2, <1>10, <3>1, <3>2, FreshIsAbove
    <3> QED BY <1>3, <3>3, <3>4
  <2> HIDE DEF r, rest, next, len
  <2>2. /\ \A i \in 1..(len + 1) : i \in 1..len \/ i = len + 1
        /\ \A i \in 1..len : i \in 1..(len + 1) /\ i # len + 1 /\ i <= len
      BY <1>3
  <2>5. ASSUME AllOk(next), NEW i \in 1..len
        PROVE  known[i].key \notin KeysOf(q1) /\ known[i].key \notin KeysOf(q2)
      BY <1>3, <1>7, <1>8, <2>4, <2>5
  <2>6. TrustOK(q2, next, b, s)
    <3> SUFFICES ASSUME AllOk(next)
                 PROVE  /\ KeysAscend(next)
                        /\ \A i \in 1..(len + 1) :
                              /\ next[i].key \in DOMAIN b \cup DOMAIN s
                              /\ \/ Right(next[i], b, s)
                                 \/ /\ i = len + 1
                                    /\ next[i].key \in DOMAIN b \cap DOMAIN s \cap KeysOf(q2)
                                    /\ next[i].sm = b[next[i].key]
                        /\ DOMAIN s \subseteq KeysOf(q2) \cup KeysOf(next)
                        /\ \A k \in KeysOf(q2) : \A i \in 1..(len + 1) : next[i].key <= k
        BY <2>1 DEF TrustOK
    <3>1. KeysAscend(next)
      <4> SUFFICES ASSUME NEW i \in 1..(len + 1), NEW j \in 1..(len + 1), i < j
                   PROVE  next[i].key < next[j].key
          BY <2>1 DEF KeysAscend
      <4>1. i \in 1..len
          BY <1>3
      <4>2. CASE j \in 1..len
        <5>1. known[i].key < known[j].key
            BY <1>3, <1>8, <4>1, <4>2 DEF KeysAscend
        <5> QED BY <2>1, <4>1, <4>2, <5>1
      <4>3. CASE j = len + 1
          BY <2>1, <2>4, <4>1, <4>3
      <4> QED BY <2>2, <4>2, <4>3
    <3>2. ASSUME NEW i \in 1..len
          PROVE  next[i].key \in DOMAIN b \cup DOMAIN s /\ Right(next[i], b, s)
        BY <1>8, <2>1, <2>5
    <3>3. /\ next[len + 1].key \in DOMAIN b
          /\ \/ Right(next[len + 1], b, s)
             \/ /\ next[len + 1].key \in DOMAIN b \cap DOMAIN s \cap KeysOf(q2)
                /\ next[len + 1].sm = b[next[len + 1].key]
      <4>1. r.key \in DOMAIN b /\ r.sm = b[r.key] /\ next[len + 1] = r
          BY <1>7, <2>1
      <4>2. CASE r.key \in DOMAIN s
        <5>1. r.key \in KeysOf(q2)
            BY <1>8, <2>4, <4>2
        <5> QED BY <4>1, <4>2, <5>1
      <4>3. CASE r.key \notin DOMAIN s
          BY <4>1, <4>3, OverIs DEF Right
      <4> QED BY <4>2, <4>3
    <3>4. ASSUME NEW k \in KeysOf(q2), NEW i \in 1..(len + 1) PROVE next[i].key <= k
        BY <1>7, <1>8, <2>1, <2>2
    <3>5. ASSUME NEW i \in 1..(len + 1)
          PROVE  /\ next[i].key \in DOMAIN b \cup DOMAIN s
                 /\ \/ Right(next[i], b, s)
                    \/ /\ i = len + 1
                       /\ next[i].key \in DOMAIN b \cap DOMAIN s \cap KeysOf(q2)
                       /\ next[i].sm = b[next[i].key]
        BY <2>2, <3>2, <3>3
    <3>6. DOMAIN s \subseteq KeysOf(q2) \cup KeysOf(next)
        BY <1>8, <2>1
    <3> QED BY <3>1, <3>4, <3>5, <3>6
  <2>7. CompleteOK(rest, q2, next, b, s)
    <3> SUFFICES ASSUME AllOk(next)
                 PROVE  /\ DOMAIN b \subseteq KeysOf(rest) \cup KeysOf(next)
                        /\ \A k \in KeysOf(rest) : \A i \in DOMAIN next : next[i].key <= k
                        /\ \A i \in DOMAIN next : Settled(i, rest, q2, next, b, s)
        BY DEF CompleteOK
    <3>1. DOMAIN b \subseteq KeysOf(rest) \cup KeysOf(next)
        BY <1>7, <1>8, <2>1
    <3>2. ASSUME NEW k \in KeysOf(rest), NEW i \in 1..(len + 1) PROVE next[i].key <= k
      <4>1. k \in KeysOf(q1) /\ k \in Nat /\ r.key < k
          BY <1>3, <1>7
      <4> QED BY <1>7, <1>8, <2>1, <2>2, <4>1
    <3>3. ASSUME NEW i \in 1..len PROVE Settled(i, rest, q2, next, b, s)
      <4>1. known[i].key \notin KeysOf(rest)
          BY <1>7, <2>5
      <4>2. known[i].sm = Over(b, s)[known[i].key] /\ known[i].key \notin KeysOf(q2)
          BY <1>8, <2>5 DEF Settled
      <4> QED BY <2>1, <4>1, <4>2 DEF Settled
    <3>4. Settled(len + 1, rest, q2, next, b, s)
      <4>1. /\ r.key \notin KeysOf(rest) /\ next[len + 1] = r /\ Len(next) = len + 1
            /\ r.key \in DOMAIN b /\ r.sm = b[r.key]
          BY <1>7, <2>1
      <4>2. CASE r.key \in KeysOf(q2)
          BY <4>1, <4>2 DEF Settled
      <4>3. CASE r.key \notin KeysOf(q2)
        <5>1. r.key \notin DOMAIN s
            BY <1>8, <2>4, <4>3
        <5> QED BY <4>1, <4>3, <5>1, OverIs DEF Settled
      <4> QED BY <4>2, <4>3
    <3> QED BY <2>1, <2>2, <3>1, <3>2, <3>3, <3>4
  <2> QED BY <1>4, <2>1, <2>6, <2>7 DEF MergeOK, r, rest, next
<1> QED BY <1>9, <1>10

\* An error in the base's queue: it was not lost, but it is not known yet.
LEMMA BaseFails ==
    ASSUME NEW q1, NEW q2, NEW known, NEW b, NEW s, MergeOK(q1, q2, known, b, s),
           NEW skipped \in 0..Len(q1)
    PROVE  MergeOK(<<Failure>> \o SubSeq(q1, skipped + 1, Len(q1)), q2, known, b, s)
<1> DEFINE q == <<Failure>> \o SubSeq(q1, skipped + 1, Len(q1))
<1>1. /\ known \in Seq(Item) /\ TrustOK(q2, known, b, s)
      /\ Sources(b, s) /\ LeftOf(q1, b) /\ LeftOf(q2, s) /\ AllOk(q2) /\ ErrorsFirst(q1)
    BY DEF MergeOK, QueuesOK, ErrorsFirst
<1>2. LeftOf(q, b) /\ HasError(q) /\ ErrorsFirst(q)
    BY <1>1, FailedIs
<1> HIDE DEF q
<1>3. QueuesOK(q, q2, b, s)
    BY <1>1, <1>2 DEF QueuesOK, ErrorsFirst
<1>4. ~AllOk(q)
    BY <1>2 DEF AllOk, HasError
<1> QED BY <1>1, <1>3, <1>4 DEF MergeOK, CompleteOK, q

-----------------------------------------------------------------------------
(* What the call collects, and what has been given once both queues are     *)
(* empty.                                                                   *)

\* A range cut to the keys asked for is a source.
LEMMA CutIs ==
    ASSUME NEW t \in Tables, NEW asked, NEW upto \in Nat
    PROVE  LET found == RangeUpto(t, upto)
               source == Cut(found, asked)
           IN /\ DOMAIN source = {j \in DOMAIN found : Inside(asked, j)}
              /\ DOMAIN source \subseteq Keys /\ source \in [DOMAIN source -> SeqMarkeds]
              /\ \A k \in DOMAIN source : source[k] = found[k]
              /\ AsSequence(found, asked) = InOrder(EntriesOf(source))
<1> DEFINE found == RangeUpto(t, upto)
           source == Cut(found, asked)
<1>1. \A k \in DOMAIN found : k \in Keys /\ found[k] \in SeqMarkeds
    BY RangeEntry
<1> HIDE DEF found
<1>2. /\ DOMAIN source = {j \in DOMAIN found : Inside(asked, j)}
      /\ \A k \in DOMAIN source : source[k] = found[k]
      /\ source = [k \in DOMAIN source |-> source[k]]
    BY DEF Cut
<1> HIDE DEF source
<1>3. DOMAIN source \subseteq Keys /\ source \in [DOMAIN source -> SeqMarkeds]
    BY <1>1, <1>2
<1>4. EntriesOf(source)
         = {[key |-> k, sm |-> found[k]] : k \in {j \in DOMAIN found : Inside(asked, j)}}
    BY <1>2 DEF EntriesOf
<1> QED BY <1>2, <1>3, <1>4 DEF AsSequence, source, found

\* Two sources in order, nothing known yet: the merge starts well.
LEMMA MergeStarts ==
    ASSUME NEW b, NEW s, Sources(b, s)
    PROVE  MergeOK(InOrder(EntriesOf(b)), InOrder(EntriesOf(s)), << >>, b, s)
<1> DEFINE q1 == InOrder(EntriesOf(b))
           q2 == InOrder(EntriesOf(s))
<1>1. LeftOf(q1, b) /\ AllOk(q1) /\ DOMAIN b \subseteq KeysOf(q1)
    BY QueueOf, RangeStreamAssumption DEF Sources
<1>2. LeftOf(q2, s) /\ AllOk(q2) /\ DOMAIN s \subseteq KeysOf(q2)
    BY QueueOf, RangeStreamAssumption DEF Sources
<1> HIDE DEF q1, q2
<1>3. << >> \in Seq(Item) /\ DOMAIN << >> = {}
    OBVIOUS
<1>4. QueuesOK(q1, q2, b, s)
    BY <1>1, <1>2 DEF QueuesOK, AllOk
<1>5. TrustOK(q2, << >>, b, s)
    BY <1>2, <1>3 DEF TrustOK, KeysAscend
<1>6. CompleteOK(q1, q2, << >>, b, s)
    BY <1>1, <1>3 DEF CompleteOK
<1> QED BY <1>3, <1>4, <1>5, <1>6 DEF MergeOK, q1, q2

\* Both queues empty and no error met: what is known is both sources, merged.
LEMMA MergeEnds ==
    ASSUME NEW known, NEW b, NEW s, MergeOK(<< >>, << >>, known, b, s), AllOk(known)
    PROVE  known = InOrder(EntriesOf(Over(b, s)))
<1> DEFINE o == Over(b, s)
           E == EntriesOf(o)
<1>1. AllOk(<< >>) /\ KeysOf(<< >>) = {}
    BY DEF AllOk, KeysOf
<1>2. /\ known \in Seq(Item) /\ Sources(b, s)
      /\ KeysAscend(known)
      /\ DOMAIN s \subseteq KeysOf(known) /\ DOMAIN b \subseteq KeysOf(known)
      /\ \A i \in DOMAIN known : known[i].key \in DOMAIN b \cup DOMAIN s
      /\ \A i \in DOMAIN known : Settled(i, << >>, << >>, known, b, s)
    BY <1>1 DEF MergeOK, QueuesOK, TrustOK, CompleteOK
<1>3. \A i \in DOMAIN known : known[i].sm = o[known[i].key]
    BY <1>1, <1>2 DEF Settled
<1>4. /\ DOMAIN o = DOMAIN b \cup DOMAIN s /\ DOMAIN o \subseteq Keys
      /\ o \in [DOMAIN o -> SeqMarkeds]
  <2>1. DOMAIN o = DOMAIN b \cup DOMAIN s /\ o = [k \in DOMAIN o |-> o[k]]
      BY DEF Over
  <2>2. ASSUME NEW k \in DOMAIN b \cup DOMAIN s PROVE o[k] \in SeqMarkeds
    <3>1. k \in DOMAIN b => b[k] \in SeqMarkeds
        BY <1>2 DEF Sources
    <3>2. k \in DOMAIN s => s[k] \in SeqMarkeds
        BY <1>2 DEF Sources
    <3>3. o[k] \in {b[k], s[k]} /\ (k \notin DOMAIN s => o[k] = b[k]) /\ (k \notin DOMAIN b => o[k] = s[k])
        BY OverIs, NewerIs
    <3> QED BY <3>1, <3>2, <3>3
  <2> HIDE DEF o
  <2> QED BY <1>2, <2>1, <2>2 DEF Sources
<1> HIDE DEF o
<1>5. Chain(E) /\ E \subseteq [key : Keys, sm : SeqMarkeds]
    BY <1>4, EntriesChain, RangeStreamAssumption
<1>6. ASSUME NEW i \in DOMAIN known PROVE known[i] \in E /\ IsOk(known[i])
  <2>1. known[i] \in Item /\ IsOk(known[i])
      BY <1>2 DEF AllOk
  <2>2. known[i] = [key |-> known[i].key, sm |-> known[i].sm]
      BY <2>1, ItemIs
  <2>3. known[i].key \in DOMAIN o /\ known[i].sm = o[known[i].key]
      BY <1>2, <1>3, <1>4
  <2> QED BY <2>1, <2>2, <2>3 DEF EntriesOf
<1>7. ASSUME NEW e \in E PROVE \E i \in DOMAIN known : known[i] = e
  <2>1. PICK k \in DOMAIN o : e = [key |-> k, sm |-> o[k]]
      BY DEF EntriesOf
  <2>2. k \in KeysOf(known)
      BY <1>2, <1>4, <2>1
  <2>3. PICK i \in DOMAIN known : k = known[i].key
      BY <2>2 DEF KeysOf
  <2>4. known[i] \in [key : Keys, sm : SeqMarkeds]
      BY <1>5, <1>6
  <2>5. known[i] = [key |-> known[i].key, sm |-> known[i].sm]
      BY <2>4
  <2> QED BY <1>3, <2>1, <2>3, <2>5
<1>8. known \in Seq(E)
    BY <1>2, <1>6
<1>9. Ascending(known)
    BY <1>2, <1>6 DEF Ascending, KeysAscend, Before
<1> HIDE DEF E
<1>10. known = InOrder(E)
    BY <1>5, <1>7, <1>8, <1>9, AscendingIsInOrder
<1> QED BY <1>10 DEF E, o

-----------------------------------------------------------------------------
(* What a consumer may trust of what it knows.                              *)

\* The i-th item is in order, it is right, and no staged entry below it is missing.
Good(i, known, b, s) ==
    LET k == known[i].key
    IN /\ i > 1 => known[i - 1].key < k
       /\ k \in DOMAIN b \cup DOMAIN s /\ Right(known[i], b, s)
       /\ \A j \in DOMAIN s : j < k => \E h \in 1..i : known[h].key = j

TrustedOK(known, b, s) ==
    \A i \in 1..(Len(known) - 1) :
        (\A j \in 1..(i + 1) : IsOk(known[j])) => Good(i, known, b, s)

\* Before any error is known all items are so, but the last one while staged
\* entries are left.
LEMMA AllGood ==
    ASSUME NEW known \in Seq(Item), AllOk(known), NEW b, NEW s, Sources(b, s),
           NEW q2, LeftOf(q2, s), TrustOK(q2, known, b, s),
           NEW i \in DOMAIN known, i < Len(known) \/ q2 = << >>
    PROVE  Good(i, known, b, s)
<1> DEFINE len == Len(known)
           k == known[i].key
<1>1. /\ len \in Nat /\ DOMAIN known = 1..len /\ q2 \in Seq(Item)
      /\ i \in Nat /\ i > 0 /\ i <= len
    BY DEF LeftOf
<1>2. \A j \in 1..len : IsOk(known[j]) /\ known[j].key \in Nat
    BY <1>1, KeysAreNumbers DEF AllOk
<1>3. KeysOf(q2) \subseteq Nat /\ (q2 = << >> => KeysOf(q2) = {})
  <2>1. KeysOf(q2) \subseteq Nat
      BY <1>1, KeysAreNumbers
  <2>2. q2 = << >> => KeysOf(q2) = {}
      BY DEF KeysOf
  <2> QED BY <2>1, <2>2
<1>4. /\ KeysAscend(known)
      /\ k \in DOMAIN b \cup DOMAIN s
      /\ \/ Right(known[i], b, s)
         \/ i = len /\ k \in KeysOf(q2)
      /\ DOMAIN s \subseteq KeysOf(q2) \cup KeysOf(known)
      /\ \A x \in KeysOf(q2) : k <= x
    BY DEF TrustOK
<1> HIDE DEF len
<1>5. Right(known[i], b, s)
    BY <1>1, <1>3, <1>4 DEF len
<1>6. \A h, j \in 1..len : h < j => known[h].key < known[j].key
    BY <1>1, <1>2, <1>4 DEF KeysAscend
<1>7. i > 1 => known[i - 1].key < k
  <2>1. i > 1 => i - 1 \in 1..len /\ i - 1 < i
      BY <1>1
  <2> QED BY <1>1, <1>6, <2>1
<1>8. ASSUME NEW j \in DOMAIN s, j < k PROVE \E h \in 1..i : known[h].key = j
  <2>1. j \in Nat /\ k \in Nat
      BY <1>1, <1>2, RangeIterAssumption DEF Sources
  <2>2. j \in KeysOf(known)
      BY <1>3, <1>4, <1>8, <2>1
  <2>3. PICK h \in 1..len : known[h].key = j
      BY <1>1, <2>2 DEF KeysOf
  <2>4. ~(i < h)
      BY <1>1, <1>6, <1>8, <2>1, <2>3
  <2>5. h \in 1..i
      BY <1>1, <2>4
  <2> QED BY <2>3, <2>5
<1> QED BY <1>4, <1>5, <1>7, <1>8 DEF Good

\* And items known before an error stay so: nothing is merged into them any more.
LEMMA TrustGrows ==
    ASSUME NEW known \in Seq(Item), NEW r \in Item, NEW q1, NEW q2, NEW b, NEW s,
           TrustedOK(known, b, s), MergeOK(q1, q2, Taken(known, r), b, s)
    PROVE  TrustedOK(Taken(known, r), b, s)
<1> DEFINE next == Taken(known, r)
           len == Len(known)
<1> SUFFICES ASSUME NEW i \in 1..(Len(next) - 1), \A j \in 1..(i + 1) : IsOk(next[j])
             PROVE  Good(i, next, b, s)
    BY DEF TrustedOK
<1>1. /\ len \in Nat /\ DOMAIN known = 1..len
      /\ next \in Seq(Item) /\ Len(next) \in Nat /\ DOMAIN next = 1..Len(next)
      /\ Sources(b, s) /\ LeftOf(q2, s) /\ TrustOK(q2, next, b, s)
    BY DEF MergeOK, QueuesOK
<1>2. /\ i \in Nat /\ i > 0 /\ i + 1 <= Len(next) /\ i \in DOMAIN next /\ i < Len(next)
    BY <1>1
<1>3. CASE AllOk(next)
    BY <1>1, <1>2, <1>3, AllGood
<1>4. CASE ~AllOk(next)
  <2>1. PICK m \in DOMAIN next : ~IsOk(next[m])
      BY <1>4 DEF AllOk
  <2>2. i + 1 < m /\ m \in Nat
      BY <1>1, <1>2, <2>1
  <2>3. i + 1 <= len /\ \A j \in 1..(i + 1) : next[j] = known[j]
    <3>1. CASE len > 0 /\ CanMerge(known[len], r)
      <4>1. /\ Len(next) = len /\ IsOk(next[len])
            /\ \A j \in 1..(len - 1) : next[j] = known[j]
          BY <3>1, TakenIs
      <4> HIDE DEF next, len
      <4>2. m # len
          BY <2>1, <4>1
      <4>3. i + 1 < len
          BY <1>1, <2>1, <2>2, <4>1, <4>2
      <4> QED BY <1>1, <1>2, <4>1, <4>3
    <3>2. CASE ~(len > 0 /\ CanMerge(known[len], r))
      <4>1. Len(next) = len + 1 /\ \A j \in 1..len : next[j] = known[j]
          BY <3>2, TakenIs
      <4> HIDE DEF next, len
      <4>2. i + 1 <= len
          BY <1>1, <1>2, <2>1, <2>2, <4>1
      <4> QED BY <1>1, <1>2, <4>1, <4>2
    <3> QED BY <3>1, <3>2
  <2> HIDE DEF next, len
  <2>4. i \in 1..(len - 1)
      BY <1>1, <1>2, <2>3
  <2>5. \A j \in 1..(i + 1) : IsOk(known[j])
      BY <2>3
  <2>6. Good(i, known, b, s)
      BY <2>4, <2>5 DEF TrustedOK, len
  <2>7. /\ next[i] = known[i] /\ (i > 1 => next[i - 1] = known[i - 1])
        /\ \A h \in 1..i : next[h] = known[h]
    <3>1. /\ i \in 1..(i + 1) /\ (i > 1 => i - 1 \in 1..(i + 1))
          /\ \A h \in 1..i : h \in 1..(i + 1)
        BY <1>2
    <3> QED BY <2>3, <3>1
  <2> QED BY <2>6, <2>7 DEF Good, next
<1> QED BY <1>3, <1>4

-----------------------------------------------------------------------------
(* The inductive invariant.  Once the call has opened both streams, the     *)
(* merge invariant holds of what they have left and what the consumer knows.*)

Known == yielded \o held

BaseInside   == Cut(RangeUpto(table, opened.snapshot_seq), range)
StagedInside == Cut(RangeUpto(opened.changes, opened.last_seq), range)

CallOK ==
    /\ InMemory(table) /\ view \in Views
    /\ opened \in Views /\ InMemory(opened.changes)
    /\ range \in Ranges
    /\ phase \in {"idle", "open", "refused", "panicked", "done"}
    /\ failures \in 0..MaxFailures
    /\ queues = <<queues[1], queues[2]>>
    /\ queues[1] \in Seq(Item) /\ queues[2] \in Seq(Item)
    /\ held \in Seq(Item) /\ Len(held) <= 1
    /\ yielded \in Seq(Item)

PhaseOK ==
    /\ phase = "idle" => opened = view
    /\ phase # "done" /\ held = << >> => yielded = << >>
    /\ phase \in {"idle", "refused"} \/ OpenPanics(range) => Known = << >>
    /\ phase \in {"open", "done"} => ~OpenPanics(range)
    /\ phase = "panicked" => OpenPanics(range) \/ RangePanics(table, opened)
    /\ phase = "done" => held = << >> /\ queues[1] = << >> /\ queues[2] = << >>

MergeInv ==
    phase \in {"open", "panicked", "done"} /\ ~OpenPanics(range) =>
        /\ MergeOK(queues[1], queues[2], Known, BaseInside, StagedInside)
        /\ TrustedOK(Known, BaseInside, StagedInside)

StreamInv == CallOK /\ PhaseOK /\ MergeInv

\* The ranges asked for are ranges.
LEMMA RangesAre ==
    ASSUME NEW asked \in Ranges
    PROVE  IsRange(asked)
BY RangeStreamAssumption DEF IsRange

\* Both sources of the call.
LEMMA SourcesAre ==
    ASSUME CallOK
    PROVE  /\ Sources(BaseInside, StagedInside)
           /\ Collect(table, range, opened.snapshot_seq) = InOrder(EntriesOf(BaseInside))
           /\ Collect(opened.changes, range, opened.last_seq) = InOrder(EntriesOf(StagedInside))
           /\ DOMAIN BaseInside = {k \in DOMAIN RangeUpto(table, opened.snapshot_seq) : Inside(range, k)}
           /\ DOMAIN StagedInside = {k \in DOMAIN RangeUpto(opened.changes, opened.last_seq) : Inside(range, k)}
           /\ \A k \in DOMAIN BaseInside : BaseInside[k] = RangeUpto(table, opened.snapshot_seq)[k]
           /\ \A k \in DOMAIN StagedInside : StagedInside[k] = RangeUpto(opened.changes, opened.last_seq)[k]
<1>1. /\ InMemory(table) /\ InMemory(opened.changes) /\ IsRange(range)
      /\ table \in Tables /\ opened.changes \in Tables
      /\ opened.snapshot_seq \in Nat /\ opened.last_seq \in Nat
    BY RangesAre DEF CallOK, Views, InMemory
<1>2. Collect(table, range, opened.snapshot_seq)
        = AsSequence(RangeUpto(table, opened.snapshot_seq), range)
    BY <1>1, CollectIs
<1>3. Collect(opened.changes, range, opened.last_seq)
        = AsSequence(RangeUpto(opened.changes, opened.last_seq), range)
    BY <1>1, CollectIs
<1>4. LET found == RangeUpto(table, opened.snapshot_seq)
          source == BaseInside
      IN /\ DOMAIN source = {j \in DOMAIN found : Inside(range, j)}
         /\ DOMAIN source \subseteq Keys /\ source \in [DOMAIN source -> SeqMarkeds]
         /\ \A k \in DOMAIN source : source[k] = found[k]
         /\ AsSequence(found, range) = InOrder(EntriesOf(source))
    BY <1>1, CutIs DEF BaseInside
<1>5. LET found == RangeUpto(opened.changes, opened.last_seq)
          source == StagedInside
      IN /\ DOMAIN source = {j \in DOMAIN found : Inside(range, j)}
         /\ DOMAIN source \subseteq Keys /\ source \in [DOMAIN source -> SeqMarkeds]
         /\ \A k \in DOMAIN source : source[k] = found[k]
         /\ AsSequence(found, range) = InOrder(EntriesOf(source))
    BY <1>1, CutIs DEF StagedInside
<1> QED BY <1>2, <1>3, <1>4, <1>5 DEF Sources

-----------------------------------------------------------------------------
(* It holds at the start.                                                   *)

\* A table of such versions is one in memory.
LEMMA HeldInMemory ==
    ASSUME NEW inner \in [Keys -> BaseVersions \cup StagedVersions], NEW seq \in Nat
    PROVE  InMemory([inner |-> inner, last_seq |-> OrderKey(NewTombstone(seq))])
<1> DEFINE last == OrderKey(NewTombstone(seq))
           t == [inner |-> inner, last_seq |-> last]
<1>1. last \in OrderKeys
    BY DEF OrderKey, NewTombstone, OrderKeys, Marks
<1>2. \A k \in Keys : inner[k] \in BaseVersions \cup StagedVersions
    OBVIOUS
<1>3. ASSUME NEW k \in Keys
      PROVE  /\ inner[k] \in SUBSET SeqMarkeds /\ IsFiniteSet(inner[k])
             /\ \A m \in inner[k] : m.seq <= MaxU64
             /\ \A m, n \in inner[k] : SameOrder(m, n) => m = n
  <2>1. /\ IsFiniteSet(inner[k])
        /\ \A m \in inner[k] : m \in SeqMarkeds /\ m.seq <= MaxSeq
        /\ \A m, n \in inner[k] : SameOrder(m, n) => m = n
      BY <1>2, RangeStreamAssumption
  <2>2. \A m \in inner[k] : m.seq \in Nat
      BY <2>1, SeqMarkedFields
  <2>3. MaxSeq \in Nat /\ MaxSeq <= MaxU64 /\ MaxU64 \in Nat
      BY RangeStreamAssumption, RangeIterAssumption
  <2> QED BY <2>1, <2>2, <2>3
<1>4. inner \in [Keys -> SUBSET SeqMarkeds]
    BY <1>3
<1> HIDE DEF last
<1>5. t \in Tables
    BY <1>1, <1>4 DEF Tables
<1>6. IsFiniteSet(Keys)
    BY RangeStreamAssumption
<1>7. t.inner = inner
    OBVIOUS
<1> HIDE DEF t
<1> QED BY <1>3, <1>5, <1>6, <1>7 DEF InMemory, Unique, t, last

\* The sequences of staged versions have a greatest one.
LEMMA StagedSeqIs ==
    ASSUME NEW staged \in [Keys -> StagedVersions]
    PROVE  /\ StagedSeq(staged) \in Nat
           /\ \A k \in Keys : \A m \in staged[k] : m.seq <= StagedSeq(staged)
<1> DEFINE seqs == {m.seq : m \in UNION {staged[k] : k \in Keys}} \cup {SnapshotSeq}
           gaps == {MaxSeq - s : s \in seqs}
<1>1. MaxSeq \in Nat /\ SnapshotSeq \in 0..MaxSeq
    BY RangeStreamAssumption, RangeIterAssumption
<1>2. ASSUME NEW s \in seqs PROVE s \in Nat /\ s <= MaxSeq
  <2>1. CASE s = SnapshotSeq
      BY <1>1, <2>1
  <2>2. CASE s # SnapshotSeq
    <3>1. PICK k \in Keys : \E m \in staged[k] : s = m.seq
        BY <2>2
    <3>0. PICK m \in staged[k] : s = m.seq
        BY <3>1
    <3>2. staged[k] \in StagedVersions
        OBVIOUS
    <3>3. m \in SeqMarkeds /\ m.seq <= MaxSeq
        BY <3>0, <3>2, RangeStreamAssumption
    <3> QED BY <3>0, <3>3, SeqMarkedFields
  <2> QED BY <2>1, <2>2
<1>3. SnapshotSeq \in seqs
    OBVIOUS
<1>0. StagedSeq(staged) = CHOOSE s \in seqs : \A r \in seqs : r <= s
    BY DEF StagedSeq
<1>9. \A k \in Keys : \A m \in staged[k] : m.seq \in seqs
    OBVIOUS
<1> HIDE DEF seqs
<1>4. gaps \subseteq Nat /\ gaps # {}
    BY <1>1, <1>2, <1>3
<1>5. PICK g \in gaps : \A h \in gaps : g <= h
    BY <1>4, NonemptyNatSetHasMin
<1>6. PICK s \in seqs : g = MaxSeq - s
    OBVIOUS
<1>7. ASSUME NEW r \in seqs PROVE r <= s
  <2>1. MaxSeq - s <= MaxSeq - r
      BY <1>5, <1>6
  <2> QED BY <1>1, <1>2, <2>1
<1>8. /\ (CHOOSE x \in seqs : \A r \in seqs : r <= x) \in seqs
      /\ \A r \in seqs : r <= (CHOOSE x \in seqs : \A y \in seqs : y <= x)
    BY <1>7
<1> QED BY <1>0, <1>2, <1>8, <1>9

\* Before the call: the base table holds versions in order, the view was staged over
\* it by writes, and no queue is filled yet.
LEMMA StreamInit == Init => StreamInv
<1> SUFFICES ASSUME Init PROVE StreamInv
    OBVIOUS
<1>1. /\ range \in Ranges /\ opened = view /\ phase = "idle"
      /\ queues = << << >>, << >> >> /\ failures = 0 /\ held = << >> /\ yielded = << >>
    BY DEF Init
<1>2. InMemory(table)
  <2>1. PICK inner \in [Keys -> BaseVersions] :
            table = [inner |-> inner, last_seq |-> OrderKey(NewTombstone(MaxSeq))]
      BY DEF Init
  <2>2. inner \in [Keys -> BaseVersions \cup StagedVersions] /\ MaxSeq \in Nat
      BY RangeStreamAssumption, RangeIterAssumption
  <2> QED BY <2>1, <2>2, HeldInMemory
<1>3. view \in Views /\ InMemory(view.changes)
  <2>1. PICK staged \in [Keys -> StagedVersions] :
          view = [NewView(SnapshotSeq, StagedSeq(staged), FALSE) EXCEPT
                    !.changes = [inner    |-> staged,
                                 last_seq |-> OrderKey(NewTombstone(StagedSeq(staged)))]]
      BY DEF Init
  <2> DEFINE changes == [inner    |-> staged,
                         last_seq |-> OrderKey(NewTombstone(StagedSeq(staged)))]
  <2>2. staged \in [Keys -> BaseVersions \cup StagedVersions] /\ StagedSeq(staged) \in Nat
      BY StagedSeqIs
  <2>3. InMemory(changes)
      BY <2>2, HeldInMemory
  <2> HIDE DEF changes
  <2>4. /\ view = [increase_seq_for_tombstone |-> FALSE, changes |-> changes,
                   last_seq |-> StagedSeq(staged), snapshot_seq |-> SnapshotSeq]
      BY <2>1 DEF NewView, changes
  <2>5. SnapshotSeq \in Nat /\ changes \in Tables
      BY <2>3, RangeStreamAssumption, RangeIterAssumption DEF InMemory
  <2> QED BY <2>2, <2>3, <2>4, <2>5 DEF Views
<1>4. << >> \in Seq(Item) /\ Len(<< >>) = 0
    OBVIOUS
<1>5. CallOK
    BY <1>1, <1>2, <1>3, <1>4, RangeStreamAssumption DEF CallOK
<1>6. PhaseOK
    BY <1>1 DEF PhaseOK, Known
<1>7. MergeInv
    BY <1>1 DEF MergeInv
<1> QED BY <1>5, <1>6, <1>7 DEF StreamInv

-----------------------------------------------------------------------------
(* Every step keeps it.                                                     *)

\* `View::range` fills its queues with the items of both tables, and from those the
\* merge starts; an interval `BTreeMap::range` refuses opens none.
LEMMA OpenKeeps == StreamInv /\ Open => StreamInv'
<1> SUFFICES ASSUME StreamInv, Open PROVE StreamInv'
    OBVIOUS
<1>1. /\ phase = "idle" /\ opened = view /\ opened' = opened
      /\ UNCHANGED <<table, view, range, failures, held, yielded>> /\ Known' = Known
      /\ Known = << >> /\ CallOK /\ PhaseOK
    BY DEF StreamInv, PhaseOK, Open, Known
<1>2. BaseInside' = BaseInside /\ StagedInside' = StagedInside
    BY <1>1 DEF BaseInside, StagedInside
<1>3. CASE OpenPanics(range)
  <2>1. phase' = "panicked" /\ queues' = queues
      BY <1>3 DEF Open
  <2>2. CallOK'
      BY <1>1, <2>1 DEF CallOK
  <2>3. PhaseOK'
      BY <1>1, <1>3, <2>1 DEF PhaseOK
  <2>4. MergeInv'
      BY <1>1, <1>3 DEF MergeInv
  <2> QED BY <2>2, <2>3, <2>4 DEF StreamInv
<1>4. CASE ~OpenPanics(range)
  <2>1. /\ phase' = "open"
        /\ queues' = <<Collect(table, range, view.snapshot_seq),
                       Collect(view.changes, range, view.last_seq)>>
      BY <1>4 DEF Open
  <2>2. /\ queues'[1] = InOrder(EntriesOf(BaseInside))
        /\ queues'[2] = InOrder(EntriesOf(StagedInside))
        /\ queues' = <<queues'[1], queues'[2]>>
        /\ Sources(BaseInside, StagedInside)
      BY <1>1, <2>1, SourcesAre
  <2>3. MergeOK(queues'[1], queues'[2], << >>, BaseInside, StagedInside)
      BY <2>2, MergeStarts
  <2>4. queues'[1] \in Seq(Item) /\ queues'[2] \in Seq(Item)
      BY <2>3 DEF MergeOK, QueuesOK, LeftOf
  <2>5. CallOK'
      BY <1>1, <2>1, <2>2, <2>4 DEF CallOK
  <2>6. PhaseOK'
      BY <1>1, <1>4, <2>1 DEF PhaseOK
  <2>7. TrustedOK(<< >>, BaseInside, StagedInside)
      BY DEF TrustedOK
  <2>8. MergeInv'
      BY <1>1, <1>2, <2>3, <2>7 DEF MergeInv
  <2> QED BY <2>5, <2>6, <2>8 DEF StreamInv
<1> QED BY <1>3, <1>4

\* A `range_at_seq` that fails at once leaves no stream to speak of.
LEMMA RefuseKeeps == StreamInv /\ Refuse => StreamInv'
<1> SUFFICES ASSUME StreamInv, Refuse PROVE StreamInv'
    OBVIOUS
<1>1. /\ phase = "idle" /\ phase' = "refused" /\ opened = view /\ opened' = opened
      /\ UNCHANGED <<table, view, range, queues, failures, held, yielded>> /\ Known' = Known
      /\ CallOK /\ PhaseOK
    BY DEF StreamInv, PhaseOK, Refuse, Known
<1>2. CallOK'
    BY <1>1 DEF CallOK
<1>3. PhaseOK'
    BY <1>1 DEF PhaseOK
<1>4. MergeInv'
    BY <1>1 DEF MergeInv
<1> QED BY <1>2, <1>3, <1>4 DEF StreamInv

\* An error put before the base queue, with any number of records behind it skipped,
\* leaves the queue ascending; the merge is trusted only up to that error.
LEMMA FailKeeps ==
    ASSUME StreamInv, NEW skipped \in 0..Len(queues[1]), Fail(skipped)
    PROVE  StreamInv'
<1> DEFINE q == <<Failure>> \o SubSeq(queues[1], skipped + 1, Len(queues[1]))
<1>1. /\ phase = "open" /\ phase' = phase /\ failures < MaxFailures /\ failures' = failures + 1
      /\ UNCHANGED <<table, view, range, opened, held, yielded>> /\ Known' = Known
      /\ CallOK /\ PhaseOK /\ MergeInv /\ ~OpenPanics(range)
    BY DEF StreamInv, PhaseOK, Fail, Known
<1>2. BaseInside' = BaseInside /\ StagedInside' = StagedInside
    BY <1>1 DEF BaseInside, StagedInside
<1>3. /\ MergeOK(queues[1], queues[2], Known, BaseInside, StagedInside)
      /\ TrustedOK(Known, BaseInside, StagedInside)
    BY <1>1 DEF MergeInv
<1>4. queues' = <<q, queues[2]>>
  <2>1. queues = <<queues[1], queues[2]>>
      BY <1>1 DEF CallOK
  <2>2. queues' = [queues EXCEPT ![1] = q]
      BY DEF Fail
  <2> HIDE DEF q
  <2> QED BY <2>1, <2>2
<1>5. MergeOK(q, queues[2], Known, BaseInside, StagedInside)
    BY <1>3, BaseFails
<1> HIDE DEF q
<1>6. queues'[1] = q /\ queues'[2] = queues[2]
    BY <1>4
<1>7. q \in Seq(Item)
    BY <1>5 DEF MergeOK, QueuesOK, LeftOf
<1>8. CallOK'
  <2>1. failures' \in 0..MaxFailures
      BY <1>1, RangeStreamAssumption DEF CallOK
  <2> QED BY <1>1, <1>4, <1>6, <1>7, <2>1 DEF CallOK
<1>9. PhaseOK'
    BY <1>1 DEF PhaseOK
<1>10. MergeInv'
    BY <1>1, <1>2, <1>3, <1>5, <1>6 DEF MergeInv
<1> QED BY <1>8, <1>9, <1>10 DEF StreamInv

\* One `poll_next` of the merge takes the lesser head and keeps the output ascending.
LEMMA TakeKeeps ==
    ASSUME StreamInv, NEW i \in DOMAIN queues, Take(i)
    PROVE  StreamInv'
<1> DEFINE r == Head(queues[i])
           left == [j \in {1, 2} |-> IF j = i THEN Tail(queues[j]) ELSE queues[j]]
<1>1. /\ phase = "open" /\ phase' = phase
      /\ ~HeadsClash(queues) /\ GoesFirst(queues, i)
      /\ UNCHANGED <<table, view, range, opened, failures>>
      /\ held' = HeldAfter(held, r) /\ yielded' = yielded \o GivenOut(held, r)
      /\ CallOK /\ PhaseOK /\ MergeInv /\ ~OpenPanics(range)
    BY DEF StreamInv, PhaseOK, Take
<1>2. BaseInside' = BaseInside /\ StagedInside' = StagedInside
    BY <1>1 DEF BaseInside, StagedInside
<1>3. /\ MergeOK(queues[1], queues[2], Known, BaseInside, StagedInside)
      /\ TrustedOK(Known, BaseInside, StagedInside)
    BY <1>1 DEF MergeInv
<1>4. /\ queues = <<queues[1], queues[2]>> /\ DOMAIN queues = {1, 2} /\ i \in {1, 2}
      /\ queues[1] \in Seq(Item) /\ queues[2] \in Seq(Item)
      /\ held \in Seq(Item) /\ Len(held) <= 1 /\ yielded \in Seq(Item)
      /\ held = << >> => yielded = << >>
  <2>1. /\ queues = <<queues[1], queues[2]>>
        /\ queues[1] \in Seq(Item) /\ queues[2] \in Seq(Item)
        /\ held \in Seq(Item) /\ Len(held) <= 1 /\ yielded \in Seq(Item)
        /\ held = << >> => yielded = << >>
      BY <1>1 DEF CallOK, PhaseOK
  <2>2. DOMAIN queues = {1, 2}
      BY <2>1
  <2> QED BY <2>1, <2>2
<1>5. queues' = <<left[1], left[2]>> /\ queues'[1] = left[1] /\ queues'[2] = left[2]
  <2>1. queues' = [queues EXCEPT ![i] = Tail(queues[i])]
      BY DEF Take
  <2> QED BY <1>4, <2>1
<1>6. /\ queues[i] # << >> /\ r \in Item
      /\ \A j \in {1, 2} : j # i /\ queues[j] # << >> =>
            PlacedBefore(r, Head(queues[j])) /\ ~Clash(Head(queues[j]), r)
  <2>1. /\ i \in Heads(queues)
        /\ \A j \in Heads(queues) \ {i} : PlacedBefore(r, Head(queues[j]))
    <3>1. i \in Heads(queues)
        BY <1>1 DEF GoesFirst
    <3>2. \A j \in Heads(queues) : Head(queues[j]) \in Item
        BY <1>4 DEF Heads
    <3> QED BY <1>1, <3>1, <3>2, GoesFirstIs
  <2>2. queues[i] # << >> /\ Heads(queues) = {j \in {1, 2} : queues[j] # << >>}
      BY <1>4, <2>1 DEF Heads
  <2>3. \A j \in {1, 2} : j # i /\ queues[j] # << >> => ~Clash(Head(queues[j]), r)
      BY <1>1, <2>1, <2>2 DEF HeadsClash
  <2>4. r \in Item
      BY <1>4, <2>2
  <2> QED BY <2>1, <2>2, <2>3, <2>4
<1>7. /\ Known' = Taken(Known, r) /\ yielded' \in Seq(Item)
      /\ held' \in Seq(Item) /\ Len(held') = 1 /\ held' # << >>
  <2>1. /\ (yielded \o GivenOut(held, r)) \o HeldAfter(held, r) = Taken(yielded \o held, r)
        /\ yielded \o GivenOut(held, r) \in Seq(Item)
        /\ HeldAfter(held, r) \in Seq(Item) /\ Len(HeldAfter(held, r)) = 1
      BY <1>4, <1>6, TakenKnown
  <2>2. HeldAfter(held, r) # << >>
      BY DEF HeldAfter
  <2> HIDE DEF r
  <2> QED BY <1>1, <2>1, <2>2 DEF Known
<1>8. MergeOK(left[1], left[2], Taken(Known, r), BaseInside, StagedInside)
  <2>1. CASE i = 1
    <3>1. left[1] = Tail(queues[1]) /\ left[2] = queues[2] /\ r = Head(queues[1])
        BY <2>1
    <3>2. queues[1] # << >> /\ (queues[2] # << >> => PlacedBefore(Head(queues[1]), Head(queues[2])))
        BY <1>6, <2>1
    <3> QED BY <1>3, <3>1, <3>2, TakeBase
  <2>2. CASE i = 2
    <3>1. left[1] = queues[1] /\ left[2] = Tail(queues[2]) /\ r = Head(queues[2])
        BY <2>2
    <3>2. /\ queues[2] # << >>
          /\ queues[1] # << >> => /\ PlacedBefore(Head(queues[2]), Head(queues[1]))
                                  /\ ~Clash(Head(queues[1]), Head(queues[2]))
        BY <1>6, <2>2
    <3> QED BY <1>3, <3>1, <3>2, TakeStaged
  <2> QED BY <1>4, <2>1, <2>2
<1> HIDE DEF r, left
<1>9. TrustedOK(Taken(Known, r), BaseInside, StagedInside)
  <2>1. Known \in Seq(Item)
      BY <1>3 DEF MergeOK
  <2> QED BY <1>3, <1>6, <1>8, <2>1, TrustGrows
<1>10. CallOK'
  <2>1. left[1] \in Seq(Item) /\ left[2] \in Seq(Item)
      BY <1>8 DEF MergeOK, QueuesOK, LeftOf
  <2>2. Len(held') <= 1
      BY <1>7
  <2> QED BY <1>1, <1>5, <1>7, <2>1, <2>2 DEF CallOK
<1>11. PhaseOK'
    BY <1>1, <1>7 DEF PhaseOK
<1>12. MergeInv'
    BY <1>1, <1>2, <1>5, <1>7, <1>8, <1>9 DEF MergeInv
<1> QED BY <1>10, <1>11, <1>12 DEF StreamInv

\* The assertion is tripped only by a key both sources have at one order key.
LEMMA PanicKeeps == StreamInv /\ Panic => StreamInv'
<1> SUFFICES ASSUME StreamInv, Panic PROVE StreamInv'
    OBVIOUS
<1>1. /\ phase = "open" /\ phase' = "panicked" /\ HeadsClash(queues)
      /\ UNCHANGED <<table, view, range, opened, queues, failures, held, yielded>> /\ Known' = Known
      /\ CallOK /\ PhaseOK /\ MergeInv /\ ~OpenPanics(range)
    BY DEF StreamInv, PhaseOK, Panic, Known
<1>2. BaseInside' = BaseInside /\ StagedInside' = StagedInside
    BY <1>1 DEF BaseInside, StagedInside
<1>3. /\ MergeOK(queues[1], queues[2], Known, BaseInside, StagedInside)
      /\ TrustedOK(Known, BaseInside, StagedInside)
    BY <1>1 DEF MergeInv
<1>4. RangePanics(table, opened)
  <2> DEFINE h1 == Head(queues[1])
             h2 == Head(queues[2])
  <2>1. queues = <<queues[1], queues[2]>> /\ DOMAIN queues = {1, 2}
    <3>1. queues = <<queues[1], queues[2]>>
        BY <1>1 DEF CallOK
    <3> QED BY <3>1
  <2>2. queues[1] # << >> /\ queues[2] # << >> /\ (Clash(h1, h2) \/ Clash(h2, h1))
      BY <1>1, <2>1 DEF HeadsClash, Heads
  <2>3. /\ IsOk(h1) /\ IsOk(h2) /\ h1.key = h2.key
        /\ SameOrder(h1.sm, h2.sm) /\ h1.sm.mark = Normal
      BY <2>2 DEF Clash, SameOrder
  <2>4. LeftOf(queues[1], BaseInside) /\ LeftOf(queues[2], StagedInside)
      BY <1>3 DEF MergeOK, QueuesOK
  <2>5. h1.key \in DOMAIN BaseInside /\ h1.sm = BaseInside[h1.key]
      BY <2>2, <2>3, <2>4, HeadIs
  <2>6. h2.key \in DOMAIN StagedInside /\ h2.sm = StagedInside[h2.key]
      BY <2>2, <2>3, <2>4, HeadIs
  <2> HIDE DEF h1, h2
  <2> QED BY <1>1, <2>3, <2>5, <2>6, SourcesAre DEF RangePanics
<1>5. CallOK'
    BY <1>1 DEF CallOK
<1>6. PhaseOK'
    BY <1>1, <1>4 DEF PhaseOK
<1>7. MergeInv'
    BY <1>1, <1>2, <1>3 DEF MergeInv
<1> QED BY <1>5, <1>6, <1>7 DEF StreamInv

\* The end of a stream: both queues are empty and the output is the whole range.
LEMMA FinishKeeps == StreamInv /\ Finish => StreamInv'
<1> SUFFICES ASSUME StreamInv, Finish PROVE StreamInv'
    OBVIOUS
<1>1. /\ phase = "open" /\ phase' = "done" /\ Heads(queues) = {}
      /\ yielded' = yielded \o held /\ held' = << >>
      /\ UNCHANGED <<table, view, range, opened, queues, failures>>
      /\ CallOK /\ PhaseOK /\ MergeInv /\ ~OpenPanics(range)
    BY DEF StreamInv, PhaseOK, Finish
<1>2. BaseInside' = BaseInside /\ StagedInside' = StagedInside
    BY <1>1 DEF BaseInside, StagedInside
<1>3. /\ MergeOK(queues[1], queues[2], Known, BaseInside, StagedInside)
      /\ TrustedOK(Known, BaseInside, StagedInside)
    BY <1>1 DEF MergeInv
<1>4. yielded' \in Seq(Item) /\ held' \in Seq(Item) /\ Len(held') = 0 /\ Known' = Known
  <2>1. yielded \o held \in Seq(Item)
      BY <1>1 DEF CallOK
  <2>2. (yielded \o held) \o << >> = yielded \o held
      BY <2>1
  <2> QED BY <1>1, <2>1, <2>2 DEF Known
<1>5. queues[1] = << >> /\ queues[2] = << >>
  <2>1. queues = <<queues[1], queues[2]>> /\ DOMAIN queues = {1, 2}
    <3>1. queues = <<queues[1], queues[2]>>
        BY <1>1 DEF CallOK
    <3> QED BY <3>1
  <2> QED BY <1>1, <2>1 DEF Heads
<1>6. CallOK'
    BY <1>1, <1>4 DEF CallOK
<1>7. PhaseOK'
    BY <1>1, <1>5 DEF PhaseOK
<1>8. MergeInv'
    BY <1>1, <1>2, <1>3, <1>4 DEF MergeInv
<1> QED BY <1>6, <1>7, <1>8 DEF StreamInv

\* A write staged while the stream is drained leaves its queues and its output alone.
LEMMA WriteKeeps ==
    ASSUME StreamInv, NEW k \in Keys, NEW value \in OptionalValues, Write(k, value)
    PROVE  StreamInv'
<1>1. /\ phase = "open" /\ phase' = phase /\ view' = Stage(view, k, value, TRUE)
      /\ UNCHANGED <<table, range, opened, queues, failures, held, yielded>> /\ Known' = Known
      /\ CallOK /\ PhaseOK /\ MergeInv
    BY DEF StreamInv, Write, Known
<1>2. BaseInside' = BaseInside /\ StagedInside' = StagedInside
    BY <1>1 DEF BaseInside, StagedInside
<1>3. view' \in Views
  <2> DEFINE seq == NextSeq(view, value, TRUE)
             m == NewMarked(seq, value)
  <2>1. /\ view = [increase_seq_for_tombstone |-> view.increase_seq_for_tombstone,
                   changes |-> view.changes, last_seq |-> view.last_seq,
                   snapshot_seq |-> view.snapshot_seq]
        /\ view.changes \in Tables /\ view.last_seq \in Nat /\ view.snapshot_seq \in Nat
        /\ view.increase_seq_for_tombstone \in BOOLEAN
      BY <1>1 DEF CallOK, Views
  <2>2. seq \in Nat
      BY <2>1 DEF NextSeq
  <2> HIDE DEF seq
  <2>3. m \in SeqMarkeds /\ OrderKey(m) \in OrderKeys
      BY <2>2, NewMarkedType DEF OptionalValues
  <2> HIDE DEF m
  <2>4. Insert(view.changes, k, m) \in Tables
    <3>1. view.changes.inner \in [Keys -> SUBSET SeqMarkeds]
        BY <2>1 DEF Tables
    <3>2. Put(view.changes.inner[k], m) \in SUBSET SeqMarkeds
        BY <2>3, <3>1 DEF Put
    <3> QED BY <2>3, <3>1, <3>2 DEF Insert, Tables
  <2>5. view' = [view EXCEPT !.last_seq = seq, !.changes = Insert(view.changes, k, m)]
      BY <1>1 DEF Stage, seq, m
  <2> QED BY <2>1, <2>2, <2>4, <2>5 DEF Views
<1>4. CallOK'
    BY <1>1, <1>3 DEF CallOK
<1>5. PhaseOK'
    BY <1>1 DEF PhaseOK
<1>6. MergeInv'
    BY <1>1, <1>2 DEF MergeInv
<1> QED BY <1>4, <1>5, <1>6 DEF StreamInv

\* Every step of the streams keeps the invariant.
LEMMA StreamStep == StreamInv /\ [Next]_vars => StreamInv'
<1> SUFFICES ASSUME StreamInv, [Next]_vars PROVE StreamInv'
    OBVIOUS
<1>1. CASE Open
    BY <1>1, OpenKeeps
<1>2. CASE Refuse
    BY <1>2, RefuseKeeps
<1>3. CASE \E i \in DOMAIN queues : Take(i)
    BY <1>3, TakeKeeps
<1>4. CASE Panic
    BY <1>4, PanicKeeps
<1>5. CASE Finish
    BY <1>5, FinishKeeps
<1>6. CASE \E skipped \in 0..Len(queues[1]) : Fail(skipped)
    BY <1>6, FailKeeps
<1>7. CASE \E k \in Keys, value \in OptionalValues : Write(k, value)
    BY <1>7, WriteKeeps
<1>8. CASE UNCHANGED vars
  <2>1. /\ UNCHANGED <<table, view, range, opened, phase, queues, failures, held, yielded>>
        /\ Known' = Known
      BY <1>8 DEF vars, Known
  <2>2. BaseInside' = BaseInside /\ StagedInside' = StagedInside
      BY <2>1 DEF BaseInside, StagedInside
  <2> QED BY <2>1, <2>2 DEF StreamInv, CallOK, PhaseOK, MergeInv
<1> QED BY <1>1, <1>2, <1>3, <1>4, <1>5, <1>6, <1>7, <1>8 DEF Next, Drain

-----------------------------------------------------------------------------
(* What is on its way stays on its way: an error until the consumer has it, *)
(* and each staged key inside the range.                                    *)

KeptOK ==
    /\ \A k \in Keys : opened.changes.inner[k] # {} =>
          k \in DOMAIN RangeUpto(opened.changes, opened.last_seq)
    /\ phase \in {"idle", "refused"} => failures = 0
    /\ phase \in {"open", "done"} =>
          /\ failures > 0 => HasError(queues[1]) \/ HasError(Known)
          /\ DOMAIN StagedInside \subseteq KeysOf(queues[2]) \cup KeysOf(Known)

\* Every staged version is visible to the view it was staged in.
LEMMA KeptInit == Init => KeptOK
<1> SUFFICES ASSUME Init PROVE KeptOK
    OBVIOUS
<1>1. opened = view /\ phase = "idle" /\ failures = 0
    BY DEF Init
<1>2. PICK staged \in [Keys -> StagedVersions] :
        view = [NewView(SnapshotSeq, StagedSeq(staged), FALSE) EXCEPT
                  !.changes = [inner    |-> staged,
                               last_seq |-> OrderKey(NewTombstone(StagedSeq(staged)))]]
    BY DEF Init
<1>3. opened.changes.inner = staged /\ opened.last_seq = StagedSeq(staged)
    BY <1>1, <1>2 DEF NewView
<1>4. ASSUME NEW k \in Keys, staged[k] # {} PROVE Visible(staged[k], StagedSeq(staged)) # {}
  <2>1. PICK m \in staged[k] : TRUE
      BY <1>4
  <2>2. m.seq <= StagedSeq(staged) /\ StagedSeq(staged) \in Nat
      BY StagedSeqIs
  <2>3. m \in SeqMarkeds
      BY RangeStreamAssumption
  <2>4. Leq(m, NewTombstone(StagedSeq(staged)))
      BY <2>2, <2>3, SeqMarkedFields DEF Leq, Lt, SameOrder, NewTombstone, TombStone
  <2> QED BY <2>4 DEF Visible
<1>5. DOMAIN RangeUpto(opened.changes, opened.last_seq)
         = {j \in Keys : Visible(staged[j], StagedSeq(staged)) # {}}
    BY <1>3 DEF RangeUpto
<1> QED BY <1>1, <1>3, <1>4, <1>5 DEF KeptOK

\* The queues hold every key when they are filled.
LEMMA KeptOpen == StreamInv /\ KeptOK /\ Open => KeptOK'
<1> SUFFICES ASSUME StreamInv, KeptOK, Open PROVE KeptOK'
    OBVIOUS
<1>1. /\ phase = "idle" /\ opened = view /\ opened' = opened /\ failures = 0
      /\ UNCHANGED <<table, view, range, failures, held, yielded>>
      /\ phase' \in {"panicked", "open"} /\ CallOK
    BY DEF StreamInv, PhaseOK, KeptOK, Open
<1>2. StagedInside' = StagedInside
    BY <1>1 DEF StagedInside
<1>3. ASSUME phase' = "open" PROVE DOMAIN StagedInside \subseteq KeysOf(queues'[2])
  <2>1. queues'[2] = Collect(view.changes, range, view.last_seq)
      BY <1>1, <1>3 DEF Open
  <2>2. queues'[2] = InOrder(EntriesOf(StagedInside)) /\ Sources(BaseInside, StagedInside)
      BY <1>1, <2>1, SourcesAre
  <2> QED BY <2>2, QueueOf, RangeStreamAssumption DEF Sources
<1> QED BY <1>1, <1>2, <1>3 DEF KeptOK

\* A failure puts an error where there may have been one, and takes nothing of the
\* staged queue.
LEMMA KeptFail ==
    ASSUME StreamInv, KeptOK, NEW skipped \in 0..Len(queues[1]), Fail(skipped)
    PROVE  KeptOK'
<1> DEFINE rest == SubSeq(queues[1], skipped + 1, Len(queues[1]))
<1>1. /\ phase = "open" /\ phase' = phase
      /\ UNCHANGED <<table, view, range, opened, held, yielded>> /\ Known' = Known
      /\ CallOK
    BY DEF StreamInv, Fail, Known
<1>2. StagedInside' = StagedInside
    BY <1>1 DEF StagedInside
<1>3. rest \in Seq(Item)
    BY <1>1 DEF CallOK
<1>4. queues'[1] = <<Failure>> \o rest /\ queues'[2] = queues[2]
  <2>1. queues = <<queues[1], queues[2]>>
      BY <1>1 DEF CallOK
  <2>2. queues' = [queues EXCEPT ![1] = <<Failure>> \o rest]
      BY DEF Fail
  <2> HIDE DEF rest
  <2> QED BY <2>1, <2>2
<1> HIDE DEF rest
<1>5. 1 \in DOMAIN (<<Failure>> \o rest) /\ (<<Failure>> \o rest)[1] = Failure
  <2>1. <<Failure>> \in Seq(Item)
      BY DEF Item
  <2> QED BY <1>3, <2>1
<1>6. HasError(queues'[1])
    BY <1>4, <1>5 DEF HasError, IsOk
<1> QED BY <1>1, <1>2, <1>4, <1>6 DEF KeptOK

\* What leaves a queue the consumer knows.
LEMMA KeptTake ==
    ASSUME StreamInv, KeptOK, NEW i \in DOMAIN queues, Take(i)
    PROVE  KeptOK'
<1> DEFINE r == Head(queues[i])
<1>1. /\ phase = "open" /\ phase' = phase /\ GoesFirst(queues, i)
      /\ UNCHANGED <<table, view, range, opened, failures>>
      /\ held' = HeldAfter(held, r) /\ yielded' = yielded \o GivenOut(held, r)
      /\ queues' = [queues EXCEPT ![i] = Tail(queues[i])]
      /\ CallOK /\ PhaseOK /\ MergeInv /\ ~OpenPanics(range)
    BY DEF StreamInv, PhaseOK, Take
<1>2. StagedInside' = StagedInside
    BY <1>1 DEF StagedInside
<1>3. /\ queues = <<queues[1], queues[2]>> /\ DOMAIN queues = {1, 2} /\ i \in {1, 2}
      /\ queues[1] \in Seq(Item) /\ queues[2] \in Seq(Item)
      /\ held \in Seq(Item) /\ Len(held) <= 1 /\ yielded \in Seq(Item)
      /\ held = << >> => yielded = << >>
  <2>1. /\ queues = <<queues[1], queues[2]>>
        /\ queues[1] \in Seq(Item) /\ queues[2] \in Seq(Item)
        /\ held \in Seq(Item) /\ Len(held) <= 1 /\ yielded \in Seq(Item)
        /\ held = << >> => yielded = << >>
      BY <1>1 DEF CallOK, PhaseOK
  <2>2. DOMAIN queues = {1, 2}
      BY <2>1
  <2> QED BY <2>1, <2>2
<1>4. queues[i] # << >> /\ queues[i] \in Seq(Item) /\ r \in Item
  <2>1. queues[i] # << >>
      BY <1>1 DEF GoesFirst, Heads
  <2>2. queues[i] \in Seq(Item)
      BY <1>3
  <2> QED BY <2>1, <2>2
<1>5. Known \in Seq(Item) /\ Known' = Taken(Known, r)
  <2>1. (yielded \o GivenOut(held, r)) \o HeldAfter(held, r) = Taken(yielded \o held, r)
      BY <1>3, <1>4, TakenKnown
  <2>2. yielded \o held \in Seq(Item)
      BY <1>3
  <2> HIDE DEF r
  <2> QED BY <1>1, <2>1, <2>2 DEF Known
<1>6. ASSUME failures' > 0 PROVE HasError(queues'[1]) \/ HasError(Known')
  <2>1. HasError(queues[1]) \/ HasError(Known)
      BY <1>1, <1>6 DEF KeptOK
  <2>2. CASE HasError(Known) \/ ~IsOk(r)
      BY <1>4, <1>5, <2>2, ErrorTaken
  <2>3. CASE HasError(queues[1]) /\ IsOk(r)
    <3>1. CASE i = 1
      <4>1. HasError(Tail(queues[1]))
          BY <1>4, <2>3, <3>1, ErrorStays
      <4>2. queues'[1] = Tail(queues[1])
          BY <1>1, <1>3, <3>1
      <4> QED BY <4>1, <4>2
    <3>2. CASE i = 2
      <4>1. queues'[1] = queues[1]
          BY <1>1, <1>3, <3>2
      <4> QED BY <2>3, <4>1
    <3> QED BY <1>3, <3>1, <3>2
  <2> QED BY <2>1, <2>2, <2>3
<1>7. DOMAIN StagedInside \subseteq KeysOf(queues'[2]) \cup KeysOf(Known')
  <2>1. DOMAIN StagedInside \subseteq KeysOf(queues[2]) \cup KeysOf(Known)
      BY <1>1 DEF KeptOK
  <2>2. /\ KeysOf(Known) \subseteq KeysOf(Known')
        /\ IsOk(r) => r.key \in KeysOf(Known')
      BY <1>4, <1>5, KeysTaken
  <2>3. CASE i = 1
    <3>1. queues'[2] = queues[2]
        BY <1>1, <1>3, <2>3
    <3> QED BY <2>1, <2>2, <3>1
  <2>4. CASE i = 2
    <3>1. queues'[2] = Tail(queues[2])
        BY <1>1, <1>3, <2>4
    <3>2. KeysAscend(queues[2])
        BY <1>1 DEF MergeInv, MergeOK, QueuesOK, LeftOf
    <3>3. KeysOf(queues[2]) = KeysOf(Tail(queues[2])) \cup (IF IsOk(r) THEN {r.key} ELSE {})
        BY <1>4, <2>4, <3>2, TailIs
    <3> QED BY <2>1, <2>2, <3>1, <3>3
  <2> QED BY <1>3, <2>3, <2>4
<1> QED BY <1>1, <1>2, <1>6, <1>7 DEF KeptOK

\* The last item held is given out at the end.
LEMMA KeptFinish == StreamInv /\ KeptOK /\ Finish => KeptOK'
<1> SUFFICES ASSUME StreamInv, KeptOK, Finish PROVE KeptOK'
    OBVIOUS
<1>1. /\ phase = "open" /\ phase' = "done"
      /\ yielded' = yielded \o held /\ held' = << >>
      /\ UNCHANGED <<table, view, range, opened, queues, failures>> /\ CallOK
    BY DEF StreamInv, Finish
<1>2. StagedInside' = StagedInside
    BY <1>1 DEF StagedInside
<1>3. Known' = Known
  <2>1. yielded \o held \in Seq(Item)
      BY <1>1 DEF CallOK
  <2>2. (yielded \o held) \o << >> = yielded \o held
      BY <2>1
  <2> QED BY <1>1, <2>2 DEF Known
<1> QED BY <1>1, <1>2, <1>3 DEF KeptOK

\* Every step keeps it.
LEMMA KeptStep == StreamInv /\ KeptOK /\ [Next]_vars => KeptOK'
<1> SUFFICES ASSUME StreamInv, KeptOK, [Next]_vars PROVE KeptOK'
    OBVIOUS
<1>1. CASE Open
    BY <1>1, KeptOpen
<1>2. CASE Refuse
  <2>1. phase = "idle" /\ phase' = "refused" /\ failures' = failures /\ opened' = opened
      BY <1>2 DEF Refuse, StreamInv, PhaseOK
  <2> QED BY <2>1 DEF KeptOK
<1>3. CASE \E i \in DOMAIN queues : Take(i)
    BY <1>3, KeptTake
<1>4. CASE Panic
    BY <1>4 DEF Panic, KeptOK
<1>5. CASE Finish
    BY <1>5, KeptFinish
<1>6. CASE \E skipped \in 0..Len(queues[1]) : Fail(skipped)
    BY <1>6, KeptFail
<1>7. CASE \/ \E k \in Keys, value \in OptionalValues : Write(k, value)
           \/ UNCHANGED vars
  <2>1. /\ UNCHANGED <<table, range, opened, phase, queues, failures, held, yielded>>
        /\ Known' = Known
      BY <1>7 DEF Write, vars, Known
  <2>2. StagedInside' = StagedInside
      BY <2>1 DEF StagedInside
  <2> QED BY <2>1, <2>2 DEF KeptOK
<1> QED BY <1>1, <1>2, <1>3, <1>4, <1>5, <1>6, <1>7 DEF Next, Drain

-----------------------------------------------------------------------------
(* The theorems.                                                            *)

\* The invariant holds throughout: whatever the reader does and whenever it
\* fails, the merge of View::range has lost nothing it can still give.
THEOREM StreamInvariant == Spec => []StreamInv
<1>1. Init => StreamInv
    BY StreamInit
<1>2. StreamInv /\ [Next]_vars => StreamInv'
    BY StreamStep
<1> QED BY <1>1, <1>2, PTL DEF Spec

\* Views stay views, the two queues and the given items hold items, and coalesce
\* holds back at most one (view.rs, util.rs).
THEOREM TypeCorrect == Spec => []TypeOK
<1>1. StreamInv => TypeOK
  <2> SUFFICES ASSUME StreamInv PROVE TypeOK
      OBVIOUS
  <2>1. /\ table \in Tables /\ view \in Views /\ opened \in Views /\ range \in Ranges
        /\ phase \in {"idle", "open", "refused", "panicked", "done"}
        /\ failures \in 0..MaxFailures /\ held \in Seq(Item) /\ Len(held) <= 1
        /\ yielded \in Seq(Item)
      BY DEF StreamInv, CallOK, InMemory
  <2>2. /\ queues = <<queues[1], queues[2]>>
        /\ queues[1] \in Seq(Item) /\ queues[2] \in Seq(Item)
      BY DEF StreamInv, CallOK
  <2>3. DOMAIN queues = {1, 2}
      BY <2>2
  <2>4. \A i \in DOMAIN queues : queues[i] \in Seq(Item)
      BY <2>2, <2>3
  <2> QED BY <2>1, <2>4 DEF TypeOK
<1> QED BY <1>1, StreamInvariant, PTL

\* Table::range collects, for every table and every bounds, the newest visible
\* entry of each key inside the bounds, in key order, and panics only for bounds
\* that exclude each other on plain keys (range_iter.rs, table/mod.rs).
THEOREM CursorGivesRange == Spec => []CursorIsRange
<1>1. StreamInv => CursorIsRange
  <2> SUFFICES ASSUME StreamInv, phase = "idle"
               PROVE  /\ OpenPanics(range) <=> InvertedRange(range)
                      /\ Collect(table, range, view.snapshot_seq)
                            = AsSequence(RangeUpto(table, view.snapshot_seq), range)
                      /\ Collect(view.changes, range, view.last_seq)
                            = AsSequence(RangeUpto(view.changes, view.last_seq), range)
      BY DEF CursorIsRange
  <2>1. /\ InMemory(table) /\ InMemory(view.changes) /\ IsRange(range)
        /\ view.snapshot_seq \in Nat /\ view.last_seq \in Nat
      BY RangesAre DEF StreamInv, CallOK, PhaseOK, Views
  <2>2. OpenPanics(range) <=> InvertedRange(range)
      BY <2>1, PanicsOnKeys DEF InvertedRange
  <2> QED BY <2>1, <2>2, CollectIs
<1> QED BY <1>1, StreamInvariant, PTL

\* The range asked for, as one source.
LEMMA AskedIs ==
    ASSUME CallOK
    PROVE  LET o == Over(BaseInside, StagedInside)
               asked == ViewRange(table, opened)
           IN /\ DOMAIN o = {k \in DOMAIN asked : Inside(range, k)}
              /\ \A k \in DOMAIN o : o[k] = asked[k]
              /\ Asked = InOrder(EntriesOf(o))
<1> DEFINE b == BaseInside
           s == StagedInside
           base == RangeUpto(table, opened.snapshot_seq)
           updates == RangeUpto(opened.changes, opened.last_seq)
           o == Over(b, s)
           asked == ViewRange(table, opened)
<1>1. /\ DOMAIN b = {k \in DOMAIN base : Inside(range, k)}
      /\ DOMAIN s = {k \in DOMAIN updates : Inside(range, k)}
      /\ \A k \in DOMAIN b : b[k] = base[k]
      /\ \A k \in DOMAIN s : s[k] = updates[k]
    BY SourcesAre
<1>2. asked = [k \in DOMAIN base \cup DOMAIN updates |->
                  CASE k \notin DOMAIN updates -> base[k]
                    [] k \notin DOMAIN base    -> updates[k]
                    [] OTHER                   -> Newer(base[k], updates[k])]
    BY DEF ViewRange
<1>3. o = [k \in DOMAIN b \cup DOMAIN s |->
              CASE k \notin DOMAIN s -> b[k]
                [] k \notin DOMAIN b -> s[k]
                [] OTHER             -> Newer(b[k], s[k])]
    BY DEF Over
<1> HIDE DEF b, s, base, updates, o, asked
<1>4. DOMAIN o = {k \in DOMAIN asked : Inside(range, k)}
  <2>1. DOMAIN o = DOMAIN b \cup DOMAIN s /\ DOMAIN asked = DOMAIN base \cup DOMAIN updates
      BY <1>2, <1>3
  <2> QED BY <1>1, <2>1
<1>5. ASSUME NEW k \in DOMAIN o PROVE o[k] = asked[k]
  <2>1. /\ k \in DOMAIN b <=> k \in DOMAIN base
        /\ k \in DOMAIN s <=> k \in DOMAIN updates
        /\ k \in DOMAIN base \cup DOMAIN updates /\ k \in DOMAIN b \cup DOMAIN s
    <3>1. k \in DOMAIN b \cup DOMAIN s
        BY <1>3
    <3>2. Inside(range, k)
        BY <1>1, <3>1
    <3> QED BY <1>1, <3>1, <3>2
  <2>2. CASE k \notin DOMAIN s
      BY <1>1, <1>2, <1>3, <2>1, <2>2
  <2>3. CASE k \in DOMAIN s /\ k \notin DOMAIN b
      BY <1>1, <1>2, <1>3, <2>1, <2>3
  <2>4. CASE k \in DOMAIN s /\ k \in DOMAIN b
      BY <1>1, <1>2, <1>3, <2>1, <2>4
  <2> QED BY <2>2, <2>3, <2>4
<1>6. EntriesOf(o)
         = {[key |-> k, sm |-> asked[k]] : k \in {j \in DOMAIN asked : Inside(range, j)}}
    BY <1>4, <1>5 DEF EntriesOf
<1>7. Asked = InOrder(EntriesOf(o))
    BY <1>6 DEF Asked, AsSequence, asked
<1> QED BY <1>4, <1>5, <1>7 DEF o, b, s, asked

\* A stream drained without meeting an error has given exactly the range as it
\* was at the call, and one that panics did so over bounds or a pair of entries
\* that the range itself has (view.rs, util.rs).
THEOREM DrainedIsRange == Spec => []StreamIsRange
<1>1. StreamInv => StreamIsRange
  <2> SUFFICES ASSUME StreamInv PROVE StreamIsRange
      OBVIOUS
  <2>0. CallOK /\ PhaseOK /\ MergeInv
      BY DEF StreamInv
  <2>1. ASSUME phase = "done", Failure \notin {yielded[i] : i \in DOMAIN yielded}
        PROVE  yielded = Asked
    <3>1. /\ held = << >> /\ queues[1] = << >> /\ queues[2] = << >> /\ ~OpenPanics(range)
        BY <2>0, <2>1 DEF PhaseOK
    <3>2. Known = yielded
      <4>1. yielded \in Seq(Item)
          BY <2>0 DEF CallOK
      <4> QED BY <3>1, <4>1 DEF Known
    <3>3. MergeOK(<< >>, << >>, yielded, BaseInside, StagedInside)
        BY <2>0, <2>1, <3>1, <3>2 DEF MergeInv
    <3>4. AllOk(yielded)
        BY <2>1 DEF AllOk, IsOk
    <3>5. yielded = InOrder(EntriesOf(Over(BaseInside, StagedInside)))
        BY <3>3, <3>4, MergeEnds
    <3> QED BY <2>0, <3>5, AskedIs
  <2>2. ASSUME phase = "panicked" PROVE InvertedRange(range) \/ RangePanics(table, opened)
    <3>1. OpenPanics(range) \/ RangePanics(table, opened)
        BY <2>0, <2>2 DEF PhaseOK
    <3>2. IsRange(range)
        BY <2>0, RangesAre DEF CallOK
    <3>3. OpenPanics(range) <=> InvertedRange(range)
        BY <3>2, PanicsOnKeys DEF InvertedRange
    <3> QED BY <3>1, <3>3
  <2> QED BY <2>1, <2>2 DEF StreamIsRange
<1> QED BY <1>1, StreamInvariant, PTL

\* Up to an error a consumer may trust an item once an Ok item follows it or the
\* stream ends: it is in order, it is the range's own or the staged write of its
\* key, and no staged write below it is missing (view.rs, util.rs).
THEOREM TrustHolds == Spec => []TrustedUntilError
<1>1. StreamInv => TrustedUntilError
  <2> SUFFICES ASSUME StreamInv, NEW i \in Trusted
               PROVE  LET k == yielded[i].key
                          asked == ViewRange(table, opened)
                          staged == RangeUpto(opened.changes, opened.last_seq)
                      IN /\ i > 1 => yielded[i - 1].key < k
                         /\ Inside(range, k) /\ k \in DOMAIN asked
                         /\ yielded[i].sm = asked[k] \/ (k \in DOMAIN staged /\ yielded[i].sm = staged[k])
                         /\ \A j \in DOMAIN staged : j < k /\ Inside(range, j) =>
                               \E h \in 1..i : yielded[h].key = j
      BY DEF TrustedUntilError
  <2> DEFINE n == Len(yielded)
             k == yielded[i].key
             b == BaseInside
             s == StagedInside
             asked == ViewRange(table, opened)
             staged == RangeUpto(opened.changes, opened.last_seq)
  <2>0. CallOK /\ PhaseOK /\ MergeInv
      BY DEF StreamInv
  <2>1. /\ i \in DOMAIN yielded
        /\ \A j \in DOMAIN Known : j <= i + 1 => IsOk(Known[j])
      BY DEF Trusted, Known
  <2>2. /\ yielded \in Seq(Item) /\ held \in Seq(Item) /\ Len(held) <= 1
        /\ n \in Nat /\ DOMAIN yielded = 1..n /\ i \in Nat /\ i > 0 /\ i <= n
        /\ Len(held) \in {0, 1}
    <3>1. yielded \in Seq(Item) /\ held \in Seq(Item) /\ Len(held) <= 1
        BY <2>0 DEF CallOK
    <3> DEFINE size == Len(held)
    <3>2. size \in Nat /\ size <= 1
        BY <3>1
    <3>3. size \in {0, 1}
      <4> HIDE DEF size
      <4> QED BY <3>2
    <3> QED BY <2>1, <3>1, <3>3
  <2>3. /\ Known \in Seq(Item) /\ Len(Known) = n + Len(held) /\ DOMAIN Known = 1..Len(Known)
        /\ \A j \in 1..n : Known[j] = yielded[j]
      BY <2>2 DEF Known
  <2> HIDE DEF n
  <2>4. yielded # << >> /\ Known # << >>
    <3>1. yielded # << >>
        BY <2>1
    <3>2. Len(Known) # 0
        BY <2>2, <2>3
    <3> QED BY <3>1, <3>2
  <2>5. phase \in {"open", "panicked", "done"} /\ ~OpenPanics(range)
      BY <2>0, <2>4 DEF CallOK, PhaseOK
  <2>6. MergeOK(queues[1], queues[2], Known, b, s) /\ TrustedOK(Known, b, s)
      BY <2>0, <2>5 DEF MergeInv
  <2> HIDE DEF b, s
  <2>7. Good(i, Known, b, s)
    <3>1. CASE Len(held) = 1
      <4>1. i \in 1..(Len(Known) - 1)
          BY <2>2, <2>3, <3>1
      <4>2. \A j \in 1..(i + 1) : j \in DOMAIN Known /\ j <= i + 1
          BY <2>2, <2>3, <3>1
      <4> QED BY <2>1, <2>6, <4>1, <4>2 DEF TrustedOK
    <3>2. CASE Len(held) = 0
      <4>1. held = << >>
          BY <2>2, <3>2
      <4>2. phase = "done"
          BY <2>0, <2>4, <4>1 DEF PhaseOK
      <4>3. queues[2] = << >>
          BY <2>0, <4>2 DEF PhaseOK
      <4>4. CASE i < n
        <5>1. i \in 1..(Len(Known) - 1)
            BY <2>2, <2>3, <3>2, <4>4
        <5>2. \A j \in 1..(i + 1) : j \in DOMAIN Known /\ j <= i + 1
            BY <2>2, <2>3, <3>2, <4>4
        <5> QED BY <2>1, <2>6, <5>1, <5>2 DEF TrustedOK
      <4>5. CASE i = n
        <5>1. AllOk(Known)
          <6>1. \A j \in DOMAIN Known : j <= i + 1
              BY <2>2, <2>3, <3>2, <4>5
          <6> QED BY <2>1, <6>1 DEF AllOk
        <5>2. /\ Sources(b, s) /\ LeftOf(queues[2], s) /\ TrustOK(queues[2], Known, b, s)
            BY <2>6 DEF MergeOK, QueuesOK
        <5>3. i \in DOMAIN Known
            BY <2>2, <2>3
        <5> QED BY <2>3, <4>3, <5>1, <5>2, <5>3, AllGood
      <4> QED BY <2>2, <4>4, <4>5
    <3> QED BY <2>2, <3>1, <3>2
  <2>8. /\ Known[i] = yielded[i] /\ (i > 1 => Known[i - 1] = yielded[i - 1])
        /\ \A h \in 1..i : Known[h] = yielded[h]
    <3>1. i \in 1..n /\ (i > 1 => i - 1 \in 1..n) /\ \A h \in 1..i : h \in 1..n
        BY <2>2
    <3> QED BY <2>3, <3>1
  <2>9. /\ i > 1 => yielded[i - 1].key < k
        /\ k \in DOMAIN b \cup DOMAIN s /\ Right(yielded[i], b, s)
        /\ \A j \in DOMAIN s : j < k => \E h \in 1..i : yielded[h].key = j
      BY <2>7, <2>8 DEF Good
  <2>10. /\ DOMAIN s = {j \in DOMAIN staged : Inside(range, j)}
         /\ \A j \in DOMAIN s : s[j] = staged[j]
      BY <2>0, SourcesAre DEF s
  <2>11. /\ DOMAIN Over(b, s) = {j \in DOMAIN asked : Inside(range, j)}
         /\ \A j \in DOMAIN Over(b, s) : Over(b, s)[j] = asked[j]
      BY <2>0, AskedIs DEF b, s
  <2>12. DOMAIN Over(b, s) = DOMAIN b \cup DOMAIN s
      BY DEF Over
  <2> HIDE DEF k, asked, staged
  <2>13. Inside(range, k) /\ k \in DOMAIN asked
      BY <2>9, <2>11, <2>12
  <2>14. yielded[i].sm = asked[k] \/ (k \in DOMAIN staged /\ yielded[i].sm = staged[k])
    <3>1. yielded[i].sm = Over(b, s)[k] \/ (k \in DOMAIN s /\ yielded[i].sm = s[k])
        BY <2>9 DEF Right, k
    <3> QED BY <2>9, <2>10, <2>11, <2>12, <3>1
  <2>15. \A j \in DOMAIN staged : j < k /\ Inside(range, j) => \E h \in 1..i : yielded[h].key = j
      BY <2>9, <2>10
  <2> QED BY <2>9, <2>13, <2>14, <2>15 DEF k, asked, staged
<1> QED BY <1>1, StreamInvariant, PTL

\* Compacting any two tables, entry by entry and for any minimum snapshot, keeps
\* exactly the versions Survivors states, in order, and fails the assertion of
\* coalesce exactly where CompactPanics says (merge.rs, coalesce.rs).
THEOREM CompactCoalesces == Spec => []CompactIsCoalesce
<1>1. StreamInv => CompactIsCoalesce
  <2> SUFFICES ASSUME StreamInv, phase = "idle", NEW min \in 0..MaxSeq
               PROVE  LET coalesced == Coalesced(table, view.changes, min)
                      IN /\ coalesced.panicked <=> CompactPanics(table, view.changes, min)
                         /\ ~coalesced.panicked =>
                               coalesced.out \o coalesced.held
                                  = InOrder(Entries(Compact(table, view.changes, min)))
      BY DEF CompactIsCoalesce
  <2>1. InMemory(table) /\ InMemory(view.changes)
      BY DEF StreamInv, CallOK, PhaseOK
  <2>2. min \in Nat
      BY RangeStreamAssumption, RangeIterAssumption
  <2> QED BY <2>1, <2>2, CoalescedIs
<1> QED BY <1>1, StreamInvariant, PTL

\* What is under way stays so.
LEMMA KeptInvariant == Spec => [](StreamInv /\ KeptOK)
<1>1. Init => StreamInv /\ KeptOK
    BY StreamInit, KeptInit
<1>2. (StreamInv /\ KeptOK) /\ [Next]_vars => (StreamInv /\ KeptOK)'
    BY StreamStep, KeptStep
<1> QED BY <1>1, <1>2, PTL DEF Spec

\* An error met and every staged key inside the range stay on their way until the
\* consumer has them: at the end of the stream they have come (view.rs, util.rs).
THEOREM NothingEverLost == Spec => []NothingLost
<1>1. StreamInv /\ KeptOK => NothingLost
  <2> SUFFICES ASSUME StreamInv, KeptOK, phase \in {"open", "done"}
               PROVE  /\ failures > 0 => Failure \in Underway
                      /\ \A k \in Keys : Inside(range, k) /\ opened.changes.inner[k] # {} =>
                            \E r \in Underway : IsOk(r) /\ r.key = k
      BY DEF NothingLost
  <2>1. \A q \in {queues[1], queues[2], Known} : \A i \in DOMAIN q : q[i] \in Underway
      BY DEF Underway, Known
  <2>2. ASSUME failures > 0 PROVE Failure \in Underway
    <3>1. PICK q \in {queues[1], Known} : \E i \in DOMAIN q : ~IsOk(q[i])
        BY <2>2 DEF KeptOK, HasError
    <3>2. PICK i \in DOMAIN q : ~IsOk(q[i])
        BY <3>1
    <3>3. q[i] = Failure
        BY <3>2 DEF IsOk
    <3> QED BY <2>1, <3>3
  <2>3. ASSUME NEW k \in Keys, Inside(range, k), opened.changes.inner[k] # {}
        PROVE  \E r \in Underway : IsOk(r) /\ r.key = k
    <3>1. k \in DOMAIN RangeUpto(opened.changes, opened.last_seq)
        BY <2>3 DEF KeptOK
    <3>2. k \in DOMAIN StagedInside
        BY <2>3, <3>1, SourcesAre DEF StreamInv
    <3>3. k \in KeysOf(queues[2]) \cup KeysOf(Known)
        BY <3>2 DEF KeptOK
    <3>4. PICK q \in {queues[2], Known} : k \in KeysOf(q)
        BY <3>3
    <3>5. PICK i \in DOMAIN q : IsOk(q[i]) /\ q[i].key = k
        BY <3>4 DEF KeysOf
    <3> QED BY <2>1, <3>5
  <2> QED BY <2>2, <2>3
<1> QED BY <1>1, KeptInvariant, PTL
=============================================================================
