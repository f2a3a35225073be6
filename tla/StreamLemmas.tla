---------------------------- MODULE StreamLemmas ----------------------------
(***************************************************************************)
(* Lemmas about RangeIter, Coalesce and StreamMerge, for any keys, values  *)
(* and ranges: entries in the order of the BTreeMap, what the cursor gives *)
(* of them, which of them the translated bounds select, what coalescing    *)
(* those of two tables leaves, and what a merge of streams takes and gives. *)
(***************************************************************************)
EXTENDS Coalesce, StreamMerge, TableLemmas, FiniteSetTheorems

-----------------------------------------------------------------------------
(* Entries in order.                                                       *)

Positions == [key : Nat, sm : SeqMarkeds]

\* The entries of a BTreeMap: finitely many, at different places.
Chain(S) ==
    /\ IsFiniteSet(S) /\ S \subseteq Positions
    /\ \A e, f \in S : e # f => Before(e, f) \/ Before(f, e)

Ascending(s) == \A i, j \in DOMAIN s : i < j => Before(s[i], s[j])

\* Before is a strict order.
LEMMA BeforeIsOrder ==
    ASSUME NEW e \in Positions, NEW f \in Positions
    PROVE  /\ ~Before(e, e)
           /\ Before(e, f) => ~Before(f, e)
           /\ \A g \in Positions : Before(e, f) /\ Before(f, g) => Before(e, g)
<1>1. \A g \in Positions : g.key \in Nat /\ g.sm.seq \in Nat /\ g.sm.mark \in {0, 1}
    BY SeqMarkedFields DEF Positions
<1> QED BY <1>1 DEF Before, Lt

Rank(S, e) == Cardinality({f \in S : Before(f, e)})

\* A strict order R of finitely many things, and how many of them are before one.
Line(S, R) ==
    /\ IsFiniteSet(S)
    /\ \A e, f \in S : e # f => <<e, f>> \in R \/ <<f, e>> \in R
    /\ \A e, f \in S : <<e, f>> \in R => <<f, e>> \notin R
    /\ \A e, f, g \in S : <<e, f>> \in R /\ <<f, g>> \in R => <<e, g>> \in R

Place(S, R, e) == Cardinality({f \in S : <<f, e>> \in R})

Enumeration(S, R) == [i \in 1..Cardinality(S) |-> CHOOSE e \in S : Place(S, R, e) = i - 1]

\* A place is below the number of things, and it grows along the order.
LEMMA Places ==
    ASSUME NEW S, NEW R, Line(S, R)
    PROVE  /\ Cardinality(S) \in Nat
           /\ \A e \in S : Place(S, R, e) \in Nat /\ Place(S, R, e) < Cardinality(S)
           /\ \A e, f \in S : <<e, f>> \in R => Place(S, R, e) < Place(S, R, f)
<1> DEFINE below(e) == {f \in S : <<f, e>> \in R}
<1>0. IsFiniteSet(S) /\ Cardinality(S) \in Nat /\ \A e \in S : <<e, e>> \notin R
    BY FS_CardinalityType DEF Line
<1>1. ASSUME NEW T, NEW U, IsFiniteSet(U), T \subseteq U, NEW e \in U, e \notin T
      PROVE  Cardinality(T) \in Nat /\ Cardinality(U) \in Nat /\ Cardinality(T) < Cardinality(U)
  <2>1. IsFiniteSet(T) /\ Cardinality(T) <= Cardinality(U) /\ (Cardinality(U) = Cardinality(T) => U = T)
      BY <1>1, FS_Subset
  <2>2. Cardinality(T) \in Nat /\ Cardinality(U) \in Nat
      BY <1>1, <2>1, FS_CardinalityType
  <2>3. U # T
      BY <1>1
  <2> QED BY <2>1, <2>2, <2>3
<1>2. ASSUME NEW e \in S
      PROVE  Cardinality(below(e)) \in Nat /\ Cardinality(below(e)) < Cardinality(S)
  <2>1. e \notin below(e) /\ below(e) \subseteq S
      BY <1>0
  <2> HIDE DEF below
  <2> QED BY <1>0, <1>1, <2>1
<1>3. ASSUME NEW e \in S, NEW f \in S, <<e, f>> \in R
      PROVE  Cardinality(below(e)) < Cardinality(below(f))
  <2>1. below(e) \subseteq below(f) /\ e \in below(f) /\ e \notin below(e)
      BY <1>0, <1>3 DEF Line
  <2>2. IsFiniteSet(below(f))
      BY <1>0, FS_Subset
  <2> HIDE DEF below
  <2> QED BY <1>1, <2>1, <2>2
<1> QED BY <1>0, <1>2, <1>3 DEF Place

\* Choosing the thing of each place enumerates them all, in order.
LEMMA EnumerationIs ==
    ASSUME NEW S, NEW R, Line(S, R)
    PROVE  LET s == Enumeration(S, R)
           IN /\ s \in Seq(S) /\ Len(s) = Cardinality(S)
              /\ \A i, j \in DOMAIN s : i < j => <<s[i], s[j]>> \in R
              /\ \A e \in S : \E i \in DOMAIN s : s[i] = e
<1> DEFINE n == Cardinality(S)
           place(e) == Place(S, R, e)
           r == [e \in S |-> place(e) + 1]
           s == Enumeration(S, R)
<1>1. /\ n \in Nat
      /\ \A e \in S : place(e) \in Nat /\ place(e) < n
      /\ \A e, f \in S : <<e, f>> \in R => place(e) < place(f)
    BY Places
<1>0. ASSUME NEW e \in S, NEW f \in S, e # f PROVE place(e) # place(f)
  <2>1. <<e, f>> \in R \/ <<f, e>> \in R
      BY <1>0 DEF Line
  <2>2. place(e) \in Nat /\ place(f) \in Nat /\ (place(e) < place(f) \/ place(f) < place(e))
      BY <1>1, <2>1
  <2> QED BY <2>2
<1>2. IsFiniteSet(S) /\ \A e, f \in S : e # f => <<e, f>> \in R \/ <<f, e>> \in R
    BY DEF Line
<1>3. s = [i \in 1..n |-> CHOOSE e \in S : place(e) = i - 1]
    BY DEF Enumeration
<1> HIDE DEF n, place, s
<1>4. r \in Injection(S, 1..n)
  <2>1. r \in [S -> 1..n]
      BY <1>1
  <2>2. ASSUME NEW e \in S, NEW f \in S, e # f PROVE r[e] # r[f]
      BY <1>1, <1>0, <2>2
  <2> QED BY <2>1, <2>2 DEF Injection, IsInjective
<1>5. r \in Surjection(S, 1..n)
  <2>1. IsFiniteSet(1..n) /\ Cardinality(1..n) = n
      BY <1>1, FS_Interval
  <2> HIDE DEF r
  <2> QED BY <1>2, <1>4, <2>1, FS_Injection DEF n
<1>6. \A i \in 1..n : \E e \in S : place(e) = i - 1
  <2> SUFFICES ASSUME NEW i \in 1..n PROVE \E e \in S : place(e) = i - 1
      OBVIOUS
  <2>1. PICK e \in S : r[e] = i
      BY <1>5 DEF Surjection
  <2> QED BY <1>1, <2>1
<1>7. \A i \in 1..n : s[i] \in S /\ place(s[i]) = i - 1
    BY <1>3, <1>6
<1>8. s \in [1..n -> S]
    BY <1>3, <1>7
<1>9. s \in Seq(S) /\ Len(s) = n /\ DOMAIN s = 1..n
    BY <1>1, <1>8
<1>10. ASSUME NEW i \in 1..n, NEW j \in 1..n, i < j PROVE <<s[i], s[j]>> \in R
  <2>1. s[i] # s[j]
      BY <1>7, <1>10
  <2>2. <<s[j], s[i]>> \notin R
      BY <1>1, <1>7, <1>10
  <2> QED BY <1>2, <1>7, <2>1, <2>2
<1>11. ASSUME NEW e \in S PROVE \E i \in 1..n : s[i] = e
  <2>1. r[e] \in 1..n /\ place(s[r[e]]) = place(e)
      BY <1>1, <1>7
  <2>2. s[r[e]] = e
      BY <1>0, <1>7, <2>1
  <2> QED BY <2>1, <2>2
<1> QED BY <1>9, <1>10, <1>11 DEF n, s

\* The entries are in such an order, and an entry's rank is its place.
LEMMA ChainIsLine ==
    ASSUME NEW S, Chain(S)
    PROVE  LET R == {p \in S \X S : Before(p[1], p[2])}
           IN Line(S, R) /\ \A e \in S : Rank(S, e) = Place(S, R, e)
<1> DEFINE R == {p \in S \X S : Before(p[1], p[2])}
<1>1. \A e, f \in S : <<e, f>> \in R <=> Before(e, f)
    OBVIOUS
<1>2. IsFiniteSet(S) /\ S \subseteq Positions /\ \A e, f \in S : e # f => Before(e, f) \/ Before(f, e)
    BY DEF Chain
<1> HIDE DEF R
<1>3. Line(S, R)
  <2>1. \A e, f \in S : <<e, f>> \in R => <<f, e>> \notin R
      BY <1>1, <1>2, BeforeIsOrder
  <2>2. \A e, f, g \in S : <<e, f>> \in R /\ <<f, g>> \in R => <<e, g>> \in R
      BY <1>1, <1>2, BeforeIsOrder
  <2> QED BY <1>1, <1>2, <2>1, <2>2 DEF Line
<1>4. ASSUME NEW e \in S PROVE Rank(S, e) = Place(S, R, e)
  <2>1. {f \in S : Before(f, e)} = {f \in S : <<f, e>> \in R}
      BY <1>1
  <2> QED BY <2>1 DEF Rank, Place
<1> QED BY <1>3, <1>4 DEF R

\* An entry's rank is below the number of entries, and it grows along the order.
LEMMA Ranks ==
    ASSUME NEW S, Chain(S)
    PROVE  /\ Cardinality(S) \in Nat
           /\ \A e \in S : Rank(S, e) \in Nat /\ Rank(S, e) < Cardinality(S)
           /\ \A e, f \in S : Before(e, f) => Rank(S, e) < Rank(S, f)
<1> DEFINE R == {p \in S \X S : Before(p[1], p[2])}
<1>1. \A e, f \in S : <<e, f>> \in R <=> Before(e, f)
    OBVIOUS
<1>2. Line(S, R) /\ \A e \in S : Rank(S, e) = Place(S, R, e)
    BY ChainIsLine
<1> HIDE DEF R
<1> QED BY <1>1, <1>2, Places

\* The order of the BTreeMap: InOrder enumerates the entries, ascending.
LEMMA InOrderIs ==
    ASSUME NEW S, Chain(S)
    PROVE  /\ InOrder(S) \in Seq(S) /\ Len(InOrder(S)) = Cardinality(S)
           /\ Ascending(InOrder(S))
           /\ \A e \in S : \E i \in DOMAIN InOrder(S) : InOrder(S)[i] = e
<1> DEFINE R == {p \in S \X S : Before(p[1], p[2])}
           s == InOrder(S)
<1>1. \A e, f \in S : <<e, f>> \in R <=> Before(e, f)
    OBVIOUS
<1>2. Line(S, R) /\ \A e \in S : Rank(S, e) = Place(S, R, e)
    BY ChainIsLine
<1> HIDE DEF R
<1>3. s = Enumeration(S, R)
  <2>1. ASSUME NEW i \in 1..Cardinality(S)
        PROVE  (CHOOSE e \in S : Rank(S, e) = i - 1) = (CHOOSE e \in S : Place(S, R, e) = i - 1)
    <3>1. \A e \in S : Rank(S, e) = i - 1 <=> Place(S, R, e) = i - 1
        BY <1>2
    <3> QED BY <3>1
  <2>2. s = [i \in 1..Cardinality(S) |-> CHOOSE e \in S : Rank(S, e) = i - 1]
      BY DEF InOrder, Rank
  <2> QED BY <2>1, <2>2 DEF Enumeration
<1> HIDE DEF s
<1>4. /\ s \in Seq(S) /\ Len(s) = Cardinality(S)
      /\ \A i, j \in DOMAIN s : i < j => <<s[i], s[j]>> \in R
      /\ \A e \in S : \E i \in DOMAIN s : s[i] = e
    BY <1>2, <1>3, EnumerationIs
<1>5. Ascending(s)
  <2>1. \A i \in DOMAIN s : s[i] \in S
      BY <1>4
  <2> QED BY <1>1, <1>4, <2>1 DEF Ascending
<1> QED BY <1>4, <1>5 DEF s

\* Nothing else does: an ascending sequence is its entries in order.
LEMMA AscendingIsInOrder ==
    ASSUME NEW S, Chain(S), NEW s \in Seq(S), Ascending(s),
           \A e \in S : \E i \in DOMAIN s : s[i] = e
    PROVE  s = InOrder(S)
<1> DEFINE len == Len(s)
<1>0. len \in Nat /\ s \in [1..len -> S] /\ DOMAIN s = 1..len
    OBVIOUS
<1>1. S \subseteq Positions /\ IsFiniteSet(S)
    BY DEF Chain
<1> HIDE DEF len
<1>2. \A i, j \in 1..len : i < j => Before(s[i], s[j]) /\ s[i] # s[j] /\ ~Before(s[j], s[i])
    BY <1>0, <1>1, BeforeIsOrder DEF Ascending
<1>3. Cardinality(S) = len
  <2>1. s \in Bijection(1..len, S)
      BY <1>0, <1>2 DEF Bijection, Injection, Surjection, IsInjective
  <2> QED BY <1>0, <2>1, FS_CountingElements DEF ExistsBijection
<1>4. ASSUME NEW i \in 1..len PROVE Rank(S, s[i]) = i - 1
  <2> DEFINE below == {f \in S : Before(f, s[i])}
             b == [j \in 1..(i - 1) |-> s[j]]
  <2>1. i - 1 \in Nat /\ \A j \in 1..(i - 1) : j \in 1..len /\ j < i
      BY <1>0
  <2>2. b \in [1..(i - 1) -> below]
      BY <1>0, <1>2, <2>1
  <2>3. ASSUME NEW f \in below PROVE \E j \in 1..(i - 1) : b[j] = f
    <3>1. PICK j \in 1..len : s[j] = f
        BY <1>0
    <3>2. ~(i < j) /\ i # j
        BY <1>1, <1>2, <1>0, <3>1, BeforeIsOrder
    <3>3. j \in 1..(i - 1)
        BY <1>0, <3>2
    <3> QED BY <3>1, <3>3
  <2>4. \A j, m \in 1..(i - 1) : j # m => b[j] # b[m]
      BY <1>0, <1>2, <2>1
  <2> HIDE DEF below, b
  <2>5. b \in Bijection(1..(i - 1), below)
      BY <2>2, <2>3, <2>4 DEF Bijection, Injection, Surjection, IsInjective
  <2>6. Cardinality(below) = i - 1
      BY <2>1, <2>5, FS_CountingElements DEF ExistsBijection
  <2> QED BY <2>6 DEF Rank, below
<1>5. /\ InOrder(S) = [i \in 1..len |-> CHOOSE e \in S : Rank(S, e) = i - 1]
    BY <1>3 DEF InOrder, Rank
<1>6. ASSUME NEW i \in 1..len, NEW e \in S, Rank(S, e) = i - 1 PROVE e = s[i]
  <2>1. /\ \A x, y \in S : x # y => Before(x, y) \/ Before(y, x)
        /\ \A x, y \in S : Before(x, y) => Rank(S, x) < Rank(S, y)
        /\ \A x \in S : Rank(S, x) \in Nat
      BY Ranks DEF Chain
  <2>2. s[i] \in S /\ Rank(S, s[i]) = i - 1
      BY <1>0, <1>4
  <2> QED BY <1>6, <2>1, <2>2
<1>7. \A i \in 1..len : (CHOOSE e \in S : Rank(S, e) = i - 1) = s[i]
    BY <1>0, <1>4, <1>6
<1> QED BY <1>0, <1>5, <1>7

\* The entries of a function from keys.
EntriesOf(source) == {[key |-> k, sm |-> source[k]] : k \in DOMAIN source}

\* They can be put in order.
LEMMA EntriesChain ==
    ASSUME IsFiniteSet(Keys), NEW source, DOMAIN source \subseteq Keys, source \in [DOMAIN source -> SeqMarkeds]
    PROVE  /\ Chain(EntriesOf(source))
           /\ EntriesOf(source) \subseteq [key : Keys, sm : SeqMarkeds]
<1>1. EntriesOf(source) \subseteq [key : Keys, sm : SeqMarkeds]
    BY DEF EntriesOf
<1>2. EntriesOf(source) \subseteq Positions
    BY <1>1, RangeIterAssumption DEF Positions
<1>3. IsFiniteSet(EntriesOf(source))
  <2> DEFINE f == [k \in DOMAIN source |-> [key |-> k, sm |-> source[k]]]
             E == EntriesOf(source)
  <2>1. f \in Surjection(DOMAIN source, E)
      BY DEF EntriesOf, Surjection
  <2>2. IsFiniteSet(DOMAIN source)
      BY FS_Subset
  <2> HIDE DEF f, E
  <2>3. IsFiniteSet(E)
      BY <2>1, <2>2, FS_Surjection
  <2> QED BY <2>3 DEF E
<1>4. ASSUME NEW e \in EntriesOf(source), NEW f \in EntriesOf(source), e # f
      PROVE  Before(e, f) \/ Before(f, e)
  <2>1. e.key # f.key /\ e.key \in Nat /\ f.key \in Nat
      BY <1>4, RangeIterAssumption DEF EntriesOf
  <2> QED BY <2>1 DEF Before
<1> QED BY <1>1, <1>2, <1>3, <1>4 DEF Chain

-----------------------------------------------------------------------------
(* The cursor.                                                             *)

\* The cursors after each number of entries.
IsWalk(f, entries, upto, n) ==
    f = [i \in 0..n |-> IF i = 0 THEN NewCursor ELSE Advance(f[i - 1], entries[i], upto)]

\* There is one for any number of entries: the first number without one would
\* extend the one before it.
LEMMA WalkExists ==
    ASSUME NEW entries, NEW upto, NEW len \in Nat
    PROVE  \E f : IsWalk(f, entries, upto, len)
<1> DEFINE without == {n \in Nat : ~\E f : IsWalk(f, entries, upto, n)}
<1>1. SUFFICES ASSUME without # {} PROVE FALSE
    OBVIOUS
<1>2. PICK n \in without : \A x \in without : n <= x
  <2>1. without \subseteq Nat
      OBVIOUS
  <2> QED BY <1>1, <2>1, NonemptyNatSetHasMin
<1>3. n \in Nat /\ ~\E f : IsWalk(f, entries, upto, n)
    OBVIOUS
<1>4. CASE n = 0
  <2> DEFINE f == [i \in 0..0 |-> NewCursor]
  <2>1. IsWalk(f, entries, upto, 0)
      BY DEF IsWalk
  <2> QED BY <1>3, <1>4, <2>1
<1>5. CASE n # 0
  <2>1. n - 1 \in Nat /\ ~(n <= n - 1)
      BY <1>3, <1>5
  <2>2. n - 1 \notin without
      BY <1>2, <2>1
  <2>3. PICK f : IsWalk(f, entries, upto, n - 1)
      BY <2>1, <2>2
  <2> DEFINE g == [i \in 0..n |-> IF i = n THEN Advance(f[n - 1], entries[n], upto) ELSE f[i]]
  <2>4. ASSUME NEW i \in 0..n
        PROVE  g[i] = IF i = 0 THEN NewCursor ELSE Advance(g[i - 1], entries[i], upto)
    <3>1. CASE i = n
      <4>1. g[i - 1] = f[n - 1] /\ g[i] = Advance(f[n - 1], entries[n], upto)
          BY <1>3, <1>5, <3>1
      <4> QED BY <1>5, <3>1, <4>1
    <3>2. CASE i # n
      <4>1. /\ i \in 0..(n - 1) /\ g[i] = f[i]
            /\ i # 0 => i - 1 \in 0..n /\ i - 1 # n
          BY <1>3, <3>2
      <4>2. i # 0 => g[i - 1] = f[i - 1]
          BY <4>1
      <4>3. f[i] = IF i = 0 THEN NewCursor ELSE Advance(f[i - 1], entries[i], upto)
          BY <2>3, <4>1 DEF IsWalk
      <4> QED BY <4>1, <4>2, <4>3
    <3> QED BY <3>1, <3>2
  <2>5. IsWalk(g, entries, upto, n)
    <3>1. g = [i \in 0..n |-> g[i]]
        OBVIOUS
    <3> HIDE DEF g
    <3> QED BY <2>4, <3>1 DEF IsWalk
  <2> QED BY <1>3, <2>5
<1> QED BY <1>4, <1>5

\* So Walked is what its definition says.
LEMMA WalkedIs ==
    ASSUME NEW entries, Len(entries) \in Nat, NEW upto
    PROVE  /\ Walked(entries, upto)[0] = NewCursor
           /\ \A n \in 1..Len(entries) :
                 Walked(entries, upto)[n] = Advance(Walked(entries, upto)[n - 1], entries[n], upto)
<1> DEFINE P(f) == IsWalk(f, entries, upto, Len(entries))
           w == Walked(entries, upto)
<1>1. \E f : P(f)
    BY WalkExists
<1>2. P(CHOOSE f : P(f))
    BY <1>1
<1>3. w = CHOOSE f : P(f)
    BY DEF Walked, IsWalk
<1>4. IsWalk(w, entries, upto, Len(entries))
    BY <1>2, <1>3
<1> HIDE DEF w, P
<1>5. \A i \in 0..Len(entries) :
         w[i] = IF i = 0 THEN NewCursor ELSE Advance(w[i - 1], entries[i], upto)
    BY <1>4 DEF IsWalk
<1>6. 0 \in 0..Len(entries) /\ \A n \in 1..Len(entries) : n \in 0..Len(entries) /\ n # 0
    OBVIOUS
<1> QED BY <1>5, <1>6 DEF w

Seen(e, upto) == Leq(e.sm, NewTombstone(upto))

\* What the cursor has given of the first n entries: of each key the first entry
\* that is not too new.
Given(cursor, walk, n, upto) ==
    LET out == cursor.out
    IN /\ out \in Seq(Positions)
       /\ cursor.last_seen = IF Len(out) = 0 THEN {} ELSE {out[Len(out)].key}
       /\ \A i, j \in 1..Len(out) : i < j => out[i].key < out[j].key
       /\ \A i \in 1..Len(out) : \E j \in 1..n :
             /\ out[i] = walk[j] /\ Seen(walk[j], upto)
             /\ \A h \in 1..n : Seen(walk[h], upto) /\ walk[h].key = walk[j].key => j <= h
       /\ \A h \in 1..n : Seen(walk[h], upto) =>
             \E i \in 1..Len(out) : out[i].key = walk[h].key

\* One turn of the cursor keeps it so.
LEMMA AdvanceGives ==
    ASSUME NEW upto \in Nat, NEW walk \in Seq(Positions), Ascending(walk),
           NEW n \in Nat, n + 1 <= Len(walk), NEW cursor, Given(cursor, walk, n, upto)
    PROVE  Given(Advance(cursor, walk[n + 1], upto), walk, n + 1, upto)
<1> DEFINE e == walk[n + 1]
           out == cursor.out
           len == Len(out)
           next == Advance(cursor, e, upto)
<1>1. /\ out \in Seq(Positions) /\ len \in Nat
      /\ cursor.last_seen = IF len = 0 THEN {} ELSE {out[len].key}
      /\ \A i, j \in 1..len : i < j => out[i].key < out[j].key
      /\ \A i \in 1..len : \E j \in 1..n :
             /\ out[i] = walk[j] /\ Seen(walk[j], upto)
             /\ \A h \in 1..n : Seen(walk[h], upto) /\ walk[h].key = walk[j].key => j <= h
      /\ \A h \in 1..n : Seen(walk[h], upto) => \E i \in 1..len : out[i].key = walk[h].key
    BY DEF Given
<1>2. /\ e \in Positions /\ \A h \in 1..n : walk[h] \in Positions
      /\ \A h \in 1..n : walk[h].key <= e.key
  <2>1. n + 1 \in DOMAIN walk /\ \A h \in 1..n : h \in DOMAIN walk /\ h < n + 1
      OBVIOUS
  <2>2. \A h \in 1..n : Before(walk[h], e)
      BY <2>1 DEF Ascending
  <2>3. e \in Positions /\ \A h \in 1..n : walk[h] \in Positions
      BY <2>1
  <2> HIDE DEF e
  <2>4. ASSUME NEW h \in 1..n PROVE walk[h].key <= e.key
    <3>1. walk[h].key \in Nat /\ e.key \in Nat /\ Before(walk[h], e)
        BY <2>2, <2>3 DEF Positions
    <3> QED BY <3>1 DEF Before
  <2> QED BY <2>3, <2>4
<1>3. e.key \in Nat /\ \A i \in 1..len : out[i].key \in Nat /\ out[i].key <= e.key
    BY <1>1, <1>2 DEF Positions
<1>4. Seen(e, upto) <=> ~Lt(NewTombstone(upto), e.sm)
  <2>1. e.sm.seq \in Nat /\ e.sm.mark \in {0, 1}
      BY <1>2, SeqMarkedFields DEF Positions
  <2> HIDE DEF e
  <2> QED BY <2>1 DEF Seen, Leq, Lt, SameOrder, NewTombstone, TombStone
<1>5. \A h \in 1..(n + 1) : h \in 1..n \/ h = n + 1
    OBVIOUS
<1> HIDE DEF e, out, len
<1>0. /\ len # 0 => len \in 1..len /\ cursor.last_seen = {out[len].key}
      /\ len = 0 => cursor.last_seen = {}
    BY <1>1
<1>6. CASE e.key \in cursor.last_seen \/ ~Seen(e, upto)
  <2>1. next = cursor
      BY <1>4, <1>6 DEF Advance
  <2>2. ASSUME Seen(e, upto) PROVE \E i \in 1..len : out[i].key = e.key
      BY <1>0, <1>6, <2>2
  <2>3. ASSUME NEW i \in 1..len
        PROVE  \E j \in 1..(n + 1) :
                  /\ out[i] = walk[j] /\ Seen(walk[j], upto)
                  /\ \A h \in 1..(n + 1) : Seen(walk[h], upto) /\ walk[h].key = walk[j].key => j <= h
    <3>1. PICK j \in 1..n : /\ out[i] = walk[j] /\ Seen(walk[j], upto)
                            /\ \A h \in 1..n : Seen(walk[h], upto) /\ walk[h].key = walk[j].key => j <= h
        BY <1>1
    <3>2. j \in 1..(n + 1) /\ j <= n + 1
        OBVIOUS
    <3> QED BY <1>5, <3>1, <3>2
  <2>4. \A h \in 1..(n + 1) : Seen(walk[h], upto) => \E i \in 1..len : out[i].key = walk[h].key
      BY <1>1, <1>5, <2>2 DEF e
  <2> QED BY <1>1, <2>1, <2>3, <2>4 DEF Given, out, len, e
<1>7. CASE e.key \notin cursor.last_seen /\ Seen(e, upto)
  <2> DEFINE more == Append(out, e)
  <2>1. next = [last_seen |-> {e.key}, out |-> more]
      BY <1>4, <1>7 DEF Advance, out
  <2>2. /\ more \in Seq(Positions) /\ Len(more) = len + 1 /\ more[len + 1] = e
        /\ \A i \in 1..len : more[i] = out[i]
        /\ \A i \in 1..(len + 1) : i \in 1..len \/ i = len + 1
      BY <1>1, <1>2 DEF len
  <2> HIDE DEF more
  <2>3. ASSUME NEW i \in 1..len PROVE out[i].key < e.key
    <3>0. len # 0
        BY <1>1
    <3>1. out[len].key # e.key /\ len \in 1..len
        BY <1>0, <1>7, <3>0
    <3>2. i < len => out[i].key < out[len].key
        BY <1>1, <3>1
    <3>3. out[i].key \in Nat /\ out[len].key \in Nat /\ out[len].key <= e.key
        BY <1>3, <3>1
    <3>4. i = len \/ i < len
        BY <1>1
    <3> QED BY <1>3, <3>1, <3>2, <3>3, <3>4
  <2>4. ASSUME NEW i \in 1..(len + 1), NEW j \in 1..(len + 1), i < j
        PROVE  more[i].key < more[j].key
    <3>1. i \in 1..len /\ (j \in 1..len \/ j = len + 1)
        BY <1>1, <2>4
    <3> QED BY <1>1, <2>2, <2>3, <2>4, <3>1
  <2>5. ASSUME NEW i \in 1..(len + 1)
        PROVE  \E j \in 1..(n + 1) :
                  /\ more[i] = walk[j] /\ Seen(walk[j], upto)
                  /\ \A h \in 1..(n + 1) : Seen(walk[h], upto) /\ walk[h].key = walk[j].key => j <= h
    <3>1. CASE i \in 1..len
      <4>1. PICK j \in 1..n : /\ out[i] = walk[j] /\ Seen(walk[j], upto)
                              /\ \A h \in 1..n : Seen(walk[h], upto) /\ walk[h].key = walk[j].key => j <= h
          BY <1>1, <3>1
      <4>2. j \in 1..(n + 1) /\ j <= n + 1
          OBVIOUS
      <4> QED BY <1>5, <2>2, <3>1, <4>1, <4>2
    <3>2. CASE i = len + 1
      <4>1. ASSUME NEW h \in 1..n, Seen(walk[h], upto), walk[h].key = e.key PROVE FALSE
        <5>1. PICK g \in 1..len : out[g].key = e.key
            BY <1>1, <4>1
        <5> QED BY <1>3, <2>3, <5>1
      <4>2. n + 1 \in 1..(n + 1)
          OBVIOUS
      <4> QED BY <1>5, <1>7, <2>2, <3>2, <4>1, <4>2 DEF e
    <3> QED BY <2>2, <3>1, <3>2
  <2>6. ASSUME NEW h \in 1..(n + 1), Seen(walk[h], upto)
        PROVE  \E i \in 1..(len + 1) : more[i].key = walk[h].key
    <3>1. CASE h \in 1..n
      <4>1. PICK i \in 1..len : out[i].key = walk[h].key
          BY <1>1, <2>6, <3>1
      <4>2. i \in 1..(len + 1)
          BY <1>1
      <4> QED BY <2>2, <4>1, <4>2
    <3>2. CASE h = n + 1
      <4>1. len + 1 \in 1..(len + 1)
          BY <1>1
      <4> QED BY <2>2, <3>2, <4>1 DEF e
    <3> QED BY <1>5, <3>1, <3>2
  <2>7. Len(more) # 0 /\ next.out = more /\ next.last_seen = {more[Len(more)].key}
      BY <1>1, <2>1, <2>2
  <2> HIDE DEF next
  <2>8. Given(next, walk, n + 1, upto)
      BY <2>2, <2>4, <2>5, <2>6, <2>7 DEF Given
  <2> QED BY <2>8 DEF next, e
<1> QED BY <1>6, <1>7 DEF e

\* So at the end it has given of each key its newest entry that is not too new.
Newests(S, upto) ==
    {e \in S : Seen(e, upto) /\ \A f \in S : f.key = e.key /\ Seen(f, upto) => Leq(f.sm, e.sm)}

\* The cursor collected.
LEMMA WalkGives ==
    ASSUME NEW S, Chain(S), NEW upto \in Nat
    PROVE  Walked(InOrder(S), upto)[Len(InOrder(S))].out = InOrder(Newests(S, upto))
<1> DEFINE walk == InOrder(S)
           len == Len(walk)
           w == Walked(walk, upto)
           out == w[len].out
           newests == Newests(S, upto)
<1>1. /\ walk \in Seq(S) /\ S \subseteq Positions /\ len \in Nat /\ Ascending(walk)
      /\ DOMAIN walk = 1..len
      /\ \A e \in S : \E i \in 1..len : walk[i] = e
  <2>1. walk \in Seq(S) /\ Ascending(walk) /\ \A e \in S : \E i \in DOMAIN walk : walk[i] = e
      BY InOrderIs
  <2> QED BY <2>1 DEF Chain
<1>2. walk \in Seq(Positions) /\ \A i \in 1..len : walk[i] \in S /\ walk[i] \in Positions
    BY <1>1
<1>3. w[0] = NewCursor /\ \A n \in 1..len : w[n] = Advance(w[n - 1], walk[n], upto)
    BY <1>1, WalkedIs
<1> HIDE DEF walk, len, w
<1>4. \A n \in 0..len : Given(w[n], walk, n, upto)
  <2> DEFINE bad == {n \in 0..len : ~Given(w[n], walk, n, upto)}
  <2>1. SUFFICES ASSUME bad # {} PROVE FALSE
      OBVIOUS
  <2>2. PICK n \in bad : \A x \in bad : n <= x
    <3>1. bad \subseteq Nat
        BY <1>1
    <3> QED BY <2>1, <3>1, NonemptyNatSetHasMin
  <2>3. n \in 0..len /\ ~Given(w[n], walk, n, upto)
      OBVIOUS
  <2>4. n # 0
    <3>1. Given(NewCursor, walk, 0, upto)
        BY DEF Given, NewCursor
    <3> QED BY <1>3, <2>3, <3>1
  <2>5. n - 1 \in 0..len /\ n - 1 \in Nat /\ ~(n <= n - 1) /\ n \in 1..len /\ (n - 1) + 1 = n
      BY <1>1, <2>3, <2>4
  <2>6. Given(w[n - 1], walk, n - 1, upto)
      BY <2>2, <2>5
  <2>7. (n - 1) + 1 <= Len(walk)
      BY <1>1, <2>5 DEF len
  <2>8. Given(Advance(w[n - 1], walk[(n - 1) + 1], upto), walk, (n - 1) + 1, upto)
      BY <1>1, <1>2, <2>5, <2>6, <2>7, AdvanceGives
  <2> QED BY <1>3, <2>3, <2>5, <2>8
<1>5. /\ out \in Seq(Positions) /\ Len(out) \in Nat /\ DOMAIN out = 1..Len(out)
      /\ \A i, j \in 1..Len(out) : i < j => out[i].key < out[j].key
      /\ \A i \in 1..Len(out) : \E j \in 1..len :
             /\ out[i] = walk[j] /\ Seen(walk[j], upto)
             /\ \A h \in 1..len : Seen(walk[h], upto) /\ walk[h].key = walk[j].key => j <= h
      /\ \A h \in 1..len : Seen(walk[h], upto) =>
             \E i \in 1..Len(out) : out[i].key = walk[h].key
  <2>1. Given(w[len], walk, len, upto)
      BY <1>1, <1>4
  <2>2. /\ out \in Seq(Positions)
        /\ \A i, j \in 1..Len(out) : i < j => out[i].key < out[j].key
      BY <2>1 DEF Given
  <2>3. \A i \in 1..Len(out) : \E j \in 1..len :
             /\ out[i] = walk[j] /\ Seen(walk[j], upto)
             /\ \A h \in 1..len : Seen(walk[h], upto) /\ walk[h].key = walk[j].key => j <= h
      BY <2>1 DEF Given
  <2>4. \A h \in 1..len : Seen(walk[h], upto) =>
             \E i \in 1..Len(out) : out[i].key = walk[h].key
      BY <2>1 DEF Given
  <2> HIDE DEF out
  <2>5. Len(out) \in Nat /\ DOMAIN out = 1..Len(out)
      BY <2>2
  <2> QED BY <2>2, <2>3, <2>4, <2>5
<1> HIDE DEF out
<1>6. ASSUME NEW i \in 1..Len(out) PROVE out[i] \in newests
  <2>1. PICK j \in 1..len :
            /\ out[i] = walk[j] /\ Seen(walk[j], upto)
            /\ \A h \in 1..len : Seen(walk[h], upto) /\ walk[h].key = walk[j].key => j <= h
      BY <1>5
  <2>2. ASSUME NEW f \in S, f.key = walk[j].key, Seen(f, upto) PROVE Leq(f.sm, walk[j].sm)
    <3>1. PICK h \in 1..len : walk[h] = f
        BY <1>1
    <3>2. j <= h
        BY <2>1, <2>2, <3>1
    <3>3. j < h => Before(walk[j], walk[h])
        BY <1>1 DEF Ascending
    <3>4. j = h \/ j < h
        BY <1>1, <3>2
    <3>5. walk[j].key \in Nat
        BY <1>2 DEF Positions
    <3> QED BY <2>2, <3>1, <3>3, <3>4, <3>5 DEF Before, Leq, SameOrder
  <2>3. walk[j] \in S
      BY <1>2
  <2> QED BY <2>1, <2>2, <2>3 DEF Newests
<1>7. ASSUME NEW e \in newests PROVE \E i \in 1..Len(out) : out[i] = e
  <2>1. /\ e \in S /\ e \in Positions /\ Seen(e, upto)
        /\ \A f \in S : f.key = e.key /\ Seen(f, upto) => Leq(f.sm, e.sm)
      BY <1>1 DEF Newests
  <2>2. PICK h \in 1..len : walk[h] = e
      BY <1>1, <2>1
  <2>3. PICK i \in 1..Len(out) : out[i].key = e.key
      BY <1>5, <2>1, <2>2
  <2>4. /\ out[i] \in S /\ out[i] \in Positions /\ Seen(out[i], upto) /\ Leq(e.sm, out[i].sm)
      BY <1>1, <1>6, <2>1, <2>3 DEF Newests
  <2>5. Leq(out[i].sm, e.sm)
      BY <2>1, <2>3, <2>4
  <2>6. ~Before(e, out[i]) /\ ~Before(out[i], e)
    <3>1. /\ e.sm.seq \in Nat /\ e.sm.mark \in {0, 1} /\ e.key \in Nat
          /\ out[i].sm.seq \in Nat /\ out[i].sm.mark \in {0, 1}
        BY <2>1, <2>4, SeqMarkedFields DEF Positions
    <3> QED BY <2>3, <2>4, <2>5, <3>1 DEF Before, Leq, Lt, SameOrder
  <2> QED BY <2>1, <2>4, <2>6 DEF Chain
<1>8. Chain(newests)
  <2>1. newests \subseteq S
      BY DEF Newests
  <2> HIDE DEF newests
  <2> QED BY <2>1, FS_Subset DEF Chain
<1>9. out \in Seq(newests)
  <2>1. out = [i \in 1..Len(out) |-> out[i]]
      BY <1>5
  <2> HIDE DEF newests
  <2>2. out \in [1..Len(out) -> newests]
      BY <1>6, <2>1
  <2> DEFINE m == Len(out)
  <2>3. m \in Nat /\ out \in [1..m -> newests]
      BY <1>5, <2>2
  <2> HIDE DEF m
  <2> QED BY <2>3
<1>10. Ascending(out)
    BY <1>5 DEF Ascending, Before
<1> HIDE DEF newests
<1>11. out = InOrder(newests)
    BY <1>5, <1>7, <1>8, <1>9, <1>10, AscendingIsInOrder
<1> QED BY <1>11 DEF out, w, len, walk, newests

-----------------------------------------------------------------------------
(* The bounds.                                                             *)

\* A table in memory: finitely many entries, one for each order key, and their
\* sequences fit a u64.
InMemory(t) ==
    /\ t \in Tables /\ Unique(t) /\ IsFiniteSet(Keys)
    /\ \A k \in Keys : IsFiniteSet(t.inner[k]) /\ \A m \in t.inner[k] : m.seq <= MaxU64

IsRange(range) ==
    /\ range = [start |-> range.start, end |-> range.end]
    /\ IsBound(range.start) /\ IsBound(range.end)

\* Its entries.
LEMMA EntriesAre ==
    ASSUME NEW t, InMemory(t)
    PROVE  /\ \A e : e \in Entries(t) <=>
                 e = [key |-> e.key, sm |-> e.sm] /\ e.key \in Keys /\ e.sm \in t.inner[e.key]
           /\ Chain(Entries(t))
           /\ \A e \in Entries(t) : e.sm \in SeqMarkeds /\ e.sm.seq <= MaxU64
<1>0. Keys \subseteq Nat /\ \A k \in Keys : t.inner[k] \in SUBSET SeqMarkeds
    BY RangeIterAssumption DEF InMemory, Tables
<1>1. \A e : e \in Entries(t) <=>
          e = [key |-> e.key, sm |-> e.sm] /\ e.key \in Keys /\ e.sm \in t.inner[e.key]
  <2>1. \A e : e \in Entries(t) <=> \E k \in Keys : \E m \in t.inner[k] : e = [key |-> k, sm |-> m]
      BY DEF Entries
  <2> QED BY <2>1
<1>2. ASSUME NEW e \in Entries(t)
      PROVE  e \in Positions /\ e.sm \in SeqMarkeds /\ e.sm.seq <= MaxU64
  <2>1. e = [key |-> e.key, sm |-> e.sm] /\ e.key \in Keys /\ e.sm \in t.inner[e.key]
      BY <1>1
  <2>2. e.key \in Nat /\ e.sm \in SeqMarkeds
      BY <1>0, <2>1
  <2> QED BY <2>1, <2>2 DEF Positions, InMemory
<1>3. IsFiniteSet(Entries(t))
  <2> DEFINE row(k) == {[key |-> k, sm |-> m] : m \in t.inner[k]}
             rows == {row(k) : k \in Keys}
  <2>1. ASSUME NEW k \in Keys PROVE IsFiniteSet(row(k))
    <3> DEFINE f == [m \in t.inner[k] |-> [key |-> k, sm |-> m]]
    <3>1. f \in Surjection(t.inner[k], row(k))
        BY DEF Surjection
    <3>2. IsFiniteSet(t.inner[k])
        BY DEF InMemory
    <3> HIDE DEF f, row
    <3> QED BY <3>1, <3>2, FS_Surjection
  <2>2. IsFiniteSet(rows)
    <3> DEFINE g == [k \in Keys |-> row(k)]
    <3>1. g \in Surjection(Keys, rows)
      <4> HIDE DEF row
      <4> QED BY DEF Surjection
    <3>2. IsFiniteSet(Keys)
        BY DEF InMemory
    <3> HIDE DEF g, rows
    <3> QED BY <3>1, <3>2, FS_Surjection
  <2>3. \A r \in rows : IsFiniteSet(r)
    <3> HIDE DEF row
    <3> QED BY <2>1
  <2>4. Entries(t) = UNION rows
      BY DEF Entries
  <2> HIDE DEF rows
  <2> QED BY <2>2, <2>3, <2>4, FS_UNION
<1>4. ASSUME NEW e \in Entries(t), NEW f \in Entries(t), e # f
      PROVE  Before(e, f) \/ Before(f, e)
  <2>1. /\ e = [key |-> e.key, sm |-> e.sm] /\ e.key \in Keys /\ e.sm \in t.inner[e.key]
        /\ f = [key |-> f.key, sm |-> f.sm] /\ f.key \in Keys /\ f.sm \in t.inner[f.key]
      BY <1>1
  <2>2. /\ e.key \in Nat /\ f.key \in Nat
        /\ e.sm.seq \in Nat /\ e.sm.mark \in {0, 1} /\ f.sm.seq \in Nat /\ f.sm.mark \in {0, 1}
      BY <1>2, SeqMarkedFields DEF Positions
  <2>3. e.key = f.key => ~SameOrder(e.sm, f.sm)
      BY <1>4, <2>1 DEF InMemory, Unique
  <2> QED BY <2>2, <2>3 DEF Before, Lt, SameOrder
<1> QED BY <1>1, <1>2, <1>3, <1>4 DEF Chain

\* The translated bounds select the entries of the keys inside the range: no
\* order key is above MaxValue or below Zero.
LEMMA BoundsSelectKeys ==
    ASSUME NEW range, IsRange(range), NEW e \in Positions, e.sm.seq <= MaxU64
    PROVE  IsAfter(StartBound(range.start), e) /\ IsBefore(EndBound(range.end), e)
              <=> Inside(range, e.key)
<1> DEFINE start == range.start
           end == range.end
<1>1. /\ e.key \in Nat /\ e.sm.seq \in Nat /\ e.sm.mark \in {0, 1} /\ MaxU64 \in Nat
    BY SeqMarkedFields, RangeIterAssumption DEF Positions
<1>2. ~Lt(MaxValue, e.sm) /\ ~Lt(e.sm, Zero)
    BY <1>1 DEF Lt, MaxValue, OrderKey, NewTombstone, TombStone, Zero, Normal
<1> HIDE DEF start, end
<1>3. IsAfter(StartBound(start), e) <=>
         CASE start.kind = "Unbounded" -> TRUE
           [] start.kind = "Included"  -> e.key >= start.at
           [] start.kind = "Excluded"  -> e.key > start.at
  <2>1. IsBound(start)
      BY DEF IsRange, start
  <2>2. CASE start = Unbounded
      BY <2>2 DEF IsAfter, StartBound, Unbounded
  <2>3. CASE start.at \in Nat /\ start = Included(start.at)
    <3>1. start.kind = "Included"
        BY <2>3 DEF Included
    <3>2. StartBound(start) = Included([key |-> start.at, sm |-> MaxValue])
        BY <3>1 DEF StartBound
    <3>3. IsAfter(StartBound(start), e) <=> ~Before(e, [key |-> start.at, sm |-> MaxValue])
        BY <3>2 DEF IsAfter, Included
    <3> QED BY <1>1, <1>2, <2>3, <3>1, <3>3 DEF Before
  <2>4. CASE start.at \in Nat /\ start = Excluded(start.at)
    <3>1. start.kind = "Excluded"
        BY <2>4 DEF Excluded
    <3>2. StartBound(start) = Excluded([key |-> start.at, sm |-> Zero])
        BY <3>1 DEF StartBound
    <3>3. IsAfter(StartBound(start), e) <=> Before([key |-> start.at, sm |-> Zero], e)
        BY <3>2 DEF IsAfter, Excluded
    <3> QED BY <1>1, <1>2, <2>4, <3>1, <3>3 DEF Before
  <2> QED BY <2>1, <2>2, <2>3, <2>4 DEF IsBound
<1>4. IsBefore(EndBound(end), e) <=>
         CASE end.kind = "Unbounded" -> TRUE
           [] end.kind = "Included"  -> e.key <= end.at
           [] end.kind = "Excluded"  -> e.key < end.at
  <2>1. IsBound(end)
      BY DEF IsRange, end
  <2>2. CASE end = Unbounded
      BY <2>2 DEF IsBefore, EndBound, Unbounded
  <2>3. CASE end.at \in Nat /\ end = Included(end.at)
    <3>1. end.kind = "Included"
        BY <2>3 DEF Included
    <3>2. EndBound(end) = Included([key |-> end.at, sm |-> Zero])
        BY <3>1 DEF EndBound
    <3>3. IsBefore(EndBound(end), e) <=> ~Before([key |-> end.at, sm |-> Zero], e)
        BY <3>2 DEF IsBefore, Included
    <3> QED BY <1>1, <1>2, <2>3, <3>1, <3>3 DEF Before
  <2>4. CASE end.at \in Nat /\ end = Excluded(end.at)
    <3>1. end.kind = "Excluded"
        BY <2>4 DEF Excluded
    <3>2. EndBound(end) = Excluded([key |-> end.at, sm |-> MaxValue])
        BY <3>1 DEF EndBound
    <3>3. IsBefore(EndBound(end), e) <=> Before(e, [key |-> end.at, sm |-> MaxValue])
        BY <3>2 DEF IsBefore, Excluded
    <3> QED BY <1>1, <1>2, <2>4, <3>1, <3>3 DEF Before
  <2> QED BY <2>1, <2>2, <2>3, <2>4 DEF IsBound
<1> QED BY <1>3, <1>4 DEF Inside, start, end

\* And they panic just for bounds that exclude each other on plain keys.
LEMMA PanicsOnKeys ==
    ASSUME NEW range, IsRange(range)
    PROVE  OpenPanics(range) <=>
              /\ range.start.kind # "Unbounded" /\ range.end.kind # "Unbounded"
              /\ \/ range.start.at > range.end.at
                 \/ range.start = range.end /\ range.start.kind = "Excluded"
<1> DEFINE start == range.start
           end == range.end
           top(k) == [key |-> k, sm |-> MaxValue]
           bottom(k) == [key |-> k, sm |-> Zero]
<1>1. IsBound(start) /\ IsBound(end)
    BY DEF IsRange
<1>2. MaxU64 \in Nat
    BY RangeIterAssumption
<1>3. /\ Lt(Zero, MaxValue) /\ ~Lt(MaxValue, Zero) /\ Zero # MaxValue
      /\ ~Lt(Zero, Zero) /\ ~Lt(MaxValue, MaxValue)
    BY <1>2 DEF Lt, MaxValue, OrderKey, NewTombstone, TombStone, Zero, Normal
<1> HIDE DEF start, end
<1>4. /\ Unbounded.kind = "Unbounded"
      /\ \A x : Included(x).kind = "Included" /\ Included(x).at = x
      /\ \A x : Excluded(x).kind = "Excluded" /\ Excluded(x).at = x
    BY DEF Unbounded, Included, Excluded
<1>5. CASE start = Unbounded \/ end = Unbounded
    BY <1>4, <1>5 DEF OpenPanics, Inverted, StartBound, EndBound, start, end
<1>6. ASSUME start.at \in Nat, end.at \in Nat,
             start \in {Included(start.at), Excluded(start.at)},
             end \in {Included(end.at), Excluded(end.at)}
      PROVE  OpenPanics(range) <=>
                \/ start.at > end.at
                \/ start = end /\ start.kind = "Excluded"
  <2>1. /\ start = Included(start.at) => StartBound(start) = Included(top(start.at))
        /\ start = Excluded(start.at) => StartBound(start) = Excluded(bottom(start.at))
        /\ end = Included(end.at) => EndBound(end) = Included(bottom(end.at))
        /\ end = Excluded(end.at) => EndBound(end) = Excluded(top(end.at))
    <3> HIDE DEF top, bottom
    <3>1. ASSUME start = Included(start.at) PROVE StartBound(start) = Included(top(start.at))
      <4>1. start.kind = "Included"
          BY <1>4, <3>1
      <4> QED BY <4>1 DEF StartBound, top
    <3>2. ASSUME start = Excluded(start.at) PROVE StartBound(start) = Excluded(bottom(start.at))
      <4>1. start.kind = "Excluded"
          BY <1>4, <3>2
      <4> QED BY <4>1 DEF StartBound, bottom
    <3>3. ASSUME end = Included(end.at) PROVE EndBound(end) = Included(bottom(end.at))
      <4>1. end.kind = "Included"
          BY <1>4, <3>3
      <4> QED BY <4>1 DEF EndBound, bottom
    <3>4. ASSUME end = Excluded(end.at) PROVE EndBound(end) = Excluded(top(end.at))
      <4>1. end.kind = "Excluded"
          BY <1>4, <3>4
      <4> QED BY <4>1 DEF EndBound, top
    <3> QED BY <3>1, <3>2, <3>3, <3>4
  <2>2. OpenPanics(range) <=> Inverted(StartBound(start), EndBound(end))
      BY DEF OpenPanics, start, end
  <2>3. \A i, j \in Nat :
          /\ Before(bottom(i), top(j)) <=> i < j
          /\ Before(bottom(i), bottom(j)) <=> i < j
          /\ Before(top(i), top(j)) <=> i < j
          /\ Before(top(i), bottom(j)) <=> i <= j
      BY <1>3 DEF Before
  <2>4. \A i, j \in Nat : (top(i) = top(j) <=> i = j) /\ (bottom(i) = bottom(j) <=> i = j)
                          /\ top(i) # bottom(j)
      BY <1>3
  <2> HIDE DEF top, bottom
  <2>5. CASE start = Included(start.at) /\ end = Included(end.at)
    <3>1. OpenPanics(range) <=> Before(bottom(end.at), top(start.at))
        BY <1>4, <2>1, <2>2, <2>5 DEF Inverted
    <3>2. start.kind = "Included"
        BY <1>4, <2>5
    <3> QED BY <1>6, <2>3, <3>1, <3>2
  <2>6. CASE start = Included(start.at) /\ end = Excluded(end.at)
    <3>1. StartBound(start).kind = "Included" /\ StartBound(start).at = top(start.at)
          /\ EndBound(end).kind = "Excluded" /\ EndBound(end).at = top(end.at)
        BY <1>4, <2>1, <2>6
    <3>2. OpenPanics(range) <=> Before(top(end.at), top(start.at))
        BY <2>2, <3>1 DEF Inverted
    <3>3. start.kind = "Included"
        BY <1>4, <2>6
    <3> QED BY <1>6, <2>3, <3>2, <3>3
  <2>7. CASE start = Excluded(start.at) /\ end = Included(end.at)
    <3>1. StartBound(start).kind = "Excluded" /\ StartBound(start).at = bottom(start.at)
          /\ EndBound(end).kind = "Included" /\ EndBound(end).at = bottom(end.at)
        BY <1>4, <2>1, <2>7
    <3>2. OpenPanics(range) <=> Before(bottom(end.at), bottom(start.at))
        BY <2>2, <3>1 DEF Inverted
    <3>3. start.kind = "Excluded" /\ end.kind = "Included"
        BY <1>4, <2>7
    <3> QED BY <1>6, <2>3, <3>2, <3>3
  <2>8. CASE start = Excluded(start.at) /\ end = Excluded(end.at)
    <3>1. StartBound(start).kind = "Excluded" /\ StartBound(start).at = bottom(start.at)
          /\ EndBound(end).kind = "Excluded" /\ EndBound(end).at = top(end.at)
        BY <1>4, <2>1, <2>8
    <3>2. OpenPanics(range) <=> Before(top(end.at), bottom(start.at)) \/ StartBound(start) = EndBound(end)
        BY <2>2, <3>1 DEF Inverted
    <3>3. StartBound(start) # EndBound(end)
        BY <1>6, <2>4, <3>1
    <3>4. start.kind = "Excluded" /\ (start = end <=> start.at = end.at)
        BY <1>4, <2>8
    <3> QED BY <1>6, <2>3, <3>2, <3>3, <3>4
  <2> QED BY <1>6, <2>5, <2>6, <2>7, <2>8
<1>7. ASSUME start.at \in Nat, end.at \in Nat,
             start \in {Included(start.at), Excluded(start.at)},
             end \in {Included(end.at), Excluded(end.at)}
      PROVE  start.kind # "Unbounded" /\ end.kind # "Unbounded"
    BY <1>4, <1>7
<1> QED BY <1>1, <1>5, <1>6, <1>7 DEF IsBound, start, end

\* Collected, a range is what it means over plain keys: the newest visible entry
\* of each key inside, in key order.
LEMMA CollectIs ==
    ASSUME NEW t, InMemory(t), NEW range, IsRange(range), NEW upto \in Nat
    PROVE  Collect(t, range, upto) = AsSequence(RangeUpto(t, upto), range)
<1> DEFINE between == {e \in Entries(t) : /\ IsAfter(StartBound(range.start), e)
                                          /\ IsBefore(EndBound(range.end), e)}
           found == RangeUpto(t, upto)
           inside == {[key |-> k, sm |-> found[k]] : k \in {j \in DOMAIN found : Inside(range, j)}}
<1>1. /\ \A e : e \in Entries(t) <=>
              e = [key |-> e.key, sm |-> e.sm] /\ e.key \in Keys /\ e.sm \in t.inner[e.key]
      /\ Chain(Entries(t)) /\ Entries(t) \subseteq Positions
      /\ \A e \in Entries(t) : e.sm \in SeqMarkeds /\ e.sm.seq <= MaxU64
    BY EntriesAre DEF Chain
<1>2. between = {e \in Entries(t) : Inside(range, e.key)}
    BY <1>1, BoundsSelectKeys
<1>3. Chain(between)
  <2>1. between \subseteq Entries(t)
      OBVIOUS
  <2> HIDE DEF between
  <2> QED BY <1>1, <2>1, FS_Subset DEF Chain
<1>4. Collect(t, range, upto) = InOrder(Newests(between, upto))
  <2>1. Collect(t, range, upto) = Walked(InOrder(between), upto)[Len(InOrder(between))].out
      BY DEF Collect
  <2> HIDE DEF between
  <2> QED BY <1>3, <2>1, WalkGives
<1> HIDE DEF between
<1>5. \A k \in Keys : /\ t.inner[k] \in SUBSET SeqMarkeds
                      /\ Visible(t.inner[k], upto) = {m \in t.inner[k] : Leq(m, NewTombstone(upto))}
    BY DEF InMemory, Tables, Visible
<1>6. DOMAIN found = {j \in Keys : Visible(t.inner[j], upto) # {}}
      /\ \A k \in DOMAIN found : found[k] = Newest(Visible(t.inner[k], upto))
    BY DEF RangeUpto
<1> HIDE DEF found
<1>7. ASSUME NEW k \in DOMAIN found
      PROVE  /\ k \in Keys /\ found[k] \in t.inner[k] /\ Leq(found[k], NewTombstone(upto))
             /\ \A m \in t.inner[k] : Leq(m, NewTombstone(upto)) => Leq(m, found[k])
  <2> DEFINE visible == Visible(t.inner[k], upto)
  <2>1. k \in Keys /\ visible # {} /\ found[k] = Newest(visible)
      BY <1>6
  <2>2. /\ Newest(visible) \in visible
        /\ \A m \in visible : Leq(m, Newest(visible))
    <3>1. t.inner[k] \in SUBSET SeqMarkeds
        BY <1>5, <2>1
    <3>2. visible \in SUBSET SeqMarkeds /\ \A m \in visible : m.seq <= upto
        BY <3>1, VisibleIs
    <3> HIDE DEF visible
    <3> QED BY <2>1, <3>2, NewestIsNewest
  <2> QED BY <1>5, <2>1, <2>2
<1>8. ASSUME NEW e \in Newests(between, upto) PROVE e \in inside
  <2>1. /\ e = [key |-> e.key, sm |-> e.sm] /\ e.key \in Keys /\ e.sm \in t.inner[e.key]
        /\ Inside(range, e.key) /\ Leq(e.sm, NewTombstone(upto))
        /\ \A f \in between : f.key = e.key /\ Leq(f.sm, NewTombstone(upto)) => Leq(f.sm, e.sm)
      BY <1>1, <1>2 DEF Newests, Seen
  <2>2. e.key \in DOMAIN found
      BY <1>5, <1>6, <2>1
  <2> DEFINE f == [key |-> e.key, sm |-> found[e.key]]
  <2>3. f \in between
      BY <1>1, <1>2, <1>7, <2>1, <2>2
  <2>4. Leq(found[e.key], e.sm) /\ Leq(e.sm, found[e.key])
      BY <1>7, <2>1, <2>2, <2>3
  <2>5. e.sm = found[e.key]
    <3>1. found[e.key] \in t.inner[e.key] /\ found[e.key] \in SeqMarkeds /\ e.sm \in SeqMarkeds
        BY <1>5, <1>7, <2>1, <2>2
    <3>2. /\ found[e.key].seq \in Nat /\ found[e.key].mark \in {0, 1}
          /\ e.sm.seq \in Nat /\ e.sm.mark \in {0, 1}
        BY <3>1, SeqMarkedFields
    <3>3. SameOrder(found[e.key], e.sm)
        BY <2>4, <3>2 DEF Leq, Lt, SameOrder
    <3> QED BY <2>1, <3>1, <3>3 DEF InMemory, Unique
  <2> QED BY <2>1, <2>2, <2>5
<1>9. ASSUME NEW e \in inside PROVE e \in Newests(between, upto)
  <2>1. PICK k \in DOMAIN found : Inside(range, k) /\ e = [key |-> k, sm |-> found[k]]
      OBVIOUS
  <2>2. e \in between /\ e.key = k /\ e.sm = found[k]
      BY <1>1, <1>2, <1>7, <2>1
  <2>3. ASSUME NEW f \in between, f.key = e.key, Leq(f.sm, NewTombstone(upto))
        PROVE  Leq(f.sm, e.sm)
    <3>1. f.sm \in t.inner[k]
        BY <1>1, <1>2, <2>2, <2>3
    <3> QED BY <1>7, <2>2, <2>3, <3>1
  <2> QED BY <1>7, <2>2, <2>3 DEF Newests, Seen
<1>10. Newests(between, upto) = inside
    BY <1>8, <1>9
<1> QED BY <1>4, <1>10 DEF AsSequence, found

-----------------------------------------------------------------------------
(* The merge of two tables, and its coalescing.                            *)

\* Places are compared by key and order key, whatever the data.
LEMMA PlacesCompare ==
    ASSUME NEW e \in Positions, NEW f \in Positions
    PROVE  /\ \/ Before(e, f) /\ ~Before(f, e) /\ ~SamePlace(e, f) /\ ~SamePlace(f, e)
              \/ Before(f, e) /\ ~Before(e, f) /\ ~SamePlace(e, f) /\ ~SamePlace(f, e)
              \/ SamePlace(e, f) /\ SamePlace(f, e) /\ ~Before(e, f) /\ ~Before(f, e)
           /\ \A g \in Positions :
                 /\ Before(e, f) /\ Before(f, g) => Before(e, g)
                 /\ Before(e, f) /\ SamePlace(f, g) => Before(e, g)
                 /\ SamePlace(e, f) /\ Before(f, g) => Before(e, g)
                 /\ SamePlace(e, f) /\ SamePlace(f, g) => SamePlace(e, g)
<1>1. \A g \in Positions : g.key \in Nat /\ g.sm.seq \in Nat /\ g.sm.mark \in {0, 1}
    BY SeqMarkedFields DEF Positions
<1> QED BY <1>1 DEF Before, Lt, SamePlace, SameOrder

\* A merge of A and B: none of them before one that precedes it, and of two at one
\* place the first is A's, the second B's.
MergeOf(m, A, B) ==
    /\ A \subseteq Positions /\ B \subseteq Positions /\ m \in Seq(A \cup B)
    /\ \A i, j \in DOMAIN m : i < j =>
          /\ ~Before(m[j], m[i])
          /\ SamePlace(m[i], m[j]) => m[i] \in A /\ m[j] \in B
    /\ \A e \in A \cup B : \E i \in DOMAIN m : m[i] = e
    /\ \A e \in A, f \in B : SamePlace(e, f) =>
          \E i, j \in DOMAIN m : i < j /\ m[i] = e /\ m[j] = f

\* What kmerge_by gives of two tables is a merge of their entries.
LEMMA MergedIs ==
    ASSUME NEW t, InMemory(t), NEW other, InMemory(other)
    PROVE  MergeOf(Merged(t, other), Entries(t), Entries(other))
<1> DEFINE A == Entries(t)
           B == Entries(other)
           both == ({1} \X A) \cup ({2} \X B)
           first(p, q) == \/ Before(p[2], q[2])
                          \/ SamePlace(p[2], q[2]) /\ p[1] < q[1]
           R == {z \in both \X both : first(z[1], z[2])}
           s == Enumeration(both, R)
           m == Merged(t, other)
           chosen(i) == CHOOSE p \in both : Cardinality({q \in both : first(q, p)}) = i - 1
<1>1. /\ IsFiniteSet(A) /\ A \subseteq Positions /\ \A e, f \in A : e # f => Before(e, f) \/ Before(f, e)
      /\ IsFiniteSet(B) /\ B \subseteq Positions /\ \A e, f \in B : e # f => Before(e, f) \/ Before(f, e)
    BY EntriesAre DEF Chain
<1>2. m = [i \in 1..Cardinality(both) |-> chosen(i)[2]]
    BY DEF Merged
<1> HIDE DEF A, B, m
<1>3. \A p : p \in both <=> \/ p = <<1, p[2]>> /\ p[2] \in A
                            \/ p = <<2, p[2]>> /\ p[2] \in B
    OBVIOUS
<1>4. IsFiniteSet(both)
  <2>1. IsFiniteSet({1} \X A) /\ IsFiniteSet({2} \X B)
      BY <1>1, FS_Singleton, FS_Product
  <2> QED BY <2>1, FS_Union
<1> HIDE DEF both
<1>5. \A p, q \in both : <<p, q>> \in R <=> first(p, q)
    OBVIOUS
<1>6. m = [i \in 1..Cardinality(both) |-> s[i][2]] /\ DOMAIN s = 1..Cardinality(both)
  <2>1. \A p \in both : Cardinality({q \in both : first(q, p)}) = Place(both, R, p)
    <3> TAKE p \in both
    <3>1. {q \in both : first(q, p)} = {q \in both : <<q, p>> \in R}
        BY <1>5
    <3> QED BY <3>1 DEF Place
  <2>2. ASSUME NEW i \in 1..Cardinality(both)
        PROVE  chosen(i) = (CHOOSE p \in both : Place(both, R, p) = i - 1)
    <3>1. \A p \in both : Cardinality({q \in both : first(q, p)}) = i - 1 <=> Place(both, R, p) = i - 1
        BY <2>1
    <3> HIDE DEF first, R
    <3> QED BY <3>1
  <2> HIDE DEF first, R, s
  <2>3. /\ DOMAIN s = 1..Cardinality(both)
        /\ \A i \in 1..Cardinality(both) : s[i] = CHOOSE p \in both : Place(both, R, p) = i - 1
      BY DEF Enumeration, s
  <2> HIDE DEF chosen
  <2>4. \A i \in 1..Cardinality(both) : chosen(i) = s[i]
      BY <2>2, <2>3
  <2> QED BY <1>2, <2>3, <2>4
<1>7. \A p, q \in both : /\ p[2] \in Positions /\ p[1] \in {1, 2}
                         /\ p[1] = 1 => p[2] \in A
                         /\ p[1] = 2 => p[2] \in B
                         /\ p[1] = q[1] /\ p[2] = q[2] => p = q
    BY <1>1, <1>3
<1>8. \A e, f \in Positions : \/ Before(e, f) /\ ~Before(f, e) /\ ~SamePlace(e, f) /\ ~SamePlace(f, e)
                              \/ Before(f, e) /\ ~Before(e, f) /\ ~SamePlace(e, f) /\ ~SamePlace(f, e)
                              \/ SamePlace(e, f) /\ SamePlace(f, e) /\ ~Before(e, f) /\ ~Before(f, e)
    BY PlacesCompare
<1>9. \A e, f, g \in Positions :
         /\ Before(e, f) /\ Before(f, g) => Before(e, g)
         /\ Before(e, f) /\ SamePlace(f, g) => Before(e, g)
         /\ SamePlace(e, f) /\ Before(f, g) => Before(e, g)
         /\ SamePlace(e, f) /\ SamePlace(f, g) => SamePlace(e, g)
    BY PlacesCompare
<1> HIDE DEF R, s
<1>10. Line(both, R)
  <2>1. ASSUME NEW p \in both, NEW q \in both, p # q PROVE first(p, q) \/ first(q, p)
    <3>1. p[2] \in Positions /\ q[2] \in Positions /\ p[1] \in {1, 2} /\ q[1] \in {1, 2}
        BY <1>7
    <3>2. CASE p[1] = q[1]
      <4>1. p[2] # q[2]
          BY <1>7, <2>1, <3>2
      <4>2. (p[2] \in A /\ q[2] \in A) \/ (p[2] \in B /\ q[2] \in B)
          BY <1>7, <3>1, <3>2
      <4> QED BY <1>1, <4>1, <4>2
    <3>3. CASE p[1] # q[1]
      <4>1. p[1] < q[1] \/ q[1] < p[1]
          BY <3>1, <3>3
      <4> QED BY <1>8, <3>1, <4>1
    <3> QED BY <3>2, <3>3
  <2>2. ASSUME NEW p \in both, NEW q \in both, first(p, q) PROVE ~first(q, p)
    <3>1. p[2] \in Positions /\ q[2] \in Positions /\ ~(p[1] < q[1] /\ q[1] < p[1])
        BY <1>7
    <3> QED BY <1>8, <2>2, <3>1
  <2>3. ASSUME NEW p \in both, NEW q \in both, NEW r \in both, first(p, q), first(q, r) PROVE first(p, r)
    <3>1. p[2] \in Positions /\ q[2] \in Positions /\ r[2] \in Positions
          /\ (p[1] < q[1] /\ q[1] < r[1] => p[1] < r[1])
        BY <1>7
    <3> QED BY <1>9, <2>3, <3>1
  <2> HIDE DEF first
  <2> QED BY <1>4, <1>5, <2>1, <2>2, <2>3 DEF Line
<1>11. /\ s \in Seq(both) /\ Len(s) = Cardinality(both) /\ Cardinality(both) \in Nat
       /\ \A i, j \in DOMAIN s : i < j => <<s[i], s[j]>> \in R
       /\ \A p \in both : \E i \in DOMAIN s : s[i] = p
    BY <1>4, <1>10, EnumerationIs, FS_CardinalityType DEF s
<1>12. /\ DOMAIN m = DOMAIN s /\ \A i \in DOMAIN m : s[i] \in both /\ m[i] = s[i][2]
       /\ DOMAIN m = 1..Cardinality(both)
    BY <1>6, <1>11
<1>13. m \in Seq(A \cup B)
  <2>1. \A i \in 1..Cardinality(both) : m[i] \in A \cup B
      BY <1>3, <1>12
  <2>2. m \in [1..Cardinality(both) -> A \cup B]
      BY <1>6, <2>1
  <2> QED BY <1>11, <2>2
<1>14. ASSUME NEW i \in DOMAIN m, NEW j \in DOMAIN m, i < j
       PROVE  /\ ~Before(m[j], m[i])
              /\ SamePlace(m[i], m[j]) => m[i] \in A /\ m[j] \in B
  <2>1. first(s[i], s[j]) /\ s[i] \in both /\ s[j] \in both /\ m[i] = s[i][2] /\ m[j] = s[j][2]
      BY <1>5, <1>11, <1>12, <1>14
  <2>2. m[i] \in Positions /\ m[j] \in Positions
      BY <1>7, <2>1
  <2>3. SamePlace(m[i], m[j]) => s[i][1] < s[j][1]
      BY <1>8, <2>1, <2>2
  <2>4. s[i][1] < s[j][1] => s[i][1] = 1 /\ s[j][1] = 2
      BY <1>7, <2>1
  <2> QED BY <1>7, <1>8, <2>1, <2>2, <2>3, <2>4
<1>15. ASSUME NEW e \in A \cup B PROVE \E i \in DOMAIN m : m[i] = e
  <2>1. <<1, e>> \in both \/ <<2, e>> \in both
      BY <1>3
  <2>2. <<1, e>>[2] = e /\ <<2, e>>[2] = e
      OBVIOUS
  <2> QED BY <1>11, <1>12, <2>1, <2>2
<1>16. ASSUME NEW e \in A, NEW f \in B, SamePlace(e, f)
       PROVE  \E i, j \in DOMAIN m : i < j /\ m[i] = e /\ m[j] = f
  <2> DEFINE p == <<1, e>>
             q == <<2, f>>
  <2>1. p \in both /\ q \in both /\ p[1] = 1 /\ q[1] = 2 /\ p[2] = e /\ q[2] = f
      BY <1>3
  <2> HIDE DEF p, q
  <2>2. PICK i \in DOMAIN s : s[i] = p
      BY <1>11, <2>1
  <2>3. PICK j \in DOMAIN s : s[j] = q
      BY <1>11, <2>1
  <2>4. i \in Nat /\ j \in Nat /\ m[i] = e /\ m[j] = f
      BY <1>12, <2>1, <2>2, <2>3
  <2>5. ~(j < i) /\ i # j
    <3>1. SamePlace(f, e) /\ ~Before(f, e)
        BY <1>7, <1>8, <1>16, <2>1
    <3>2. ~first(q, p)
        BY <2>1, <3>1
    <3>3. ASSUME j < i PROVE first(q, p)
        BY <1>5, <1>11, <2>1, <2>2, <2>3, <3>3
    <3>4. p # q
        BY <2>1
    <3> QED BY <2>2, <2>3, <3>2, <3>3, <3>4
  <2> QED BY <1>12, <2>2, <2>3, <2>4, <2>5
<1>17. A \subseteq Positions /\ B \subseteq Positions
    BY <1>1
<1>18. MergeOf(m, A, B)
    BY <1>13, <1>14, <1>15, <1>16, <1>17 DEF MergeOf
<1> QED BY <1>18 DEF m, A, B

\* An entry an older reader has no use for: a newer one of its key is at or below min.
Gone(S, e, min) == \E g \in S : g.key = e.key /\ g.sm.seq <= min /\ Before(g, e)

\* What coalesce holds and has given out after n entries of a merge m: the entries
\* that are not gone, ascending, the held one last; two entries at one place are
\* gone, and a held entry at or below min stands for all that follow of its key.
Kept(c, S, m, n, min) ==
    LET s == c.out \o c.held
        h == c.held[1]
    IN /\ c = [held |-> c.held, out |-> c.out, panicked |-> FALSE]
       /\ c.out \in Seq(S) /\ c.held \in Seq(S) /\ s \in Seq(S) /\ Ascending(s)
       /\ \A i \in DOMAIN s : ~Gone(S, s[i], min)
       /\ \A j \in 1..n : Gone(S, m[j], min) \/ \E i \in DOMAIN s : s[i] = m[j]
       /\ \A i, j \in 1..n : i < j /\ SamePlace(m[i], m[j]) => Gone(S, m[j], min)
       /\ n = 0 => c.held = << >> /\ c.out = << >> /\ s = << >>
       /\ n # 0 => /\ c.held = <<h>> /\ Len(s) # 0 /\ s[Len(s)] = h
                   /\ h.key = m[n].key /\ \E j \in 1..n : h = m[j]
                   /\ \A j \in 1..n : m[j].key = m[n].key /\ m[j].sm.seq <= min => h.sm.seq <= min

\* An item put after ascending ones it comes after.
LEMMA PushIs ==
    ASSUME NEW S, NEW s \in Seq(S), NEW e \in S, Ascending(s), \A i \in DOMAIN s : Before(s[i], e)
    PROVE  LET p == s \o <<e>>
           IN /\ p \in Seq(S) /\ Len(p) = Len(s) + 1 /\ p[Len(s) + 1] = e
              /\ Len(s) \in Nat /\ DOMAIN s = 1..Len(s) /\ DOMAIN p = 1..(Len(s) + 1)
              /\ \A i \in DOMAIN s : p[i] = s[i]
              /\ \A i \in DOMAIN p : i \in DOMAIN s \/ i = Len(s) + 1
              /\ Ascending(p)
<1> DEFINE len == Len(s)
           p == s \o <<e>>
<1>1. len \in Nat /\ DOMAIN s = 1..len
    OBVIOUS
<1>2. /\ p \in Seq(S) /\ Len(p) = len + 1 /\ p[len + 1] = e /\ DOMAIN p = 1..(len + 1)
      /\ \A i \in 1..len : p[i] = s[i]
    OBVIOUS
<1> HIDE DEF len, p
<1>3. \A i \in 1..(len + 1) : i \in 1..len \/ i = len + 1
    BY <1>1
<1>4. ASSUME NEW i \in 1..(len + 1), NEW j \in 1..(len + 1), i < j PROVE Before(p[i], p[j])
  <2>1. i \in 1..len /\ (j \in 1..len \/ j = len + 1)
      BY <1>1, <1>4
  <2>2. CASE j \in 1..len
      BY <1>1, <1>2, <1>4, <2>1, <2>2 DEF Ascending
  <2>3. CASE j = len + 1
      BY <1>1, <1>2, <2>1, <2>3
  <2> QED BY <2>1, <2>2, <2>3
<1> QED BY <1>1, <1>2, <1>3, <1>4 DEF Ascending, len, p

\* One step of coalesce keeps it so, or meets two entries at one place that are not
\* gone, and fails its assertion.
LEMMA CoalesceKeeps ==
    ASSUME NEW A, NEW B, NEW m, MergeOf(m, A, B), NEW min \in Nat,
           NEW n \in Nat, n + 1 <= Len(m), NEW c, Kept(c, A \cup B, m, n, min)
    PROVE  LET next == CoalesceNext(c, m[n + 1], min)
           IN \/ /\ next.panicked = TRUE
                 /\ \E e \in A, f \in B : SamePlace(e, f) /\ ~Gone(A \cup B, e, min)
              \/ Kept(next, A \cup B, m, n + 1, min)
<1> DEFINE S == A \cup B
           e == m[n + 1]
           s == c.out \o c.held
           h == c.held[1]
           next == CoalesceNext(c, e, min)
           pushed == [held |-> <<e>>, out |-> s, panicked |-> FALSE]
<1>1. /\ c = [held |-> c.held, out |-> c.out, panicked |-> FALSE]
      /\ c.out \in Seq(S) /\ c.held \in Seq(S) /\ s \in Seq(S) /\ Ascending(s)
      /\ \A i \in DOMAIN s : ~Gone(S, s[i], min)
      /\ \A j \in 1..n : Gone(S, m[j], min) \/ \E i \in DOMAIN s : s[i] = m[j]
      /\ \A i, j \in 1..n : i < j /\ SamePlace(m[i], m[j]) => Gone(S, m[j], min)
      /\ n = 0 => c.held = << >> /\ c.out = << >> /\ s = << >>
      /\ n # 0 => /\ c.held = <<h>> /\ Len(s) # 0 /\ s[Len(s)] = h
                  /\ h.key = m[n].key /\ \E j \in 1..n : h = m[j]
                  /\ \A j \in 1..n : m[j].key = m[n].key /\ m[j].sm.seq <= min => h.sm.seq <= min
    BY DEF Kept
<1>2. /\ S \subseteq Positions /\ m \in Seq(S) /\ Len(m) \in Nat /\ DOMAIN m = 1..Len(m)
      /\ \A i, j \in DOMAIN m : i < j =>
            /\ ~Before(m[j], m[i])
            /\ SamePlace(m[i], m[j]) => m[i] \in A /\ m[j] \in B
      /\ \A g \in S : \E i \in DOMAIN m : m[i] = g
    BY DEF MergeOf
<1> HIDE DEF S, s, h
<1>3. \A i \in 1..Len(m) : m[i] \in S
    BY <1>2
<1>4. /\ n + 1 \in DOMAIN m /\ \A i \in 1..n : i \in DOMAIN m /\ i < n + 1 /\ i <= n
      /\ n # 0 => n \in 1..n
      /\ \A i \in 1..(n + 1) : i \in 1..n \/ i = n + 1
      /\ \A i \in DOMAIN m : i \in 1..n \/ i = n + 1 \/ n + 1 < i
    BY <1>2
<1>5. /\ e \in S /\ e \in Positions /\ e.key \in Nat
      /\ \A j \in 1..n : /\ m[j] \in S /\ m[j] \in Positions /\ m[j].key \in Nat /\ m[j].sm.seq \in Nat
                         /\ ~Before(e, m[j])
  <2>1. e \in S /\ \A j \in 1..n : m[j] \in S /\ ~Before(e, m[j])
      BY <1>2, <1>3, <1>4
  <2> HIDE DEF e
  <2> QED BY <1>2, <2>1, SeqMarkedFields DEF Positions
<1>6. \A i \in DOMAIN s : s[i] \in S /\ s[i] \in Positions
    BY <1>1, <1>2
<1> HIDE DEF e
\* The entry is gone only by one that came before it.
<1>7. Gone(S, e, min) => \E j \in 1..n : m[j].key = e.key /\ m[j].sm.seq <= min /\ Before(m[j], e)
  <2> SUFFICES ASSUME Gone(S, e, min)
               PROVE  \E j \in 1..n : m[j].key = e.key /\ m[j].sm.seq <= min /\ Before(m[j], e)
      OBVIOUS
  <2>1. PICK g \in S : g.key = e.key /\ g.sm.seq <= min /\ Before(g, e)
      BY DEF Gone
  <2>2. PICK i \in DOMAIN m : m[i] = g
      BY <1>2
  <2>3. i # n + 1
    <3>1. g # e
        BY <1>5, <2>1, BeforeIsOrder
    <3> QED BY <2>2, <3>1 DEF e
  <2>4. ~(n + 1 < i)
      BY <1>2, <1>4, <2>1, <2>2 DEF e
  <2> QED BY <1>4, <2>1, <2>2, <2>3, <2>4
\* Pushed behind the others it keeps the invariant.
<1>8. ASSUME \A i \in DOMAIN s : Before(s[i], e), ~Gone(S, e, min),
             \A j \in 1..n : ~SamePlace(m[j], e),
             \A j \in 1..n : m[j].key = e.key => ~(m[j].sm.seq <= min)
      PROVE  Kept(pushed, S, m, n + 1, min)
  <2> DEFINE p == s \o <<e>>
             len == Len(s)
  <2>1. /\ p \in Seq(S) /\ Len(p) = len + 1 /\ p[len + 1] = e
        /\ len \in Nat /\ DOMAIN s = 1..len /\ DOMAIN p = 1..(len + 1)
        /\ \A i \in DOMAIN s : p[i] = s[i]
        /\ \A i \in DOMAIN p : i \in DOMAIN s \/ i = len + 1
        /\ Ascending(p)
      BY <1>1, <1>5, <1>8, PushIs
  <2>2. /\ pushed.held = <<e>> /\ pushed.out = s /\ pushed.held[1] = e /\ <<e>> \in Seq(S)
        /\ pushed.out \o pushed.held = p
      BY <1>5
  <2>3. pushed = [held |-> pushed.held, out |-> pushed.out, panicked |-> FALSE]
      BY <2>2
  <2> HIDE DEF p, len, pushed
  <2>4. /\ n + 1 # 0 /\ len + 1 # 0 /\ n + 1 \in 1..(n + 1) /\ len + 1 \in 1..(len + 1)
        /\ \A i \in 1..len : i \in 1..(len + 1)
        /\ \A i, j \in 1..(n + 1) : i < j => i \in 1..n /\ (j \in 1..n \/ j = n + 1)
      BY <2>1
  <2>5. \A i \in DOMAIN p : ~Gone(S, p[i], min)
      BY <1>1, <1>8, <2>1
  <2>6. ASSUME NEW j \in 1..(n + 1)
        PROVE  Gone(S, m[j], min) \/ \E i \in DOMAIN p : p[i] = m[j]
    <3>1. CASE j = n + 1
        BY <2>1, <2>4, <3>1 DEF e
    <3>2. CASE j \in 1..n
      <4>1. Gone(S, m[j], min) \/ \E i \in DOMAIN s : s[i] = m[j]
          BY <1>1, <3>2
      <4> QED BY <2>1, <2>4, <4>1
    <3> QED BY <1>4, <3>1, <3>2
  <2>7. ASSUME NEW i \in 1..(n + 1), NEW j \in 1..(n + 1), i < j, SamePlace(m[i], m[j])
        PROVE  Gone(S, m[j], min)
    <3>1. i \in 1..n /\ (j \in 1..n \/ j = n + 1)
        BY <2>4, <2>7
    <3>2. j # n + 1
        BY <1>8, <2>7, <3>1 DEF e
    <3> QED BY <1>1, <2>7, <3>1, <3>2
  <2>8. \A j \in 1..(n + 1) : m[j].key = m[n + 1].key /\ m[j].sm.seq <= min => e.sm.seq <= min
      BY <1>4, <1>8 DEF e
  <2>9. e.key = m[n + 1].key /\ e = m[n + 1]
      BY DEF e
  <2>10. n + 1 # 0 /\ \E j \in 1..(n + 1) : e = m[j]
      BY <2>4, <2>9
  <2>11. Len(p) # 0 /\ p[Len(p)] = e /\ p \in Seq(S) /\ Ascending(p)
      BY <2>1, <2>4
  <2>12. pushed.out \in Seq(S)
      BY <1>1, <2>2
  <2> QED BY <2>2, <2>3, <2>5, <2>6, <2>7, <2>8, <2>9, <2>10, <2>11, <2>12 DEF Kept
<1>9. CASE n = 0
  <2>1. next = pushed
    <3>1. next = [c EXCEPT !.held = <<e>>]
        BY <1>1, <1>9 DEF CoalesceNext
    <3>2. c = [held |-> << >>, out |-> << >>, panicked |-> FALSE] /\ s = << >>
        BY <1>1, <1>9
    <3> HIDE DEF next
    <3> QED BY <3>1, <3>2
  <2>2. ~Gone(S, e, min) /\ (\A i \in DOMAIN s : Before(s[i], e)) /\ 1..n = {}
      BY <1>1, <1>7, <1>9
  <2>3. Kept(pushed, S, m, n + 1, min)
    <3> HIDE DEF pushed
    <3> QED BY <1>8, <2>2
  <2> HIDE DEF next, pushed
  <2>4. Kept(next, S, m, n + 1, min)
      BY <2>1, <2>3
  <2> QED BY <2>4 DEF next, S, e
<1>10. CASE n # 0
  <2>1. /\ c.held = <<h>> /\ Len(s) # 0 /\ s[Len(s)] = h /\ h.key = m[n].key
        /\ \A j \in 1..n : m[j].key = m[n].key /\ m[j].sm.seq <= min => h.sm.seq <= min
      BY <1>1, <1>10
  <2>2. PICK jh \in 1..n : h = m[jh]
      BY <1>1, <1>10
  <2>3. Len(s) \in DOMAIN s /\ Len(s) \in Nat /\ DOMAIN s = 1..Len(s)
      BY <1>1, <2>1
  <2>4. /\ h \in S /\ h \in Positions /\ ~Gone(S, h, min) /\ ~Before(e, h)
        /\ h.key \in Nat /\ h.sm.seq \in Nat
      BY <1>1, <1>5, <2>1, <2>2, <2>3
  <2>5. \A i \in DOMAIN s : s[i] = h \/ Before(s[i], h)
    <3> TAKE i \in DOMAIN s
    <3>1. i = Len(s) \/ i < Len(s)
        BY <2>3
    <3> QED BY <1>1, <2>1, <2>3, <3>1 DEF Ascending
  <2>6. h.key <= e.key
      BY <1>5, <2>4 DEF Before
  <2>7. c.held # << >> /\ c.held[1] = h
      BY <2>1 DEF h
  <2>8. CASE ~Before(h, e)
    <3>1. next.panicked = TRUE
      <4>1. next = [c EXCEPT !.panicked = TRUE]
          BY <2>7, <2>8 DEF CoalesceNext, OutOfOrder
      <4>2. c = [held |-> c.held, out |-> c.out, panicked |-> FALSE]
          BY <1>1
      <4> HIDE DEF next
      <4> QED BY <4>1, <4>2
    <3>2. SamePlace(h, e)
        BY <1>5, <2>4, <2>8, PlacesCompare
    <3>3. h \in A /\ e \in B
        BY <1>2, <1>4, <2>2, <3>2 DEF e
    <3> HIDE DEF next
    <3> QED BY <2>4, <3>1, <3>2, <3>3 DEF S, next, e
  <2>9. CASE Before(h, e) /\ h.key = e.key /\ h.sm.seq <= min
    <3>1. next = c
        BY <2>7, <2>9 DEF CoalesceNext, OutOfOrder, Coalesces
    <3>2. Gone(S, e, min)
        BY <2>4, <2>9 DEF Gone
    <3>3. ASSUME NEW j \in 1..(n + 1)
          PROVE  Gone(S, m[j], min) \/ \E i \in DOMAIN s : s[i] = m[j]
        BY <1>1, <1>4, <3>2 DEF e
    <3>4. ASSUME NEW i \in 1..(n + 1), NEW j \in 1..(n + 1), i < j, SamePlace(m[i], m[j])
          PROVE  Gone(S, m[j], min)
      <4>1. i \in 1..n /\ (j \in 1..n \/ j = n + 1)
          BY <3>4
      <4> QED BY <1>1, <3>2, <3>4, <4>1 DEF e
    <3>5. n + 1 # 0 /\ (\E j \in 1..(n + 1) : h = m[j]) /\ h.key = m[n + 1].key
      <4>1. n + 1 # 0 /\ jh \in 1..(n + 1)
          OBVIOUS
      <4> QED BY <2>2, <2>9, <4>1 DEF e
    <3>6. \A j \in 1..(n + 1) : m[j].key = m[n + 1].key /\ m[j].sm.seq <= min => h.sm.seq <= min
        BY <2>9
    <3>7. Kept(c, S, m, n + 1, min)
        BY <1>1, <2>1, <3>3, <3>4, <3>5, <3>6 DEF Kept, s, h
    <3> HIDE DEF next
    <3>8. Kept(next, S, m, n + 1, min)
        BY <3>1, <3>7
    <3> QED BY <3>8 DEF next, S, e
  <2>10. CASE Before(h, e) /\ ~(h.key = e.key /\ h.sm.seq <= min)
    <3>1. next = pushed
      <4>1. next = [c EXCEPT !.out = @ \o c.held, !.held = <<e>>]
          BY <2>7, <2>10 DEF CoalesceNext, OutOfOrder, Coalesces
      <4> DEFINE held == c.held
                 out == c.out
      <4>2. /\ c = [held |-> held, out |-> out, panicked |-> FALSE]
            /\ next = [c EXCEPT !.out = out \o held, !.held = <<e>>]
            /\ s = out \o held
          BY <1>1, <4>1 DEF s
      <4> HIDE DEF next, held, out
      <4> QED BY <4>2
    <3>2. \A i \in DOMAIN s : Before(s[i], e)
        BY <1>5, <1>6, <2>4, <2>5, <2>10, PlacesCompare
    <3>3. \A j \in 1..n : m[j].key = e.key => ~(m[j].sm.seq <= min)
      <4> SUFFICES ASSUME NEW j \in 1..n, m[j].key = e.key, m[j].sm.seq <= min PROVE FALSE
          OBVIOUS
      <4>1. m[j].key <= m[n].key
        <5>1. j = n \/ j < n
            OBVIOUS
        <5>2. m[j].key \in Nat /\ m[n].key \in Nat /\ (j = n \/ ~Before(m[n], m[j]))
            BY <1>2, <1>4, <1>5, <1>10, <5>1
        <5> QED BY <5>2 DEF Before
      <4>2. h.key = e.key
          BY <1>5, <2>1, <2>4, <2>6, <4>1
      <4> QED BY <2>1, <2>10, <4>2
    <3>4. ~Gone(S, e, min)
        BY <1>7, <3>3
    <3>5. ASSUME NEW j \in 1..n, SamePlace(m[j], e) PROVE FALSE
      <4>1. ~Gone(S, m[j], min)
        <5> SUFFICES ASSUME NEW g \in S, g.key = m[j].key, g.sm.seq <= min, Before(g, m[j]) PROVE FALSE
            BY DEF Gone
        <5>1. g \in Positions /\ g.key = e.key
            BY <1>2, <3>5 DEF SamePlace
        <5>2. Before(g, e)
            BY <1>5, <3>5, <5>1, PlacesCompare
        <5> QED BY <3>4, <5>1, <5>2 DEF Gone
      <4>2. PICK i \in DOMAIN s : s[i] = m[j]
          BY <1>1, <4>1
      <4>3. Before(m[j], e)
          BY <3>2, <4>2
      <4> QED BY <1>5, <3>5, <4>3, PlacesCompare
    <3> HIDE DEF next, pushed
    <3>6. Kept(next, S, m, n + 1, min)
        BY <1>8, <3>1, <3>2, <3>3, <3>4, <3>5
    <3> QED BY <3>6 DEF next, S, e
  <2> QED BY <2>8, <2>9, <2>10
<1> QED BY <1>9, <1>10

NothingHeld == [held |-> << >>, out |-> << >>, panicked |-> FALSE]

CoalesceStep(c, e, min) == IF c.panicked THEN c ELSE CoalesceNext(c, e, min)

\* The states of coalesce after each number of entries.
IsCoalescing(f, m, min, n) ==
    f = [i \in 0..n |-> IF i = 0 THEN NothingHeld ELSE CoalesceStep(f[i - 1], m[i], min)]

\* There are such states for any number of entries.
LEMMA CoalescingExists ==
    ASSUME NEW m, NEW min, NEW len \in Nat
    PROVE  \E f : IsCoalescing(f, m, min, len)
<1> DEFINE without == {n \in Nat : ~\E f : IsCoalescing(f, m, min, n)}
<1>1. SUFFICES ASSUME without # {} PROVE FALSE
    OBVIOUS
<1>2. PICK n \in without : \A x \in without : n <= x
  <2>1. without \subseteq Nat
      OBVIOUS
  <2> QED BY <1>1, <2>1, NonemptyNatSetHasMin
<1>3. n \in Nat /\ ~\E f : IsCoalescing(f, m, min, n)
    OBVIOUS
<1>4. CASE n = 0
  <2> DEFINE f == [i \in 0..0 |-> NothingHeld]
  <2>1. IsCoalescing(f, m, min, 0)
      BY DEF IsCoalescing
  <2> QED BY <1>3, <1>4, <2>1
<1>5. CASE n # 0
  <2>1. n - 1 \in Nat /\ ~(n <= n - 1)
      BY <1>3, <1>5
  <2>2. n - 1 \notin without
      BY <1>2, <2>1
  <2>3. PICK f : IsCoalescing(f, m, min, n - 1)
      BY <2>1, <2>2
  <2> DEFINE g == [i \in 0..n |-> IF i = n THEN CoalesceStep(f[n - 1], m[n], min) ELSE f[i]]
  <2>4. ASSUME NEW i \in 0..n
        PROVE  g[i] = IF i = 0 THEN NothingHeld ELSE CoalesceStep(g[i - 1], m[i], min)
    <3>1. CASE i = n
      <4>1. g[i - 1] = f[n - 1] /\ g[i] = CoalesceStep(f[n - 1], m[n], min)
          BY <1>3, <1>5, <3>1
      <4> QED BY <1>5, <3>1, <4>1
    <3>2. CASE i # n
      <4>1. /\ i \in 0..(n - 1) /\ g[i] = f[i]
            /\ i # 0 => i - 1 \in 0..n /\ i - 1 # n
          BY <1>3, <3>2
      <4>2. i # 0 => g[i - 1] = f[i - 1]
          BY <4>1
      <4>3. f[i] = IF i = 0 THEN NothingHeld ELSE CoalesceStep(f[i - 1], m[i], min)
          BY <2>3, <4>1 DEF IsCoalescing
      <4> QED BY <4>1, <4>2, <4>3
    <3> QED BY <3>1, <3>2
  <2>5. IsCoalescing(g, m, min, n)
    <3>1. g = [i \in 0..n |-> g[i]]
        OBVIOUS
    <3> HIDE DEF g
    <3> QED BY <2>4, <3>1 DEF IsCoalescing
  <2> QED BY <1>3, <2>5
<1> QED BY <1>4, <1>5

\* So CoalescedUpto is what its definition says.
LEMMA CoalescedUptoIs ==
    ASSUME NEW m, Len(m) \in Nat, NEW min
    PROVE  /\ CoalescedUpto(m, min)[0] = NothingHeld
           /\ \A n \in 1..Len(m) :
                 CoalescedUpto(m, min)[n] = CoalesceStep(CoalescedUpto(m, min)[n - 1], m[n], min)
<1> DEFINE P(f) == IsCoalescing(f, m, min, Len(m))
           w == CoalescedUpto(m, min)
<1>1. \E f : P(f)
    BY CoalescingExists
<1>2. P(CHOOSE f : P(f))
    BY <1>1
<1>3. w = CHOOSE f : P(f)
    BY DEF CoalescedUpto, IsCoalescing, NothingHeld, CoalesceStep
<1>4. IsCoalescing(w, m, min, Len(m))
    BY <1>2, <1>3
<1> HIDE DEF w, P
<1>5. \A i \in 0..Len(m) :
         w[i] = IF i = 0 THEN NothingHeld ELSE CoalesceStep(w[i - 1], m[i], min)
    BY <1>4 DEF IsCoalescing
<1>6. 0 \in 0..Len(m) /\ \A n \in 1..Len(m) : n \in 0..Len(m) /\ n # 0
    OBVIOUS
<1> QED BY <1>5, <1>6 DEF w

\* After any number of entries coalesce has kept what is not gone, or two entries at
\* one place that are not gone have failed its assertion.
LEMMA CoalescedKeeps ==
    ASSUME NEW A, NEW B, NEW m, MergeOf(m, A, B), NEW min \in Nat, NEW n \in 0..Len(m)
    PROVE  LET c == CoalescedUpto(m, min)[n]
           IN \/ /\ c.panicked = TRUE
                 /\ \E e \in A, f \in B : SamePlace(e, f) /\ ~Gone(A \cup B, e, min)
              \/ Kept(c, A \cup B, m, n, min)
<1> DEFINE S == A \cup B
           w == CoalescedUpto(m, min)
           fails == \E e \in A, f \in B : SamePlace(e, f) /\ ~Gone(S, e, min)
           wrong == {i \in 0..Len(m) : ~((w[i].panicked = TRUE /\ fails) \/ Kept(w[i], S, m, i, min))}
<1>1. Len(m) \in Nat
    BY DEF MergeOf
<1>2. /\ w[0] = NothingHeld
      /\ \A i \in 1..Len(m) : w[i] = CoalesceStep(w[i - 1], m[i], min)
    BY <1>1, CoalescedUptoIs
<1>3. SUFFICES ASSUME wrong # {} PROVE FALSE
    OBVIOUS
<1>4. PICK i \in wrong : \A x \in wrong : i <= x
  <2>1. wrong \subseteq Nat
      BY <1>1
  <2> HIDE DEF wrong
  <2> QED BY <1>3, <2>1, NonemptyNatSetHasMin
<1>5. i \in 0..Len(m) /\ ~((w[i].panicked = TRUE /\ fails) \/ Kept(w[i], S, m, i, min))
    OBVIOUS
<1> HIDE DEF w, S, fails
<1>6. CASE i = 0
  <2> DEFINE c == NothingHeld
  <2>1. /\ c.held = << >> /\ c.out = << >> /\ c.out \o c.held = << >>
        /\ c = [held |-> c.held, out |-> c.out, panicked |-> FALSE]
      BY DEF NothingHeld
  <2>2. << >> \in Seq(S) /\ DOMAIN << >> = {} /\ 1..0 = {}
      OBVIOUS
  <2> HIDE DEF c
  <2>3. Ascending(<< >>)
      BY <2>2 DEF Ascending
  <2>4. Kept(c, S, m, 0, min)
      BY <2>1, <2>2, <2>3 DEF Kept
  <2> QED BY <1>2, <1>5, <1>6, <2>4 DEF c
<1>7. CASE i # 0
  <2> DEFINE n1 == i - 1
             c == w[n1]
  <2>1. /\ n1 \in Nat /\ n1 \in 0..Len(m) /\ ~(i <= n1) /\ i = n1 + 1 /\ n1 + 1 <= Len(m)
        /\ i \in 1..Len(m)
      BY <1>1, <1>5, <1>7
  <2>2. (c.panicked = TRUE /\ fails) \/ Kept(c, S, m, n1, min)
      BY <1>4, <2>1
  <2>3. w[i] = CoalesceStep(c, m[n1 + 1], min)
      BY <1>2, <2>1
  <2> HIDE DEF n1, c
  <2>4. CASE c.panicked = TRUE /\ fails
    <3>1. w[i] = c
        BY <2>3, <2>4 DEF CoalesceStep
    <3> QED BY <1>5, <2>4, <3>1
  <2>5. CASE Kept(c, S, m, n1, min)
    <3>1. c.panicked = FALSE
      <4>1. c = [held |-> c.held, out |-> c.out, panicked |-> FALSE]
          BY <2>5 DEF Kept
      <4> QED BY <4>1
    <3>2. w[i] = CoalesceNext(c, m[n1 + 1], min)
        BY <2>3, <3>1 DEF CoalesceStep
    <3>3. \/ w[i].panicked = TRUE /\ fails
          \/ Kept(w[i], S, m, n1 + 1, min)
      <4> DEFINE next == CoalesceNext(c, m[n1 + 1], min)
      <4>1. Kept(c, A \cup B, m, n1, min) /\ n1 \in Nat /\ n1 + 1 <= Len(m)
          BY <2>1, <2>5 DEF S
      <4>2. \/ /\ next.panicked = TRUE
               /\ \E e \in A, f \in B : SamePlace(e, f) /\ ~Gone(A \cup B, e, min)
            \/ Kept(next, A \cup B, m, n1 + 1, min)
          BY <4>1, CoalesceKeeps
      <4> HIDE DEF next
      <4>3. (next.panicked = TRUE /\ fails) \/ Kept(next, S, m, n1 + 1, min)
          BY <4>2 DEF S, fails
      <4> QED BY <3>2, <4>3 DEF next
    <3> QED BY <1>5, <2>1, <3>3
  <2> QED BY <2>2, <2>4, <2>5
<1> QED BY <1>6, <1>7

\* Compacting two tables entry by entry keeps what Survivors states, and panics just
\* where CompactPanics says.
LEMMA CoalescedIs ==
    ASSUME NEW t, InMemory(t), NEW other, InMemory(other), NEW min \in Nat
    PROVE  LET coalesced == Coalesced(t, other, min)
           IN /\ coalesced.panicked <=> CompactPanics(t, other, min)
              /\ ~coalesced.panicked =>
                    coalesced.out \o coalesced.held = InOrder(Entries(Compact(t, other, min)))
<1> DEFINE A == Entries(t)
           B == Entries(other)
           S == A \cup B
           m == Merged(t, other)
           len == Len(m)
           c == Coalesced(t, other, min)
           left == Entries(Compact(t, other, min))
           fails == \E e \in A, f \in B : SamePlace(e, f) /\ ~Gone(S, e, min)
<1>1. /\ \A e : e \in A <=> e = [key |-> e.key, sm |-> e.sm] /\ e.key \in Keys /\ e.sm \in t.inner[e.key]
      /\ \A e : e \in B <=> e = [key |-> e.key, sm |-> e.sm] /\ e.key \in Keys /\ e.sm \in other.inner[e.key]
      /\ IsFiniteSet(A) /\ IsFiniteSet(B) /\ A \subseteq Positions /\ B \subseteq Positions
    BY EntriesAre DEF Chain
<1>2. MergeOf(m, A, B)
    BY MergedIs
<1>3. c = CoalescedUpto(m, min)[len]
    BY DEF Coalesced
<1> HIDE DEF A, B, m, c, len
<1>4. len \in Nat /\ len \in 0..len /\ DOMAIN m = 1..len
    BY <1>2 DEF MergeOf, len
<1>5. (c.panicked = TRUE /\ fails) \/ Kept(c, S, m, len, min)
    BY <1>2, <1>3, <1>4, CoalescedKeeps DEF len
<1>6. ASSUME NEW k \in Keys, NEW v
      PROVE  Shadowed(t.inner[k] \cup other.inner[k], v, min) <=> Gone(S, [key |-> k, sm |-> v], min)
  <2> DEFINE e == [key |-> k, sm |-> v]
  <2>1. ASSUME NEW g \in t.inner[k] \cup other.inner[k], g.seq <= min, Lt(v, g) PROVE Gone(S, e, min)
    <3> DEFINE d == [key |-> k, sm |-> g]
    <3>1. d \in S /\ d.key = e.key /\ d.sm.seq <= min /\ Before(d, e)
        BY <1>1, <2>1 DEF Before
    <3> HIDE DEF d, e
    <3> QED BY <3>1 DEF Gone
  <2>2. ASSUME NEW g \in S, g.key = e.key, g.sm.seq <= min, Before(g, e)
        PROVE  Shadowed(t.inner[k] \cup other.inner[k], v, min)
    <3>1. g.sm \in t.inner[k] \cup other.inner[k] /\ g.key \in Nat
        BY <1>1, <2>2, RangeIterAssumption
    <3>2. Lt(v, g.sm)
        BY <2>2, <3>1 DEF Before
    <3> QED BY <2>2, <3>1, <3>2 DEF Shadowed
  <2> QED BY <2>1, <2>2 DEF Shadowed, Gone
<1>7. CompactPanics(t, other, min) <=> fails
  <2>1. ASSUME CompactPanics(t, other, min) PROVE fails
    <3>1. PICK k \in Keys : \E v \in t.inner[k], n \in other.inner[k] :
              SameOrder(v, n) /\ ~Shadowed(t.inner[k] \cup other.inner[k], v, min)
        BY <2>1 DEF CompactPanics
    <3>2. PICK v \in t.inner[k], n \in other.inner[k] :
              SameOrder(v, n) /\ ~Shadowed(t.inner[k] \cup other.inner[k], v, min)
        BY <3>1
    <3> DEFINE e == [key |-> k, sm |-> v]
               f == [key |-> k, sm |-> n]
    <3>3. e \in A /\ f \in B /\ SamePlace(e, f)
        BY <1>1, <3>2 DEF SamePlace
    <3>4. ~Gone(S, e, min)
        BY <1>6, <3>2
    <3> HIDE DEF e, f, S
    <3> QED BY <3>3, <3>4
  <2>2. ASSUME fails PROVE CompactPanics(t, other, min)
    <3>1. PICK e \in A, f \in B : SamePlace(e, f) /\ ~Gone(S, e, min)
        BY <2>2
    <3>2. /\ e = [key |-> e.key, sm |-> e.sm] /\ e.key \in Keys /\ e.sm \in t.inner[e.key]
          /\ f.key = e.key /\ f.sm \in other.inner[e.key] /\ SameOrder(e.sm, f.sm)
        BY <1>1, <3>1 DEF SamePlace
    <3>3. ~Shadowed(t.inner[e.key] \cup other.inner[e.key], e.sm, min)
        BY <1>6, <3>1, <3>2
    <3> QED BY <3>2, <3>3 DEF CompactPanics
  <2> QED BY <2>1, <2>2
<1>8. \A e : e \in left <=> e \in S /\ ~Gone(S, e, min)
  <2>1. \A e : e \in left <=> \E k \in Keys : \E v \in Survivors(t.inner[k] \cup other.inner[k], min) :
                                 e = [key |-> k, sm |-> v]
    <3> DEFINE compacted == Compact(t, other, min)
    <3>1. \A k \in Keys : compacted.inner[k] = Survivors(t.inner[k] \cup other.inner[k], min)
        BY DEF Compact
    <3> HIDE DEF compacted
    <3>2. \A e : e \in Entries(compacted) <=>
             \E k \in Keys : \E v \in compacted.inner[k] : e = [key |-> k, sm |-> v]
        BY DEF Entries
    <3> QED BY <3>1, <3>2 DEF compacted
  <2> HIDE DEF left
  <2>2. ASSUME NEW e, e \in left PROVE e \in S /\ ~Gone(S, e, min)
    <3>0. PICK k \in Keys : \E v \in Survivors(t.inner[k] \cup other.inner[k], min) :
              e = [key |-> k, sm |-> v]
        BY <2>1, <2>2
    <3>1. PICK v \in Survivors(t.inner[k] \cup other.inner[k], min) : e = [key |-> k, sm |-> v]
        BY <3>0
    <3>2. v \in t.inner[k] \cup other.inner[k] /\ ~Shadowed(t.inner[k] \cup other.inner[k], v, min)
        BY DEF Survivors
    <3>3. e \in S
        BY <1>1, <3>1, <3>2
    <3> QED BY <1>6, <3>1, <3>2, <3>3
  <2>3. ASSUME NEW e, e \in S, ~Gone(S, e, min) PROVE e \in left
    <3>1. e = [key |-> e.key, sm |-> e.sm] /\ e.key \in Keys /\ e.sm \in t.inner[e.key] \cup other.inner[e.key]
        BY <1>1, <2>3
    <3>2. ~Shadowed(t.inner[e.key] \cup other.inner[e.key], e.sm, min)
        BY <1>6, <2>3, <3>1
    <3>3. e.sm \in Survivors(t.inner[e.key] \cup other.inner[e.key], min)
        BY <3>1, <3>2 DEF Survivors
    <3> QED BY <2>1, <3>1, <3>3
  <2> QED BY <2>2, <2>3
<1>9. IsFiniteSet(S) /\ S \subseteq Positions
    BY <1>1, FS_Union
<1> HIDE DEF S, left
<1>10. ASSUME Kept(c, S, m, len, min)
       PROVE  /\ c.panicked = FALSE /\ ~fails
              /\ c.out \o c.held = InOrder(left)
  <2> DEFINE s == c.out \o c.held
  <2>1. /\ c = [held |-> c.held, out |-> c.out, panicked |-> FALSE]
        /\ s \in Seq(S) /\ Ascending(s)
        /\ \A i \in DOMAIN s : ~Gone(S, s[i], min)
        /\ \A j \in 1..len : Gone(S, m[j], min) \/ \E i \in DOMAIN s : s[i] = m[j]
        /\ \A i, j \in 1..len : i < j /\ SamePlace(m[i], m[j]) => Gone(S, m[j], min)
      BY <1>10 DEF Kept
  <2> HIDE DEF s
  <2>2. c.panicked = FALSE
    <3>1. c = [held |-> c.held, out |-> c.out, panicked |-> FALSE]
        BY <2>1
    <3> QED BY <3>1
  <2>3. ASSUME NEW e \in A, NEW f \in B, SamePlace(e, f) PROVE Gone(S, e, min)
    <3>1. PICK i \in 1..len, j \in 1..len : i < j /\ m[i] = e /\ m[j] = f
        BY <1>2, <1>4, <2>3 DEF MergeOf
    <3>2. Gone(S, f, min)
        BY <2>1, <2>3, <3>1
    <3>3. PICK g \in S : g.key = f.key /\ g.sm.seq <= min /\ Before(g, f)
        BY <3>2 DEF Gone
    <3>4. SamePlace(f, e) /\ e \in Positions /\ f \in Positions /\ g \in Positions
        BY <1>1, <1>9, <2>3, PlacesCompare
    <3>5. Before(g, e) /\ g.key = e.key
        BY <3>3, <3>4, PlacesCompare DEF SamePlace
    <3> QED BY <3>3, <3>5 DEF Gone
  <2>4. \A e \in S : \E j \in 1..len : m[j] = e
      BY <1>2, <1>4 DEF MergeOf, S
  <2>5. \A e \in left : \E i \in DOMAIN s : s[i] = e
      BY <1>8, <2>1, <2>4
  <2>6. /\ \A i \in DOMAIN s : s[i] \in left
        /\ Len(s) \in Nat /\ DOMAIN s = 1..Len(s)
      BY <1>8, <2>1
  <2>7. s \in Seq(left)
    <3>1. s \in [1..Len(s) -> left]
        BY <2>1, <2>6
    <3> QED BY <2>6, <3>1
  <2>8. Chain(left)
    <3>1. left \subseteq S
        BY <1>8
    <3>2. IsFiniteSet(left) /\ left \subseteq Positions
        BY <1>9, <3>1, FS_Subset
    <3>3. ASSUME NEW e \in left, NEW f \in left, e # f PROVE Before(e, f) \/ Before(f, e)
      <4>1. PICK i \in DOMAIN s : s[i] = e
          BY <2>5
      <4>2. PICK j \in DOMAIN s : s[j] = f
          BY <2>5
      <4>3. i < j \/ j < i
          BY <2>6, <3>3, <4>1, <4>2
      <4> QED BY <2>1, <4>1, <4>2, <4>3 DEF Ascending
    <3> QED BY <3>2, <3>3 DEF Chain
  <2>9. s = InOrder(left)
      BY <2>1, <2>5, <2>7, <2>8, AscendingIsInOrder
  <2> QED BY <2>2, <2>3, <2>9 DEF s
<1> HIDE DEF fails
<1>11. /\ c.panicked <=> CompactPanics(t, other, min)
       /\ ~c.panicked => c.out \o c.held = InOrder(left)
    BY <1>5, <1>7, <1>10
<1> QED BY <1>11 DEF c, left

-----------------------------------------------------------------------------
(* Items and queues.  A source of a merge is a function from keys to        *)
(* entries.                                                                 *)

AllOk(q)  == \A i \in DOMAIN q : IsOk(q[i])
KeysOf(q) == {q[i].key : i \in {j \in DOMAIN q : IsOk(q[j])}}

KeysAscend(q) ==
    \A i, j \in DOMAIN q : i < j /\ IsOk(q[i]) /\ IsOk(q[j]) => q[i].key < q[j].key

\* What is left of a source, in key order.
LeftOf(q, source) ==
    /\ q \in Seq(Item) /\ KeysAscend(q)
    /\ \A i \in DOMAIN q : IsOk(q[i]) =>
          q[i].key \in DOMAIN source /\ q[i].sm = source[q[i].key]

\* An item of a sequence is an entry or the error.
LEMMA ItemIs ==
    ASSUME NEW r \in Item
    PROVE  /\ IsOk(r) => r \in [key : Keys, sm : SeqMarkeds] /\ r \in Positions
           /\ ~IsOk(r) => r = Failure
<1>1. IsOk(r) => r \in [key : Keys, sm : SeqMarkeds]
    BY DEF Item, IsOk
<1>2. \A e \in [key : Keys, sm : SeqMarkeds] : e \in Positions
    BY RangeIterAssumption DEF Positions
<1> QED BY <1>1, <1>2 DEF IsOk

\* The newer of two entries is one of them.
LEMMA NewerIs ==
    ASSUME NEW m, NEW n
    PROVE  Newer(m, n) \in {m, n}
BY DEF Newer

\* What is left once the head has gone.
LEMMA TailIs ==
    ASSUME NEW q \in Seq(Item), q # << >>, KeysAscend(q)
    PROVE  LET r == Head(q)
               rest == Tail(q)
           IN /\ r \in Item /\ rest \in Seq(Item)
              /\ 1 \in DOMAIN q /\ r = q[1]
              /\ \A i \in DOMAIN rest : i + 1 \in DOMAIN q /\ rest[i] = q[i + 1] /\ i \in Nat /\ i > 0
              /\ KeysAscend(rest)
              /\ KeysOf(q) = KeysOf(rest) \cup (IF IsOk(r) THEN {r.key} ELSE {})
              /\ IsOk(r) => \A k \in KeysOf(rest) : r.key < k
              /\ AllOk(q) => AllOk(rest)
<1> DEFINE r == Head(q)
           rest == Tail(q)
<1>1. /\ r \in Item /\ rest \in Seq(Item) /\ Len(q) \in Nat /\ Len(q) > 0
      /\ DOMAIN q = 1..Len(q) /\ DOMAIN rest = 1..(Len(q) - 1)
      /\ r = q[1] /\ \A i \in 1..(Len(q) - 1) : rest[i] = q[i + 1]
    OBVIOUS
<1> HIDE DEF r, rest
<1>2. /\ 1 \in DOMAIN q
      /\ \A i \in DOMAIN rest : i + 1 \in DOMAIN q /\ rest[i] = q[i + 1] /\ i \in Nat /\ i > 0
    BY <1>1
<1>3. KeysAscend(rest)
  <2> SUFFICES ASSUME NEW i \in DOMAIN rest, NEW j \in DOMAIN rest, i < j,
                      IsOk(rest[i]), IsOk(rest[j])
               PROVE  rest[i].key < rest[j].key
      BY DEF KeysAscend
  <2>1. i + 1 \in DOMAIN q /\ j + 1 \in DOMAIN q /\ i + 1 < j + 1
      BY <1>2
  <2> QED BY <1>2, <2>1 DEF KeysAscend
<1>4. ASSUME NEW i \in DOMAIN q PROVE i = 1 \/ (i - 1 \in DOMAIN rest /\ q[i] = rest[i - 1])
    BY <1>1
<1>5. KeysOf(q) = KeysOf(rest) \cup (IF IsOk(r) THEN {r.key} ELSE {})
  <2>1. ASSUME NEW k \in KeysOf(q) PROVE k \in KeysOf(rest) \cup (IF IsOk(r) THEN {r.key} ELSE {})
    <3>1. PICK i \in DOMAIN q : IsOk(q[i]) /\ k = q[i].key
        BY DEF KeysOf
    <3> QED BY <1>1, <1>4, <3>1 DEF KeysOf
  <2>2. ASSUME NEW k \in KeysOf(rest) PROVE k \in KeysOf(q)
    <3>1. PICK i \in DOMAIN rest : IsOk(rest[i]) /\ k = rest[i].key
        BY DEF KeysOf
    <3> QED BY <1>2, <3>1 DEF KeysOf
  <2>3. IsOk(r) => r.key \in KeysOf(q)
      BY <1>1, <1>2 DEF KeysOf
  <2> QED BY <2>1, <2>2, <2>3
<1>6. ASSUME IsOk(r), NEW k \in KeysOf(rest) PROVE r.key < k
  <2>1. PICK i \in DOMAIN rest : IsOk(rest[i]) /\ k = rest[i].key
      BY DEF KeysOf
  <2>2. i + 1 \in DOMAIN q /\ 1 < i + 1 /\ rest[i] = q[i + 1]
      BY <1>2
  <2> QED BY <1>1, <1>2, <1>6, <2>1, <2>2 DEF KeysAscend
<1>7. AllOk(q) => AllOk(rest)
    BY <1>2 DEF AllOk
<1> QED BY <1>1, <1>2, <1>3, <1>5, <1>6, <1>7 DEF r, rest

\* A head is an entry of its source, and its queue goes on without it.
LEMMA HeadIs ==
    ASSUME NEW q, NEW source, LeftOf(q, source), q # << >>
    PROVE  /\ LeftOf(Tail(q), source)
           /\ IsOk(Head(q)) => /\ Head(q).key \in DOMAIN source
                               /\ Head(q).sm = source[Head(q).key]
           /\ \A k \in KeysOf(q) : IsOk(Head(q)) => Head(q).key <= k
<1>1. q \in Seq(Item) /\ KeysAscend(q)
    BY DEF LeftOf
<1>2. /\ Tail(q) \in Seq(Item) /\ KeysAscend(Tail(q))
      /\ 1 \in DOMAIN q /\ Head(q) = q[1] /\ Head(q) \in Item
      /\ \A i \in DOMAIN Tail(q) : i + 1 \in DOMAIN q /\ Tail(q)[i] = q[i + 1]
      /\ KeysOf(q) = KeysOf(Tail(q)) \cup (IF IsOk(Head(q)) THEN {Head(q).key} ELSE {})
      /\ IsOk(Head(q)) => \A k \in KeysOf(Tail(q)) : Head(q).key < k
    BY <1>1, TailIs
<1>3. LeftOf(Tail(q), source)
    BY <1>2 DEF LeftOf
<1>4. IsOk(Head(q)) => Head(q).key \in DOMAIN source /\ Head(q).sm = source[Head(q).key]
    BY <1>2 DEF LeftOf
<1>5. ASSUME IsOk(Head(q)), NEW k \in KeysOf(q) PROVE Head(q).key <= k
  <2>1. Head(q).key \in Nat
      BY <1>2, <1>5, ItemIs DEF Positions
  <2>2. k = Head(q).key \/ Head(q).key < k
      BY <1>2, <1>5
  <2>3. k \in Nat
    <3>1. PICK i \in DOMAIN q : IsOk(q[i]) /\ k = q[i].key
        BY DEF KeysOf
    <3>2. q[i] \in Item
        BY <1>1
    <3> QED BY <3>1, <3>2, ItemIs DEF Positions
  <2> QED BY <2>1, <2>2, <2>3
<1> QED BY <1>3, <1>4, <1>5

\* Keys of items are numbers.
LEMMA KeysAreNumbers ==
    ASSUME NEW q \in Seq(Item)
    PROVE  /\ \A k \in KeysOf(q) : k \in Nat /\ k \in Keys
           /\ \A i \in DOMAIN q : IsOk(q[i]) => q[i].key \in Nat /\ q[i].key \in KeysOf(q)
<1>1. \A i \in DOMAIN q : q[i] \in Item
    OBVIOUS
<1> QED BY <1>1, ItemIs DEF KeysOf, Positions

-----------------------------------------------------------------------------
(* What the consumer knows: the items yielded and the one held back.       *)

Taken(known, r) ==
    IF known # << >> /\ CanMerge(known[Len(known)], r)
    THEN [known EXCEPT ![Len(known)] = Merge(@, r)]
    ELSE Append(known, r)

\* A step of the stream adds an item to what is known, or merges it into the last.
LEMMA TakenKnown ==
    ASSUME NEW given \in Seq(Item), NEW last \in Seq(Item), Len(last) <= 1,
           last = << >> => given = << >>, NEW r \in Item
    PROVE  /\ (given \o GivenOut(last, r)) \o HeldAfter(last, r) = Taken(given \o last, r)
           /\ given \o GivenOut(last, r) \in Seq(Item)
           /\ HeldAfter(last, r) \in Seq(Item) /\ Len(HeldAfter(last, r)) = 1
<1>1. CASE last = << >>
  <2>1. given = << >> /\ GivenOut(last, r) = << >> /\ HeldAfter(last, r) = <<r>>
      BY <1>1 DEF GivenOut, HeldAfter
  <2>2. given \o last = << >>
      BY <1>1, <2>1
  <2>3. Taken(given \o last, r) = <<r>>
      BY <2>2 DEF Taken
  <2> QED BY <2>1, <2>3
<1>2. CASE last # << >>
  <2> DEFINE known == given \o last
             x == last[1]
             n == Len(given)
  <2>1. /\ n \in Nat /\ Len(last) = 1 /\ last = <<x>> /\ x \in Item
        /\ known = Append(given, x) /\ Len(known) = n + 1 /\ known \in Seq(Item)
        /\ known[n + 1] = x /\ known # << >> /\ \A i \in 1..n : known[i] = given[i]
        /\ DOMAIN known = 1..(n + 1)
    <3>1. Len(last) = 1 /\ last = <<x>> /\ x \in Item /\ n \in Nat
      <4> DEFINE size == Len(last)
      <4>1. size \in Nat /\ size # 0 /\ size <= 1
          BY <1>2
      <4> HIDE DEF size
      <4>2. size = 1
          BY <4>1
      <4>3. DOMAIN last = 1..1 /\ 1 \in DOMAIN last
          BY <4>2 DEF size
      <4> QED BY <4>2, <4>3 DEF size
    <3> HIDE DEF x
    <3>2. known = Append(given, x)
        BY <3>1
    <3> HIDE DEF known
    <3>3. /\ known \in Seq(Item) /\ Len(known) = n + 1 /\ known[n + 1] = x /\ known # << >>
          /\ \A i \in 1..n : known[i] = given[i]
        BY <3>1, <3>2
    <3> QED BY <3>1, <3>2, <3>3
  <2> HIDE DEF known, x
  <2>2. CASE CanMerge(x, r)
    <3>1. GivenOut(last, r) = << >> /\ HeldAfter(last, r) = <<Merge(x, r)>>
        BY <1>2, <2>2 DEF GivenOut, HeldAfter, x
    <3>2. Merge(x, r) \in Item
      <4>1. IsOk(x) /\ IsOk(r) /\ x \in [key : Keys, sm : SeqMarkeds] /\ r \in [key : Keys, sm : SeqMarkeds]
          BY <2>1, <2>2, ItemIs DEF CanMerge
      <4>2. Newer(x.sm, r.sm) \in SeqMarkeds
          BY <4>1, NewerIs
      <4> QED BY <4>1, <4>2 DEF Merge, Item
    <3>3. Taken(known, r) = [known EXCEPT ![n + 1] = Merge(x, r)]
        BY <2>1, <2>2 DEF Taken
    <3> DEFINE m == Merge(x, r)
    <3> HIDE DEF m
    <3>4. [known EXCEPT ![n + 1] = m] = Append(given, m)
      <4>1. /\ DOMAIN Append(given, m) = 1..(n + 1) /\ Append(given, m)[n + 1] = m
            /\ \A i \in 1..n : Append(given, m)[i] = given[i]
            /\ Append(given, m) = [i \in 1..(n + 1) |-> Append(given, m)[i]]
        <5>1. m \in Item /\ given \in Seq(Item) /\ Len(given) = n
            BY <3>2 DEF m
        <5>2. Append(given, m) \in Seq(Item) /\ Len(Append(given, m)) = n + 1
            BY <5>1
        <5>3. Append(given, m)[n + 1] = m /\ \A i \in 1..n : Append(given, m)[i] = given[i]
            BY <5>1
        <5> DEFINE a == Append(given, m)
        <5> HIDE DEF a
        <5>4. a \in Seq(Item) /\ Len(a) = n + 1
            BY <5>2 DEF a
        <5>5. DOMAIN a = 1..(n + 1) /\ a = [i \in 1..(n + 1) |-> a[i]]
            BY <5>4
        <5> QED BY <5>3, <5>5 DEF a
      <4>2. \A i \in 1..(n + 1) : i = n + 1 \/ (i \in 1..n /\ i # n + 1)
          BY <2>1
      <4>3. \A i \in 1..(n + 1) : [known EXCEPT ![n + 1] = m][i] = Append(given, m)[i]
          BY <2>1, <4>1, <4>2
      <4> HIDE DEF n
      <4> QED BY <2>1, <4>1, <4>3
    <3>5. (given \o << >>) \o <<m>> = Append(given, m)
        BY <3>2 DEF m
    <3>6. given \o << >> = given /\ <<m>> \in Seq(Item) /\ Len(<<m>>) = 1
        BY <3>2 DEF m
    <3> QED BY <3>1, <3>3, <3>4, <3>5, <3>6 DEF known, m
  <2>3. CASE ~CanMerge(x, r)
    <3>1. GivenOut(last, r) = last /\ HeldAfter(last, r) = <<r>>
        BY <1>2, <2>3 DEF GivenOut, HeldAfter, x
    <3>2. Taken(known, r) = Append(known, r)
        BY <2>1, <2>3 DEF Taken
    <3>3. known \o <<r>> = Append(known, r) /\ <<r>> \in Seq(Item) /\ Len(<<r>>) = 1
        BY <2>1
    <3> QED BY <2>1, <3>1, <3>2, <3>3 DEF known
  <2> QED BY <2>2, <2>3
<1> QED BY <1>1, <1>2

\* Taken item by item.
LEMMA TakenIs ==
    ASSUME NEW known \in Seq(Item), NEW r \in Item
    PROVE  LET next == Taken(known, r)
               len == Len(known)
           IN /\ len \in Nat /\ DOMAIN known = 1..len
              /\ CASE len > 0 /\ CanMerge(known[len], r) ->
                        /\ next \in Seq(Item) /\ Len(next) = len /\ DOMAIN next = 1..len
                        /\ IsOk(known[len]) /\ IsOk(r) /\ known[len].key = r.key
                        /\ next[len] = [key |-> r.key, sm |-> Newer(known[len].sm, r.sm)]
                        /\ IsOk(next[len])
                        /\ \A i \in 1..(len - 1) : next[i] = known[i]
                        /\ KeysOf(next) = KeysOf(known)
                   [] OTHER ->
                        /\ next \in Seq(Item) /\ Len(next) = len + 1 /\ DOMAIN next = 1..(len + 1)
                        /\ next[len + 1] = r
                        /\ \A i \in 1..len : next[i] = known[i]
                        /\ KeysOf(next) = KeysOf(known) \cup (IF IsOk(r) THEN {r.key} ELSE {})
<1> DEFINE next == Taken(known, r)
           len == Len(known)
<1>1. len \in Nat /\ DOMAIN known = 1..len /\ (known # << >> <=> len > 0)
      /\ \A i \in 1..len : known[i] \in Item
    OBVIOUS
<1>2. CASE len > 0 /\ CanMerge(known[len], r)
  <2>1. /\ IsOk(known[len]) /\ IsOk(r) /\ known[len].key = r.key /\ len \in 1..len
        /\ known[len] \in [key : Keys, sm : SeqMarkeds] /\ r \in [key : Keys, sm : SeqMarkeds]
      BY <1>1, <1>2, ItemIs DEF CanMerge
  <2> DEFINE m == [key |-> r.key, sm |-> Newer(known[len].sm, r.sm)]
  <2>2. m \in [key : Keys, sm : SeqMarkeds]
      BY <2>1, NewerIs
  <2>3. m \in Item /\ IsOk(m)
      BY <2>2, StreamMergeAssumption DEF Item, IsOk
  <2>4. Merge(known[len], r) = m
      BY <2>1 DEF Merge
  <2>5. next = [known EXCEPT ![len] = m]
      BY <1>1, <1>2, <2>4 DEF Taken
  <2>6. m.key = r.key
      OBVIOUS
  <2> HIDE DEF m, len, next
  <2>7. known \in Seq(Item)
      OBVIOUS
  <2>8. /\ next \in Seq(Item) /\ Len(next) = len /\ DOMAIN next = 1..len /\ next[len] = m
        /\ \A i \in 1..(len - 1) : next[i] = known[i]
    <3>1. known \in [1..len -> Item] /\ len \in Nat
        BY <1>1
    <3>2. next \in [1..len -> Item] /\ next[len] = m /\ \A i \in 1..(len - 1) : next[i] = known[i]
        BY <2>1, <2>3, <2>5, <3>1
    <3>3. next \in Seq(Item) /\ Len(next) = len
        BY <3>1, <3>2
    <3> QED BY <3>2, <3>3
  <2>9. \A i \in 1..len : i \in 1..(len - 1) \/ i = len
      BY <1>1
  <2>10. \A i \in 1..len : (IsOk(next[i]) <=> IsOk(known[i])) /\ (IsOk(known[i]) => next[i].key = known[i].key)
      BY <2>1, <2>3, <2>6, <2>8, <2>9
  <2>11. KeysOf(next) = KeysOf(known)
      BY <1>1, <2>8, <2>10 DEF KeysOf
  <2> QED BY <1>1, <1>2, <2>1, <2>3, <2>8, <2>11 DEF m, len, next
<1>3. CASE ~(len > 0 /\ CanMerge(known[len], r))
  <2>1. next = Append(known, r)
      BY <1>1, <1>3 DEF Taken
  <2>2. /\ next \in Seq(Item) /\ Len(next) = len + 1 /\ DOMAIN next = 1..(len + 1)
        /\ next[len + 1] = r /\ \A i \in 1..len : next[i] = known[i]
      BY <2>1
  <2> HIDE DEF len, next
  <2>3. \A i \in 1..(len + 1) : i \in 1..len \/ i = len + 1
      BY <1>1
  <2>4. \A i \in 1..len : i \in 1..(len + 1)
      BY <1>1
  <2>5. len + 1 \in 1..(len + 1)
      BY <1>1
  <2>6. KeysOf(next) = KeysOf(known) \cup (IF IsOk(r) THEN {r.key} ELSE {})
    <3>1. ASSUME NEW k \in KeysOf(next) PROVE k \in KeysOf(known) \cup (IF IsOk(r) THEN {r.key} ELSE {})
      <4>1. PICK i \in 1..(len + 1) : IsOk(next[i]) /\ k = next[i].key
          BY <2>2 DEF KeysOf
      <4> QED BY <1>1, <2>2, <2>3, <4>1 DEF KeysOf
    <3>2. ASSUME NEW k \in KeysOf(known) PROVE k \in KeysOf(next)
      <4>1. PICK i \in 1..len : IsOk(known[i]) /\ k = known[i].key
          BY <1>1 DEF KeysOf
      <4> QED BY <2>2, <2>4, <4>1 DEF KeysOf
    <3>3. IsOk(r) => r.key \in KeysOf(next)
        BY <2>2, <2>5 DEF KeysOf
    <3> QED BY <3>1, <3>2, <3>3
  <2> QED BY <1>1, <1>3, <2>2, <2>6 DEF len, next
<1> QED BY <1>2, <1>3

HasError(q) == \E i \in DOMAIN q : ~IsOk(q[i])

\* An error leaves a stream only as its head.
LEMMA ErrorStays ==
    ASSUME NEW q \in Seq(Item), q # << >>, HasError(q), IsOk(Head(q))
    PROVE  HasError(Tail(q))
<1>1. PICK i \in DOMAIN q : ~IsOk(q[i])
    BY DEF HasError
<1> DEFINE rest == Tail(q)
<1>2. /\ Len(q) \in Nat /\ Len(q) > 0 /\ DOMAIN q = 1..Len(q) /\ Head(q) = q[1]
      /\ DOMAIN rest = 1..(Len(q) - 1) /\ \A j \in 1..(Len(q) - 1) : rest[j] = q[j + 1]
    OBVIOUS
<1> HIDE DEF rest
<1>3. i # 1 /\ i \in 1..Len(q)
    BY <1>1, <1>2
<1>4. i - 1 \in 1..(Len(q) - 1) /\ q[i] = rest[i - 1]
    BY <1>2, <1>3
<1> QED BY <1>1, <1>2, <1>4 DEF HasError, rest

\* The consumer keeps the errors it knows of, and learns of one it takes: errors
\* are not merged.
LEMMA ErrorTaken ==
    ASSUME NEW known \in Seq(Item), NEW r \in Item
    PROVE  HasError(known) \/ ~IsOk(r) => HasError(Taken(known, r))
<1> DEFINE len == Len(known)
           next == Taken(known, r)
<1>1. CASE len > 0 /\ CanMerge(known[len], r)
  <2>1. /\ len \in Nat /\ DOMAIN known = 1..len /\ DOMAIN next = 1..len
        /\ IsOk(known[len]) /\ IsOk(r)
        /\ \A i \in 1..(len - 1) : next[i] = known[i]
      BY <1>1, TakenIs
  <2> HIDE DEF len, next
  <2>2. ASSUME NEW i \in 1..len, ~IsOk(known[i]) PROVE ~IsOk(next[i])
    <3>1. i \in 1..(len - 1)
        BY <2>1, <2>2
    <3> QED BY <2>1, <2>2, <3>1
  <2> QED BY <2>1, <2>2 DEF HasError, next
<1>2. CASE ~(len > 0 /\ CanMerge(known[len], r))
  <2>1. /\ len \in Nat /\ DOMAIN known = 1..len /\ DOMAIN next = 1..(len + 1)
        /\ next[len + 1] = r
        /\ \A i \in 1..len : next[i] = known[i]
      BY <1>2, TakenIs
  <2> HIDE DEF len, next
  <2>2. len + 1 \in 1..(len + 1) /\ \A i \in 1..len : i \in 1..(len + 1)
      BY <2>1
  <2> QED BY <2>1, <2>2 DEF HasError, next
<1> QED BY <1>1, <1>2

\* Keys the consumer knows it keeps, and it learns the key of an entry it takes.
LEMMA KeysTaken ==
    ASSUME NEW known \in Seq(Item), NEW r \in Item
    PROVE  /\ KeysOf(known) \subseteq KeysOf(Taken(known, r))
           /\ IsOk(r) => r.key \in KeysOf(Taken(known, r))
<1> DEFINE len == Len(known)
<1>1. CASE len > 0 /\ CanMerge(known[len], r)
  <2>1. /\ KeysOf(Taken(known, r)) = KeysOf(known)
        /\ IsOk(known[len]) /\ known[len].key = r.key
        /\ len \in Nat /\ DOMAIN known = 1..len
      BY <1>1, TakenIs
  <2>2. len \in DOMAIN known
      BY <1>1, <2>1
  <2>3. r.key \in KeysOf(known)
      BY <2>1, <2>2 DEF KeysOf
  <2> QED BY <2>1, <2>3
<1>2. CASE ~(len > 0 /\ CanMerge(known[len], r))
  <2>1. KeysOf(Taken(known, r)) = KeysOf(known) \cup (IF IsOk(r) THEN {r.key} ELSE {})
      BY <1>2, TakenIs
  <2> QED BY <2>1
<1> QED BY <1>1, <1>2

\* Which of two entries comes first makes no difference, where the assertion of
\* by_key_seq holds.
LEMMA NewerCommutes ==
    ASSUME NEW m \in SeqMarkeds, NEW n \in SeqMarkeds, ~(SameOrder(m, n) /\ m.mark = Normal)
    PROVE  Newer(m, n) = Newer(n, m)
<1>1. m.seq \in Nat /\ m.mark \in {0, 1} /\ n.seq \in Nat /\ n.mark \in {0, 1}
    BY SeqMarkedFields
<1>2. CASE SameOrder(m, n)
  <2>1. m.mark = TombStone /\ n.mark = TombStone /\ m.seq = n.seq
      BY <1>1, <1>2 DEF SameOrder, Normal, TombStone
  <2>2. m = n
      BY <2>1 DEF SeqMarkeds
  <2> QED BY <2>2
<1>3. CASE ~SameOrder(m, n)
    BY <1>1, <1>3 DEF Newer, Leq, Lt, SameOrder
<1> QED BY <1>2, <1>3

\* by_key_seq puts one of any two items before the other.
LEMMA PlacedIsTotal ==
    ASSUME NEW x \in Item, NEW y \in Item
    PROVE  PlacedBefore(x, y) \/ PlacedBefore(y, x)
<1>1. CASE ~IsOk(x) \/ ~IsOk(y)
    BY <1>1 DEF PlacedBefore
<1>2. CASE IsOk(x) /\ IsOk(y)
  <2>1. x \in Positions /\ y \in Positions
      BY <1>2, ItemIs
  <2>2. /\ x.key \in Nat /\ y.key \in Nat
        /\ x.sm.seq \in Nat /\ y.sm.seq \in Nat
        /\ x.sm.mark \in {0, 1} /\ y.sm.mark \in {0, 1}
      BY <2>1, SeqMarkedFields DEF Positions
  <2> QED BY <2>2 DEF PlacedBefore, Leq, Lt, SameOrder
<1> QED BY <1>1, <1>2

\* So a head that goes out is before every other head.
LEMMA GoesFirstIs ==
    ASSUME NEW q, NEW i, GoesFirst(q, i), \A j \in Heads(q) : Head(q[j]) \in Item
    PROVE  \A j \in Heads(q) \ {i} : PlacedBefore(Head(q[i]), Head(q[j]))
BY PlacedIsTotal DEF GoesFirst

Cut(found, asked) == [k \in {j \in DOMAIN found : Inside(asked, j)} |-> found[k]]

\* A source in order is a queue of it, and all of it.
LEMMA QueueOf ==
    ASSUME IsFiniteSet(Keys),
           NEW source, DOMAIN source \subseteq Keys, source \in [DOMAIN source -> SeqMarkeds]
    PROVE  LET q == InOrder(EntriesOf(source))
           IN LeftOf(q, source) /\ AllOk(q) /\ DOMAIN source \subseteq KeysOf(q)
<1> DEFINE E == EntriesOf(source)
           q == InOrder(E)
<1>1. Chain(E) /\ E \subseteq [key : Keys, sm : SeqMarkeds]
    BY EntriesChain
<1>2. \A e \in E : e.key \in DOMAIN source /\ e.sm = source[e.key]
    BY DEF EntriesOf
<1>3. \A k \in DOMAIN source : [key |-> k, sm |-> source[k]] \in E
    BY DEF EntriesOf
<1> HIDE DEF E
<1>4. q \in Seq(E) /\ Ascending(q) /\ \A e \in E : \E i \in DOMAIN q : q[i] = e
    BY <1>1, InOrderIs
<1> HIDE DEF q
<1>5. \A i \in DOMAIN q : q[i] \in E
    BY <1>4
<1>6. E \subseteq Item /\ \A e \in E : IsOk(e)
    BY <1>1, StreamMergeAssumption DEF Item, IsOk
<1>7. q \in Seq(Item)
    BY <1>4, <1>6
<1>8. AllOk(q)
    BY <1>5, <1>6 DEF AllOk
<1>9. ASSUME NEW i \in DOMAIN q, NEW j \in DOMAIN q, i < j PROVE q[i].key < q[j].key
  <2>1. Before(q[i], q[j]) /\ ~Before(q[j], q[i]) /\ q[i] \in Positions /\ q[j] \in Positions
    <3>1. q[i] \in Positions /\ q[j] \in Positions
        BY <1>1, <1>5 DEF Chain
    <3> QED BY <1>4, <1>9, <3>1, BeforeIsOrder DEF Ascending
  <2>2. q[i].key # q[j].key
    <3>1. ASSUME q[i].key = q[j].key PROVE FALSE
      <4>1. q[i].sm = q[j].sm
          BY <1>2, <1>5, <3>1
      <4>2. q[i].sm.seq \in Nat /\ q[i].sm.mark \in {0, 1} /\ q[i].key \in Nat
          BY <2>1, SeqMarkedFields DEF Positions
      <4> QED BY <2>1, <3>1, <4>1, <4>2 DEF Before, Lt
    <3> QED BY <3>1
  <2> QED BY <2>1, <2>2 DEF Before, Positions
<1>10. LeftOf(q, source)
    BY <1>2, <1>5, <1>7, <1>9 DEF LeftOf, KeysAscend
<1>11. ASSUME NEW k \in DOMAIN source PROVE k \in KeysOf(q)
  <2>1. PICK i \in DOMAIN q : q[i] = [key |-> k, sm |-> source[k]]
      BY <1>3, <1>4
  <2>2. IsOk(q[i]) /\ q[i].key = k
      BY <1>8, <2>1 DEF AllOk
  <2> QED BY <2>2 DEF KeysOf
<1> QED BY <1>8, <1>10, <1>11 DEF q, E

ErrorsFirst(q) == \A i, j \in DOMAIN q : i < j /\ ~IsOk(q[j]) => ~IsOk(q[i])

\* A queue after an error: what it still has is left of its source.
LEMMA FailedIs ==
    ASSUME NEW q1, NEW source, LeftOf(q1, source), NEW skipped \in 0..Len(q1)
    PROVE  LET q == <<Failure>> \o SubSeq(q1, skipped + 1, Len(q1))
           IN /\ LeftOf(q, source) /\ HasError(q)
              /\ ErrorsFirst(q1) => ErrorsFirst(q)
<1> DEFINE left == SubSeq(q1, skipped + 1, Len(q1))
           q == <<Failure>> \o left
           len == Len(q1)
<1>1. /\ q1 \in Seq(Item) /\ KeysAscend(q1) /\ len \in Nat
      /\ \A i \in DOMAIN q1 : IsOk(q1[i]) =>
            q1[i].key \in DOMAIN source /\ q1[i].sm = source[q1[i].key]
    BY DEF LeftOf
<1>2. /\ left \in Seq(Item) /\ Len(left) = len - skipped
      /\ \A i \in 1..(len - skipped) : left[i] = q1[skipped + i]
      /\ Failure \in Item
    BY <1>1 DEF Item
<1>3. /\ q \in Seq(Item) /\ Len(q) = len - skipped + 1 /\ q[1] = Failure
      /\ \A i \in 1..(len - skipped) : q[i + 1] = left[i]
  <2> HIDE DEF left
  <2> DEFINE n == len - skipped
  <2>1. n \in Nat /\ Len(left) = n /\ <<Failure>> \in Seq(Item) /\ Len(<<Failure>>) = 1
      BY <1>1, <1>2
  <2> HIDE DEF n
  <2>2. q \in Seq(Item) /\ Len(q) = n + 1
      BY <1>2, <2>1
  <2>3. q[1] = Failure
      BY <1>2, <2>1
  <2>4. ASSUME NEW i \in 1..n PROVE q[i + 1] = left[i]
    <3>1. i + 1 \in 1..(1 + n) /\ i + 1 > 1 /\ (i + 1) - 1 = i
        BY <2>1
    <3> QED BY <1>2, <2>1, <3>1
  <2> QED BY <2>2, <2>3, <2>4 DEF n
<1> HIDE DEF q, left, len
<1>4. DOMAIN q = 1..(len - skipped + 1) /\ DOMAIN q1 = 1..len /\ skipped \in Nat /\ len - skipped \in Nat
    BY <1>1, <1>3 DEF len
<1>5. ASSUME NEW i \in DOMAIN q
      PROVE  /\ (i = 1 /\ ~IsOk(q[i])) \/ (i # 1 /\ skipped + (i - 1) \in DOMAIN q1 /\ q[i] = q1[skipped + (i - 1)])
             /\ i \in Nat
  <2>1. CASE i = 1
      BY <1>3, <2>1 DEF IsOk
  <2>2. CASE i # 1
    <3>1. i - 1 \in 1..(len - skipped) /\ skipped + (i - 1) \in 1..len /\ (i - 1) + 1 = i
        BY <1>1, <1>4, <2>2
    <3> QED BY <1>2, <1>3, <1>4, <2>2, <3>1
  <2> QED BY <2>1, <2>2
<1>6. KeysAscend(q)
  <2> SUFFICES ASSUME NEW i \in DOMAIN q, NEW j \in DOMAIN q, i < j, IsOk(q[i]), IsOk(q[j])
               PROVE  q[i].key < q[j].key
      BY DEF KeysAscend
  <2>1. skipped + (i - 1) < skipped + (j - 1)
      BY <1>4, <1>5
  <2> QED BY <1>1, <1>5, <2>1 DEF KeysAscend
<1>7. ASSUME ErrorsFirst(q1) PROVE ErrorsFirst(q)
  <2> SUFFICES ASSUME NEW i \in DOMAIN q, NEW j \in DOMAIN q, i < j, ~IsOk(q[j]) PROVE ~IsOk(q[i])
      BY DEF ErrorsFirst
  <2>1. i # 1 => skipped + (i - 1) < skipped + (j - 1)
      BY <1>4, <1>5
  <2>2. j # 1
      BY <1>4, <1>5
  <2> QED BY <1>1, <1>5, <1>7, <2>1, <2>2 DEF ErrorsFirst
<1>8. LeftOf(q, source)
    BY <1>1, <1>3, <1>5, <1>6 DEF LeftOf
<1>9. HasError(q)
    BY <1>3, <1>4, <1>5 DEF HasError
<1> QED BY <1>7, <1>8, <1>9 DEF q, left
=============================================================================
