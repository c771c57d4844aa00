---------------------------- MODULE AlgorithmProofs ----------------------------
(***************************************************************************)
(* Theorems about the parts that work on their own input (Algorithms), for *)
(* all inputs that keep the assumptions of their modules and all limits.   *)
(***************************************************************************)
EXTENDS Algorithms, FiniteSetTheorems, SequenceTheorems, WellFoundedInduction, TLAPS

-----------------------------------------------------------------------------
(* Induction up to a bound, for a set of numbers.                           *)

LEMMA Induct ==
  ASSUME NEW L \in Nat, NEW S, 0 \in S, \A k \in 1 .. L : k - 1 \in S => k \in S
  PROVE  0 .. L \subseteq S
<1> DEFINE Bad == {k \in 0 .. L : k \notin S}
<1> SUFFICES ASSUME Bad # {} PROVE FALSE
  OBVIOUS
<1>1. Bad \subseteq Nat
  OBVIOUS
<1>2. PICK k \in Bad : \A j \in Bad : ~(<<j, k>> \in OpToRel(<, Nat))
  <2> HIDE DEF Bad
  <2> QED BY <1>1, WFMin, NatLessThanWellFounded
<1>3. k \in 1 .. L /\ k - 1 \in 0 .. L /\ k - 1 \in Nat /\ k \in Nat /\ k \notin S
  BY <1>1
<1>4. k - 1 \notin Bad
  <2>1. k - 1 < k
    BY <1>3
  <2> HIDE DEF Bad
  <2> QED BY <1>2, <1>3, <2>1 DEF OpToRel
<1> QED BY <1>3, <1>4

\* The least and the greatest number of a set.
LEMMA LeastOf ==
  ASSUME NEW S \in SUBSET Nat, S # {}
  PROVE  Min(S) \in S /\ \A k \in S : Min(S) <= k
<1>1. PICK m \in S : \A j \in S : ~(<<j, m>> \in OpToRel(<, Nat))
  BY WFMin, NatLessThanWellFounded
<1>2. \A j \in S : m <= j
  <2> SUFFICES ASSUME NEW j \in S PROVE m <= j
    OBVIOUS
  <2>1. j \in Nat /\ m \in Nat
    OBVIOUS
  <2>2. ~(j < m)
    BY <1>1, <2>1 DEF OpToRel
  <2> QED BY <2>1, <2>2
<1> QED BY <1>2 DEF Min

LEMMA GreatestOf ==
  ASSUME NEW S, NEW L \in Nat, S \subseteq 0 .. L, S # {}
  PROVE  Max(S) \in S /\ \A k \in S : k <= Max(S)
<1> DEFINE Gap == {L - k : k \in S}
<1>1. Gap \subseteq Nat /\ Gap # {}
  OBVIOUS
<1>2. PICK g \in Gap : \A k \in Gap : g <= k
  <2> HIDE DEF Gap
  <2> QED BY <1>1, LeastOf
<1>3. PICK m \in S : g = L - m
  OBVIOUS
<1>4. \A k \in S : k <= m
  <2> SUFFICES ASSUME NEW k \in S PROVE k <= m
    OBVIOUS
  <2>1. L - k \in Gap /\ k \in 0 .. L /\ m \in 0 .. L
    OBVIOUS
  <2>2. L - m <= L - k
    BY <1>2, <1>3, <2>1
  <2> QED BY <2>1, <2>2
<1> QED BY <1>4 DEF Max

\* A fold is defined on all the sets of places; there is such a function.
FoldsSets(it, base, L, H) ==
    \A x \in SUBSET (1 .. L) : it[x] = IF x = {} THEN base ELSE H[<<it[x \ {Max(x)}], Max(x)>>]

LEMMA Recursion ==
  ASSUME NEW A, NEW base \in A, NEW L \in Nat, NEW H \in [A \X (1 .. L) -> A]
  PROVE  \E it \in [SUBSET (1 .. L) -> A] : FoldsSets(it, base, L, H)
<1> DEFINE Good(m, it) == \A x \in SUBSET (1 .. m) : it[x] = IF x = {} THEN base ELSE H[<<it[x \ {Max(x)}], Max(x)>>]
           Defined(m) == \E it \in [SUBSET (1 .. m) -> A] : Good(m, it)
           Levels == {m \in 0 .. L : Defined(m)}
<1>1. 0 \in Levels
  <2>1. [x \in SUBSET (1 .. 0) |-> base] \in [SUBSET (1 .. 0) -> A]
    OBVIOUS
  <2>2. \A x \in SUBSET (1 .. 0) : x = {}
    OBVIOUS
  <2>3. Good(0, [x \in SUBSET (1 .. 0) |-> base])
    BY <2>2
  <2>4. Defined(0)
    <3> HIDE DEF Good
    <3> QED BY <2>1, <2>3
  <2> HIDE DEF Defined
  <2> QED BY <2>4
<1>2. ASSUME NEW m \in 1 .. L, m - 1 \in Levels PROVE m \in Levels
  <2>1. PICK it \in [SUBSET (1 .. m - 1) -> A] : Good(m - 1, it)
    BY <1>2
  <2> DEFINE new == [x \in SUBSET (1 .. m) |-> IF m \in x THEN H[<<it[x \ {m}], m>>] ELSE it[x]]
  <2>2. \A x \in SUBSET (1 .. m) : x \ {m} \in SUBSET (1 .. m - 1) /\ (m \notin x => x \in SUBSET (1 .. m - 1))
    OBVIOUS
  <2>3. new \in [SUBSET (1 .. m) -> A]
    BY <2>2
  <2>4. ASSUME NEW x \in SUBSET (1 .. m), x # {} PROVE new[x] = H[<<new[x \ {Max(x)}], Max(x)>>]
    <3>1. Max(x) \in x /\ \A k \in x : k <= Max(x)
      <4>1. x \subseteq 0 .. m /\ m \in Nat
        OBVIOUS
      <4> QED BY <2>4, <4>1, GreatestOf
    <3>2. CASE m \in x
      <4>1. Max(x) = m
        <5>1. Max(x) \in 1 .. m /\ m <= Max(x)
          BY <3>1, <3>2
        <5> QED BY <5>1
      <4>2. x \ {m} \in SUBSET (1 .. m) /\ m \notin x \ {m}
        OBVIOUS
      <4> QED BY <3>2, <4>1, <4>2
    <3>3. CASE m \notin x
      <4>1. x \in SUBSET (1 .. m - 1) /\ x \ {Max(x)} \in SUBSET (1 .. m) /\ m \notin x \ {Max(x)}
        BY <3>3, <2>2
      <4>2. it[x] = H[<<it[x \ {Max(x)}], Max(x)>>]
        BY <2>1, <2>4, <4>1
      <4> QED BY <3>3, <4>1, <4>2
    <3> QED BY <3>2, <3>3
  <2>5. new[{}] = base
    BY <2>1
  <2>6. Good(m, new)
    BY <2>4, <2>5
  <2>7. Defined(m)
    <3> HIDE DEF Good, new
    <3> QED BY <2>3, <2>6
  <2> HIDE DEF Defined
  <2> QED BY <2>7
<1>3. L \in Levels
  <2> HIDE DEF Levels
  <2> QED BY <1>1, <1>2, Induct
<1> QED BY <1>3 DEF FoldsSets

\* Along the places 1 .. L such a function goes through the values of the fold.
FoldsFrom(f, A, L, H) ==
    \A x \in SUBSET (1 .. L) : x # {} /\ f[x \ {Max(x)}] \in A => f[x] = H[<<f[x \ {Max(x)}], Max(x)>>]

Follows(g, base, L, H) == g[0] = base /\ \A k \in 1 .. L : g[k] = H[<<g[k - 1], k>>]

LEMMA Unfold ==
  ASSUME NEW A, NEW base \in A, NEW L \in Nat, NEW H \in [A \X (1 .. L) -> A], NEW f, f[{}] = base, FoldsFrom(f, A, L, H)
  PROVE  \E g \in [0 .. L -> A] : Follows(g, base, L, H) /\ f[1 .. L] = g[L]
<1> DEFINE g == [k \in 0 .. L |-> f[1 .. k]]
           S == {k \in 0 .. L : g[k] \in A}
<1>1. \A k \in 1 .. L : /\ 1 .. k \in SUBSET (1 .. L) /\ 1 .. k # {}
                        /\ Max(1 .. k) = k /\ (1 .. k) \ {k} = 1 .. k - 1
  <2> TAKE k \in 1 .. L
  <2>0. 1 .. k \in SUBSET (1 .. L) /\ 1 .. k # {} /\ (1 .. k) \ {k} = 1 .. k - 1
    OBVIOUS
  <2>1. 1 .. k \subseteq 0 .. k /\ k \in 1 .. k /\ k \in Nat
    OBVIOUS
  <2>2. Max(1 .. k) \in 1 .. k /\ k <= Max(1 .. k)
    BY <2>1, GreatestOf
  <2>3. Max(1 .. k) = k
    BY <2>2
  <2> QED BY <2>0, <2>3
<1>2. 1 .. 0 = {}
  OBVIOUS
<1>3. g[0] = base
  BY <1>2
<1>4. ASSUME NEW k \in 1 .. L, k - 1 \in S PROVE g[k] = H[<<g[k - 1], k>>] /\ k \in S
  <2>1. g[k] = f[1 .. k] /\ g[k - 1] = f[1 .. k - 1] /\ g[k - 1] \in A /\ k \in 0 .. L
    BY <1>4
  <2>2. f[1 .. k] = H[<<f[1 .. k - 1], k>>]
    <3> HIDE DEF g
    <3> QED BY <1>1, <2>1 DEF FoldsFrom
  <2>3. g[k] \in A
    <3> HIDE DEF g
    <3> QED BY <2>1, <2>2
  <2>4. g[k] = H[<<g[k - 1], k>>]
    <3> HIDE DEF g
    <3> QED BY <2>1, <2>2
  <2>5. k \in S
    <3> HIDE DEF g
    <3> QED BY <2>1, <2>3
  <2> QED BY <2>4, <2>5
<1>5. 0 .. L \subseteq S
  <2>1. 0 \in S
    BY <1>3
  <2> HIDE DEF S
  <2> QED BY <1>4, <2>1, Induct
<1>6. g \in [0 .. L -> A] /\ \A k \in 1 .. L : g[k] = H[<<g[k - 1], k>>]
  <2>1. \A k \in 1 .. L : k - 1 \in 0 .. L
    OBVIOUS
  <2> QED BY <1>4, <1>5, <2>1
<1>7. f[1 .. L] = g[L]
  OBVIOUS
<1> HIDE DEF g
<1> QED BY <1>3, <1>6, <1>7 DEF Follows

LEMMA Chain ==
  ASSUME NEW A, NEW base \in A, NEW L \in Nat, NEW H \in [A \X (1 .. L) -> A]
  PROVE  \E g \in [0 .. L -> A] : Follows(g, base, L, H)
<1>1. PICK it \in [SUBSET (1 .. L) -> A] : FoldsSets(it, base, L, H)
  BY Recursion
<1>2. it[{}] = base
  BY <1>1 DEF FoldsSets
<1>3. FoldsFrom(it, A, L, H)
  BY <1>1 DEF FoldsSets, FoldsFrom
<1> QED BY <1>2, <1>3, Unfold

LEMMA PlacesMax ==
  ASSUME NEW L \in Nat, NEW x \in SUBSET (1 .. L), x # {}
  PROVE  Max(x) \in 1 .. L /\ x \ {Max(x)} \in SUBSET (1 .. L)
<1>1. x \subseteq 0 .. L
  OBVIOUS
<1>2. Max(x) \in x
  BY <1>1, GreatestOf
<1> QED BY <1>2

\* What is flattened so far.
Accumulates(g, ss) == g[0] = <<>> /\ \A k \in 1 .. Len(ss) : g[k] = g[k - 1] \o ss[k]

LEMMA FlattenTrace ==
  ASSUME NEW E, NEW ss \in Seq(Seq(E))
  PROVE  \E g \in [0 .. Len(ss) -> Seq(E)] : Accumulates(g, ss) /\ FlattenSeq(ss) = g[Len(ss)]
<1> DEFINE L == Len(ss)
           H == [p \in Seq(E) \X (1 .. L) |-> p[1] \o ss[p[2]]]
           F(it) == [i \in 1 .. L |-> IF i = 1 THEN ss[i] ELSE it[i - 1] \o ss[i]]
           f == CHOOSE it : it = F(it)
<1>1. L \in Nat /\ \A k \in 1 .. L : ss[k] \in Seq(E)
  OBVIOUS
<1>2. H \in [Seq(E) \X (1 .. L) -> Seq(E)] /\ \A a \in Seq(E) : \A k \in 1 .. L : H[<<a, k>>] = a \o ss[k]
  <2>1. \A a \in Seq(E) : \A k \in 1 .. L : a \o ss[k] \in Seq(E)
    BY <1>1, ConcatProperties
  <2> QED BY <2>1
<1>3. <<>> \in Seq(E)
  OBVIOUS
<1>4. PICK g \in [0 .. L -> Seq(E)] : Follows(g, <<>>, L, H)
  <2> HIDE DEF H, L
  <2> QED BY <1>1, <1>2, <1>3, Chain
<1>5. g[0] = <<>> /\ \A k \in 1 .. L : g[k - 1] \in Seq(E) /\ g[k] = g[k - 1] \o ss[k]
  <2>1. \A k \in 1 .. L : g[k - 1] \in Seq(E)
    <3>1. \A k \in 1 .. L : k - 1 \in 0 .. L
      BY <1>1
    <3> HIDE DEF L
    <3> QED BY <3>1
  <2> HIDE DEF H, L
  <2> QED BY <1>2, <1>4, <2>1 DEF Follows
<1>6. CASE L = 0
  BY <1>4, <1>5, <1>6 DEF FlattenSeq, Accumulates
<1>7. CASE L # 0
  <2>1. [i \in 1 .. L |-> g[i]] = F([i \in 1 .. L |-> g[i]])
    <3>1. \A i \in 1 .. L : g[i] = IF i = 1 THEN ss[i] ELSE g[i - 1] \o ss[i]
      <4> SUFFICES ASSUME NEW i \in 1 .. L PROVE g[i] = IF i = 1 THEN ss[i] ELSE g[i - 1] \o ss[i]
        OBVIOUS
      <4>1. g[i] = g[i - 1] \o ss[i] /\ ss[i] \in Seq(E)
        BY <1>1, <1>5
      <4>2. <<>> \o ss[i] = ss[i]
        BY <4>1, ConcatEmptySeq
      <4>3. i = 1 => g[i - 1] = <<>>
        BY <1>5
      <4> HIDE DEF L
      <4> QED BY <4>1, <4>2, <4>3
    <3> QED BY <3>1
  <2>2. f = F(f)
    <3>1. \E it : it = F(it)
      BY <2>1
    <3> HIDE DEF F
    <3> QED BY <3>1
  <2>3. FlattenSeq(ss) = f[L]
    BY <1>7 DEF FlattenSeq
  <2> DEFINE S == {k \in 0 .. L : k = 0 \/ f[k] = g[k]}
  <2>4. ASSUME NEW k \in 1 .. L, k - 1 \in S PROVE k \in S
    <3>1. f[k] = IF k = 1 THEN ss[k] ELSE f[k - 1] \o ss[k]
      <4> HIDE DEF f
      <4> QED BY <2>2
    <3>2. g[k] = IF k = 1 THEN ss[k] ELSE g[k - 1] \o ss[k]
      <4>1. [i \in 1 .. L |-> g[i]][k] = F([i \in 1 .. L |-> g[i]])[k]
        BY <2>1
      <4> QED BY <4>1
    <3>3. k - 1 = 0 \/ f[k - 1] = g[k - 1]
      BY <2>4
    <3> HIDE DEF f
    <3> QED BY <3>1, <3>2, <3>3
  <2>5. 0 .. L \subseteq S
    <3>1. 0 \in S
      OBVIOUS
    <3> HIDE DEF S, L
    <3> QED BY <1>1, <2>4, <3>1, Induct
  <2>6. f[L] = g[L]
    <3> HIDE DEF f
    <3> QED BY <1>1, <1>7, <2>5
  <2> QED BY <1>4, <1>5, <2>3, <2>6 DEF Accumulates
<1> QED BY <1>6, <1>7

\* Sequences whose elements have no set of their own.
IsList(s) == \E S : s \in Seq(S)

LEMMA ListAppend ==
    ASSUME NEW s, IsList(s), NEW e
    PROVE  /\ IsList(Append(s, e)) /\ DOMAIN Append(s, e) = DOMAIN s \cup {Len(s) + 1}
           /\ DOMAIN s = 1..Len(s) /\ Len(s) \in Nat /\ DOMAIN Append(s, e) = 1 .. Len(s) + 1
           /\ \A i \in DOMAIN s : Append(s, e)[i] = s[i]
           /\ Append(s, e)[Len(s) + 1] = e
<1>1. PICK S : s \in Seq(S)
  BY DEF IsList
<1>. DEFINE T == S \cup {e}
<1>2. Len(s) \in Nat /\ DOMAIN s = 1..Len(s) /\ \A i \in 1..Len(s) : s[i] \in S
  BY <1>1, LenProperties, ElementOfSeq
<1>3. s \in Seq(T)
  <2>1. s \in [1..Len(s) -> S]
    BY <1>1, LenProperties
  <2>2. s \in [1..Len(s) -> T]
    BY <2>1
  <2>. QED  BY <1>2, <2>2, SeqDef
<1>4. /\ Append(s, e) \in Seq(T) /\ Len(Append(s, e)) = Len(s) + 1
      /\ \A i \in 1..Len(s) : Append(s, e)[i] = s[i]
      /\ Append(s, e)[Len(s) + 1] = e
  BY <1>3, AppendProperties
<1>5. DOMAIN Append(s, e) = 1 .. Len(s) + 1
  BY <1>4, LenProperties
<1>. QED  BY <1>2, <1>4, <1>5 DEF IsList

\* A list of which every element changes as f says.
LEMMA ListEach ==
    ASSUME NEW s, IsList(s), NEW f, f = [i \in DOMAIN s |-> f[i]]
    PROVE  IsList(f) /\ DOMAIN f = DOMAIN s
<1>1. PICK S : s \in Seq(S)
  BY DEF IsList
<1>2. Len(s) \in Nat /\ DOMAIN s = 1..Len(s)
  BY <1>1, LenProperties
<1>. DEFINE T == {f[i] : i \in DOMAIN s}
<1>3. DOMAIN f = 1..Len(s) /\ f \in [1..Len(s) -> T]
  BY <1>2
<1>4. f \in Seq(T)
  BY <1>2, <1>3, SeqDef
<1>. QED  BY <1>2, <1>3, <1>4 DEF IsList

-----------------------------------------------------------------------------
(* The prompt.                                                              *)

\* The rounds after each message.
LEMMA RoundsTrace ==
  ASSUME NEW A, NEW L \in Nat, NEW s, DOMAIN s = 1 .. L, <<>> \in A,
         \A a \in A : \A k \in 1 .. L : AddToRounds(a, s[k]) \in A
  PROVE  \E g \in [0 .. L -> A] : /\ g[0] = <<>> /\ Rounds(s) = g[L]
                                  /\ \A k \in 1 .. L : g[k] = AddToRounds(g[k - 1], s[k])
<1> DEFINE H == [p \in A \X (1 .. L) |-> AddToRounds(p[1], s[p[2]])]
           F(it) == [x \in SUBSET (1 .. L) |-> IF x = {} THEN <<>> ELSE AddToRounds(it[x \ {Max(x)}], s[Max(x)])]
           f == CHOOSE it : it = F(it)
<1>1. H \in [A \X (1 .. L) -> A]
  OBVIOUS
<1>2. \A a \in A : \A k \in 1 .. L : H[<<a, k>>] = AddToRounds(a, s[k])
  OBVIOUS
<1>3. \A x \in SUBSET (1 .. L) : x # {} => Max(x) \in 1 .. L /\ x \ {Max(x)} \in SUBSET (1 .. L)
  BY PlacesMax
<1>4. \E it : it = F(it)
  <2>1. PICK it \in [SUBSET (1 .. L) -> A] : FoldsSets(it, <<>>, L, H)
    <3> HIDE DEF H
    <3> QED BY <1>1, Recursion
  <2>2. it[{}] = <<>> /\ \A x \in SUBSET (1 .. L) : x # {} => it[x] = H[<<it[x \ {Max(x)}], Max(x)>>]
    <3> HIDE DEF H
    <3> QED BY <2>1 DEF FoldsSets
  <2>3. ASSUME NEW x \in SUBSET (1 .. L), x # {} PROVE it[x] = AddToRounds(it[x \ {Max(x)}], s[Max(x)])
    <3> HIDE DEF H
    <3> QED BY <1>2, <1>3, <2>2, <2>3
  <2>4. it = F(it)
    <3> HIDE DEF H
    <3> QED BY <2>2, <2>3
  <2> QED BY <2>4
<1>5. f = F(f)
  <2> HIDE DEF F, H
  <2> QED BY <1>4
<1>6. Rounds(s) = f[1 .. L]
  BY DEF Rounds, FoldLeft, MapThenFoldSet
<1>7. f[{}] = <<>> /\ \A x \in SUBSET (1 .. L) : x # {} => f[x] = AddToRounds(f[x \ {Max(x)}], s[Max(x)])
  <2> HIDE DEF f, H
  <2> QED BY <1>5
<1> HIDE DEF f, H
<1>8. FoldsFrom(f, A, L, H)
  BY <1>2, <1>3, <1>7 DEF FoldsFrom
<1>9. PICK g \in [0 .. L -> A] : Follows(g, <<>>, L, H) /\ f[1 .. L] = g[L]
  BY <1>1, <1>7, <1>8, Unfold
<1>10. \A k \in 1 .. L : g[k] = AddToRounds(g[k - 1], s[k])
  <2> SUFFICES ASSUME NEW k \in 1 .. L PROVE g[k] = AddToRounds(g[k - 1], s[k])
    OBVIOUS
  <2>1. g[k - 1] \in A /\ g[k] = H[<<g[k - 1], k>>]
    BY <1>9 DEF Follows
  <2> QED BY <2>1, <1>2
<1> QED BY <1>6, <1>9, <1>10 DEF Follows

\* The messages stand in the order they were written.
InOrder(ms) == \A i, j \in DOMAIN ms : i < j => ms[i].n < ms[j].n

\* Rounds that are not empty, each before the next.
RoundsInOrder(rs) ==
    /\ \A a \in DOMAIN rs : rs[a] # <<>> /\ InOrder(rs[a])
    /\ \A a, b \in DOMAIN rs : a < b => \A i \in DOMAIN rs[a], j \in DOMAIN rs[b] : rs[a][i].n < rs[b][j].n

\* They end with the message m, and hold none after it.
RoundsUpTo(rs, m) ==
    /\ RoundsInOrder(rs) /\ rs # <<>> /\ Last(Last(rs)) = m
    /\ \A a \in DOMAIN rs : \A i \in DOMAIN rs[a] : rs[a][i].n <= m.n

\* A conversation whose numbers are naturals.
Numbered(E) == \A m \in E : m.n \in Nat

\* The rounds rs end with the message before m, if there is one.
Precede(rs, before, m) == rs # <<>> => RoundsUpTo(rs, before) /\ before.n < m.n

LEMMA RoundAdded ==
  ASSUME NEW E, Numbered(E), NEW rs \in Seq(Seq(E)), NEW m \in E, m.role \in {"user", "assistant"}, NEW before \in E,
         Precede(rs, before, m)
  PROVE  AddToRounds(rs, m) \in Seq(Seq(E)) /\ RoundsUpTo(AddToRounds(rs, m), m)
<1> DEFINE n == Len(rs)
<1>0. n \in Nat /\ DOMAIN rs = 1 .. n /\ \A a \in 1 .. n : rs[a] \in Seq(E) /\ DOMAIN rs[a] = 1 .. Len(rs[a]) /\ Len(rs[a]) \in Nat
  OBVIOUS
<1>1. /\ <<m>> \in Seq(E) /\ DOMAIN <<m>> = {1} /\ <<m>>[1] = m /\ Len(<<m>>) = 1 /\ <<m>> # <<>>
      /\ m.n \in Nat
  BY DEF Numbered
<1>2. \A a \in 1 .. n : \A i \in DOMAIN rs[a] : rs[a][i].n \in Nat /\ rs[a][i].n < m.n
  <2> SUFFICES ASSUME NEW a \in 1 .. n, NEW i \in DOMAIN rs[a] PROVE rs[a][i].n \in Nat /\ rs[a][i].n < m.n
    OBVIOUS
  <2>1. rs[a][i] \in E /\ before.n \in Nat /\ m.n \in Nat /\ rs # <<>>
    BY <1>0 DEF Numbered
  <2>2. rs[a][i].n <= before.n /\ before.n < m.n
    BY <1>0, <2>1 DEF Precede, RoundsUpTo
  <2> QED BY <2>1, <2>2 DEF Numbered
<1>3. CASE n = 0 \/ m.role = "user"
  <2> DEFINE new == Append(rs, <<m>>)
  <2>1. AddToRounds(rs, m) = new
    BY <1>3 DEF AddToRounds
  <2>2. /\ new \in Seq(Seq(E)) /\ Len(new) = n + 1 /\ DOMAIN new = 1 .. n + 1 /\ new # <<>>
        /\ \A a \in 1 .. n : new[a] = rs[a]
        /\ new[n + 1] = <<m>>
    <3>1. rs \in Seq(Seq(E)) /\ <<m>> \in Seq(E)
      BY <1>1
    <3>2. new \in Seq(Seq(E)) /\ new # <<>> /\ Len(new) = n + 1 /\ new[n + 1] = <<m>>
      BY <3>1, AppendProperties
    <3>3. \A a \in 1 .. n : new[a] = rs[a]
      BY <3>1, AppendProperties
    <3> QED BY <1>0, <3>2, <3>3
  <2> HIDE DEF new
  <2>3. Last(Last(new)) = m
    BY <1>1, <2>2 DEF Last
  <2>4. \A a \in 1 .. n : rs[a] # <<>> /\ InOrder(rs[a])
    BY <1>0 DEF Precede, RoundsUpTo, RoundsInOrder
  <2>5. InOrder(<<m>>)
    BY <1>1 DEF InOrder
  <2>6. \A a \in DOMAIN new : new[a] # <<>> /\ InOrder(new[a])
    <3> SUFFICES ASSUME NEW a \in DOMAIN new PROVE new[a] # <<>> /\ InOrder(new[a])
      OBVIOUS
    <3>1. a \in 1 .. n \/ a = n + 1
      BY <1>0, <2>2
    <3> QED BY <1>1, <2>2, <2>4, <2>5, <3>1
  <2>7. ASSUME NEW a \in DOMAIN new, NEW b \in DOMAIN new, a < b,
               NEW i \in DOMAIN new[a], NEW j \in DOMAIN new[b]
        PROVE new[a][i].n < new[b][j].n
    <3>1. a \in 1 .. n /\ (b \in 1 .. n \/ b = n + 1)
      BY <1>0, <2>2, <2>7
    <3>2. CASE b \in 1 .. n
      BY <1>0, <2>2, <2>7, <3>1, <3>2 DEF Precede, RoundsUpTo, RoundsInOrder
    <3>3. CASE b = n + 1
      BY <1>1, <1>2, <2>2, <2>7, <3>1, <3>3
    <3> QED BY <3>1, <3>2, <3>3
  <2>8. ASSUME NEW a \in DOMAIN new, NEW i \in DOMAIN new[a] PROVE new[a][i].n <= m.n
    <3>1. a \in 1 .. n \/ a = n + 1
      BY <1>0, <2>2
    <3>2. CASE a = n + 1
      <4>1. i = 1 /\ new[a] = <<m>>
        BY <1>1, <2>2, <2>8, <3>2
      <4> QED BY <1>1, <4>1
    <3>3. CASE a \in 1 .. n
      <4>1. new[a][i].n \in Nat /\ new[a][i].n < m.n
        BY <1>2, <2>2, <2>8, <3>3
      <4> QED BY <1>1, <4>1
    <3> QED BY <3>1, <3>2, <3>3
  <2> QED BY <2>1, <2>2, <2>3, <2>6, <2>7, <2>8 DEF RoundsUpTo, RoundsInOrder
<1>4. CASE n > 0 /\ m.role # "user"
  <2> DEFINE r == IF rs[n][1].role = "user" THEN <<rs[n][1], m>> ELSE <<m>>
             new == [rs EXCEPT ![n] = r]
  <2>1. AddToRounds(rs, m) = new
    BY <1>4 DEF AddToRounds
  <2>2. n \in 1 .. n /\ RoundsUpTo(rs, before) /\ 1 \in DOMAIN rs[n] /\ rs[n][1] \in E
    <3>1. rs # <<>> /\ n \in 1 .. n
      BY <1>0, <1>4
    <3>2. RoundsUpTo(rs, before) /\ rs[n] # <<>>
      BY <1>0, <3>1 DEF Precede, RoundsUpTo, RoundsInOrder
    <3> QED BY <1>0, <3>1, <3>2
  <2>3. /\ r \in Seq(E) /\ Len(r) \in {1, 2} /\ DOMAIN r = 1 .. Len(r) /\ r[Len(r)] = m
        /\ (Len(r) = 2 => r[1] = rs[n][1]) /\ r # <<>>
    <3>1. CASE rs[n][1].role = "user"
      <4>1. r = <<rs[n][1], m>>
        BY <3>1
      <4> HIDE DEF r
      <4> QED BY <2>2, <4>1
    <3>2. CASE rs[n][1].role # "user"
      <4>1. r = <<m>>
        BY <3>2
      <4> HIDE DEF r
      <4> QED BY <1>1, <4>1
    <3> QED BY <3>1, <3>2
  <2> HIDE DEF r
  <2>4. /\ new \in Seq(Seq(E)) /\ Len(new) = n /\ DOMAIN new = 1 .. n /\ new # <<>>
        /\ \A a \in 1 .. n : new[a] = IF a = n THEN r ELSE rs[a]
    BY <1>0, <2>2, <2>3
  <2> HIDE DEF new
  <2>5. Last(Last(new)) = m
    BY <2>2, <2>3, <2>4 DEF Last
  <2>6. rs[n][1].n < m.n /\ rs[n][1].n \in Nat
    BY <1>2, <2>2
  <2>7. InOrder(r)
    <3> SUFFICES ASSUME NEW i \in DOMAIN r, NEW j \in DOMAIN r, i < j PROVE r[i].n < r[j].n
      BY DEF InOrder
    <3>1. Len(r) = 2 /\ i = 1 /\ j = 2
      BY <2>3
    <3> QED BY <2>3, <2>6, <3>1
  <2>8. \A a \in DOMAIN new : new[a] # <<>> /\ InOrder(new[a])
    BY <1>0, <2>2, <2>3, <2>4, <2>7 DEF RoundsUpTo, RoundsInOrder
  <2>9. ASSUME NEW i \in DOMAIN r PROVE r[i] = m \/ r[i] = rs[n][1]
    <3>1. (Len(r) = 1 /\ i = 1) \/ (Len(r) = 2 /\ i = 1) \/ (Len(r) = 2 /\ i = 2)
      BY <2>3, <2>9
    <3> QED BY <2>3, <3>1
  <2>10. ASSUME NEW a \in DOMAIN new, NEW b \in DOMAIN new, a < b,
                NEW i \in DOMAIN new[a], NEW j \in DOMAIN new[b]
         PROVE new[a][i].n < new[b][j].n
    <3>1. a \in 1 .. n /\ b \in 1 .. n /\ a # n /\ new[a] = rs[a] /\ i \in DOMAIN rs[a]
      <4>1. a \in 1 .. n /\ b \in 1 .. n
        BY <2>4, <2>10
      <4>2. a # n
        BY <1>0, <2>10, <4>1
      <4> QED BY <2>4, <2>10, <4>1, <4>2
    <3>2. CASE b # n
      BY <1>0, <2>2, <2>4, <2>10, <3>1, <3>2 DEF RoundsUpTo, RoundsInOrder
    <3>3. CASE b = n
      <4>1. new[b][j] = m \/ new[b][j] = rs[n][1]
        BY <2>4, <2>9, <2>10, <3>1, <3>3
      <4>2. rs[a][i].n < m.n
        BY <1>2, <3>1
      <4>3. rs[a][i].n < rs[n][1].n
        BY <1>0, <2>2, <2>10, <3>1, <3>3 DEF RoundsUpTo, RoundsInOrder
      <4> QED BY <3>1, <4>1, <4>2, <4>3
    <3> QED BY <3>2, <3>3
  <2>11. ASSUME NEW a \in DOMAIN new, NEW i \in DOMAIN new[a] PROVE new[a][i].n <= m.n
    <3>1. CASE a = n
      <4>1. new[a][i] = m \/ new[a][i] = rs[n][1]
        BY <2>4, <2>9, <2>11, <3>1
      <4> QED BY <1>1, <2>6, <4>1
    <3>2. CASE a # n
      <4>1. new[a] = rs[a] /\ a \in 1 .. n
        BY <2>4, <3>2
      <4>2. new[a][i].n < m.n /\ new[a][i].n \in Nat
        BY <1>2, <4>1
      <4> QED BY <1>1, <4>2
    <3> QED BY <3>1, <3>2
  <2> QED BY <2>1, <2>4, <2>5, <2>8, <2>10, <2>11 DEF RoundsUpTo, RoundsInOrder
<1> QED BY <1>0, <1>3, <1>4

\* The rounds of a conversation hold its messages in order, the question last.
LEMMA RoundsOfConversation ==
  ASSUME NEW h, Conversation(h)
  PROVE  /\ Numbered(ToSet(h)) /\ Rounds(h) \in Seq(Seq(ToSet(h))) /\ RoundsUpTo(Rounds(h), Last(h))
         /\ Last(h) \in ToSet(h) /\ Last(h).role = "user" /\ \A m \in ToSet(h) : m.n > 0
<1> DEFINE E == ToSet(h)
           L == Len(h)
<1>1. /\ L \in Nat /\ L > 0 /\ DOMAIN h = 1 .. L
      /\ \A i \in 1 .. L : h[i] \in E /\ h[i].n \in Nat \ {0} /\ h[i].role \in {"user", "assistant"}
      /\ Last(h) = h[L] /\ Last(h).role = "user"
  BY DEF Conversation, Last, ToSet
<1>2. Numbered(E) /\ \A m \in E : m.n > 0
  BY DEF Numbered, Conversation, ToSet
<1> HIDE DEF E, L
<1> DEFINE Round == Seq(E) \ {<<>>}
           A == Seq(Round)
<1>3. ASSUME NEW a \in A, NEW k \in 1 .. L PROVE AddToRounds(a, h[k]) \in A
  <2>1. h[k] \in E /\ h[k].role \in {"user", "assistant"} /\ <<h[k]>> \in Round
    BY <1>1
  <2>2. CASE Len(a) = 0 \/ h[k].role = "user"
    <3> HIDE DEF Round
    <3> QED BY <2>1, <2>2 DEF AddToRounds
  <2>3. CASE Len(a) > 0 /\ h[k].role = "assistant"
    <3> DEFINE n == Len(a)
               r == IF a[n][1].role = "user" THEN <<a[n][1], h[k]>> ELSE <<h[k]>>
    <3>1. n \in 1 .. n /\ a[n] \in Round
      BY <2>3
    <3>2. a[n][1] \in E
      BY <3>1
    <3>3. r \in Round
      BY <2>1, <3>2
    <3>4. AddToRounds(a, h[k]) = [a EXCEPT ![n] = r]
      BY <2>3 DEF AddToRounds
    <3> HIDE DEF r, Round
    <3> QED BY <3>1, <3>3, <3>4
  <2> QED BY <2>1, <2>2, <2>3
<1>4. <<>> \in A
  OBVIOUS
<1>5. PICK g \in [0 .. L -> A] : /\ g[0] = <<>> /\ Rounds(h) = g[L]
                                 /\ \A k \in 1 .. L : g[k] = AddToRounds(g[k - 1], h[k])
  <2>1. \A a \in A : \A k \in 1 .. L : AddToRounds(a, h[k]) \in A
    BY <1>3
  <2>2. DOMAIN h = 1 .. L /\ L \in Nat
    BY <1>1
  <2> HIDE DEF A
  <2> QED BY <1>4, <2>1, <2>2, RoundsTrace
<1>6. \A k \in 0 .. L : g[k] \in Seq(Seq(E))
  <2>1. A \subseteq Seq(Seq(E))
    BY SeqMonotonic
  <2> QED BY <2>1
<1> HIDE DEF A, Round
<1> DEFINE S == {k \in 0 .. L : k = 0 \/ RoundsUpTo(g[k], h[k])}
<1>7. ASSUME NEW k \in 1 .. L, k - 1 \in S PROVE k \in S
  <2>1. g[k - 1] \in Seq(Seq(E)) /\ k - 1 \in 0 .. L /\ k \in 0 .. L
    BY <1>1, <1>6
  <2>2. g[k] = AddToRounds(g[k - 1], h[k]) /\ h[k] \in E /\ h[k].role \in {"user", "assistant"}
    BY <1>1, <1>5
  <2>3. CASE k = 1
    <3>1. g[k - 1] = <<>>
      BY <1>5, <2>3
    <3>2. RoundsUpTo(g[k], h[k])
      <4>1. <<>> \in Seq(Seq(E))
        OBVIOUS
      <4>2. RoundsUpTo(AddToRounds(<<>>, h[k]), h[k])
        BY <1>2, <2>2, <4>1, RoundAdded DEF Precede
      <4> QED BY <2>2, <3>1, <4>2
    <3> QED BY <2>1, <3>2
  <2>4. CASE k # 1
    <3>1. k - 1 \in 1 .. L /\ h[k - 1] \in E /\ h[k - 1].n < h[k].n
      BY <1>1, <2>4 DEF Conversation
    <3>2. RoundsUpTo(g[k - 1], h[k - 1])
      BY <1>7, <3>1
    <3>3. RoundsUpTo(g[k], h[k])
      BY <1>2, <2>1, <2>2, <3>1, <3>2, RoundAdded DEF Precede
    <3> QED BY <2>1, <3>3
  <2> QED BY <2>3, <2>4
<1>8. 0 .. L \subseteq S
  <2>1. 0 \in S
    BY <1>1
  <2> HIDE DEF S
  <2> QED BY <1>1, <1>7, <2>1, Induct
<1>9. RoundsUpTo(g[L], h[L])
  BY <1>1, <1>8
<1> QED BY <1>1, <1>2, <1>5, <1>6, <1>9 DEF E

\* The messages of the first k rounds.
FlatUpTo(ms, rs, k) ==
    /\ InOrder(ms)
    /\ \A i \in DOMAIN ms : \E a \in 1 .. k : \E j \in DOMAIN rs[a] : ms[i] = rs[a][j]
    /\ k > 0 => ms # <<>> /\ ms[Len(ms)] = rs[k][Len(rs[k])]

LEMMA FlatAdded ==
  ASSUME NEW E, Numbered(E), NEW rs \in Seq(Seq(E)), RoundsInOrder(rs), NEW k \in 1 .. Len(rs),
         NEW ms \in Seq(E), FlatUpTo(ms, rs, k - 1)
  PROVE  FlatUpTo(ms \o rs[k], rs, k)
<1> DEFINE r == rs[k]
           new == ms \o r
<1>1. /\ r \in Seq(E) /\ r # <<>> /\ InOrder(r) /\ Len(r) \in Nat /\ DOMAIN r = 1 .. Len(r) /\ Len(r) > 0
      /\ Len(ms) \in Nat /\ DOMAIN ms = 1 .. Len(ms)
  BY DEF RoundsInOrder
<1>2. /\ Len(new) = Len(ms) + Len(r) /\ DOMAIN new = 1 .. Len(ms) + Len(r)
      /\ \A i \in 1 .. Len(ms) : new[i] = ms[i]
      /\ \A i \in Len(ms) + 1 .. Len(ms) + Len(r) : new[i] = r[i - Len(ms)]
  BY <1>1, ConcatProperties
<1>0. /\ r = rs[k] /\ k \in DOMAIN rs /\ Len(ms) \in Nat /\ Len(r) \in Nat
      /\ \A i \in Int : i \in DOMAIN new /\ i \notin 1 .. Len(ms) =>
            i \in Len(ms) + 1 .. Len(ms) + Len(r) /\ i - Len(ms) \in 1 .. Len(r)
      /\ DOMAIN new \subseteq Int
  BY <1>1, <1>2
<1> HIDE DEF new, r
<1>3. \A i \in DOMAIN r : r[i].n \in Nat
  BY <1>1 DEF Numbered
<1>4. \A i \in DOMAIN ms : ms[i].n \in Nat /\ \A j \in DOMAIN r : ms[i].n < r[j].n
  <2> SUFFICES ASSUME NEW i \in DOMAIN ms, NEW j \in DOMAIN r PROVE ms[i].n < r[j].n
    BY <1>1 DEF Numbered
  <2>1. PICK a \in 1 .. k - 1 : \E b \in DOMAIN rs[a] : ms[i] = rs[a][b]
    BY DEF FlatUpTo
  <2>2. PICK b \in DOMAIN rs[a] : ms[i] = rs[a][b]
    BY <2>1
  <2>3. a \in DOMAIN rs /\ k \in DOMAIN rs /\ a < k
    OBVIOUS
  <2> QED BY <1>0, <2>2, <2>3 DEF RoundsInOrder
<1>5. InOrder(new)
  <2> SUFFICES ASSUME NEW i \in DOMAIN new, NEW j \in DOMAIN new, i < j PROVE new[i].n < new[j].n
    BY DEF InOrder
  <2>1. CASE j \in 1 .. Len(ms)
    <3>1. i \in 1 .. Len(ms)
      BY <1>1, <1>2, <2>1
    <3> QED BY <1>1, <1>2, <2>1, <3>1 DEF FlatUpTo, InOrder
  <2>2. CASE j \notin 1 .. Len(ms)
    <3>1. j \in Len(ms) + 1 .. Len(ms) + Len(r) /\ j - Len(ms) \in DOMAIN r /\ new[j] = r[j - Len(ms)]
      BY <1>1, <1>2, <2>2
    <3>2. CASE i \in 1 .. Len(ms)
      BY <1>1, <1>2, <1>4, <3>1, <3>2
    <3>3. CASE i \notin 1 .. Len(ms)
      <4>1. i - Len(ms) \in DOMAIN r /\ new[i] = r[i - Len(ms)] /\ i - Len(ms) < j - Len(ms)
        <5>1. i \in Int /\ j \in Int /\ Len(ms) \in Int
          BY <1>0
        <5>2. i - Len(ms) \in 1 .. Len(r) /\ new[i] = r[i - Len(ms)]
          BY <1>0, <1>2, <3>3, <5>1
        <5> QED BY <1>1, <5>1, <5>2
      <4> QED BY <1>1, <3>1, <4>1 DEF InOrder
    <3> QED BY <3>2, <3>3
  <2> QED BY <2>1, <2>2
<1>6. ASSUME NEW i \in DOMAIN new PROVE \E a \in 1 .. k : \E j \in DOMAIN rs[a] : new[i] = rs[a][j]
  <2>1. CASE i \in 1 .. Len(ms)
    <3>1. PICK a \in 1 .. k - 1 : \E j \in DOMAIN rs[a] : ms[i] = rs[a][j]
      BY <1>1, <2>1 DEF FlatUpTo
    <3>2. a \in 1 .. k
      OBVIOUS
    <3> QED BY <1>2, <2>1, <3>1, <3>2
  <2>2. CASE i \notin 1 .. Len(ms)
    <3>1. i - Len(ms) \in DOMAIN r /\ new[i] = r[i - Len(ms)]
      BY <1>0, <1>1, <1>2, <2>2
    <3>2. k \in 1 .. k
      OBVIOUS
    <3> QED BY <1>0, <3>1, <3>2
  <2> QED BY <2>1, <2>2
<1>7. new # <<>> /\ new[Len(new)] = r[Len(r)]
  <2>1. Len(new) \in Len(ms) + 1 .. Len(ms) + Len(r) /\ Len(new) - Len(ms) = Len(r)
    BY <1>1, <1>2
  <2>2. new[Len(new)] = r[Len(new) - Len(ms)]
    BY <1>2, <2>1
  <2> QED BY <1>0, <1>1, <1>2, <2>1, <2>2
<1> QED BY <1>0, <1>5, <1>6, <1>7 DEF FlatUpTo, new

LEMMA FlatRounds ==
  ASSUME NEW E, Numbered(E), NEW rs \in Seq(Seq(E)), RoundsInOrder(rs)
  PROVE  FlattenSeq(rs) \in Seq(E) /\ FlatUpTo(FlattenSeq(rs), rs, Len(rs))
<1> DEFINE L == Len(rs)
<1>1. L \in Nat
  OBVIOUS
<1>2. PICK g \in [0 .. L -> Seq(E)] : Accumulates(g, rs) /\ FlattenSeq(rs) = g[L]
  BY FlattenTrace
<1> DEFINE S == {k \in 0 .. L : FlatUpTo(g[k], rs, k)}
<1>3. ASSUME NEW k \in 1 .. L, k - 1 \in S PROVE k \in S
  <2>1. k - 1 \in 0 .. L /\ k \in 0 .. L /\ g[k - 1] \in Seq(E) /\ FlatUpTo(g[k - 1], rs, k - 1)
    <3>1. k - 1 \in 0 .. L /\ k \in 0 .. L /\ k - 1 \in S
      BY <1>1, <1>3
    <3>2. FlatUpTo(g[k - 1], rs, k - 1)
      BY <3>1
    <3> QED BY <3>1, <3>2
  <2>2. g[k] = g[k - 1] \o rs[k]
    BY <1>2 DEF Accumulates
  <2>3. FlatUpTo(g[k], rs, k)
    BY <2>1, <2>2, FlatAdded
  <2> QED BY <2>1, <2>3
<1>4. 0 \in S
  BY <1>1, <1>2 DEF Accumulates, FlatUpTo, InOrder
<1>5. 0 .. L \subseteq S
  <2> HIDE DEF S, L
  <2> QED BY <1>1, <1>3, <1>4, Induct
<1> QED BY <1>1, <1>2, <1>5

\* The last rounds are rounds in order, and so are the first.
LEMMA SomeRounds ==
  ASSUME NEW E, NEW rs \in Seq(Seq(E)), RoundsInOrder(rs), NEW m \in 1 .. Len(rs) + 1, NEW n \in 0 .. Len(rs)
  PROVE  /\ SubSeq(rs, m, n) \in Seq(Seq(E)) /\ RoundsInOrder(SubSeq(rs, m, n))
         /\ Len(SubSeq(rs, m, n)) = IF m <= n THEN n - m + 1 ELSE 0
         /\ \A a \in DOMAIN SubSeq(rs, m, n) : m + a - 1 \in m .. n /\ SubSeq(rs, m, n)[a] = rs[m + a - 1]
<1> DEFINE new == SubSeq(rs, m, n)
<1>1. /\ new \in Seq(Seq(E)) /\ Len(new) = (IF m <= n THEN n - m + 1 ELSE 0) /\ DOMAIN new = 1 .. Len(new)
      /\ \A a \in 1 .. Len(new) : m + a - 1 \in m .. n /\ new[a] = rs[m + a - 1]
  <2>1. \A i \in m .. n : rs[i] \in Seq(E)
    OBVIOUS
  <2>2. new \in Seq(Seq(E)) /\ Len(new) = (IF m <= n THEN n - m + 1 ELSE 0)
        /\ \A a \in 1 .. n - m + 1 : new[a] = rs[m + a - 1]
    BY SubSeqProperties
  <2> QED BY SMTT(40), <2>2
<1> HIDE DEF new
<1>2. \A a \in DOMAIN new : new[a] # <<>> /\ InOrder(new[a])
  <2> SUFFICES ASSUME NEW a \in DOMAIN new PROVE new[a] # <<>> /\ InOrder(new[a])
    OBVIOUS
  <2>1. m + a - 1 \in DOMAIN rs /\ new[a] = rs[m + a - 1]
    BY SMTT(40), <1>1
  <2> QED BY <2>1 DEF RoundsInOrder
<1>3. ASSUME NEW a \in DOMAIN new, NEW b \in DOMAIN new, a < b, NEW i \in DOMAIN new[a], NEW j \in DOMAIN new[b]
      PROVE  new[a][i].n < new[b][j].n
  <2>1. /\ m + a - 1 \in DOMAIN rs /\ new[a] = rs[m + a - 1] /\ m + b - 1 \in DOMAIN rs /\ new[b] = rs[m + b - 1]
        /\ m + a - 1 < m + b - 1
    <3>1. a \in 1 .. Len(new) /\ b \in 1 .. Len(new) /\ Len(new) \in Nat /\ a \in Int /\ b \in Int
      BY <1>1
    <3>2. m + a - 1 \in m .. n /\ m + b - 1 \in m .. n /\ new[a] = rs[m + a - 1] /\ new[b] = rs[m + b - 1]
      BY <1>1, <3>1
    <3>3. m + a - 1 < m + b - 1
      BY <1>3, <3>1
    <3> QED BY <3>2, <3>3
  <2> QED BY <1>3, <2>1 DEF RoundsInOrder
<1> QED BY <1>1, <1>2, <1>3 DEF RoundsInOrder, new

-----------------------------------------------------------------------------
(* What is given up.                                                        *)

LEMMA NoTokens == Tokens(<<>>) = 0
<1> DEFINE F(it) == [x \in SUBSET {} |-> IF x = {} THEN 0 ELSE it[x \ {Max(x)}] + <<>>[Max(x)].tokens]
           f == CHOOSE it : it = F(it)
<1>1. Tokens(<<>>) = f[{}]
  BY DEF Tokens, FoldLeft, MapThenFoldSet
<1>2. [x \in SUBSET {} |-> 0] = F([x \in SUBSET {} |-> 0])
  OBVIOUS
<1>3. f = F(f)
  <2>1. \E it : it = F(it)
    BY <1>2
  <2> HIDE DEF F
  <2> QED BY <2>1
<1>4. f[{}] = 0
  <2> HIDE DEF f
  <2> QED BY <1>3
<1> QED BY <1>1, <1>4

\* What may be sent: the messages in order, the last one kept if any is.
Fits(w, last) ==
    /\ Len(w) \in Nat /\ DOMAIN w = 1 .. Len(w)
    /\ InOrder(w) /\ Tokens(w) <= MaxContext /\ (w # <<>> => w[Len(w)] = last)

LEMMA CutFits ==
  ASSUME NEW E, NEW ms \in Seq(E), InOrder(ms)
  PROVE  Fits(Cut(ms), ms[Len(ms)])
<1> DEFINE L == Len(ms)
           fits == {k \in 1 .. L + 1 : Tokens(SubSeq(ms, k, L)) <= MaxContext}
           k == Min(fits)
           w == SubSeq(ms, k, L)
<1>1. L \in Nat /\ DOMAIN ms = 1 .. L
  OBVIOUS
<1>2. SubSeq(ms, L + 1, L) = <<>>
  BY <1>1, SubSeqEmpty
<1>3. L + 1 \in fits
  <2>1. L + 1 \in 1 .. L + 1
    BY <1>1
  <2>2. Tokens(SubSeq(ms, L + 1, L)) <= MaxContext
    <3> HIDE DEF L
    <3>1. MaxContext \in Nat
      BY PromptAssumption
    <3>2. Tokens(SubSeq(ms, L + 1, L)) = 0
      BY <1>2, NoTokens
    <3> QED BY <3>1, <3>2
  <2> HIDE DEF L
  <2> QED BY <2>1, <2>2
<1>4. k \in fits
  <2>1. fits \subseteq Nat
    OBVIOUS
  <2> HIDE DEF fits
  <2> QED BY <1>3, <2>1, LeastOf
<1>5. k \in 1 .. L + 1 /\ Tokens(w) <= MaxContext
  BY <1>4
<1> HIDE DEF k, fits
<1>6. /\ w \in Seq(E) /\ Len(w) = (IF k <= L THEN L - k + 1 ELSE 0) /\ DOMAIN w = 1 .. Len(w) /\ Len(w) \in Nat
      /\ \A i \in 1 .. Len(w) : k + i - 1 \in 1 .. L /\ w[i] = ms[k + i - 1]
  <2>1. w \in Seq(E) /\ Len(w) = (IF k <= L THEN L - k + 1 ELSE 0)
        /\ \A i \in 1 .. L - k + 1 : w[i] = ms[k + i - 1]
    BY <1>1, <1>5, SubSeqProperties
  <2> HIDE DEF w, L
  <2> QED BY <1>1, <1>5, <2>1
<1>7. Cut(ms) = w
  BY DEF Cut, k, fits
<1> HIDE DEF w, L
<1>8. InOrder(w)
  <2> SUFFICES ASSUME NEW i \in DOMAIN w, NEW j \in DOMAIN w, i < j PROVE w[i].n < w[j].n
    BY DEF InOrder
  <2>1. /\ k + i - 1 \in DOMAIN ms /\ k + j - 1 \in DOMAIN ms /\ k + i - 1 < k + j - 1
        /\ w[i] = ms[k + i - 1] /\ w[j] = ms[k + j - 1]
    BY <1>1, <1>5, <1>6
  <2> QED BY <2>1 DEF InOrder
<1>9. w # <<>> => w[Len(w)] = ms[L]
  <2>1. w # <<>> => Len(w) > 0
    BY <1>6
  <2>2. Len(w) > 0 => Len(w) \in 1 .. Len(w) /\ k + Len(w) - 1 = L
    BY <1>1, <1>5, <1>6
  <2> QED BY <1>6, <2>1, <2>2
<1> QED BY <1>5, <1>6, <1>7, <1>8, <1>9 DEF Fits, L

LEMMA Headed ==
  ASSUME NEW E, NEW m \in E, NEW ms \in Seq(E), InOrder(ms), ms # <<>>,
         \A i \in DOMAIN ms : m.n < ms[i].n
  PROVE  /\ <<m>> \o ms \in Seq(E) /\ InOrder(<<m>> \o ms)
         /\ (<<m>> \o ms)[Len(<<m>> \o ms)] = ms[Len(ms)]
<1> DEFINE new == <<m>> \o ms
<1>1. Len(ms) \in Nat /\ Len(ms) > 0 /\ DOMAIN ms = 1 .. Len(ms) /\ <<m>> \in Seq(E) /\ Len(<<m>>) = 1 /\ <<m>>[1] = m
  OBVIOUS
<1>2. /\ new \in Seq(E) /\ Len(new) = 1 + Len(ms) /\ DOMAIN new = 1 .. 1 + Len(ms)
      /\ new[1] = m /\ \A i \in 2 .. 1 + Len(ms) : new[i] = ms[i - 1]
  BY <1>1, ConcatProperties
<1> HIDE DEF new
<1>3. InOrder(new)
  <2> SUFFICES ASSUME NEW i \in DOMAIN new, NEW j \in DOMAIN new, i < j PROVE new[i].n < new[j].n
    BY DEF InOrder
  <2>1. i \in Int /\ j \in 2 .. 1 + Len(ms) /\ j - 1 \in DOMAIN ms /\ new[j] = ms[j - 1]
    BY <1>1, <1>2
  <2>2. CASE i = 1
    BY <1>2, <2>1, <2>2
  <2>3. CASE i # 1
    <3>1. i - 1 \in DOMAIN ms /\ new[i] = ms[i - 1] /\ i - 1 < j - 1
      BY <1>1, <1>2, <2>1, <2>3
    <3> QED BY <2>1, <3>1 DEF InOrder
  <2> QED BY <2>2, <2>3
<1>4. new[Len(new)] = ms[Len(ms)]
  <2>1. Len(new) \in 2 .. 1 + Len(ms) /\ Len(new) - 1 = Len(ms)
    BY <1>1, <1>2
  <2> QED BY <1>2, <2>1
<1> QED BY <1>2, <1>3, <1>4 DEF new

\* Whatever the window is made of fits, and ends with the question.
LEMMA WindowFits ==
  ASSUME NEW h \in Histories
  PROVE  /\ Fits(Cut(FlattenSeq(Rounds(h))), Last(h))
         /\ Len(Rounds(h)) > RecentRounds =>
              /\ \A t \in SummaryTokens : Fits(Cut(<<Summary(t)>> \o FlattenSeq(Recent(Rounds(h)))), Last(h))
              /\ Fits(Cut(<<Last(FlattenSeq(Older(Rounds(h))))>> \o FlattenSeq(Recent(Rounds(h)))), Last(h))
<1> DEFINE E == ToSet(h)
           rs == Rounds(h)
           L == Len(rs)
<1>1. Conversation(h) /\ RecentRounds \in Nat \ {0}
  BY PromptAssumption
<1>2. /\ Numbered(E) /\ rs \in Seq(Seq(E)) /\ RoundsUpTo(rs, Last(h)) /\ Last(h) \in E /\ \A m \in E : m.n > 0
  BY <1>1, RoundsOfConversation
<1> HIDE DEF E, rs
<1>3. RoundsInOrder(rs) /\ L \in Nat /\ L > 0 /\ DOMAIN rs = 1 .. L /\ rs[L][Len(rs[L])] = Last(h)
  BY <1>2 DEF RoundsUpTo, Last
<1>4. /\ FlattenSeq(rs) \in Seq(E) /\ InOrder(FlattenSeq(rs))
      /\ FlattenSeq(rs)[Len(FlattenSeq(rs))] = Last(h)
  BY <1>2, <1>3, FlatRounds DEF FlatUpTo
<1>5. Fits(Cut(FlattenSeq(rs)), Last(h))
  BY <1>4, CutFits
<1>6. ASSUME L > RecentRounds
      PROVE /\ \A t \in SummaryTokens : Fits(Cut(<<Summary(t)>> \o FlattenSeq(Recent(rs))), Last(h))
            /\ Fits(Cut(<<Last(FlattenSeq(Older(rs)))>> \o FlattenSeq(Recent(rs))), Last(h))
  <2> DEFINE m == L - RecentRounds + 1
             recent == SubSeq(rs, m, L)
             older == SubSeq(rs, 1, m - 1)
             flat == FlattenSeq(recent)
  <2>1. m \in 2 .. L /\ m \in 1 .. L + 1 /\ m - 1 \in 0 .. L /\ m - 1 > 0 /\ 1 \in 1 .. L + 1 /\ L \in 0 .. L
    BY <1>1, <1>3, <1>6
  <2>2. Recent(rs) = recent /\ Older(rs) = older
    <3>1. m - 1 = L - RecentRounds
      BY <1>1, <1>3
    <3> QED BY <1>6, <3>1 DEF Recent, Older
  <2> HIDE DEF m
  <2>3. /\ recent \in Seq(Seq(E)) /\ RoundsInOrder(recent) /\ Len(recent) = L - m + 1
        /\ \A a \in DOMAIN recent : m + a - 1 \in m .. L /\ recent[a] = rs[m + a - 1]
    <3>1. L - m + 1 = IF m <= L THEN L - m + 1 ELSE 0
      BY <1>3, <2>1
    <3> QED BY <1>2, <1>3, <2>1, <3>1, SomeRounds
  <2>4. /\ older \in Seq(Seq(E)) /\ RoundsInOrder(older) /\ Len(older) = m - 1
        /\ \A a \in DOMAIN older : a \in 1 .. m - 1 /\ older[a] = rs[a]
    <3>1. (m - 1) - 1 + 1 = m - 1 /\ 1 <= m - 1
      BY <1>3, <2>1
    <3>2. /\ older \in Seq(Seq(E)) /\ RoundsInOrder(older)
          /\ Len(older) = (IF 1 <= m - 1 THEN (m - 1) - 1 + 1 ELSE 0)
          /\ \A a \in DOMAIN older : 1 + a - 1 \in 1 .. m - 1 /\ older[a] = rs[1 + a - 1]
      BY <1>2, <1>3, <2>1, SomeRounds
    <3>3. Len(older) = m - 1
      BY <2>1, <3>1, <3>2
    <3>4. \A a \in DOMAIN older : a \in Int /\ 1 + a - 1 = a
      BY <3>2
    <3> QED BY <3>2, <3>3, <3>4
  <2> HIDE DEF recent, older
  <2>5. flat \in Seq(E) /\ FlatUpTo(flat, recent, L - m + 1) /\ L - m + 1 > 0
    BY <1>2, <1>3, <2>1, <2>3, FlatRounds
  <2>6. DOMAIN recent = 1 .. L - m + 1 /\ L - m + 1 \in DOMAIN recent /\ recent[L - m + 1] = rs[L]
    <3>1. DOMAIN recent = 1 .. L - m + 1
      BY <2>3
    <3>2. L - m + 1 \in 1 .. L - m + 1 /\ m + (L - m + 1) - 1 = L
      BY <1>3, <2>1
    <3> QED BY <2>3, <3>1, <3>2
  <2>7. InOrder(flat) /\ flat # <<>> /\ flat[Len(flat)] = Last(h)
    BY <1>3, <2>5, <2>6 DEF FlatUpTo
  <2>8. \A i \in DOMAIN flat : \E a \in m .. L : \E j \in DOMAIN rs[a] : flat[i] = rs[a][j]
    <3> SUFFICES ASSUME NEW i \in DOMAIN flat PROVE \E a \in m .. L : \E j \in DOMAIN rs[a] : flat[i] = rs[a][j]
      OBVIOUS
    <3>1. PICK b \in 1 .. L - m + 1 : \E j \in DOMAIN recent[b] : flat[i] = recent[b][j]
      BY <2>5 DEF FlatUpTo
    <3>2. m + b - 1 \in m .. L /\ recent[b] = rs[m + b - 1]
      BY <2>3, <2>6
    <3> QED BY <3>1, <3>2
  <2> HIDE DEF flat
  <2>9. ASSUME NEW t \in SummaryTokens PROVE Fits(Cut(<<Summary(t)>> \o flat), Last(h))
    <3> DEFINE both == E \cup {Summary(t)}
    <3>1. Summary(t).n = 0 /\ Summary(t) \in both
      BY DEF Summary
    <3>2. flat \in Seq(both)
      BY <2>5, SeqMonotonic
    <3>3. \A i \in DOMAIN flat : flat[i] \in E
      BY <2>5
    <3>4. \A i \in DOMAIN flat : Summary(t).n < flat[i].n
      BY <1>2, <3>1, <3>3 DEF Numbered
    <3> HIDE DEF both
    <3>5. /\ <<Summary(t)>> \o flat \in Seq(both) /\ InOrder(<<Summary(t)>> \o flat)
          /\ (<<Summary(t)>> \o flat)[Len(<<Summary(t)>> \o flat)] = Last(h)
      BY <2>7, <3>1, <3>2, <3>4, Headed
    <3> QED BY <3>5, CutFits
  <2>10. Fits(Cut(<<Last(FlattenSeq(older))>> \o flat), Last(h))
    <3> DEFINE q == rs[m - 1]
               x == q[Len(q)]
    <3>1. m - 1 \in DOMAIN rs /\ m - 1 \in DOMAIN older /\ older[m - 1] = q /\ q \in Seq(E) /\ q # <<>>
      <4>1. m - 1 \in DOMAIN rs /\ m - 1 \in DOMAIN older
        BY <1>3, <2>1, <2>4
      <4> QED BY <1>2, <1>3, <2>4, <4>1 DEF RoundsInOrder
    <3>2. Len(q) \in DOMAIN q /\ x \in E
      BY <3>1
    <3>3. Last(FlattenSeq(older)) = x
      BY ZenonT(60), <1>2, <2>1, <2>4, <3>1, FlatRounds DEF FlatUpTo, Last
    <3>4. \A i \in DOMAIN flat : x.n < flat[i].n
      <4> SUFFICES ASSUME NEW i \in DOMAIN flat PROVE x.n < flat[i].n
        OBVIOUS
      <4>1. PICK a \in m .. L : \E j \in DOMAIN rs[a] : flat[i] = rs[a][j]
        BY <2>8
      <4>2. PICK j \in DOMAIN rs[a] : flat[i] = rs[a][j]
        BY <4>1
      <4>3. a \in DOMAIN rs /\ m - 1 < a
        BY <1>3, <2>1
      <4> QED BY <1>3, <3>1, <3>2, <4>2, <4>3 DEF RoundsInOrder
    <3> HIDE DEF x, q
    <3>5. /\ <<x>> \o flat \in Seq(E) /\ InOrder(<<x>> \o flat)
          /\ (<<x>> \o flat)[Len(<<x>> \o flat)] = Last(h)
      BY <2>5, <2>7, <3>2, <3>4, Headed
    <3> QED BY <3>3, <3>5, CutFits
  <2> QED BY <2>2, <2>9, <2>10 DEF flat
<1> QED BY <1>5, <1>6 DEF rs

-----------------------------------------------------------------------------
(* Every part moves by its own steps.                                       *)

LEMMA PromptSteps == [Next]_vars => [PromptNext]_promptVars
  BY DEF Next, vars

\* Between the window and the call, what is kept ends with the question.
PromptInv ==
    stage # "none" =>
        /\ stage \in {"window", "system", "send", "done"} /\ history \in Histories
        /\ stage # "window" => Fits(window, Last(history))
        /\ stage = "done" => sent = IF window = <<>> THEN <<Last(history)>> ELSE window

LEMMA PromptStep == ASSUME PromptInv, [PromptNext]_promptVars PROVE PromptInv'
<1>1. CASE UNCHANGED promptVars
  BY <1>1 DEF PromptInv, promptVars
<1>2. CASE Window
  <2>1. history \in Histories /\ history' = history /\ stage' = "system"
    BY <1>2 DEF Window, PromptInv
  <2>2. Fits(window', Last(history))
    BY <1>2, <2>1, WindowFits DEF Window
  <2> QED BY <2>1, <2>2 DEF PromptInv
<1>3. CASE SystemPrompt
  BY <1>3 DEF SystemPrompt, PromptInv
<1>4. CASE BuildMessages
  <2> DEFINE questions == {i \in DOMAIN window : window[i].role = "user"}
  <2>1. /\ history \in Histories /\ history' = history /\ window' = window /\ stage' = "done"
        /\ Fits(window, Last(history)) /\ stage = "send"
    BY <1>4 DEF BuildMessages, PromptInv
  <2>2. sent' = IF questions # {} /\ window[Max(questions)].words = Last(history).words
                THEN window ELSE Append(window, Last(history))
    BY <1>4 DEF BuildMessages, Question
  <2>3. CASE window = <<>>
    <3>1. questions = {}
      BY <2>3
    <3>2. Append(<<>>, Last(history)) = <<Last(history)>>
      OBVIOUS
    <3> QED BY <2>1, <2>2, <2>3, <3>1, <3>2 DEF PromptInv
  <2>4. CASE window # <<>>
    <3> DEFINE L == Len(window)
    <3>1. Last(history).role = "user"
      BY <2>1, PromptAssumption DEF Conversation
    <3>2. L \in questions /\ window[L] = Last(history) /\ questions \subseteq 0 .. L /\ L \in Nat
      BY <2>1, <2>4, <3>1 DEF Fits
    <3>3. Max(questions) = L
      <4>1. Max(questions) \in questions /\ L <= Max(questions)
        <5> HIDE DEF questions
        <5> QED BY <3>2, GreatestOf
      <4> QED BY <3>2, <4>1
    <3>4. sent' = window
      <4> HIDE DEF questions, L
      <4> QED BY <2>2, <3>2, <3>3
    <3> QED BY <2>1, <2>4, <3>4 DEF PromptInv
  <2> QED BY <2>3, <2>4
<1> QED BY <1>1, <1>2, <1>3, <1>4 DEF PromptNext

\* However long the conversation, whatever its rounds, its summary and its budget,
\* the model is asked the customer's question last and once, after messages in the
\* order they were written and within the budget (getWindow, buildMessages).
THEOREM PromptTheorem == Spec => []PromptAsksTheQuestion
<1>1. Init => PromptInv
  BY DEF Init, PromptInit, NoPrompt, PromptInv
<1>2. PromptInv /\ [Next]_vars => PromptInv'
  BY PromptSteps, PromptStep
<1>3. PromptInv => PromptAsksTheQuestion
  <2> SUFFICES ASSUME PromptInv, stage = "done"
               PROVE  /\ Last(sent).n = Question.n
                      /\ \A i, j \in DOMAIN sent : i < j => sent[i].n < sent[j].n
                      /\ Tokens(window) <= MaxContext
                      /\ Tokens(sent) <= MaxContext \/ sent = <<Question>>
    BY DEF PromptAsksTheQuestion
  <2>1. Fits(window, Question) /\ sent = IF window = <<>> THEN <<Question>> ELSE window
    BY DEF PromptInv, Question
  <2>2. CASE window = <<>>
    <3>1. sent = <<Question>> /\ DOMAIN sent = {1} /\ Last(sent) = Question
      BY <2>1, <2>2 DEF Last
    <3> QED BY <2>1, <3>1 DEF Fits
  <2>3. CASE window # <<>>
    <3>1. sent = window /\ Last(sent) = Question
      BY <2>1, <2>3 DEF Fits, Last
    <3> QED BY <2>1, <3>1 DEF Fits, InOrder
  <2> QED BY <2>2, <2>3
<1> QED BY <1>1, <1>2, <1>3, PTL DEF Spec

-----------------------------------------------------------------------------
(* Orders.                                                                  *)

\* The keys order the members strictly, one after the other.
Orders(S, key) ==
    /\ \A x \in S : ~Before(key[x], key[x])
    /\ \A x, y \in S : x # y => Before(key[x], key[y]) \/ Before(key[y], key[x])
    /\ \A x, y, z \in S : Before(key[x], key[y]) /\ Before(key[y], key[z]) => Before(key[x], key[z])

\* So do numbers in sequences of one length, different ones for different members.
LEMMA BeforeOrders ==
  ASSUME NEW n \in Nat, NEW S, NEW key, \A x \in S : key[x] \in [1 .. n -> Int],
         \A x, y \in S : key[x] = key[y] => x = y
  PROVE  Orders(S, key)
<1>1. \A x \in S : ~Before(key[x], key[x])
  <2> SUFFICES ASSUME NEW x \in S, NEW i \in DOMAIN key[x], key[x][i] < key[x][i] PROVE FALSE
    BY DEF Before
  <2>1. key[x][i] \in Int
    OBVIOUS
  <2> QED BY <2>1
<1>2. ASSUME NEW x \in S, NEW y \in S, x # y PROVE Before(key[x], key[y]) \/ Before(key[y], key[x])
  <2> DEFINE Differ == {i \in 1 .. n : key[x][i] # key[y][i]}
  <2>0. key[x] \in [1 .. n -> Int] /\ key[y] \in [1 .. n -> Int] /\ key[x] # key[y]
    BY <1>2
  <2>1. Differ # {} /\ Differ \subseteq Nat
    <3>1. \A u, v \in [1 .. n -> Int] : (\A i \in 1 .. n : u[i] = v[i]) => u = v
      OBVIOUS
    <3>2. \E i \in 1 .. n : key[x][i] # key[y][i]
      BY <2>0, <3>1
    <3> QED BY <3>2
  <2> DEFINE i == Min(Differ)
  <2>2. i \in Differ /\ \A j \in Differ : i <= j
    <3> HIDE DEF Differ
    <3> QED BY <2>1, LeastOf
  <2> HIDE DEF i
  <2>3. i \in 1 .. n /\ key[x][i] # key[y][i] /\ \A j \in 1 .. i - 1 : key[x][j] = key[y][j]
    <3>1. i \in 1 .. n /\ key[x][i] # key[y][i]
      BY <2>2
    <3>2. \A j \in 1 .. i - 1 : j \in 1 .. n /\ ~(i <= j)
      BY <3>1
    <3> QED BY <2>2, <3>1, <3>2
  <2>4. key[x][i] \in Int /\ key[y][i] \in Int /\ i \in DOMAIN key[x] /\ i \in DOMAIN key[y]
    BY <2>0, <2>3
  <2>5. key[x][i] < key[y][i] \/ key[y][i] < key[x][i]
    BY <2>3, <2>4
  <2> QED BY <2>3, <2>4, <2>5 DEF Before
<1>3. ASSUME NEW x \in S, NEW y \in S, NEW z \in S, Before(key[x], key[y]), Before(key[y], key[z])
      PROVE  Before(key[x], key[z])
  <2>0. key[x] \in [1 .. n -> Int] /\ key[y] \in [1 .. n -> Int] /\ key[z] \in [1 .. n -> Int]
    OBVIOUS
  <2>1. PICK i \in 1 .. n : key[x][i] < key[y][i] /\ \A k \in 1 .. i - 1 : key[x][k] = key[y][k]
    BY <1>3, <2>0 DEF Before
  <2>2. PICK j \in 1 .. n : key[y][j] < key[z][j] /\ \A k \in 1 .. j - 1 : key[y][k] = key[z][k]
    BY <1>3, <2>0 DEF Before
  <2>3. \A k \in 1 .. n : key[x][k] \in Int /\ key[y][k] \in Int /\ key[z][k] \in Int
    BY <2>0
  <2>4. CASE i <= j
    <3>1. \A k \in 1 .. i - 1 : k \in 1 .. j - 1
      BY <2>4
    <3>2. i < j => i \in 1 .. j - 1
      BY <2>4
    <3>3. key[x][i] < key[z][i]
      BY <2>1, <2>2, <2>3, <2>4, <3>2
    <3>4. \A k \in 1 .. i - 1 : key[x][k] = key[z][k]
      BY <2>1, <2>2, <3>1
    <3> QED BY <2>0, <3>3, <3>4 DEF Before
  <2>5. CASE j < i
    <3>1. \A k \in 1 .. j - 1 : k \in 1 .. i - 1
      BY <2>5
    <3>2. j \in 1 .. i - 1
      BY <2>5
    <3>3. key[x][j] < key[z][j]
      BY <2>1, <2>2, <2>3, <3>2
    <3>4. \A k \in 1 .. j - 1 : key[x][k] = key[z][k]
      BY <2>1, <2>2, <3>1
    <3> QED BY <2>0, <3>3, <3>4 DEF Before
  <2> QED BY <2>4, <2>5
<1> QED BY <1>1, <1>2, <1>3 DEF Orders

\* s holds the members of S in the order of their keys.
InKeyOrder(S, key, s) ==
    /\ s \in [1 .. Cardinality(S) -> S]
    /\ \A x \in S : \E i \in 1 .. Cardinality(S) : s[i] = x
    /\ \A i, j \in 1 .. Cardinality(S) : i < j => Before(key[s[i]], key[s[j]])
    /\ \A i, j \in 1 .. Cardinality(S) : s[i] = s[j] => i = j

\* Sorted places every member by the number of members before it, so no place is
\* taken twice and none stays free.
LEMMA SortedInKeyOrder ==
  ASSUME NEW S, IsFiniteSet(S), NEW key, Orders(S, key)
  PROVE  InKeyOrder(S, key, Sorted(S, key))
<1> DEFINE N == Cardinality(S)
           Less(x) == {y \in S : Before(key[y], key[x])}
           r == [x \in S |-> Cardinality(Less(x)) + 1]
           s == Sorted(S, key)
<1>0. N \in Nat
  BY FS_CardinalityType
<1>1. ASSUME NEW x \in S PROVE IsFiniteSet(Less(x)) /\ Cardinality(Less(x)) \in Nat /\ r[x] \in 1 .. N
  <2>1. Less(x) \in SUBSET (S \ {x})
    BY DEF Orders
  <2>2. IsFiniteSet(S \ {x}) /\ Cardinality(S \ {x}) = N - 1
    BY FS_RemoveElement
  <2>3. IsFiniteSet(Less(x)) /\ Cardinality(Less(x)) <= N - 1
    <3> HIDE DEF Less
    <3> QED BY <2>1, <2>2, FS_Subset
  <2>4. Cardinality(Less(x)) \in Nat
    <3> HIDE DEF Less
    <3> QED BY <2>3, FS_CardinalityType
  <2> HIDE DEF Less, N
  <2> QED BY <1>0, <2>3, <2>4
<1>2. ASSUME NEW x \in S, NEW y \in S, Before(key[x], key[y]) PROVE r[x] < r[y]
  <2>1. Less(x) \in SUBSET (Less(y) \ {x}) /\ x \in Less(y)
    BY <1>2 DEF Orders
  <2>2. IsFiniteSet(Less(y) \ {x}) /\ Cardinality(Less(y) \ {x}) = Cardinality(Less(y)) - 1
    <3> HIDE DEF Less
    <3> QED BY <1>1, <2>1, FS_RemoveElement
  <2>3. Cardinality(Less(x)) <= Cardinality(Less(y)) - 1
    <3> HIDE DEF Less
    <3> QED BY <2>1, <2>2, FS_Subset
  <2> HIDE DEF Less
  <2> QED BY <1>1, <2>3
<1>3. \A x, y \in S : r[x] = r[y] => x = y
  <2> SUFFICES ASSUME NEW x \in S, NEW y \in S, r[x] = r[y], x # y PROVE FALSE
    OBVIOUS
  <2>1. Before(key[x], key[y]) \/ Before(key[y], key[x])
    BY DEF Orders
  <2>2. r[x] \in 1 .. N /\ r[y] \in 1 .. N
    BY <1>1
  <2>3. r[x] < r[y] \/ r[y] < r[x]
    <3> HIDE DEF r
    <3> QED BY <1>2, <2>1
  <2> HIDE DEF r, N
  <2> QED BY <1>0, <2>2, <2>3
<1>4. r \in Surjection(S, 1 .. N)
  <2>1. r \in [S -> 1 .. N]
    <3>1. DOMAIN r = S /\ r = [x \in S |-> r[x]]
      OBVIOUS
    <3> HIDE DEF r, N
    <3> QED BY <1>1, <3>1
  <2>2. r \in Injection(S, 1 .. N)
    <3> HIDE DEF r, N
    <3> QED BY <1>3, <2>1 DEF Injection, IsInjective
  <2>3. IsFiniteSet(1 .. N) /\ Cardinality(1 .. N) = N
    <3> HIDE DEF N
    <3> QED BY <1>0, FS_Interval
  <2>4. Cardinality(S) = Cardinality(1 .. N)
    BY <2>3
  <2> HIDE DEF r, N
  <2> QED BY <2>2, <2>3, <2>4, FS_Injection
<1>5. ASSUME NEW i \in 1 .. N PROVE s[i] \in S /\ r[s[i]] = i
  <2>1. PICK x \in S : r[x] = i
    <3> HIDE DEF r, N
    <3> QED BY <1>4 DEF Surjection
  <2>2. Cardinality(Less(x)) = i - 1
    <3>1. r[x] = Cardinality(Less(x)) + 1
      OBVIOUS
    <3> HIDE DEF r, Less, N
    <3> QED BY <2>1, <3>1, <1>0, <1>1
  <2>3. s[i] = CHOOSE z \in S : Cardinality(Less(z)) = i - 1
    BY DEF Sorted
  <2>4. s[i] \in S /\ Cardinality(Less(s[i])) = i - 1
    <3> HIDE DEF s, Less, N
    <3> QED BY <2>2, <2>3
  <2>5. r[s[i]] = Cardinality(Less(s[i])) + 1
    <3> HIDE DEF s, Less, N
    <3> QED BY <2>4
  <2> HIDE DEF r, s, Less, N
  <2> QED BY <2>4, <2>5, <1>0
<1>6. s \in [1 .. N -> S]
  <2>1. DOMAIN s = 1 .. N /\ s = [i \in 1 .. N |-> s[i]]
    BY DEF Sorted
  <2> HIDE DEF s, N, r
  <2> QED BY <1>5, <2>1
<1>7. \A x \in S : \E i \in 1 .. N : s[i] = x
  <2> HIDE DEF s, N, r
  <2> QED BY <1>1, <1>3, <1>5
<1>8. ASSUME NEW i \in 1 .. N, NEW j \in 1 .. N, i < j PROVE Before(key[s[i]], key[s[j]])
  <2>1. s[i] \in S /\ s[j] \in S /\ r[s[i]] = i /\ r[s[j]] = j /\ i # j
    <3> HIDE DEF s, N, r
    <3> QED BY <1>0, <1>5, <1>8
  <2>2. s[i] # s[j] /\ ~(r[s[j]] < r[s[i]])
    <3> HIDE DEF s, N, r
    <3> QED BY <2>1, <1>0, <1>8
  <2>3. Before(key[s[i]], key[s[j]]) \/ Before(key[s[j]], key[s[i]])
    <3> HIDE DEF s, N, r
    <3> QED BY <2>1, <2>2 DEF Orders
  <2> HIDE DEF s, N, r
  <2> QED BY <1>2, <2>1, <2>2, <2>3
<1>9. \A i, j \in 1 .. N : s[i] = s[j] => i = j
  <2> HIDE DEF s, N, r
  <2> QED BY <1>5
<1> QED BY <1>6, <1>7, <1>8, <1>9 DEF InKeyOrder

-----------------------------------------------------------------------------
(* Ranking (Retrieval).                                                     *)

\* The first places of a list.
LEMMA MinOfTwo ==
  ASSUME NEW a \in Nat, NEW b \in Nat
  PROVE  Min({a, b}) = (IF a <= b THEN a ELSE b) /\ Min({a, b}) \in Nat
<1>1. {a, b} \in SUBSET Nat /\ {a, b} # {}
  OBVIOUS
<1>2. Min({a, b}) \in {a, b} /\ Min({a, b}) <= a /\ Min({a, b}) <= b
  BY <1>1, LeastOf
<1> QED BY <1>2

LEMMA FirstOfSeq ==
  ASSUME NEW E, NEW s \in Seq(E), NEW n \in Nat
  PROVE  FirstOf(n, s) \in Seq(E) /\ FirstOf(n, s) = [i \in 1 .. Min({n, Len(s)}) |-> s[i]]
<1> DEFINE m == Min({n, Len(s)})
<1>1. m \in Nat /\ m <= Len(s)
  BY MinOfTwo
<1>2. FirstOf(n, s) = SubSeq(s, 1, m)
  BY DEF FirstOf
<1> HIDE DEF m
<1>3. SubSeq(s, 1, m) \in Seq(E) /\ SubSeq(s, 1, m) = [i \in 1 .. m |-> s[i]]
  <2>1. 1 \in 1 .. Len(s) + 1 /\ m \in 0 .. Len(s)
    BY <1>1
  <2>2. SubSeq(s, 1, m) \in Seq(E) /\ Len(SubSeq(s, 1, m)) = m /\ \A i \in 1 .. m : SubSeq(s, 1, m)[i] = s[i]
    BY <1>1, <2>1, SubSeqProperties
  <2> QED BY <2>2
<1> QED BY <1>2, <1>3 DEF m

\* p takes of the list all the first n places that Select takes.
Picks(all, n, policy, p) ==
    /\ p \in [1 .. Min({n, Len(all)}) -> DOMAIN all]
    /\ \A i, j \in DOMAIN p : p[i] = p[j] => i = j
    /\ 1 \in DOMAIN p => p[1] = 1
    /\ n >= 2 => \A k \in DOMAIN all :
          100 * Relevance(all[k], policy) >= Relevance(all[1], policy) * policy.ratio
             => \E i \in DOMAIN p : Type(all[p[i]].id) = Type(all[k].id)

Picked(all, n, policy, chosen) ==
    \E p : Picks(all, n, policy, p) /\ chosen = [i \in 1 .. Min({n, Len(all)}) |-> all[p[i]]]

\* The first result keeps its place, and the best of the other type comes second
\* where it is good enough.
LEMMA DiversePicks ==
  ASSUME NEW E, NEW all \in Seq(E), NEW n \in Nat, NEW policy, n > 1, Len(all) > 1
  PROVE  Picked(all, n, policy, Diverse(all, n, policy))
<1> DEFINE L == Len(all)
           floor == Relevance(all[1], policy) * policy.ratio
           Good(t) == {i \in DOMAIN all : Type(all[i].id) = t /\ 100 * Relevance(all[i], policy) >= floor}
           others == {t \in KnowledgeTypes \ {Type(all[1].id)} : Good(t) # {}}
           picked == {1} \cup {Min(Good(t)) : t \in others}
           key == [i \in DOMAIN all |-> <<IF i \in picked THEN 0 ELSE 1, i>>]
           order == Sorted(DOMAIN all, key)
           m == Min({n, L})
<1>1. L \in Nat /\ DOMAIN all = 1 .. L /\ m \in Nat /\ m <= L /\ m >= 2 /\ 1 \in 1 .. L /\ 2 \in 1 .. m /\ 1 \in 1 .. m
  BY MinOfTwo
<1>2. Diverse(all, n, policy) = [i \in 1 .. m |-> all[order[i]]]
  BY DEF Diverse
<1>3. IsFiniteSet(1 .. L) /\ Cardinality(1 .. L) = L
  <2> HIDE DEF L
  <2> QED BY <1>1, FS_Interval
<1>4. InKeyOrder(1 .. L, key, order)
  <2>1. \A i \in 1 .. L : key[i] \in [1 .. 2 -> Int] /\ key[i][2] = i
    <3> HIDE DEF picked, L
    <3> QED BY <1>1
  <2>2. \A i, j \in 1 .. L : key[i] = key[j] => i = j
    <3> HIDE DEF key, L
    <3> QED BY <2>1
  <2>3. Orders(1 .. L, key)
    <3> HIDE DEF key, L
    <3> QED BY <2>1, <2>2, BeforeOrders
  <2>4. order = Sorted(1 .. L, key)
    BY <1>1
  <2> HIDE DEF key, L, order
  <2> QED BY <1>3, <2>3, <2>4, SortedInKeyOrder
<1>5. /\ order \in [1 .. L -> 1 .. L] /\ \A x \in 1 .. L : \E i \in 1 .. L : order[i] = x
      /\ \A i, j \in 1 .. L : i < j => Before(key[order[i]], key[order[j]])
      /\ \A i, j \in 1 .. L : order[i] = order[j] => i = j
  <2> HIDE DEF L, key, order
  <2> QED BY <1>3, <1>4 DEF InKeyOrder
<1>6. \A i, j \in 1 .. L : i \in picked /\ j \notin picked => ~Before(key[j], key[i])
  <2> SUFFICES ASSUME NEW i \in 1 .. L, NEW j \in 1 .. L, i \in picked, j \notin picked, Before(key[j], key[i]) PROVE FALSE
    OBVIOUS
  <2>1. key[i] = <<0, i>> /\ key[j] = <<1, j>>
    <3> HIDE DEF picked, L
    <3> QED BY <1>1
  <2> HIDE DEF key, picked, L
  <2>2. PICK k \in DOMAIN <<1, j>> : <<1, j>>[k] < <<0, i>>[k] /\ \A l \in 1 .. k - 1 : <<1, j>>[l] = <<0, i>>[l]
    BY <2>1 DEF Before
  <2>3. k \in {1, 2}
    OBVIOUS
  <2>4. CASE k = 1
    BY <2>2, <2>4
  <2>5. CASE k = 2
    <3>1. 1 \in 1 .. k - 1
      BY <2>5
    <3> QED BY <2>2, <3>1
  <2> QED BY <2>3, <2>4, <2>5
<1>7. \A i, j \in 1 .. L : i \in picked /\ j \in picked /\ Before(key[j], key[i]) => j < i
  <2> SUFFICES ASSUME NEW i \in 1 .. L, NEW j \in 1 .. L, i \in picked, j \in picked, Before(key[j], key[i]) PROVE j < i
    OBVIOUS
  <2>1. key[i] = <<0, i>> /\ key[j] = <<0, j>>
    <3> HIDE DEF picked, L
    <3> QED BY <1>1
  <2> HIDE DEF key, picked, L
  <2>2. PICK k \in DOMAIN <<0, j>> : <<0, j>>[k] < <<0, i>>[k]
    BY <2>1 DEF Before
  <2> QED BY <2>2
<1>8. 1 \in picked
  OBVIOUS
<1>9. \A i \in 1 .. L : Before(key[order[i]], key[1]) => FALSE
  <2> SUFFICES ASSUME NEW i \in 1 .. L, Before(key[order[i]], key[1]) PROVE FALSE
    OBVIOUS
  <2> HIDE DEF key, picked, L, order
  <2>1. order[i] \in 1 .. L
    BY <1>5
  <2>2. order[i] \in picked
    BY <1>1, <1>6, <1>8, <2>1
  <2>3. order[i] < 1
    BY <1>1, <1>7, <1>8, <2>1, <2>2
  <2> QED BY <2>1, <2>3
<1>10. order[1] = 1
  <2> HIDE DEF key, picked, L, order
  <2>1. PICK i \in 1 .. L : order[i] = 1
    BY <1>1, <1>5
  <2>2. i # 1 => 1 < i
    OBVIOUS
  <2>3. i # 1 => Before(key[order[1]], key[1])
    BY <1>1, <1>5, <2>1, <2>2
  <2> QED BY <1>1, <1>9, <2>1, <2>3
<1>11. ASSUME NEW k \in 1 .. L, 100 * Relevance(all[k], policy) >= floor
       PROVE  \E i \in 1 .. m : Type(all[order[i]].id) = Type(all[k].id)
  <2>1. CASE Type(all[k].id) = Type(all[1].id)
    <3> HIDE DEF order, L, m
    <3> QED BY <1>1, <1>10, <2>1
  <2>2. CASE Type(all[k].id) # Type(all[1].id)
    <3> DEFINE t == Type(all[k].id)
               g == Min(Good(t))
    <3>1. k \in Good(t) /\ Good(t) \in SUBSET Nat
      BY <1>1, <1>11
    <3>2. t \in KnowledgeTypes \ {Type(all[1].id)}
      BY <2>2 DEF Type, KnowledgeTypes
    <3>3. g \in Good(t)
      <4> HIDE DEF Good, t
      <4> QED BY <3>1, LeastOf
    <3>4. g \in 1 .. L /\ Type(all[g].id) = t /\ g # 1
      <4>1. g \in 1 .. L /\ Type(all[g].id) = t
        <5> HIDE DEF g, t, floor, L
        <5> QED BY <1>1, <3>3
      <4> QED BY <2>2, <4>1
    <3>5. g \in picked
      <4> HIDE DEF Good
      <4> QED BY <3>1, <3>2
    <3>6. \A i \in picked : i = 1 \/ i = g
      <4> SUFFICES ASSUME NEW u \in others PROVE u = t
        OBVIOUS
      <4>1. t \in KnowledgeTypes /\ u \in KnowledgeTypes /\ Type(all[1].id) \in KnowledgeTypes
        BY <3>2 DEF Type, KnowledgeTypes
      <4>2. t # Type(all[1].id) /\ u # Type(all[1].id)
        BY <3>2
      <4> HIDE DEF t, others
      <4> QED BY <4>1, <4>2 DEF KnowledgeTypes
    <3>7. PICK i \in 1 .. L : order[i] = g
      <4> HIDE DEF order, L, g
      <4> QED BY <1>5, <3>4
    <3>8. i <= 2
      <4> SUFFICES ASSUME i > 2 PROVE FALSE
        BY <3>7
      <4> DEFINE o == order[2]
      <4>1. 2 \in 1 .. L /\ 2 < i /\ 1 < 2
        BY <1>1
      <4>2. o \in 1 .. L /\ Before(key[o], key[g]) /\ o # 1 /\ o # g
        <5> HIDE DEF order, L, g, key
        <5>1. order[2] \in 1 .. L /\ Before(key[order[2]], key[order[i]])
          BY <1>5, <3>7, <4>1
        <5>2. order[2] # order[1] /\ order[2] # order[i]
          BY <1>1, <1>5, <3>7, <4>1
        <5> QED BY <5>1, <5>2, <1>10, <3>7
      <4>3. o \in picked
        <5> HIDE DEF order, L, g, key, picked, o
        <5> QED BY <1>6, <3>4, <3>5, <4>2
      <4> HIDE DEF o, picked, g
      <4> QED BY <3>6, <4>2, <4>3
    <3>9. i \in 1 .. m
      <4> HIDE DEF m, L
      <4> QED BY <1>1, <3>7, <3>8
    <3> HIDE DEF order, L, m, g
    <3> QED BY <3>4, <3>7, <3>9
  <2> QED BY <2>1, <2>2
<1> DEFINE p == [i \in 1 .. m |-> order[i]]
<1>12. \A i \in 1 .. m : i \in 1 .. L /\ p[i] = order[i]
  <2> HIDE DEF order, L, m
  <2> QED BY <1>1
<1>13. Picks(all, n, policy, p)
  <2>1. p \in [1 .. m -> DOMAIN all]
    <3> HIDE DEF order, L, m
    <3> QED BY <1>1, <1>5, <1>12
  <2>2. \A i, j \in DOMAIN p : p[i] = p[j] => i = j
    <3>1. DOMAIN p = 1 .. m
      OBVIOUS
    <3> HIDE DEF order, L, m, p
    <3> QED BY <1>5, <1>12, <3>1
  <2>3. p[1] = 1
    <3> HIDE DEF order, L, m, p
    <3> QED BY <1>1, <1>10, <1>12
  <2>4. \A k \in DOMAIN all : 100 * Relevance(all[k], policy) >= floor
             => \E i \in DOMAIN p : Type(all[p[i]].id) = Type(all[k].id)
    <3>1. DOMAIN p = 1 .. m
      OBVIOUS
    <3> HIDE DEF order, L, m, p, floor
    <3> QED BY <1>1, <1>11, <1>12, <3>1
  <2> HIDE DEF p
  <2> QED BY <2>1, <2>2, <2>3, <2>4 DEF Picks
<1>14. Diverse(all, n, policy) = [i \in 1 .. m |-> all[p[i]]]
  <2> HIDE DEF order, L, m, p
  <2> QED BY <1>2, <1>12
<1> HIDE DEF p
<1> QED BY <1>13, <1>14 DEF Picked

LEMMA SelectPicks ==
  ASSUME NEW E, NEW all \in Seq(E), NEW n \in Nat, NEW policy
  PROVE  Picked(all, n, policy, Select(all, n, policy))
<1> DEFINE m == Min({n, Len(all)})
<1> DEFINE L == Len(all)
<1>0. L \in Nat /\ DOMAIN all = 1 .. L
  OBVIOUS
<1>a. m \in Nat /\ m <= n /\ m <= L
  BY <1>0, MinOfTwo
<1>1. CASE n <= 1 \/ L <= 1
  <2> HIDE DEF m, L
  <2> DEFINE p == [i \in 1 .. m |-> i]
  <2>1. Select(all, n, policy) = [i \in 1 .. m |-> all[p[i]]]
    <3>1. Select(all, n, policy) = FirstOf(n, all)
      BY <1>0, <1>1 DEF Select, L
    <3>2. FirstOf(n, all) = [i \in 1 .. m |-> all[i]]
      BY FirstOfSeq DEF m
    <3> QED BY <3>1, <3>2
  <2>2. p \in [1 .. m -> DOMAIN all] /\ (1 \in DOMAIN p => p[1] = 1) /\ \A i, j \in DOMAIN p : p[i] = p[j] => i = j
    BY <1>0, <1>a
  <2>3. ASSUME n >= 2, NEW k \in DOMAIN all PROVE 1 \in DOMAIN p /\ k = p[1]
    <3>1. L <= 1 /\ k \in 1 .. L
      BY <1>0, <1>1, <2>3
    <3>2. L = 1 /\ k = 1 /\ m = 1
      <4>1. m = IF n <= L THEN n ELSE L
        BY <1>0, MinOfTwo DEF m, L
      <4> QED BY <1>0, <3>1, <4>1, <2>3
    <3> QED BY <3>2
  <2> HIDE DEF p
  <2>4. Picks(all, n, policy, p)
    BY <2>2, <2>3 DEF Picks, m
  <2> QED BY <2>1, <2>4 DEF m, Picked
<1>2. CASE n > 1 /\ L > 1
  <2>1. Select(all, n, policy) = Diverse(all, n, policy)
    BY <1>0, <1>2 DEF Select
  <2>2. n > 1 /\ Len(all) > 1
    BY <1>2
  <2> QED BY <2>1, <2>2, DiversePicks
<1> HIDE DEF L
<1> QED BY <1>0, <1>1, <1>2

\* Numbers that are keys themselves.
LEMMA NumbersInOrder ==
  ASSUME NEW S \in SUBSET Int, IsFiniteSet(S)
  PROVE  InKeyOrder(S, [x \in S |-> <<x>>], Sorted(S, [x \in S |-> <<x>>]))
<1> DEFINE key == [x \in S |-> <<x>>]
<1>1. \A x \in S : key[x] \in [1 .. 1 -> Int] /\ key[x][1] = x
  OBVIOUS
<1> HIDE DEF key
<1>2. \A x, y \in S : key[x] = key[y] => x = y
  BY <1>1
<1>3. Orders(S, key)
  BY ZenonT(60), <1>1, <1>2, BeforeOrders
<1>4. InKeyOrder(S, key, Sorted(S, key))
  BY <1>3, SortedInKeyOrder
<1> QED BY <1>4 DEF key

\* The last of finitely many numbers in their order is the greatest.
LEMMA GreatestOfFinite ==
  ASSUME NEW S \in SUBSET Nat, IsFiniteSet(S), S # {}
  PROVE  Max(S) \in S /\ \A k \in S : k <= Max(S)
<1> DEFINE key == [x \in S |-> <<x>>]
           s == Sorted(S, key)
           N == Cardinality(S)
<1>2. InKeyOrder(S, key, s)
  BY NumbersInOrder
<1>3. N \in Nat /\ N # 0
  BY FS_CardinalityType, FS_EmptySet
<1>4. /\ s \in [1 .. N -> S] /\ \A x \in S : \E i \in 1 .. N : s[i] = x
      /\ \A i, j \in 1 .. N : i < j => Before(key[s[i]], key[s[j]])
  <2> HIDE DEF key, s
  <2> QED BY <1>2 DEF InKeyOrder
<1>5. \A x, y \in S : Before(key[x], key[y]) => x < y
  <2> SUFFICES ASSUME NEW x \in S, NEW y \in S, Before(key[x], key[y]) PROVE x < y
    OBVIOUS
  <2>1. key[x] = <<x>> /\ key[y] = <<y>>
    OBVIOUS
  <2> HIDE DEF key
  <2>2. PICK i \in DOMAIN <<x>> : <<x>>[i] < <<y>>[i]
    BY <2>1 DEF Before
  <2> QED BY <2>2
<1> HIDE DEF key, s, N
<1>6. s[N] \in S /\ \A x \in S : x <= s[N]
  <2> SUFFICES ASSUME NEW x \in S PROVE s[N] \in S /\ x <= s[N]
    OBVIOUS
  <2>1. N \in 1 .. N
    BY <1>3
  <2>2. PICK i \in 1 .. N : s[i] = x
    BY <1>4
  <2>3. i = N \/ i < N
    BY <1>3
  <2>4. i < N => x < s[N]
    BY <1>4, <1>5, <2>1, <2>2
  <2>5. s[N] \in S /\ s[N] \in Nat /\ x \in Nat
    BY <1>4, <2>1
  <2>6. x <= s[N]
    BY <2>2, <2>3, <2>4, <2>5
  <2> QED BY <2>5, <2>6
<1> QED BY <1>6 DEF Max

Times(acc, rank) == acc * (60 + rank)
Product(s, base) == FoldLeft(Times, base, s)

Closed(A, L, s) == \A a \in A : \A k \in 1 .. L : Times(a, s[k]) \in A

\* The values of a product of ranks, one factor after the other.
LEMMA ProductTrace ==
  ASSUME NEW A, NEW base \in A, NEW L \in Nat, NEW s, DOMAIN s = 1 .. L, Closed(A, L, s)
  PROVE  \E g \in [0 .. L -> A] : /\ g[0] = base /\ Product(s, base) = g[L]
                                  /\ \A k \in 1 .. L : g[k] = Times(g[k - 1], s[k])
<1> DEFINE H == [p \in A \X (1 .. L) |-> Times(p[1], s[p[2]])]
           F(it) == [x \in SUBSET (1 .. L) |-> IF x = {} THEN base ELSE Times(it[x \ {Max(x)}], s[Max(x)])]
           f == CHOOSE it : it = F(it)
<1>1. H \in [A \X (1 .. L) -> A]
  BY DEF Closed
<1>2. \A a \in A : \A k \in 1 .. L : H[<<a, k>>] = Times(a, s[k])
  OBVIOUS
<1>3. \A x \in SUBSET (1 .. L) : x # {} => Max(x) \in 1 .. L /\ x \ {Max(x)} \in SUBSET (1 .. L)
  BY PlacesMax
<1>4. \E it : it = F(it)
  <2>1. PICK it \in [SUBSET (1 .. L) -> A] : FoldsSets(it, base, L, H)
    <3> HIDE DEF H
    <3> QED BY <1>1, Recursion
  <2>2. it[{}] = base /\ \A x \in SUBSET (1 .. L) : x # {} => it[x] = H[<<it[x \ {Max(x)}], Max(x)>>]
    <3> HIDE DEF H
    <3> QED BY <2>1 DEF FoldsSets
  <2>3. ASSUME NEW x \in SUBSET (1 .. L), x # {} PROVE it[x] = Times(it[x \ {Max(x)}], s[Max(x)])
    <3> HIDE DEF H
    <3> QED BY <1>2, <1>3, <2>2, <2>3
  <2>4. it = F(it)
    <3> HIDE DEF H
    <3> QED BY <2>2, <2>3
  <2> QED BY <2>4
<1>5. f = F(f)
  <2> HIDE DEF F, H
  <2> QED BY <1>4
<1>6. Product(s, base) = f[1 .. L]
  BY DEF Product, FoldLeft, MapThenFoldSet
<1>7. f[{}] = base /\ \A x \in SUBSET (1 .. L) : x # {} => f[x] = Times(f[x \ {Max(x)}], s[Max(x)])
  <2> HIDE DEF f, H
  <2> QED BY <1>5
<1> HIDE DEF f, H
<1>8. FoldsFrom(f, A, L, H)
  BY <1>2, <1>3, <1>7 DEF FoldsFrom
<1>9. f[{}] = base
  BY <1>7
<1>10. base \in A
  OBVIOUS
<1>11. PICK g \in [0 .. L -> A] : Follows(g, base, L, H) /\ f[1 .. L] = g[L]
  <2> USE <1>1, <1>8, <1>9, <1>10
  <2> QED BY Unfold
<1>12. \A k \in 1 .. L : g[k] = Times(g[k - 1], s[k])
  <2> SUFFICES ASSUME NEW k \in 1 .. L PROVE g[k] = Times(g[k - 1], s[k])
    OBVIOUS
  <2>1. g[k - 1] \in A /\ g[k] = H[<<g[k - 1], k>>]
    BY <1>11 DEF Follows
  <2> QED BY <2>1, <1>2
<1> QED BY <1>6, <1>11, <1>12 DEF Follows

\* The product that the ranks are divided by.
LEMMA DivisorIsNat ==
  ASSUME IsFiniteSet(Ids)
  PROVE  Divisor \in Nat
<1> DEFINE L == Cardinality(Ids)
           s == [i \in 1 .. L |-> i]
<1>1. L \in Nat
  BY FS_CardinalityType
<1>2. DOMAIN s = 1 .. L /\ \A k \in 1 .. L : s[k] = k
  OBVIOUS
<1>3. \A a \in Nat : \A k \in 1 .. L : Times(a, s[k]) \in Nat
  <2> HIDE DEF L
  <2> QED BY <1>1 DEF Times
<1>4. Divisor = Product(s, 1)
  BY DEF Divisor, Product, Times
<1> HIDE DEF s, L
<1> DEFINE A == Nat
           base == 1
<1>5. PICK g \in [0 .. L -> A] : /\ g[0] = base /\ Product(s, base) = g[L]
                                /\ \A k \in 1 .. L : g[k] = Times(g[k - 1], s[k])
  <2>1. DOMAIN s = 1 .. L /\ base \in A /\ Closed(A, L, s)
    BY <1>2, <1>3 DEF Closed
  <2> HIDE DEF A, base
  <2> QED BY <1>1, <2>1, ProductTrace
<1>6. g[L] \in Nat
  BY <1>1
<1> QED BY <1>4, <1>5, <1>6

\* Identifiers have places of their own, so that keys that end in one differ.
LEMMA Positions ==
  ASSUME IsFiniteSet(Ids)
  PROVE  /\ \A id \in Ids : Position(id) \in Int
         /\ \A x, y \in Ids : Position(x) = Position(y) => x = y
<1> DEFINE N == Cardinality(Ids)
<1>0. N \in Nat /\ IsFiniteSet(1 .. N) /\ Cardinality(1 .. N) = N
  <2>1. N \in Nat
    BY FS_CardinalityType
  <2> HIDE DEF N
  <2> QED BY <2>1, FS_Interval
<1>1. \E f \in [1 .. N -> Ids] : IsInjective(f)
  <2>1. ExistsBijection(1 .. N, Ids)
    BY FS_CardinalityType
  <2>2. PICK f : f \in Bijection(1 .. N, Ids)
    BY <2>1 DEF ExistsBijection
  <2> HIDE DEF N
  <2> QED BY <2>2 DEF Bijection, Injection
<1>2. IdOrder \in [1 .. N -> Ids] /\ IsInjective(IdOrder)
  BY <1>1 DEF IdOrder, SetToSeq
<1>3. IdOrder \in Surjection(1 .. N, Ids)
  <2>1. IdOrder \in Injection(1 .. N, Ids)
    BY <1>2 DEF Injection
  <2>2. Cardinality(1 .. N) = Cardinality(Ids)
    BY <1>0
  <2> HIDE DEF N
  <2> QED BY <2>1, <2>2, FS_Injection
<1>4. \A id \in Ids : Position(id) \in DOMAIN IdOrder /\ IdOrder[Position(id)] = id
  <2> TAKE id \in Ids
  <2>1. \E i \in DOMAIN IdOrder : IdOrder[i] = id
    BY <1>2, <1>3 DEF Surjection
  <2> QED BY <2>1 DEF Position
<1>5. \A id \in Ids : Position(id) \in Int
  BY <1>2, <1>4
<1> QED BY <1>4, <1>5

\* What is chosen of a list of results whose keys order them.
Leads(list, policy, chosen) ==
    \A r \in list : 100 * Relevance(r, policy) >= Relevance(chosen[1], policy) * policy.ratio
        => \E i \in DOMAIN chosen : Type(chosen[i].id) = Type(r.id)

Chosen(list, n, policy, chosen) ==
    /\ chosen \in Seq(list) /\ Len(chosen) = Min({n, Cardinality(list)})
    /\ \A i, j \in DOMAIN chosen : chosen[i] = chosen[j] => i = j
    /\ n > 0 /\ (\E r \in list : Direct(r, 65)) => Direct(chosen[1], 65)
    /\ n >= 2 => Leads(list, policy, chosen)

\* Keys of w numbers, those that answer directly first.
Keyed(list, key, w) ==
    /\ \A r \in list : key[r] \in [1 .. w -> Int] /\ key[r][1] = IF Direct(r, 65) THEN 0 ELSE 1
    /\ \A r, q \in list : key[r] = key[q] => r = q

\* The choice made of a sorted list: the best first, both types where both are good.
LEMMA ChosenOf ==
  ASSUME NEW list, IsFiniteSet(list), NEW n \in Nat, NEW policy, NEW key, NEW w \in Nat \ {0}, Keyed(list, key, w)
  PROVE  Chosen(list, n, policy, Select(Sorted(list, key), n, policy))
<1> DEFINE N == Cardinality(list)
           all == Sorted(list, key)
           m == Min({n, N})
<1>1. InKeyOrder(list, key, all)
  <2>1. Orders(list, key)
    BY BeforeOrders DEF Keyed
  <2> QED BY <2>1, SortedInKeyOrder
<1>2. /\ all \in [1 .. N -> list] /\ \A x \in list : \E i \in 1 .. N : all[i] = x
      /\ \A i, j \in 1 .. N : i < j => Before(key[all[i]], key[all[j]])
      /\ \A i, j \in 1 .. N : all[i] = all[j] => i = j
  <2> HIDE DEF all
  <2> QED BY <1>1 DEF InKeyOrder
<1>3. N \in Nat
  BY FS_CardinalityType
<1> HIDE DEF all, N
<1>4. all \in Seq(list) /\ Len(all) = N /\ DOMAIN all = 1 .. N
  BY <1>2, <1>3
<1>5. PICK p : Picks(all, n, policy, p) /\ Select(all, n, policy) = [i \in 1 .. Min({n, Len(all)}) |-> all[p[i]]]
  <2>1. all \in Seq(list)
    BY <1>4
  <2>2. Picked(all, n, policy, Select(all, n, policy))
    BY <2>1, SelectPicks
  <2> QED BY <2>2 DEF Picked
<1> DEFINE chosen == Select(all, n, policy)
<1>6. m \in Nat /\ m <= n /\ m <= N /\ (n > 0 /\ N > 0 => m > 0)
  BY <1>3, MinOfTwo
<1>7. chosen = [i \in 1 .. m |-> all[p[i]]] /\ p \in [1 .. m -> 1 .. N] /\ (\A i, j \in 1 .. m : p[i] = p[j] => i = j)
      /\ (1 \in 1 .. m => p[1] = 1)
  <2>1. p \in [1 .. m -> 1 .. N]
    BY <1>4, <1>5 DEF Picks
  <2>2. DOMAIN p = 1 .. m
    BY <2>1
  <2> HIDE DEF m
  <2> QED BY <1>4, <1>5, <2>1, <2>2 DEF Picks, m
<1> HIDE DEF chosen, m
<1>8. chosen \in Seq(list) /\ Len(chosen) = m /\ DOMAIN chosen = 1 .. m
  <2>1. \A i \in 1 .. m : all[p[i]] \in list
    BY <1>2, <1>7
  <2> QED BY <1>6, <1>7, <2>1
<1>9. \A i, j \in DOMAIN chosen : chosen[i] = chosen[j] => i = j
  <2> SUFFICES ASSUME NEW i \in 1 .. m, NEW j \in 1 .. m, chosen[i] = chosen[j] PROVE i = j
    BY <1>8
  <2>1. all[p[i]] = all[p[j]] /\ p[i] \in 1 .. N /\ p[j] \in 1 .. N
    BY <1>7
  <2>2. p[i] = p[j]
    BY <1>2, <2>1
  <2> QED BY <1>7, <2>2
<1>10. ASSUME n > 0, NEW r \in list, Direct(r, 65) PROVE Direct(chosen[1], 65)
  <2>1. PICK i \in 1 .. N : all[i] = r
    BY <1>2
  <2>2. 1 \in 1 .. N /\ 1 \in 1 .. m /\ chosen[1] = all[1] /\ all[1] \in list
    BY <1>2, <1>3, <1>6, <1>7, <1>10, <2>1
  <2>3. CASE i = 1
    BY <1>10, <2>1, <2>2, <2>3
  <2>4. CASE i # 1
    <3>1. Before(key[all[1]], key[r])
      BY <1>2, <2>1, <2>2, <2>4
    <3> DEFINE u == key[all[1]]
               v == key[r]
    <3>2. u \in [1 .. w -> Int] /\ v \in [1 .. w -> Int] /\ v[1] = 0 /\ (~Direct(all[1], 65) => u[1] = 1)
      BY <1>10, <2>2 DEF Keyed
    <3> HIDE DEF u, v
    <3>3. PICK k \in 1 .. w : u[k] < v[k] /\ \A l \in 1 .. k - 1 : u[l] = v[l]
      BY <3>1, <3>2 DEF Before, u, v
    <3>4. u[1] <= v[1]
      <4>1. CASE k = 1
        BY <3>2, <3>3, <4>1
      <4>2. CASE k # 1
        <5>1. 1 \in 1 .. k - 1 /\ 1 \in 1 .. w
          BY <4>2
        <5> QED BY <3>2, <3>3, <5>1
      <4> QED BY <4>1, <4>2
    <3>5. Direct(all[1], 65)
      BY <3>2, <3>4
    <3> QED BY <2>2, <3>5
  <2> QED BY <2>3, <2>4
<1>11. ASSUME n >= 2, NEW r \in list, 100 * Relevance(r, policy) >= Relevance(chosen[1], policy) * policy.ratio
       PROVE  \E i \in DOMAIN chosen : Type(chosen[i].id) = Type(r.id)
  <2>1. PICK k \in 1 .. N : all[k] = r
    BY <1>2
  <2>2. 1 \in 1 .. m /\ chosen[1] = all[1]
    BY <1>3, <1>6, <1>7, <1>11, <2>1
  <2>3. k \in DOMAIN all /\ 100 * Relevance(all[k], policy) >= Relevance(all[1], policy) * policy.ratio
    BY <1>4, <1>11, <2>1, <2>2
  <2>4. PICK i \in DOMAIN p : Type(all[p[i]].id) = Type(all[k].id)
    BY <1>5, <1>11, <2>3 DEF Picks
  <2>5. i \in 1 .. m /\ chosen[i] = all[p[i]]
    BY <1>7
  <2> QED BY <1>8, <2>1, <2>4, <2>5
<1> QED BY <1>8, <1>9, <1>10, <1>11 DEF Chosen, Leads, m, N, all, chosen

\* x is the result r, with a score of its own.
Shows(x, r) ==
    /\ x.id = r.id /\ x.rev = r.rev /\ x.vrev = r.vrev /\ x.source = r.source /\ x.vector = r.vector
    /\ x.keyword = r.keyword /\ x.fusion = r.fusion /\ x.similarity = r.similarity

\* Results of different entries and chunks.
Distinct(found) == \A r, q \in found : r.id = q.id => r = q

\* The keys of the two ways to rank tell different results apart.
LEMMA KeysApart ==
  ASSUME IsFiniteSet(Ids), NEW list \in SUBSET RetrievalResults, Distinct(list)
  PROVE  /\ \A r \in list : /\ BaseKey(r) \in [1 .. 4 -> Int] /\ BaseKey(r)[1] = IF Direct(r, 65) THEN 0 ELSE 1
                            /\ RerankKey(r) \in [1 .. 5 -> Int] /\ RerankKey(r)[1] = IF Direct(r, 65) THEN 0 ELSE 1
         /\ \A r, q \in list : BaseKey(r) = BaseKey(q) \/ RerankKey(r) = RerankKey(q) => r = q
<1>1. ASSUME NEW r \in list
      PROVE  /\ BaseKey(r) \in [1 .. 4 -> Int] /\ BaseKey(r)[1] = (IF Direct(r, 65) THEN 0 ELSE 1) /\ BaseKey(r)[4] = Position(r.id)
             /\ RerankKey(r) \in [1 .. 5 -> Int] /\ RerankKey(r)[1] = (IF Direct(r, 65) THEN 0 ELSE 1)
             /\ RerankKey(r)[5] = Position(r.id) /\ r.id \in Ids
  <2>1. r \in RetrievalResults
    OBVIOUS
  <2>2. r.id \in Ids /\ r.fusion \in Int /\ r.rerank \in Int /\ r.source \in {"vector", "keyword", "hybrid"}
    BY <2>1 DEF RetrievalResults
  <2>3. SourcePriority(r) \in Int
    BY <2>2 DEF SourcePriority
  <2>4. Position(r.id) \in Int
    BY <2>2, Positions
  <2> DEFINE a == IF Direct(r, 65) THEN 0 ELSE 1
             f == r.fusion
             e == r.rerank
             q == SourcePriority(r)
             o == Position(r.id)
  <2>5. BaseKey(r) = <<a, -f, -q, o>> /\ RerankKey(r) = <<a, -e, -f, -q, o>>
    BY DEF BaseKey, RerankKey
  <2>6. a \in Int /\ f \in Int /\ e \in Int /\ q \in Int /\ o \in Int
    BY <2>2, <2>3, <2>4
  <2>7. a = (IF Direct(r, 65) THEN 0 ELSE 1) /\ o = Position(r.id)
    OBVIOUS
  <2> HIDE DEF a, f, e, q, o
  <2>8. -f \in Int /\ -e \in Int /\ -q \in Int
    BY <2>6
  <2>9. <<a, -f, -q, o>> \in [1 .. 4 -> Int] /\ <<a, -e, -f, -q, o>> \in [1 .. 5 -> Int]
    BY <2>6, <2>8
  <2> QED BY <2>2, <2>5, <2>7, <2>9
<1>2. ASSUME NEW r \in list, NEW q \in list, BaseKey(r) = BaseKey(q) \/ RerankKey(r) = RerankKey(q) PROVE r = q
  <2>1. Position(r.id) = Position(q.id) /\ r.id \in Ids /\ q.id \in Ids
    BY <1>1, <1>2
  <2>2. r.id = q.id
    BY <2>1, Positions
  <2> QED BY <2>2 DEF Distinct
<1> QED BY <1>1, <1>2

\* Every result is scored by a number.
LEMMA RerankValues ==
  ASSUME NEW found \in SUBSET RetrievalResults, IsFiniteSet(found), found # {}, NEW overlap \in [Ids -> Int]
  PROVE  \E v \in [found -> Int] : Rerank(found, overlap) = {[r EXCEPT !.rerank = v[r]] : r \in found}
<1> DEFINE F == {r.fusion : r \in found}
           low == Min(F)
           range == Max(F) - low
           Normal(r) == IF range = 0 THEN 1000 ELSE (1000 * (r.fusion - low)) \div range
           v == [r \in found |-> 25 * Normal(r) + 75 * overlap[r.id]]
<1>1. \A r \in found : r.fusion \in Nat /\ r.id \in Ids
  BY DEF RetrievalResults
<1>2. F \in SUBSET Nat /\ F # {} /\ IsFiniteSet(F)
  <2>1. F \in SUBSET Nat /\ F # {}
    BY <1>1
  <2> DEFINE f == [r \in found |-> r.fusion]
  <2>2. f \in Surjection(found, F)
    BY DEF Surjection
  <2>3. IsFiniteSet(F)
    <3> HIDE DEF F, f
    <3> QED BY <2>2, FS_Surjection
  <2> QED BY <2>1, <2>3
<1>3. low \in Nat /\ range \in Nat
  <2> HIDE DEF F
  <2>1. low \in F /\ Max(F) \in F /\ low <= Max(F)
    BY <1>2, LeastOf, GreatestOfFinite
  <2>2. low \in Nat /\ Max(F) \in Nat
    BY <1>2, <2>1
  <2> HIDE DEF low
  <2> QED BY <2>1, <2>2
<1>4. Rerank(found, overlap) = {[r EXCEPT !.rerank = v[r]] : r \in found}
  BY DEF Rerank
<1>5. \A r \in found : Normal(r) \in Int
  <2> TAKE r \in found
  <2>1. r.fusion \in Int
    BY <1>1
  <2> HIDE DEF low, range
  <2>2. 1000 * (r.fusion - low) \in Int
    BY <1>3, <2>1
  <2>3. range # 0 => range > 0 /\ range \in Int
    BY <1>3
  <2> DEFINE x == 1000 * (r.fusion - low)
  <2>4. range # 0 => x \div range \in Int
    <3> HIDE DEF x
    <3> QED BY <2>2, <2>3 DEF x
  <2> QED BY <2>4
<1>6. v \in [found -> Int]
  <2>1. \A r \in found : overlap[r.id] \in Int
    BY <1>1
  <2> HIDE DEF Normal
  <2> QED BY <1>5, <2>1
<1> HIDE DEF v
<1> QED BY <1>4, <1>6

\* What Rank shows of what was found.
RankedWell(found, n, policy, listed) ==
    /\ listed \in Seq(RetrievalResults) /\ Len(listed) = Min({n, Cardinality(found)})
    /\ \A i \in DOMAIN listed : \E r \in found : Shows(listed[i], r)
    /\ \A i, j \in DOMAIN listed : listed[i].id = listed[j].id => i = j
    /\ n > 0 /\ (\E r \in found : Direct(r, 65)) => Direct(listed[1], 65)
    /\ n >= 2 /\ ~policy.rerank =>
          \A r \in found : 100 * r.fusion >= listed[1].fusion * policy.ratio
              => \E i \in DOMAIN listed : Type(listed[i].id) = Type(r.id)

\* The list that is sorted: each result once, maybe with a score.
Lists(found, list) ==
    /\ list \in SUBSET RetrievalResults /\ IsFiniteSet(list) /\ Cardinality(list) = Cardinality(found)
    /\ Distinct(list)
    /\ \A x \in list : \E r \in found : Shows(x, r)
    /\ \A r \in found : \E x \in list : Shows(x, r)

LEMMA DirectShown ==
  ASSUME NEW x, NEW r, Shows(x, r)
  PROVE  \A t : Direct(x, t) = Direct(r, t)
BY DEF Shows, Direct

\* What is chosen of results with scores shows the results themselves.
LEMMA ShownWell ==
  ASSUME IsFiniteSet(Ids), NEW found \in SUBSET RetrievalResults, IsFiniteSet(found), Distinct(found), NEW n \in Nat,
         NEW policy, NEW list, Lists(found, list), NEW listed, Chosen(list, n, policy, listed)
  PROVE  RankedWell(found, n, policy, listed)
<1>1. listed \in Seq(list) /\ list \in SUBSET RetrievalResults
  BY DEF Chosen, Lists
<1>2. listed \in Seq(RetrievalResults)
  BY <1>1, SeqMonotonic
<1>3. \A i \in DOMAIN listed : listed[i] \in list
  BY <1>1
<1>4. Len(listed) = Min({n, Cardinality(found)})
  BY DEF Chosen, Lists
<1>5. \A i \in DOMAIN listed : \E r \in found : Shows(listed[i], r)
  BY <1>3 DEF Lists
<1>6. \A i, j \in DOMAIN listed : listed[i].id = listed[j].id => i = j
  BY <1>3 DEF Chosen, Lists, Distinct
<1>7. ASSUME n > 0, NEW r \in found, Direct(r, 65) PROVE Direct(listed[1], 65)
  <2>1. PICK x \in list : Shows(x, r)
    BY DEF Lists
  <2>2. Direct(x, 65)
    BY <1>7, <2>1, DirectShown
  <2> QED BY <1>7, <2>2 DEF Chosen
<1>8. ASSUME n >= 2, ~policy.rerank, NEW r \in found, 100 * r.fusion >= listed[1].fusion * policy.ratio
      PROVE  \E i \in DOMAIN listed : Type(listed[i].id) = Type(r.id)
  <2>1. PICK x \in list : Shows(x, r)
    BY DEF Lists
  <2>2. x.fusion = r.fusion /\ x.id = r.id
    BY <2>1 DEF Shows
  <2>3. Relevance(x, policy) = x.fusion /\ Relevance(listed[1], policy) = listed[1].fusion
    BY <1>8 DEF Relevance
  <2>4. 100 * Relevance(x, policy) >= Relevance(listed[1], policy) * policy.ratio
    BY <1>8, <2>2, <2>3
  <2>5. Leads(list, policy, listed)
    BY <1>8 DEF Chosen
  <2> QED BY <2>2, <2>4, <2>5 DEF Leads
<1> QED BY <1>2, <1>4, <1>5, <1>6, <1>7, <1>8 DEF RankedWell

LEMMA RerankLists ==
  ASSUME NEW found \in SUBSET RetrievalResults, IsFiniteSet(found), Distinct(found), found # {}, NEW overlap \in [Ids -> Int]
  PROVE  Lists(found, Rerank(found, overlap))
<1>1. PICK v \in [found -> Int] : Rerank(found, overlap) = {[r EXCEPT !.rerank = v[r]] : r \in found}
  BY RerankValues
<1> DEFINE again == [r \in found |-> [r EXCEPT !.rerank = v[r]]]
           list == Rerank(found, overlap)
<1>2. ASSUME NEW r \in found PROVE again[r] \in RetrievalResults /\ Shows(again[r], r) /\ again[r] \in list
  <2>1. r \in RetrievalResults /\ v[r] \in Int
    OBVIOUS
  <2>2. [r EXCEPT !.rerank = v[r]] \in RetrievalResults /\ Shows([r EXCEPT !.rerank = v[r]], r)
    BY <2>1 DEF RetrievalResults, Shows
  <2> QED BY <1>1, <2>2
<1>3. \A x \in list : \E r \in found : x = again[r]
  BY <1>1
<1>4. \A r, q \in found : again[r].id = again[q].id => r = q
  <2> HIDE DEF again
  <2> QED BY <1>2 DEF Shows, Distinct
<1>5. again \in [found -> list] /\ DOMAIN again = found
  BY <1>2
<1> HIDE DEF again, list
<1>6. again \in Bijection(found, list)
  <2>1. again \in Injection(found, list)
    BY <1>4, <1>5 DEF Injection, IsInjective
  <2>2. again \in Surjection(found, list)
    BY <1>3, <1>5 DEF Surjection
  <2> QED BY <2>1, <2>2 DEF Bijection
<1>7. IsFiniteSet(list) /\ Cardinality(list) = Cardinality(found)
  <2>1. ExistsBijection(found, list)
    BY <1>6 DEF ExistsBijection
  <2> QED BY <2>1, FS_Bijection
<1>8. Distinct(list)
  BY <1>3, <1>4 DEF Distinct
<1>9. list \in SUBSET RetrievalResults /\ \A x \in list : \E r \in found : Shows(x, r)
  BY <1>2, <1>3
<1>10. \A r \in found : \E x \in list : Shows(x, r)
  BY <1>2
<1> QED BY <1>7, <1>8, <1>9, <1>10 DEF Lists, list

\* Rank shows what was found, once each, the best first.
LEMMA RankSound ==
  ASSUME IsFiniteSet(Ids), NEW found \in SUBSET RetrievalResults, IsFiniteSet(found), Distinct(found), NEW n \in Nat,
         NEW policy, NEW overlap \in [Ids -> Int]
  PROVE  RankedWell(found, n, policy, Rank(found, n, policy, overlap))
<1>1. CASE found = {}
  <2>1. Rank(found, n, policy, overlap) = <<>>
    BY <1>1 DEF Rank
  <2>2. Cardinality(found) = 0 /\ Min({n, 0}) = 0
    BY <1>1, FS_EmptySet, MinOfTwo
  <2>3. RankedWell(found, n, policy, <<>>)
    BY <1>1, <2>2 DEF RankedWell
  <2> QED BY <2>1, <2>3
<1>2. CASE found # {} /\ policy.rerank
  <2> DEFINE list == Rerank(found, overlap)
             key == [r \in list |-> RerankKey(r)]
  <2>1. Rank(found, n, policy, overlap) = Select(Sorted(list, key), n, policy)
    BY <1>2 DEF Rank
  <2>2. Lists(found, list)
    BY <1>2, RerankLists
  <2>3. \A r \in list : key[r] = RerankKey(r)
    OBVIOUS
  <2> HIDE DEF list, key
  <2>4. list \in SUBSET RetrievalResults /\ IsFiniteSet(list) /\ Distinct(list)
    BY <2>2 DEF Lists
  <2>5. \A r \in list : key[r] \in [1 .. 5 -> Int] /\ key[r][1] = IF Direct(r, 65) THEN 0 ELSE 1
    BY <2>3, <2>4, KeysApart
  <2>6. \A r, q \in list : key[r] = key[q] => r = q
    BY <2>3, <2>4, KeysApart
  <2>7. Keyed(list, key, 5)
    BY <2>5, <2>6 DEF Keyed
  <2>8. 5 \in Nat \ {0}
    OBVIOUS
  <2>9. Chosen(list, n, policy, Select(Sorted(list, key), n, policy))
    BY <2>4, <2>7, <2>8, ChosenOf
  <2> QED BY <2>1, <2>2, <2>9, ShownWell
<1>3. CASE found # {} /\ ~policy.rerank
  <2> DEFINE key == [r \in found |-> BaseKey(r)]
  <2>1. Rank(found, n, policy, overlap) = Select(Sorted(found, key), n, policy)
    BY <1>3 DEF Rank
  <2>2. Lists(found, found)
    BY DEF Lists, Shows
  <2>3. \A r \in found : key[r] = BaseKey(r)
    OBVIOUS
  <2> HIDE DEF key
  <2>5. \A r \in found : key[r] \in [1 .. 4 -> Int] /\ key[r][1] = IF Direct(r, 65) THEN 0 ELSE 1
    BY <2>3, KeysApart
  <2>6. \A r, q \in found : key[r] = key[q] => r = q
    BY <2>3, KeysApart
  <2>7. Keyed(found, key, 4)
    BY <2>5, <2>6 DEF Keyed
  <2>8. 4 \in Nat \ {0}
    OBVIOUS
  <2>9. Chosen(found, n, policy, Select(Sorted(found, key), n, policy))
    BY <2>7, <2>8, ChosenOf
  <2> QED BY <2>1, <2>2, <2>9, ShownWell
<1> QED BY <1>1, <1>2, <1>3

-----------------------------------------------------------------------------
(* Judging (Retrieval).                                                     *)

\* A clause that asks politely for an action is seen, whatever else it says.
LEMMA ActionsAreSeen ==
  ASSUME NEW clauses, NEW c \in clauses, {"polite", "acts"} \subseteq c.tail, ~Exempt(c.tail), "howto" \notin c.marks
  PROVE  RequestsUnsupportedBusinessAction(clauses)
<1>1. CASE ~Exempt(c.marks \cup c.tail)
  <2>1. c.marks \cup c.tail \in Parts(c)
    BY <1>1 DEF Parts
  <2>2. RequestsAction(c.lang, c.marks \cup c.tail)
    BY <1>1 DEF RequestsAction
  <2> QED BY <2>1, <2>2 DEF RequestsUnsupportedBusinessAction
<1>2. CASE Exempt(c.marks \cup c.tail)
  <2>1. c.tail \in Parts(c)
    BY <1>2 DEF Parts
  <2>2. RequestsAction(c.lang, c.tail)
    BY DEF RequestsAction
  <2> QED BY <2>1, <2>2 DEF RequestsUnsupportedBusinessAction
<1> QED BY <1>1, <1>2

\* Each of cites is one of the results.
Quotes(cites, results) ==
    cites \in Seq(RetrievalResults) /\ \A k \in DOMAIN cites : \E i \in DOMAIN results : cites[k] = results[i]

\* What is cited of the first three is one of the results.
LEMMA QuotesFirst ==
  ASSUME NEW results \in Seq(RetrievalResults)
  PROVE  Quotes(FirstOf(3, results), results) /\ (results # <<>> => FirstOf(3, results) # <<>>) /\ Quotes(<<>>, results)
<1>1. /\ FirstOf(3, results) \in Seq(RetrievalResults)
      /\ FirstOf(3, results) = [i \in 1 .. Min({3, Len(results)}) |-> results[i]]
  BY FirstOfSeq
<1> DEFINE m == Min({3, Len(results)})
<1>2. m \in Nat /\ m <= Len(results) /\ (Len(results) > 0 => m > 0)
  BY MinOfTwo
<1> HIDE DEF m
<1>3. FirstOf(3, results) = [i \in 1 .. m |-> results[i]]
  BY <1>1 DEF m
<1>4. Quotes(FirstOf(3, results), results)
  <2>1. \A i \in 1 .. m : i \in DOMAIN results
    BY <1>2
  <2> QED BY <1>1, <1>3, <2>1 DEF Quotes
<1>5. results # <<>> => FirstOf(3, results) # <<>>
  <2> SUFFICES ASSUME results # <<>> PROVE FirstOf(3, results) # <<>>
    OBVIOUS
  <2>1. Len(results) > 0
    BY EmptySeq
  <2>2. 1 \in 1 .. m
    BY <1>2, <2>1
  <2>3. DOMAIN FirstOf(3, results) = 1 .. m
    BY <1>3
  <2>4. DOMAIN <<>> = {}
    OBVIOUS
  <2> QED BY <2>2, <2>3, <2>4
<1>6. Quotes(<<>>, results)
  BY DEF Quotes
<1> QED BY <1>4, <1>5, <1>6

\* What a decision owes to the question and to what was found.
Grounded(a, results, d) ==
    /\ Quotes(d.cites, results)
    /\ (\E c \in a.clauses : {"polite", "acts"} \subseteq c.tail /\ ~Exempt(c.tail) /\ "howto" \notin c.marks)
          => d.mode = "refusal"
    /\ d.mode # "refusal" => d.cites # <<>>
    /\ d.mode = "direct_faq" =>
          \A i \in DOMAIN results :
              Direct(results[i], a.policy.direct) /\ a.question[results[i].id] = a.question[d.cites[1].id]
                  => a.answer[results[i].id] = a.answer[d.cites[1].id]

\* Grounding refuses what must be refused and cites what was found.
LEMMA GroundingSound ==
  ASSUME NEW a, a.explicit \in BOOLEAN, NEW results \in Seq(RetrievalResults)
  PROVE  Grounded(a, results, Grounding(a, results))
<1> DEFINE eligible == {i \in DOMAIN results : Direct(results[i], a.policy.direct)}
           conflicts == Conflicting(results, eligible, a)
           direct == DirectChoice(results, eligible, a)
           evidence == Max({results[1].keyword, results[1].vector, results[1].similarity})
           order == Sorted(conflicts, [i \in conflicts |-> <<i>>])
           Same(i, j) == a.question[results[i].id] = a.question[results[j].id]
           split == {i \in eligible : \E j \in eligible : Same(i, j) /\ a.answer[results[i].id] # a.answer[results[j].id]}
           differing == [k \in DOMAIN order |-> results[order[k]]]
           d == Grounding(a, results)
<1>0. DOMAIN results = 1 .. Len(results) /\ Len(results) \in Nat
  OBVIOUS
<1>1. conflicts = {i \in split : Same(i, Min(split))} /\ split \in SUBSET Nat /\ split \subseteq eligible
  BY <1>0 DEF Conflicting
<1>2. conflicts \subseteq DOMAIN results /\ (conflicts = {} => split = {})
  <2>1. split # {} => Min(split) \in split
    <3> HIDE DEF split
    <3> QED BY <1>1, LeastOf
  <2>2. conflicts \subseteq split /\ split \subseteq DOMAIN results
    <3> HIDE DEF conflicts
    <3> QED BY <1>1
  <2>3. split # {} => Min(split) \in conflicts
    <3> HIDE DEF conflicts, split
    <3> QED BY <1>1, <2>1
  <2> HIDE DEF conflicts, split
  <2> QED BY <2>2, <2>3
<1>3. Quotes(FirstOf(3, differing), results)
  <2> DEFINE key == [i \in conflicts |-> <<i>>]
             N == Cardinality(conflicts)
  <2>1. IsFiniteSet(conflicts) /\ conflicts \subseteq Int
    <3>1. IsFiniteSet(DOMAIN results)
      BY <1>0, FS_Interval
    <3> HIDE DEF conflicts
    <3> QED BY <1>0, <1>2, <3>1, FS_Subset
  <2> HIDE DEF conflicts
  <2>5. InKeyOrder(conflicts, key, order)
    BY <2>1, NumbersInOrder
  <2>6. order \in [1 .. N -> conflicts] /\ N \in Nat
    <3> HIDE DEF key, order
    <3> QED BY <2>1, <2>5, FS_CardinalityType DEF InKeyOrder
  <2> HIDE DEF order, N
  <2>7. differing \in Seq(RetrievalResults) /\ \A k \in DOMAIN differing : order[k] \in DOMAIN results /\ differing[k] = results[order[k]]
    BY <1>2, <2>6
  <2> HIDE DEF differing
  <2>8. Quotes(FirstOf(3, differing), differing)
    BY <2>7, QuotesFirst
  <2> QED BY <2>7, <2>8 DEF Quotes
<1>4. CASE a.explicit
  <2>1. d = Decision("refusal", "escalated", "user_requested_human", <<>>)
    BY <1>4 DEF Grounding
  <2> HIDE DEF d
  <2>2. d.mode = "refusal" /\ d.cites = <<>>
    BY <2>1 DEF Decision
  <2> QED BY <2>2, QuotesFirst DEF Grounded, d
<1>5. CASE ~a.explicit /\ RequestsUnsupportedBusinessAction(a.clauses)
  <2>1. d = Decision("refusal", "high_risk", "unsupported_business_action", FirstOf(3, results))
    BY <1>5 DEF Grounding
  <2> HIDE DEF d
  <2>2. d.mode = "refusal" /\ d.cites = FirstOf(3, results)
    BY <2>1 DEF Decision
  <2> QED BY <2>2, QuotesFirst DEF Grounded, d
<1>6. CASE ~a.explicit /\ ~RequestsUnsupportedBusinessAction(a.clauses)
  <2>0. d = CASE results = <<>> -> Decision("refusal", "insufficient", "no_evidence", <<>>)
               [] results # <<>> /\ conflicts # {} ->
                     Decision("refusal", "conflicting", "conflicting_direct_faq", FirstOf(3, differing))
               [] results # <<>> /\ conflicts = {} /\ direct # {} ->
                     Decision("direct_faq", "sufficient", "direct_faq_match", <<results[Min(direct)]>>)
               [] results # <<>> /\ conflicts = {} /\ direct = {} /\ evidence < a.policy.generation ->
                     Decision("refusal", "insufficient", "weak_evidence", FirstOf(3, results))
               [] OTHER -> Decision("grounded_generation", "sufficient", "retrieval_supported", FirstOf(3, results))
    BY <1>6 DEF Grounding
  <2>1. ~\E c \in a.clauses : {"polite", "acts"} \subseteq c.tail /\ ~Exempt(c.tail) /\ "howto" \notin c.marks
    BY <1>6, ActionsAreSeen
  <2> HIDE DEF d, differing, conflicts, direct, evidence
  <2>2. \/ d.mode = "refusal" /\ d.cites = <<>>
        \/ d.mode = "refusal" /\ d.cites = FirstOf(3, differing)
        \/ d.mode = "direct_faq" /\ d.cites = <<results[Min(direct)]>> /\ conflicts = {} /\ direct # {}
        \/ d.mode = "refusal" /\ d.cites = FirstOf(3, results)
        \/ d.mode = "grounded_generation" /\ d.cites = FirstOf(3, results) /\ results # <<>>
    BY <2>0 DEF Decision
  <2>3. ASSUME d.mode = "direct_faq", d.cites = <<results[Min(direct)]>>, conflicts = {}, direct # {} PROVE Grounded(a, results, d)
    <3> DEFINE g == Min(direct)
    <3>1. direct \subseteq eligible
      BY DEF direct, DirectChoice
    <3>2. g \in eligible /\ g \in DOMAIN results
      <4>1. direct \in SUBSET Nat
        BY <1>0, <3>1
      <4>2. g \in direct
        BY <2>3, <4>1, LeastOf
      <4> HIDE DEF g
      <4> QED BY <3>1, <4>2
    <3> HIDE DEF g
    <3>3. split = {}
      BY <1>2, <2>3
    <3>4. ASSUME NEW i \in DOMAIN results, Direct(results[i], a.policy.direct), a.question[results[i].id] = a.question[results[g].id]
          PROVE  a.answer[results[i].id] = a.answer[results[g].id]
      BY <3>2, <3>3, <3>4
    <3>5. d.cites = <<results[g]>> /\ results[g] \in RetrievalResults /\ d.cites[1] = results[g]
      BY <2>3, <3>2 DEF g
    <3>6. Quotes(d.cites, results) /\ d.cites # <<>>
      BY <3>2, <3>5 DEF Quotes
    <3> HIDE DEF split, eligible
    <3> QED BY <2>1, <3>4, <3>5, <3>6 DEF Grounded
  <2>4. \/ d.mode = "refusal" /\ d.cites = <<>>
        \/ d.mode = "refusal" /\ d.cites = FirstOf(3, differing)
        \/ d.mode = "refusal" /\ d.cites = FirstOf(3, results)
        \/ d.mode = "grounded_generation" /\ d.cites = FirstOf(3, results) /\ results # <<>>
        => Grounded(a, results, d)
    BY <1>3, <2>1, QuotesFirst DEF Grounded
  <2>5. Grounded(a, results, d)
    BY <2>2, <2>3, <2>4
  <2> QED BY <2>5 DEF d
<1> QED BY <1>4, <1>5, <1>6

-----------------------------------------------------------------------------
(* A search (Retrieval).                                                    *)

\* The best identifiers by their scores, as many as asked for.
LEMMA BestIn ==
  ASSUME IsFiniteSet(Ids), NEW S \in SUBSET Ids, NEW score, \A id \in S : score[id] \in Int, NEW n \in Nat
  PROVE  Best(S, score, n) \in Seq(S)
<1> DEFINE key == [id \in S |-> <<-score[id], Position(id)>>]
           N == Cardinality(S)
<1>1. IsFiniteSet(S) /\ N \in Nat
  BY FS_Subset, FS_CardinalityType
<1>2. \A id \in S : key[id] \in [1 .. 2 -> Int] /\ key[id][2] = Position(id)
  <2> TAKE id \in S
  <2>1. Position(id) \in Int /\ -score[id] \in Int
    BY Positions
  <2> DEFINE a == -score[id]
             b == Position(id)
  <2>2. key[id] = <<a, b>>
    OBVIOUS
  <2> HIDE DEF a, b, key
  <2>3. <<a, b>> \in [1 .. 2 -> Int] /\ <<a, b>>[2] = b
    BY <2>1 DEF a, b
  <2> QED BY <2>2, <2>3 DEF b
<1> DEFINE s == Sorted(S, key)
<1>3. Best(S, score, n) = FirstOf(n, s)
  BY DEF Best
<1> HIDE DEF key
<1>4. \A x, y \in S : key[x] = key[y] => x = y
  BY <1>2, Positions
<1>5. Orders(S, key)
  BY <1>2, <1>4, BeforeOrders
<1>6. s \in [1 .. N -> S]
  BY <1>1, <1>5, SortedInKeyOrder DEF InKeyOrder
<1> HIDE DEF s, N
<1>7. s \in Seq(S)
  BY <1>1, <1>6
<1> QED BY <1>3, <1>7, FirstOfSeq

LEMMA RrfIsNat ==
  ASSUME IsFiniteSet(Ids), NEW rank \in Nat, NEW weight \in Nat
  PROVE  Rrf(rank, weight) \in Nat
<1> DEFINE x == weight * Divisor
           y == 60 + rank
<1>1. x \in Nat
  BY DivisorIsNat
<1>2. y \in Nat /\ y > 0
  OBVIOUS
<1>3. Rrf(rank, weight) = x \div y
  BY DEF Rrf
<1> HIDE DEF x, y
<1> QED BY <1>1, <1>2, <1>3

\* A result for id whose text was active while it was sought, and so was that
\* of its vector.
Current(r, id, revs) ==
    /\ r \in RetrievalResults /\ r.id = id /\ r.rev \in revs /\ (r.source # "keyword" => r.vrev = r.rev)

\* The vector candidates are what the store may return.
HitsIn(found) == \A i \in DOMAIN found : i \in Nat /\ found[i].id \in Ids /\ found[i].score \in Nat

\* The results of a vector candidate and of a keyword match.
VectorResult(id, rev, vrev, score, fusion) ==
    [NoResult EXCEPT !.id = id, !.rev = rev, !.vrev = vrev, !.source = "vector", !.vector = score,
                     !.fusion = fusion, !.similarity = score]
KeywordResult(id, rev, score, fusion) ==
    [NoResult EXCEPT !.id = id, !.rev = rev, !.source = "keyword", !.keyword = score,
                     !.fusion = fusion, !.similarity = score]

LEMMA ByVectorMade ==
  ASSUME NEW id \in Ids, NEW rev \in Nat, NEW vrev \in Nat, NEW score \in Nat, NEW fusion \in Nat
  PROVE  LET r == VectorResult(id, rev, vrev, score, fusion)
         IN  r \in RetrievalResults /\ r.id = id /\ r.rev = rev /\ r.vrev = vrev /\ r.source = "vector"
<1> DEFINE r == VectorResult(id, rev, vrev, score, fusion)
           Wide == [id : Ids \cup {"none"}, rev : Nat, vrev : Nat, source : {"vector", "keyword", "hybrid", "none"},
                    vector : Nat, keyword : Nat, fusion : Nat, similarity : Nat, rerank : Int]
<1>1. NoResult \in Wide
  BY DEF NoResult
<1>2. r \in Wide
  BY <1>1 DEF VectorResult
<1>3. r.id = id /\ r.rev = rev /\ r.vrev = vrev /\ r.source = "vector"
  BY <1>1 DEF VectorResult
<1>4. \A x \in Wide : x.id \in Ids /\ x.source # "none" => x \in RetrievalResults
  BY DEF RetrievalResults
<1> HIDE DEF r, Wide
<1>5. r \in RetrievalResults
  BY <1>2, <1>3, <1>4
<1> QED BY <1>3, <1>5 DEF r

LEMMA ByKeywordMade ==
  ASSUME NEW id \in Ids, NEW rev \in Nat, NEW score \in Nat, NEW fusion \in Nat
  PROVE  LET r == KeywordResult(id, rev, score, fusion)
         IN  r \in RetrievalResults /\ r.id = id /\ r.rev = rev /\ r.source = "keyword"
<1> DEFINE r == KeywordResult(id, rev, score, fusion)
           Wide == [id : Ids \cup {"none"}, rev : Nat, vrev : Nat, source : {"vector", "keyword", "hybrid", "none"},
                    vector : Nat, keyword : Nat, fusion : Nat, similarity : Nat, rerank : Int]
<1>1. NoResult \in Wide
  BY DEF NoResult
<1>2. r \in Wide
  BY <1>1 DEF KeywordResult
<1>3. r.id = id /\ r.rev = rev /\ r.source = "keyword"
  BY <1>1 DEF KeywordResult
<1>4. \A x \in Wide : x.id \in Ids /\ x.source # "none" => x \in RetrievalResults
  BY DEF RetrievalResults
<1> HIDE DEF r, Wide
<1>5. r \in RetrievalResults
  BY <1>2, <1>3, <1>4
<1> QED BY <1>3, <1>5 DEF r

LEMMA ByVectorCurrent ==
  ASSUME NEW failing, HitsIn(hits), IsFiniteSet(Ids), NEW id \in Ids, db \in [Ids -> [rev : Nat, active : BOOLEAN]],
         db[id].active => db[id].rev \in valid[id]
  PROVE  \/ ByVector(failing)[id] = NoResult
         \/ Current(ByVector(failing)[id], id, valid[id]) /\ ByVector(failing)[id].source = "vector"
<1> DEFINE kept == {i \in DOMAIN hits : Type(hits[i].id) \notin failing /\ Matches(hits[i])}
           i == CHOOSE i \in kept : hits[i].id = id
           r == VectorResult(id, db[id].rev, hits[i].rev, hits[i].score, Rrf(i, 1))
<1>1. ByVector(failing)[id] = IF \E k \in kept : hits[k].id = id THEN r ELSE NoResult
  BY DEF ByVector, VectorResult
<1>2. CASE ~\E k \in kept : hits[k].id = id
  BY <1>1, <1>2
<1>3. CASE \E k \in kept : hits[k].id = id
  <2>1. i \in kept /\ hits[i].id = id
    <3> HIDE DEF kept
    <3> QED BY <1>3
  <2>2. i \in DOMAIN hits /\ Matches(hits[i])
    <3> HIDE DEF i
    <3> QED BY <2>1
  <2> HIDE DEF i, kept
  <2>3. /\ db[id].active /\ hits[i].rev = db[id].rev /\ db[id].rev \in Nat /\ hits[i].score \in Nat /\ i \in Nat
        /\ hits[i].rev \in Nat
    BY <2>1, <2>2 DEF Matches, HitsIn
  <2>4. Rrf(i, 1) \in Nat
    BY <2>3, RrfIsNat
  <2>5. r \in RetrievalResults /\ r.id = id /\ r.rev = db[id].rev /\ r.vrev = hits[i].rev /\ r.source = "vector"
    <3> DEFINE rev == db[id].rev
               vrev == hits[i].rev
               score == hits[i].score
               fusion == Rrf(i, 1)
    <3>1. rev \in Nat /\ vrev \in Nat /\ score \in Nat /\ fusion \in Nat
      BY <2>3, <2>4
    <3> HIDE DEF rev, vrev, score, fusion
    <3>2. /\ VectorResult(id, rev, vrev, score, fusion) \in RetrievalResults
          /\ VectorResult(id, rev, vrev, score, fusion).id = id /\ VectorResult(id, rev, vrev, score, fusion).rev = rev
          /\ VectorResult(id, rev, vrev, score, fusion).vrev = vrev
          /\ VectorResult(id, rev, vrev, score, fusion).source = "vector"
      BY SMTT(40), <3>1, ByVectorMade
    <3> QED BY <3>2 DEF rev, vrev, score, fusion
  <2> HIDE DEF r
  <2>6. Current(r, id, valid[id])
    BY <2>3, <2>5 DEF Current
  <2> QED BY <1>1, <1>3, <2>5, <2>6
<1> QED BY <1>2, <1>3

LEMMA WithKeywordCurrent ==
  ASSUME IsFiniteSet(Ids), "none" \notin Ids, NEW id \in Ids, NEW r, NEW revs, db \in [Ids -> [rev : Nat, active : BOOLEAN]],
         r = NoResult \/ (Current(r, id, revs) /\ r.source = "vector"), db[id].rev \in revs, NEW score \in Nat, NEW rank \in Nat
  PROVE  Current(WithKeyword(r, id, score, rank), id, revs)
<1>0. Rrf(rank, 4) \in Nat /\ db[id].rev \in Nat
  BY RrfIsNat
<1>1. CASE r = NoResult
  <2> DEFINE new == KeywordResult(id, db[id].rev, score, Rrf(rank, 4))
  <2>1. r.id # id
    BY <1>1 DEF NoResult
  <2>2. WithKeyword(r, id, score, rank) = new
    BY <2>1 DEF WithKeyword, KeywordResult
  <2>3. new \in RetrievalResults /\ new.id = id /\ new.rev = db[id].rev /\ new.source = "keyword"
    BY <1>0, ByKeywordMade
  <2> HIDE DEF new
  <2> QED BY <2>2, <2>3 DEF Current
<1>2. CASE Current(r, id, revs) /\ r.source = "vector"
  <2> DEFINE fusion == r.fusion + Rrf(rank, 4)
             similarity == Max({r.vector, score})
             new == [r EXCEPT !.source = "hybrid", !.keyword = score, !.fusion = fusion, !.similarity = similarity]
  <2>1. WithKeyword(r, id, score, rank) = new
    BY <1>2 DEF WithKeyword, Current
  <2>2. r \in RetrievalResults /\ r.id = id /\ r.vrev = r.rev /\ r.rev \in revs
    BY <1>2 DEF Current
  <2>3. fusion \in Nat
    BY <1>0, <2>2 DEF RetrievalResults
  <2>4. similarity \in Nat
    <3>1. {r.vector, score} \in SUBSET Nat /\ {r.vector, score} # {} /\ IsFiniteSet({r.vector, score})
      <4>1. r.vector \in Nat
        BY <2>2 DEF RetrievalResults
      <4>2. IsFiniteSet({r.vector} \cup {score})
        BY FS_Singleton, FS_Union
      <4>3. {r.vector} \cup {score} = {r.vector, score}
        OBVIOUS
      <4> QED BY <4>1, <4>2, <4>3
    <3> QED BY <3>1, GreatestOfFinite
  <2> HIDE DEF fusion, similarity
  <2>5. new \in RetrievalResults /\ new.id = id /\ new.rev = r.rev /\ new.vrev = r.vrev
    BY <2>2, <2>3, <2>4 DEF RetrievalResults
  <2> HIDE DEF new
  <2> QED BY <2>1, <2>2, <2>5 DEF Current
<1> QED BY <1>1, <1>2

\* Each part moves by its own steps, or not at all.
LEMMA AnswerSteps == [Next]_vars => [AnswerNext]_answerVars
  BY DEF Next, vars

\* What is merged is current; only vectors have been read before the words are.
MergedWell(results, at, revs) ==
    \A id \in Ids :
        \/ results[id] = NoResult
        \/ /\ Current(results[id], id, revs[id]) /\ at \notin {"recall", "hydrate"}
           /\ at = "keyword" => results[id].source = "vector"

FoundIn(results) == {results[id] : id \in Ids} \ {NoResult}

AnswerInv ==
    step # "none" =>
        /\ step \in {"recall", "hydrate", "keyword", "rank", "judge", "done"} /\ ask \in Asks
        /\ db \in [Ids -> [rev : Nat, active : BOOLEAN]]
        /\ DOMAIN valid = Ids /\ \A id \in Ids : db[id].active => db[id].rev \in valid[id]
        /\ step = "hydrate" => HitsIn(hits)
        /\ MergedWell(merged, step, valid)
        /\ step \in {"judge", "done"} => RankedWell(FoundIn(merged), TopK(ask), ask.policy, ranked)
        /\ step = "done" => decision = Grounding(ask, ranked)

LEMMA FoundWell ==
  ASSUME NEW results, NEW at, NEW revs, MergedWell(results, at, revs)
  PROVE  FoundIn(results) \in SUBSET RetrievalResults /\ IsFiniteSet(FoundIn(results)) /\ Distinct(FoundIn(results))
<1>0. IsFiniteSet(Ids)
  BY RetrievalAssumption
<1> DEFINE S == {results[id] : id \in Ids}
           f == [id \in Ids |-> results[id]]
<1>1. IsFiniteSet(S)
  <2>1. f \in Surjection(Ids, S)
    BY DEF Surjection
  <2> HIDE DEF S, f
  <2> QED BY <1>0, <2>1, FS_Surjection
<1>2. IsFiniteSet(FoundIn(results))
  <2>1. FoundIn(results) \in SUBSET S
    BY DEF FoundIn
  <2> HIDE DEF S
  <2> QED BY <1>1, <2>1, FS_Subset
<1>3. \A r \in FoundIn(results) : \E id \in Ids : r = results[id] /\ r \in RetrievalResults /\ r.id = id
  BY DEF FoundIn, MergedWell, Current
<1> QED BY <1>2, <1>3 DEF Distinct

LEMMA TopKBounds == TopK(ask) \in Nat /\ TopK(ask) >= 2
<1>1. TopK(ask) \in {HighK, LowK}
  BY DEF TopK
<1>2. {HighK, LowK} \subseteq Nat \ {0, 1}
  BY RetrievalAssumption
<1>3. TopK(ask) \in Nat \ {0, 1}
  BY <1>1, <1>2
<1> QED BY <1>3

LEMMA PoolIsNat == Pool(TopK(ask)) \in Nat
<1> DEFINE k == TopK(ask) * Multiplier
           q == {MinPool, k}
           m == Max(q)
<1>1. MinPool \in Nat /\ MaxPool \in Nat /\ Multiplier \in Nat
  BY RetrievalAssumption
<1>2. k \in Nat
  BY <1>1, TopKBounds
<1> HIDE DEF k
<1>3. q \in SUBSET Nat /\ q # {} /\ IsFiniteSet(q)
  <2>1. IsFiniteSet({MinPool} \cup {k})
    BY FS_Singleton, FS_Union
  <2>2. {MinPool} \cup {k} = q
    OBVIOUS
  <2>3. IsFiniteSet(q)
    BY <2>1, <2>2
  <2> QED BY <1>1, <1>2, <2>3
<1>4. m \in Nat
  <2> HIDE DEF q
  <2> QED BY <1>3, GreatestOfFinite
<1>5. Pool(TopK(ask)) = Min({MaxPool, m})
  BY DEF Pool, k
<1> HIDE DEF m
<1> QED BY <1>1, <1>4, <1>5, MinOfTwo

LEMMA Recalled ==
  ASSUME AnswerInv, VectorRecall
  PROVE  AnswerInv'
<1>0. IsFiniteSet(Ids) /\ VectorScores \subseteq Nat
  BY RetrievalAssumption
<1>1. step = "recall" /\ step' = "hydrate" /\ UNCHANGED <<ask, db, stored, merged, ranked, decision, valid>>
  BY DEF VectorRecall
<1>2. HitsIn(hits')
  <2>1. CASE hits' = <<>>
    BY <2>1 DEF HitsIn
  <2>2. ASSUME NEW score \in [Ids -> VectorScores],
               LET Take(t) == Best({id \in Ids : Type(id) = t /\ score[id] > 0}, score, Pool(TopK(ask)))
                   found == ToSet(Take("faq")) \cup ToSet(Take("document"))
                   order == Best(found, score, Cardinality(found))
               IN  hits' = [i \in DOMAIN order |-> [id |-> order[i], score |-> score[order[i]],
                                                   rev |-> stored[order[i]].rev, profile |-> stored[order[i]].profile]]
        PROVE  HitsIn(hits')
    <3> DEFINE Of(t) == {id \in Ids : Type(id) = t /\ score[id] > 0}
               Take(t) == Best(Of(t), score, Pool(TopK(ask)))
               found == ToSet(Take("faq")) \cup ToSet(Take("document"))
               order == Best(found, score, Cardinality(found))
    <3>1. \A id \in Ids : score[id] \in Nat /\ score[id] \in Int
      <4>1. VectorScores \subseteq Int
        BY <1>0
      <4>2. \A id \in Ids : score[id] \in VectorScores
        BY <2>2
      <4> QED BY <1>0, <4>1, <4>2
    <3>2. ASSUME NEW t PROVE Take(t) \in Seq(Of(t)) /\ Of(t) \in SUBSET Ids
      <4>1. Of(t) \in SUBSET Ids
        OBVIOUS
      <4>2. \A id \in Of(t) : score[id] \in Int
        BY <3>1
      <4> HIDE DEF Of
      <4> QED BY <1>0, <4>1, <4>2, BestIn, PoolIsNat
    <3>3. found \in SUBSET Ids /\ IsFiniteSet(found) /\ Cardinality(found) \in Nat
      <4>1. \A t : ToSet(Take(t)) \subseteq Ids
        <5> TAKE t
        <5> HIDE DEF Take, Of
        <5> QED BY <3>2 DEF ToSet
      <4>2. found \in SUBSET Ids
        <5> HIDE DEF Take
        <5> QED BY <4>1
      <4> HIDE DEF found
      <4>3. IsFiniteSet(found)
        BY <1>0, <4>2, FS_Subset
      <4> QED BY <4>2, <4>3, FS_CardinalityType
    <3>4. order \in Seq(found)
      <4>1. \A id \in found : score[id] \in Int
        <5> HIDE DEF found
        <5> QED BY <3>1, <3>3
      <4> HIDE DEF found
      <4> QED BY <1>0, <3>3, <4>1, BestIn
    <3>5. hits' = [i \in DOMAIN order |-> [id |-> order[i], score |-> score[order[i]],
                                           rev |-> stored[order[i]].rev, profile |-> stored[order[i]].profile]]
      BY <2>2
    <3>6. \A i \in DOMAIN order : i \in Nat /\ order[i] \in Ids
      <4> HIDE DEF found, order
      <4> QED BY <3>3, <3>4
    <3> HIDE DEF order, found
    <3> QED BY <3>1, <3>5, <3>6 DEF HitsIn
  <2> QED BY <2>1, <2>2 DEF VectorRecall
<1>3. MergedWell(merged', step', valid')
  BY <1>1 DEF AnswerInv, MergedWell
<1> QED BY <1>1, <1>2, <1>3 DEF AnswerInv

LEMMA Hydrated ==
  ASSUME AnswerInv, Hydrate
  PROVE  AnswerInv'
<1>0. IsFiniteSet(Ids)
  BY RetrievalAssumption
<1>1. /\ step = "hydrate" /\ step' = "keyword" /\ UNCHANGED <<ask, db, stored, hits, ranked, decision, valid>>
      /\ \E failing \in SUBSET {"faq", "document"} : merged' = ByVector(failing)
  BY DEF Hydrate
<1>2. MergedWell(merged', step', valid')
  <2>1. PICK failing : merged' = ByVector(failing)
    BY <1>1
  <2> SUFFICES ASSUME NEW id \in Ids
               PROVE  merged'[id] = NoResult \/ (Current(merged'[id], id, valid[id]) /\ merged'[id].source = "vector")
    BY <1>1 DEF MergedWell
  <2>2. HitsIn(hits) /\ db \in [Ids -> [rev : Nat, active : BOOLEAN]] /\ (db[id].active => db[id].rev \in valid[id])
    BY <1>1 DEF AnswerInv
  <2> QED BY <1>0, <2>1, <2>2, ByVectorCurrent
<1> QED BY <1>1, <1>2 DEF AnswerInv

LEMMA Fused ==
  ASSUME AnswerInv, KeywordRecall
  PROVE  AnswerInv'
<1>0. IsFiniteSet(Ids) /\ KeywordScores \subseteq Nat /\ "none" \notin Ids
  BY RetrievalAssumption
<1>1. step = "keyword" /\ step' = "rank" /\ UNCHANGED <<ask, db, stored, hits, ranked, decision, valid>>
  BY DEF KeywordRecall
<1>2. PICK score \in [Ids -> KeywordScores] :
          LET Take(t) == Best({id \in Ids : Type(id) = t /\ db[id].active /\ score[id] > 0},
                              score, Pool(TopK(ask)))
              RankOf(id) == CHOOSE i \in DOMAIN Take(Type(id)) : Take(Type(id))[i] = id
          IN  merged' = [id \in Ids |-> IF id \in ToSet(Take(Type(id)))
                                        THEN WithKeyword(merged[id], id, score[id], RankOf(id)) ELSE merged[id]]
  BY DEF KeywordRecall
<1> DEFINE Of(t) == {id \in Ids : Type(id) = t /\ db[id].active /\ score[id] > 0}
           Take(t) == Best(Of(t), score, Pool(TopK(ask)))
           RankOf(id) == CHOOSE i \in DOMAIN Take(Type(id)) : Take(Type(id))[i] = id
<1>3. merged' = [id \in Ids |-> IF id \in ToSet(Take(Type(id)))
                                THEN WithKeyword(merged[id], id, score[id], RankOf(id)) ELSE merged[id]]
  BY <1>2
<1>4. ASSUME NEW t PROVE Take(t) \in Seq(Of(t))
  <2>1. Of(t) \in SUBSET Ids
    OBVIOUS
  <2>2. \A id \in Of(t) : score[id] \in Int
    <3>1. KeywordScores \subseteq Int
      BY <1>0
    <3>2. \A id \in Of(t) : score[id] \in KeywordScores
      OBVIOUS
    <3> HIDE DEF Of
    <3> QED BY <3>1, <3>2
  <2> HIDE DEF Of
  <2> QED BY <1>0, <2>1, <2>2, BestIn, PoolIsNat
<1>5. MergedWell(merged', step', valid')
  <2> SUFFICES ASSUME NEW id \in Ids PROVE merged'[id] = NoResult \/ Current(merged'[id], id, valid[id])
    BY <1>1 DEF MergedWell
  <2>1. merged[id] = NoResult \/ (Current(merged[id], id, valid[id]) /\ merged[id].source = "vector")
    BY <1>1 DEF AnswerInv, MergedWell
  <2>2. CASE id \notin ToSet(Take(Type(id)))
    <3>1. merged'[id] = merged[id]
      <4> HIDE DEF Take, RankOf
      <4> QED BY <1>3, <2>2
    <3> QED BY <2>1, <3>1
  <2>3. CASE id \in ToSet(Take(Type(id)))
    <3> DEFINE T == Take(Type(id))
    <3>1. T \in Seq(Of(Type(id)))
      <4> HIDE DEF Take, Of
      <4> QED BY <1>4
    <3>2. \E i \in DOMAIN T : T[i] = id
      <4> HIDE DEF Take, Of
      <4> QED BY <2>3 DEF ToSet
    <3>3. RankOf(id) \in DOMAIN T
      <4> HIDE DEF Take, Of
      <4> QED BY <3>2
    <3>4. RankOf(id) \in Nat
      <4> HIDE DEF T, Of, RankOf
      <4> QED BY <3>1, <3>3
    <3>5. id \in Of(Type(id))
      <4> HIDE DEF T, Of
      <4> QED BY <3>1, <3>2
    <3>6. db[id].active /\ score[id] \in Nat
      BY <1>0, <3>5
    <3>7. merged'[id] = WithKeyword(merged[id], id, score[id], RankOf(id))
      <4> HIDE DEF Take, RankOf
      <4> QED BY <1>3, <2>3
    <3>8. db \in [Ids -> [rev : Nat, active : BOOLEAN]] /\ db[id].rev \in valid[id]
      BY <1>1, <3>6 DEF AnswerInv
    <3> DEFINE rank == RankOf(id)
               points == score[id]
               revs == valid[id]
               r == merged[id]
    <3>9. rank \in Nat /\ points \in Nat
      BY <3>4, <3>6
    <3>10. r = NoResult \/ (Current(r, id, revs) /\ r.source = "vector")
      BY <2>1
    <3>11. db[id].rev \in revs
      BY <3>8
    <3>12. merged'[id] = WithKeyword(r, id, points, rank)
      BY <3>7
    <3> HIDE DEF rank, points, revs, r
    <3>13. Current(WithKeyword(r, id, points, rank), id, revs)
      BY <1>0, <3>8, <3>9, <3>10, <3>11, WithKeywordCurrent
    <3> QED BY <3>12, <3>13 DEF revs
  <2> QED BY <2>2, <2>3
<1> QED BY <1>1, <1>5 DEF AnswerInv

LEMMA FoundRanked ==
  ASSUME AnswerInv, RankFound
  PROVE  AnswerInv'
<1>1. /\ step = "rank" /\ step' = "judge" /\ UNCHANGED <<ask, db, stored, hits, merged, decision, valid>>
      /\ ranked' = Rank(FoundIn(merged), TopK(ask), ask.policy, ask.overlap)
  BY DEF RankFound, FoundIn
<1>2. MergedWell(merged, step, valid) /\ ask \in Asks
  BY <1>1 DEF AnswerInv
<1>3. FoundIn(merged) \in SUBSET RetrievalResults /\ IsFiniteSet(FoundIn(merged)) /\ Distinct(FoundIn(merged))
  BY <1>2, FoundWell
<1>4. IsFiniteSet(Ids) /\ ask.overlap \in [Ids -> Int]
  BY <1>2, RetrievalAssumption
<1>5. RankedWell(FoundIn(merged), TopK(ask), ask.policy, ranked')
  <2> DEFINE n == TopK(ask)
             policy == ask.policy
             overlap == ask.overlap
             found == FoundIn(merged)
  <2>1. n \in Nat /\ overlap \in [Ids -> Int] /\ found \in SUBSET RetrievalResults /\ IsFiniteSet(found) /\ Distinct(found)
    BY <1>3, <1>4, TopKBounds
  <2>2. ranked' = Rank(found, n, policy, overlap)
    BY <1>1
  <2> HIDE DEF n, policy, overlap, found
  <2>3. RankedWell(found, n, policy, ranked')
    BY <1>4, <2>1, <2>2, RankSound
  <2> QED BY <2>3 DEF n, policy, found
<1>6. MergedWell(merged, "judge", valid)
  BY <1>1, <1>2 DEF MergedWell
<1> QED BY <1>1, <1>5, <1>6 DEF AnswerInv, TopK, IntentOf

LEMMA Judged ==
  ASSUME AnswerInv, Judge
  PROVE  AnswerInv'
<1>1. step = "judge" /\ step' = "done" /\ decision' = Grounding(ask, ranked) /\ UNCHANGED <<ask, db, stored, hits, merged, ranked, valid>>
  BY DEF Judge
<1>2. MergedWell(merged, "done", valid)
  BY <1>1 DEF AnswerInv, MergedWell
<1> QED BY <1>1, <1>2 DEF AnswerInv, TopK, IntentOf

LEMMA Edited ==
  ASSUME AnswerInv, NEW x \in Ids, EditEntry(x)
  PROVE  AnswerInv'
<1>1. CASE step = "none"
  BY <1>1 DEF AnswerInv, EditEntry
<1>2. CASE step # "none"
  <2>1. step \notin {"judge", "done"} /\ UNCHANGED <<step, ask, stored, hits, merged, ranked, decision>>
    BY DEF EditEntry
  <2>2. PICK active \in BOOLEAN :
            /\ db' = [db EXCEPT ![x] = [rev |-> @.rev + 1, active |-> active]]
            /\ valid' = IF active THEN [valid EXCEPT ![x] = @ \cup {db[x].rev + 1}] ELSE valid
    BY DEF EditEntry
  <2>3. db \in [Ids -> [rev : Nat, active : BOOLEAN]] /\ DOMAIN valid = Ids /\ \A id \in Ids : db[id].active => db[id].rev \in valid[id]
    BY <1>2 DEF AnswerInv
  <2>4. db' \in [Ids -> [rev : Nat, active : BOOLEAN]]
    BY <2>2, <2>3
  <2>5. DOMAIN valid' = Ids /\ \A id \in Ids : valid[id] \subseteq valid'[id]
    BY <2>2, <2>3
  <2>6. \A id \in Ids : db'[id].active => db'[id].rev \in valid'[id]
    <3> SUFFICES ASSUME NEW id \in Ids, db'[id].active PROVE db'[id].rev \in valid'[id]
      OBVIOUS
    <3>1. CASE id = x
      <4>1. db'[id] = [rev |-> db[x].rev + 1, active |-> active]
        BY <2>2, <2>3, <3>1
      <4>2. active /\ db'[id].rev = db[x].rev + 1
        BY <4>1
      <4>3. valid' = [valid EXCEPT ![x] = @ \cup {db[x].rev + 1}]
        BY <2>2, <4>2
      <4> QED BY <2>3, <3>1, <4>2, <4>3
    <3>2. CASE id # x
      <4>1. db'[id] = db[id]
        BY <2>2, <2>3, <3>2
      <4> QED BY <2>3, <2>5, <4>1
    <3> QED BY <3>1, <3>2
  <2>7. MergedWell(merged', step', valid')
    <3>1. MergedWell(merged, step, valid)
      BY <1>2 DEF AnswerInv
    <3> QED BY <2>1, <2>5, <3>1 DEF MergedWell, Current
  <2>8. step = "hydrate" => HitsIn(hits)
    BY <1>2 DEF AnswerInv
  <2>9. step \in {"recall", "hydrate", "keyword", "rank", "judge", "done"} /\ ask \in Asks
    BY <1>2 DEF AnswerInv
  <2>10. HitsIn(hits)' = HitsIn(hits)
    BY <2>1 DEF HitsIn
  <2> QED BY <2>1, <2>4, <2>5, <2>6, <2>7, <2>8, <2>9, <2>10 DEF AnswerInv
<1> QED BY <1>1, <1>2

LEMMA AnswerStarts == Init => AnswerInv
<1> SUFFICES ASSUME Init, step # "none" PROVE AnswerInv
  BY DEF AnswerInv
<1>1. AnswerInit
  BY DEF Init, NoQuestion
<1>2. MergedWell(merged, step, valid)
  BY <1>1 DEF AnswerInit, MergedWell
<1>3. db \in [Ids -> [rev : Nat, active : BOOLEAN]] /\ DOMAIN valid = Ids /\ \A id \in Ids : db[id].rev \in valid[id]
  BY <1>1 DEF AnswerInit
<1>4. step = "recall" /\ ask \in Asks
  BY <1>1 DEF AnswerInit
<1> QED BY <1>2, <1>3, <1>4 DEF AnswerInv

LEMMA AnswerStep == ASSUME AnswerInv, [AnswerNext]_answerVars PROVE AnswerInv'
<1>1. CASE UNCHANGED answerVars
  BY <1>1 DEF AnswerInv, answerVars, HitsIn, TopK, IntentOf
<1>2. CASE AnswerNext
  <2>1. CASE VectorRecall
    BY <2>1, Recalled
  <2>2. CASE Hydrate
    BY <2>2, Hydrated
  <2>3. CASE KeywordRecall
    BY <2>3, Fused
  <2>4. CASE RankFound
    BY <2>4, FoundRanked
  <2>5. CASE Judge
    BY <2>5, Judged
  <2>6. ASSUME NEW x \in Ids, EditEntry(x) PROVE AnswerInv'
    BY <2>6, Edited
  <2> QED BY <1>2, <2>1, <2>2, <2>3, <2>4, <2>5, <2>6 DEF AnswerNext
<1> QED BY <1>1, <1>2

\* The three parts of AnswerIsSound.
LEMMA RankingHolds == ASSUME AnswerInv PROVE RankingSound
<1> SUFFICES ASSUME step \in {"judge", "done"}
             PROVE  LET found == FoundIn(merged)
                        listed == {ranked[i].id : i \in DOMAIN ranked}
                    IN  /\ Len(ranked) = Min({TopK(ask), Cardinality(found)})
                        /\ Cardinality(listed) = Len(ranked)
                        /\ listed \subseteq {r.id : r \in found}
                        /\ (\E r \in found : Direct(r, 65)) => Direct(ranked[1], 65)
                        /\ \A r \in found : 100 * r.fusion >= ranked[1].fusion * ask.policy.ratio /\ ~ask.policy.rerank
                               => \E id \in listed : Type(id) = Type(r.id)
  BY DEF RankingSound, FoundIn
<1> DEFINE found == FoundIn(merged)
           listed == {ranked[i].id : i \in DOMAIN ranked}
<1>1. RankedWell(found, TopK(ask), ask.policy, ranked)
  BY DEF AnswerInv
<1> HIDE DEF found
<1>2. Len(ranked) = Min({TopK(ask), Cardinality(found)}) /\ ranked \in Seq(RetrievalResults)
  BY <1>1 DEF RankedWell
<1>3. Cardinality(listed) = Len(ranked)
  <2> DEFINE f == [i \in DOMAIN ranked |-> ranked[i].id]
             N == Len(ranked)
  <2>1. DOMAIN ranked = 1 .. N /\ N \in Nat
    BY <1>2
  <2>2. f \in Bijection(1 .. N, listed)
    <3>1. f \in [1 .. N -> listed] /\ \A i \in 1 .. N : f[i] = ranked[i].id
      BY <2>1
    <3>2. \A x \in listed : \E i \in 1 .. N : f[i] = x
      BY <2>1
    <3>3. \A i, j \in 1 .. N : f[i] = f[j] => i = j
      <4> HIDE DEF f, N
      <4> QED BY <1>1, <2>1, <3>1 DEF RankedWell
    <3> HIDE DEF f, listed, N
    <3> QED BY <3>1, <3>2, <3>3 DEF Bijection, Injection, Surjection, IsInjective
  <2> HIDE DEF f, N
  <2>3. IsFiniteSet(1 .. N) /\ Cardinality(1 .. N) = N
    BY <2>1, FS_Interval
  <2>4. Cardinality(listed) = N
    <3>1. ExistsBijection(1 .. N, listed)
      BY <2>2 DEF ExistsBijection
    <3> HIDE DEF listed
    <3> QED BY <2>3, <3>1, FS_Bijection
  <2> QED BY <2>4 DEF N
<1>4. listed \subseteq {r.id : r \in found}
  <2>1. \A i \in DOMAIN ranked : \E r \in found : ranked[i].id = r.id
    BY <1>1 DEF RankedWell, Shows
  <2> QED BY <2>1
<1>5. (\E r \in found : Direct(r, 65)) => Direct(ranked[1], 65)
  BY <1>1, TopKBounds DEF RankedWell
<1>6. ASSUME NEW r \in found, 100 * r.fusion >= ranked[1].fusion * ask.policy.ratio, ~ask.policy.rerank
      PROVE  \E id \in listed : Type(id) = Type(r.id)
  BY <1>1, <1>6, TopKBounds DEF RankedWell
<1> QED BY <1>2, <1>3, <1>4, <1>5, <1>6 DEF found

LEMMA GroundedNow ==
  ASSUME AnswerInv, step = "done"
  PROVE  Grounded(ask, ranked, decision) /\ ranked \in Seq(RetrievalResults) /\ RankedWell(FoundIn(merged), TopK(ask), ask.policy, ranked)
<1>1. RankedWell(FoundIn(merged), TopK(ask), ask.policy, ranked) /\ decision = Grounding(ask, ranked) /\ ask \in Asks
  BY DEF AnswerInv
<1>2. ranked \in Seq(RetrievalResults)
  BY <1>1 DEF RankedWell
<1>3. ask.explicit \in BOOLEAN
  BY <1>1, RetrievalAssumption
<1> QED BY <1>1, <1>2, <1>3, GroundingSound

LEMMA CurrentHolds == ASSUME AnswerInv PROVE AnswerIsCurrent
<1> SUFFICES ASSUME step = "done", NEW c \in ToSet(decision.cites)
             PROVE  c.rev \in valid[c.id] /\ (c.source # "keyword" => c.vrev = c.rev)
  BY DEF AnswerIsCurrent
<1>1. Quotes(decision.cites, ranked) /\ RankedWell(FoundIn(merged), TopK(ask), ask.policy, ranked)
  BY GroundedNow DEF Grounded
<1>2. PICK k \in DOMAIN decision.cites : c = decision.cites[k]
  BY DEF ToSet
<1>3. PICK i \in DOMAIN ranked : c = ranked[i]
  BY <1>1, <1>2 DEF Quotes
<1>4. PICK r \in FoundIn(merged) : Shows(c, r)
  BY <1>1, <1>3 DEF RankedWell
<1>5. PICK id \in Ids : r = merged[id] /\ r # NoResult
  BY <1>4 DEF FoundIn
<1>6. Current(r, id, valid[id])
  BY <1>5 DEF AnswerInv, MergedWell
<1> QED BY <1>4, <1>6 DEF Shows, Current

LEMMA GroundedHolds == ASSUME AnswerInv PROVE AnswerIsGrounded
<1> SUFFICES ASSUME step = "done" PROVE AnswerIsGrounded
  BY DEF AnswerIsGrounded
<1>1. Grounded(ask, ranked, decision)
  BY GroundedNow
<1>2. \A r \in ToSet(ranked) : \E i \in DOMAIN ranked : r = ranked[i]
  BY DEF ToSet
<1> QED BY <1>1, <1>2 DEF Grounded, AnswerIsGrounded

\* Whatever is stored and found, and however the entries are edited meanwhile, an
\* answer rests on text that was active while it was sought, is drawn from the
\* best of what was found with every good source in it, and is refused where it
\* must be (retrieveCandidates, rankRetrievalResults, evaluateGrounding).
THEOREM AnswerTheorem == Spec => []AnswerIsSound
<1>1. AnswerInv /\ [Next]_vars => AnswerInv'
  BY AnswerSteps, AnswerStep
<1>2. AnswerInv => AnswerIsSound
  BY RankingHolds, CurrentHolds, GroundedHolds DEF AnswerIsSound
<1> QED BY <1>1, <1>2, AnswerStarts, PTL DEF Spec

-----------------------------------------------------------------------------
(* Policies compared (QualityEval).                                         *)

\* A case scores by the rank of its source.
Scored(acc, r) == IF r > 0 THEN acc + 6 \div r ELSE acc
TotalScore(s, base) == FoldLeft(Scored, base, s)
ScoresIn(A, L, s) == \A a \in A : \A k \in 1 .. L : Scored(a, s[k]) \in A

\* The values of the score, one case after the other.
LEMMA ScoreTrace ==
  ASSUME NEW A, NEW base \in A, NEW L \in Nat, NEW s, DOMAIN s = 1 .. L, ScoresIn(A, L, s)
  PROVE  \E g \in [0 .. L -> A] : /\ g[0] = base /\ TotalScore(s, base) = g[L]
                                  /\ \A k \in 1 .. L : g[k] = Scored(g[k - 1], s[k])
<1> DEFINE H == [p \in A \X (1 .. L) |-> Scored(p[1], s[p[2]])]
           F(it) == [x \in SUBSET (1 .. L) |-> IF x = {} THEN base ELSE Scored(it[x \ {Max(x)}], s[Max(x)])]
           f == CHOOSE it : it = F(it)
<1>1. H \in [A \X (1 .. L) -> A]
  BY DEF ScoresIn
<1>2. \A a \in A : \A k \in 1 .. L : H[<<a, k>>] = Scored(a, s[k])
  OBVIOUS
<1>3. \A x \in SUBSET (1 .. L) : x # {} => Max(x) \in 1 .. L /\ x \ {Max(x)} \in SUBSET (1 .. L)
  BY PlacesMax
<1>4. \E it : it = F(it)
  <2>1. PICK it \in [SUBSET (1 .. L) -> A] : FoldsSets(it, base, L, H)
    <3> HIDE DEF H
    <3> QED BY <1>1, Recursion
  <2>2. it[{}] = base /\ \A x \in SUBSET (1 .. L) : x # {} => it[x] = H[<<it[x \ {Max(x)}], Max(x)>>]
    <3> HIDE DEF H
    <3> QED BY <2>1 DEF FoldsSets
  <2>3. ASSUME NEW x \in SUBSET (1 .. L), x # {} PROVE it[x] = Scored(it[x \ {Max(x)}], s[Max(x)])
    <3> HIDE DEF H
    <3> QED BY <1>2, <1>3, <2>2, <2>3
  <2>4. it = F(it)
    <3> HIDE DEF H
    <3> QED BY <2>2, <2>3
  <2> QED BY <2>4
<1>5. f = F(f)
  <2> HIDE DEF F, H
  <2> QED BY <1>4
<1>6. TotalScore(s, base) = f[1 .. L]
  BY DEF TotalScore, FoldLeft, MapThenFoldSet
<1>7. f[{}] = base /\ \A x \in SUBSET (1 .. L) : x # {} => f[x] = Scored(f[x \ {Max(x)}], s[Max(x)])
  <2> HIDE DEF f, H
  <2> QED BY <1>5
<1> HIDE DEF f, H
<1>8. FoldsFrom(f, A, L, H)
  BY <1>2, <1>3, <1>7 DEF FoldsFrom
<1>9. f[{}] = base
  BY <1>7
<1>10. base \in A
  OBVIOUS
<1>11. PICK g \in [0 .. L -> A] : Follows(g, base, L, H) /\ f[1 .. L] = g[L]
  <2> USE <1>1, <1>8, <1>9, <1>10
  <2> QED BY Unfold
<1>12. \A k \in 1 .. L : g[k] = Scored(g[k - 1], s[k])
  <2> SUFFICES ASSUME NEW k \in 1 .. L PROVE g[k] = Scored(g[k - 1], s[k])
    OBVIOUS
  <2>1. g[k - 1] \in A /\ g[k] = H[<<g[k - 1], k>>]
    BY <1>11 DEF Follows
  <2> QED BY <2>1, <1>2
<1> QED BY <1>6, <1>11, <1>12 DEF Follows

Ranks(s, L) == DOMAIN s = 1 .. L /\ \A i \in 1 .. L : s[i] \in Nat

LEMMA ScoreIsInt ==
  ASSUME NEW L \in Nat, NEW s, Ranks(s, L)
  PROVE  TotalScore(s, 0) \in Int
<1> DEFINE A == Int
           base == 0
<1>1. \A a \in Int : \A k \in 1 .. L : Scored(a, s[k]) \in Int
  <2> SUFFICES ASSUME NEW a \in Int, NEW k \in 1 .. L PROVE Scored(a, s[k]) \in Int
    OBVIOUS
  <2>1. s[k] \in Nat
    BY DEF Ranks
  <2>2. s[k] > 0 => 6 \div s[k] \in Int
    BY <2>1
  <2> QED BY <2>1, <2>2 DEF Scored
<1>2. PICK g \in [0 .. L -> A] : /\ g[0] = base /\ TotalScore(s, base) = g[L]
                                 /\ \A k \in 1 .. L : g[k] = Scored(g[k - 1], s[k])
  <2>1. DOMAIN s = 1 .. L /\ base \in A /\ ScoresIn(A, L, s)
    BY <1>1 DEF ScoresIn, Ranks
  <2> HIDE DEF A, base
  <2> QED BY <2>1, ScoreTrace
<1> QED BY <1>2

\* One case under one policy: the reason for a failure fits what is expected, and
\* its sources are a list.
FitsCase(e, case) ==
    /\ DOMAIN e.sources \subseteq Nat
    /\ e.failure = "unsafe_answer" => case.expected.status # "sufficient"
    /\ e.failure = "over_refusal" => case.expected.status = "sufficient"

\* So is every case that is evaluated.
LEMMA EvaluatedWell ==
  ASSUME NEW list \in CaseSets, NEW i \in DOMAIN list, NEW policy
  PROVE  FitsCase(Evaluated(list[i], policy), list[i])
<1> DEFINE case == list[i]
           found == case.candidates
           overlap == case.overlap
           posed == [case EXCEPT !.policy = policy, !.explicit = case.expected.status = "escalated"]
           results == Rank(found, 3, policy, overlap)
           judged == Grounding(posed, results)
           expects == case.expected.status = "sufficient"
           answers == judged.status = "sufficient"
           agrees == judged.mode = case.expected.mode /\ judged.status = case.expected.status
           e == Evaluated(case, policy)
<1>0. IsFiniteSet(Ids)
  BY RetrievalAssumption
<1>1. /\ found \in SUBSET RetrievalResults /\ IsFiniteSet(found) /\ Distinct(found) /\ overlap \in [Ids -> Int]
      /\ {"policy", "explicit"} \subseteq DOMAIN case
  BY QualityAssumption DEF Distinct
<1>2. e = [failure |-> CASE ~expects /\ answers -> "unsafe_answer"
                         [] expects /\ ~answers -> "over_refusal"
                         [] expects = answers /\ ~agrees -> "decision_mismatch"
                         [] OTHER -> "none",
           sources |-> [k \in DOMAIN judged.cites |-> judged.cites[k].id]]
  BY DEF Evaluated
<1>3. posed.explicit \in BOOLEAN
  <2>1. posed.explicit = (case.expected.status = "escalated")
    BY <1>1
  <2> QED BY <2>1
<1>4. results \in Seq(RetrievalResults)
  <2> HIDE DEF found, overlap
  <2>1. 3 \in Nat
    OBVIOUS
  <2>2. RankedWell(found, 3, policy, results)
    BY <1>0, <1>1, <2>1, RankSound
  <2> QED BY <2>2 DEF RankedWell
<1>5. DOMAIN judged.cites \subseteq Nat
  <2> HIDE DEF posed, results
  <2>1. Grounded(posed, results, judged)
    BY <1>3, <1>4, GroundingSound
  <2>2. judged.cites \in Seq(RetrievalResults)
    BY <2>1 DEF Grounded, Quotes
  <2> HIDE DEF judged
  <2> QED BY <2>2
<1> HIDE DEF judged, agrees, posed, results, case, e
<1>6. DOMAIN e.sources \subseteq Nat
  BY <1>2, <1>5
<1>7. e.failure = "unsafe_answer" => ~expects
  BY <1>2
<1>8. e.failure = "over_refusal" => expects
  BY <1>2
<1> QED BY <1>6, <1>7, <1>8 DEF FitsCase, case, e, expects

\* The key of a policy, by what was measured.
KeyOf(p, list, table) ==
    LET Of(failure) == Cardinality({i \in DOMAIN list : table[p][i].failure = failure})
        rank == [i \in DOMAIN list |-> IF list[i].expected.status = "sufficient"
                                       THEN RankOfSource(list[i], table[p][i].sources) ELSE 0]
    IN  <<Of("unsafe_answer"), Of("over_refusal"), -Of("none"),
          -Cardinality({i \in DOMAIN list : rank[i] \in 1 .. 3}), -TotalScore(rank, 0), p>>

LEMMA KeyOfPolicy == \A p : CandidateKey(p) = KeyOf(p, cases, measured)
  BY DEF CandidateKey, KeyOf, MetricsOf, CountFailure, TotalScore, Scored

\* p comes before all other policies.
Leading(p) ==
    /\ p \in DOMAIN Policies
    /\ \A q \in DOMAIN Policies \ {p} : Before(KeyOf(p, cases, measured), KeyOf(q, cases, measured))

\* What has been measured is what the cases give, and the recommendation is the
\* first policy in the order of the keys.
EvalInv ==
    /\ cases \in CaseSets
    /\ IsList(measured) /\ Len(measured) <= Len(Policies)
    /\ \A p \in DOMAIN measured : measured[p] = [i \in DOMAIN cases |-> Evaluated(cases[i], Policies[p])]
    /\ recommended # 0 => Len(measured) = Len(Policies) /\ (Policies # <<>> => Leading(recommended))

\* Every policy has been measured.
AllMeasured == Len(measured) = Len(Policies)

LEMMA MeasuredCases ==
  ASSUME EvalInv, NEW p \in DOMAIN measured
  PROVE  \A i \in DOMAIN cases : FitsCase(measured[p][i], cases[i])
<1> SUFFICES ASSUME NEW i \in DOMAIN cases PROVE FitsCase(measured[p][i], cases[i])
  OBVIOUS
<1>1. cases \in CaseSets /\ measured[p][i] = Evaluated(cases[i], Policies[p])
  BY DEF EvalInv
<1> QED BY <1>1, EvaluatedWell

\* What is counted of a list is a number.
LEMMA CountIsNat ==
  ASSUME NEW L \in Nat, NEW S \in SUBSET (1 .. L)
  PROVE  Cardinality(S) \in Nat
<1>1. IsFiniteSet(1 .. L)
  BY FS_Interval
<1> QED BY <1>1, FS_Subset, FS_CardinalityType

\* The key of a policy is six numbers, the number of the policy last.
LEMMA KeysAreNumbers ==
  ASSUME EvalInv, AllMeasured, NEW p \in DOMAIN Policies
  PROVE  CandidateKey(p) \in [1 .. 6 -> Int] /\ CandidateKey(p)[6] = p
         /\ CandidateKey(p)[1] = CountFailure(p, "unsafe_answer") /\ CandidateKey(p)[2] = CountFailure(p, "over_refusal")
<1> DEFINE L == Len(cases)
           m == MetricsOf(p)
           rank == [i \in DOMAIN cases |-> IF cases[i].expected.status = "sufficient"
                                           THEN RankOfSource(cases[i], measured[p][i].sources) ELSE 0]
<1>0. L \in Nat /\ DOMAIN cases = 1 .. L
  <2>1. cases \in CaseSets
    BY DEF EvalInv
  <2>2. cases \in Seq(ToSet(cases))
    BY <2>1, QualityAssumption
  <2> QED BY <2>2
<1>1. p \in DOMAIN measured /\ p \in Int
  <2>1. PICK S : measured \in Seq(S)
    BY DEF EvalInv, IsList
  <2>2. Policies \in Seq(ToSet(Policies))
    BY QualityAssumption
  <2> QED BY <2>1, <2>2 DEF AllMeasured
<1>2. \A failure : CountFailure(p, failure) \in Nat
  <2> TAKE failure
  <2> DEFINE S == {i \in DOMAIN cases : measured[p][i].failure = failure}
  <2>1. S \in SUBSET (1 .. L)
    BY <1>0
  <2> HIDE DEF S, L
  <2>2. Cardinality(S) \in Nat
    BY <1>0, <2>1, CountIsNat
  <2> QED BY <2>2 DEF CountFailure, S
<1>3. DOMAIN rank = 1 .. L /\ \A i \in 1 .. L : rank[i] \in Nat
  <2> SUFFICES ASSUME NEW i \in 1 .. L PROVE rank[i] \in Nat
    BY <1>0
  <2>1. RankOfSource(cases[i], measured[p][i].sources) \in Nat
    <3> DEFINE at == {k \in DOMAIN measured[p][i].sources : measured[p][i].sources[k] \in cases[i].expected.sources}
    <3>1. FitsCase(measured[p][i], cases[i])
      BY <1>0, <1>1, MeasuredCases
    <3>2. at \in SUBSET Nat
      BY <3>1 DEF FitsCase
    <3>3. RankOfSource(cases[i], measured[p][i].sources) = IF at = {} THEN 0 ELSE Min(at)
      BY DEF RankOfSource
    <3> HIDE DEF at
    <3>4. at # {} => Min(at) \in at
      BY <3>2, LeastOf
    <3>5. at = {} \/ Min(at) \in Nat
      BY <3>2, <3>4
    <3> DEFINE least == Min(at)
               got == RankOfSource(cases[i], measured[p][i].sources)
    <3>6. got = IF at = {} THEN 0 ELSE least
      BY <3>3
    <3> HIDE DEF least, got
    <3>7. got \in Nat
      BY <3>5, <3>6 DEF least
    <3> QED BY <3>7 DEF got
  <2> QED BY <1>0, <2>1
<1>4. Cardinality({i \in DOMAIN cases : rank[i] \in 1 .. 3}) \in Nat
  <2> DEFINE S == {i \in DOMAIN cases : rank[i] \in 1 .. 3}
  <2>1. S \in SUBSET (1 .. L)
    BY <1>0
  <2> HIDE DEF S, L
  <2> QED BY <1>0, <2>1, CountIsNat DEF S
<1>5. TotalScore(rank, 0) \in Int
  <2> HIDE DEF rank, L
  <2> QED BY <1>0, <1>3, ScoreIsInt DEF Ranks
<1>6. /\ m.unsafe = CountFailure(p, "unsafe_answer") /\ m.refused = CountFailure(p, "over_refusal")
      /\ m.passed = CountFailure(p, "none") /\ m.recallAt3 = Cardinality({i \in DOMAIN cases : rank[i] \in 1 .. 3})
      /\ m.mrr = TotalScore(rank, 0)
  BY DEF MetricsOf, TotalScore, Scored
<1> HIDE DEF m, rank, L
<1>7. m.unsafe \in Int /\ m.refused \in Int /\ m.passed \in Int /\ m.recallAt3 \in Int /\ m.mrr \in Int
  BY <1>2, <1>4, <1>5, <1>6
<1>8. CandidateKey(p) = <<m.unsafe, m.refused, -m.passed, -m.recallAt3, -m.mrr, p>>
  BY DEF CandidateKey, m
<1>9. -m.passed \in Int /\ -m.recallAt3 \in Int /\ -m.mrr \in Int
  BY <1>7
<1> QED BY <1>1, <1>6, <1>7, <1>8, <1>9

\* Some policy comes first.
LEMMA SomeLeads ==
  ASSUME EvalInv, AllMeasured, Policies # <<>>
  PROVE  \E p : Leading(p)
<1> DEFINE D == DOMAIN Policies
           key == [p \in D |-> CandidateKey(p)]
           s == Sorted(D, key)
           N == Cardinality(D)
<1>1. Len(Policies) \in Nat \ {0} /\ D = 1 .. Len(Policies)
  <2>1. Policies \in Seq(ToSet(Policies))
    BY QualityAssumption
  <2> QED BY <2>1
<1>2. IsFiniteSet(D) /\ N = Len(Policies)
  <2> DEFINE L == Len(Policies)
  <2>1. IsFiniteSet(1 .. L) /\ Cardinality(1 .. L) = L
    <3> HIDE DEF L
    <3> QED BY <1>1, FS_Interval DEF L
  <2> QED BY <1>1, <2>1
<1>3. \A p \in D : key[p] \in [1 .. 6 -> Int] /\ key[p][6] = p
  <2> SUFFICES ASSUME NEW p \in D PROVE key[p] \in [1 .. 6 -> Int] /\ key[p][6] = p
    OBVIOUS
  <2>1. CandidateKey(p) \in [1 .. 6 -> Int] /\ CandidateKey(p)[6] = p
    BY KeysAreNumbers
  <2> QED BY <2>1
<1>a. \A p \in D : key[p] = CandidateKey(p)
  OBVIOUS
<1> HIDE DEF key
<1>4. \A p, q \in D : key[p] = key[q] => p = q
  BY <1>3
<1> HIDE DEF D, N
<1>5. InKeyOrder(D, key, s)
  <2> DEFINE w == 6
  <2>1. w \in Nat /\ \A p \in D : key[p] \in [1 .. w -> Int]
    BY <1>3
  <2> HIDE DEF w
  <2>2. Orders(D, key)
    BY <1>4, <2>1, BeforeOrders
  <2> QED BY <1>2, <2>2, SortedInKeyOrder
<1> HIDE DEF s
<1>6. /\ s \in [1 .. N -> D] /\ \A x \in D : \E i \in 1 .. N : s[i] = x
      /\ \A i, j \in 1 .. N : i < j => Before(key[s[i]], key[s[j]])
  BY <1>5 DEF InKeyOrder, N
<1>7. s[1] \in D /\ \A q \in D \ {s[1]} : Before(key[s[1]], key[q])
  <2>1. 1 \in 1 .. N
    BY <1>1, <1>2
  <2> SUFFICES ASSUME NEW q \in D, q # s[1] PROVE Before(key[s[1]], key[q])
    BY <1>6, <2>1
  <2>2. PICK i \in 1 .. N : s[i] = q
    BY <1>6
  <2>3. 1 < i
    BY <1>1, <1>2, <2>2
  <2> QED BY <1>6, <2>1, <2>2, <2>3
<1> QED BY <1>7, <1>a, KeyOfPolicy DEF Leading, D

LEMMA EvalStarts == EvalInit => EvalInv
<1>1. ASSUME EvalInit PROVE measured = <<>> /\ recommended = 0 /\ cases \in CaseSets
  BY <1>1 DEF EvalInit
<1>2. Policies \in Seq(ToSet(Policies)) /\ <<>> \in Seq({}) /\ Len(<<>>) = 0 /\ DOMAIN <<>> = {}
  BY QualityAssumption
<1>3. Len(<<>>) <= Len(Policies)
  BY <1>2
<1>4. IsList(<<>>)
  BY <1>2 DEF IsList
<1> QED BY <1>1, <1>2, <1>3, <1>4 DEF EvalInv

LEMMA EvalStep == ASSUME EvalInv, [EvalNext]_evalVars PROVE EvalInv'
<1>1. CASE UNCHANGED evalVars
  BY <1>1 DEF EvalInv, evalVars, Leading
<1>2. CASE EvaluatePolicy
  <2> DEFINE e == [i \in DOMAIN cases |-> Evaluated(cases[i], Policies[Len(measured) + 1])]
  <2>1. cases \in CaseSets /\ IsList(measured) /\ Len(measured) < Len(Policies) /\ measured' = Append(measured, e)
        /\ cases' = cases /\ recommended' = recommended /\ recommended = 0
    BY <1>2 DEF EvalInv, EvaluatePolicy
  <2>2. \A p \in DOMAIN measured : measured[p] = [i \in DOMAIN cases |-> Evaluated(cases[i], Policies[p])]
    BY DEF EvalInv
  <2>3. Len(Policies) \in Nat
    BY QualityAssumption
  <2>4. e = [i \in DOMAIN cases |-> Evaluated(cases[i], Policies[Len(measured) + 1])]
    OBVIOUS
  <2> HIDE DEF e
  <2>5. /\ IsList(measured') /\ DOMAIN measured = 1 .. Len(measured) /\ Len(measured) \in Nat
        /\ DOMAIN measured' = 1 .. Len(measured) + 1 /\ \A p \in DOMAIN measured : measured'[p] = measured[p]
        /\ measured'[Len(measured) + 1] = e
    BY <2>1, ListAppend
  <2>6. Len(measured') = Len(measured) + 1
    <3>1. PICK S : measured' \in Seq(S)
      BY <2>5 DEF IsList
    <3> QED BY <3>1, <2>5
  <2>7. \A p \in DOMAIN measured' : p \in DOMAIN measured \/ p = Len(measured) + 1
    BY <2>5
  <2>8. \A p \in DOMAIN measured' : measured'[p] = [i \in DOMAIN cases |-> Evaluated(cases[i], Policies[p])]
    BY <2>2, <2>4, <2>5, <2>7
  <2> QED BY <2>1, <2>3, <2>5, <2>6, <2>8 DEF EvalInv
<1>3. CASE Recommend
  <2>1. AllMeasured /\ cases' = cases /\ measured' = measured
    BY <1>3 DEF Recommend, AllMeasured
  <2>2. Len(measured) = Len(Policies)
    BY <2>1 DEF AllMeasured
  <2>3. Policies # <<>> => Leading(recommended')
    <3> SUFFICES ASSUME Policies # <<>> PROVE Leading(recommended')
      OBVIOUS
    <3> DEFINE key == [p \in DOMAIN Policies |-> CandidateKey(p)]
    <3>1. PICK b : Leading(b)
      BY <2>1, SomeLeads
    <3>2. b \in DOMAIN key /\ \A q \in DOMAIN key \ {b} : Before(key[b], key[q])
      BY <3>1, KeyOfPolicy DEF Leading
    <3>3. recommended' = CHOOSE p \in DOMAIN key : \A q \in DOMAIN key \ {p} : Before(key[p], key[q])
      BY <1>3 DEF Recommend
    <3>4. recommended' \in DOMAIN key /\ \A q \in DOMAIN key \ {recommended'} : Before(key[recommended'], key[q])
      <4> HIDE DEF key
      <4> QED BY <3>2, <3>3
    <3> QED BY <3>4, KeyOfPolicy DEF Leading
  <2>4. Leading(recommended')  => (Leading(recommended))'
    BY <2>1 DEF Leading
  <2> QED BY <2>1, <2>2, <2>3, <2>4 DEF EvalInv
<1> QED BY <1>1, <1>2, <1>3 DEF EvalNext

\* Of two keys the smaller one is no larger in its first number, and where that is
\* the same no larger in its second.
LEMMA FirstTwo ==
  ASSUME NEW a \in [1 .. 6 -> Int], NEW b \in [1 .. 6 -> Int], Before(a, b)
  PROVE  a[1] <= b[1] /\ (a[1] = b[1] => a[2] <= b[2])
<1>1. PICK i \in 1 .. 6 : a[i] < b[i] /\ \A j \in 1 .. i - 1 : a[j] = b[j]
  BY DEF Before
<1>2. a[1] \in Int /\ b[1] \in Int /\ a[2] \in Int /\ b[2] \in Int
  OBVIOUS
<1>3. CASE i = 1
  BY <1>1, <1>2, <1>3
<1>4. CASE i = 2
  <2>1. 1 \in 1 .. i - 1
    BY <1>4
  <2> QED BY <1>1, <1>2, <1>4, <2>1
<1>5. CASE i > 2
  <2>1. 1 \in 1 .. i - 1 /\ 2 \in 1 .. i - 1
    BY <1>5
  <2> QED BY <1>1, <1>2, <2>1
<1> QED BY <1>3, <1>4, <1>5

\* The first key is that of the safest policy.
LEMMA SafestHolds == ASSUME EvalInv PROVE RecommendedIsSafest
<1> DEFINE sufficient == {i \in DOMAIN cases : cases[i].expected.status = "sufficient"}
           unsafe == [p \in DOMAIN Policies |->
               Cardinality({i \in DOMAIN cases \ sufficient : measured[p][i].failure = "unsafe_answer"})]
           refused == [p \in DOMAIN Policies |->
               Cardinality({i \in sufficient : measured[p][i].failure = "over_refusal"})]
<1> SUFFICES ASSUME recommended # 0, NEW p \in DOMAIN Policies
             PROVE  /\ unsafe[recommended] <= unsafe[p]
                    /\ unsafe[recommended] = unsafe[p] => refused[recommended] <= refused[p]
                    /\ CountFailure(p, "unsafe_answer") = unsafe[p]
                    /\ CountFailure(p, "over_refusal") = refused[p]
  BY DEF RecommendedIsSafest
<1>1. AllMeasured /\ Leading(recommended) /\ DOMAIN measured = DOMAIN Policies
  <2>1. Policies \in Seq(ToSet(Policies))
    BY QualityAssumption
  <2>2. PICK S : measured \in Seq(S)
    BY DEF EvalInv, IsList
  <2>3. Policies # <<>> /\ Len(measured) = Len(Policies)
    BY DEF EvalInv
  <2> QED BY <2>1, <2>2, <2>3 DEF EvalInv, AllMeasured
<1>2. \A q \in DOMAIN Policies : CountFailure(q, "unsafe_answer") = unsafe[q] /\ CountFailure(q, "over_refusal") = refused[q]
  <2> TAKE q \in DOMAIN Policies
  <2>1. \A i \in DOMAIN cases : FitsCase(measured[q][i], cases[i])
    BY <1>1, MeasuredCases
  <2>2. {i \in DOMAIN cases : measured[q][i].failure = "unsafe_answer"}
          = {i \in DOMAIN cases \ sufficient : measured[q][i].failure = "unsafe_answer"}
    BY <2>1 DEF FitsCase
  <2>3. {i \in DOMAIN cases : measured[q][i].failure = "over_refusal"}
          = {i \in sufficient : measured[q][i].failure = "over_refusal"}
    BY <2>1 DEF FitsCase
  <2> QED BY <2>2, <2>3 DEF CountFailure
<1> HIDE DEF unsafe, refused
<1> DEFINE r == recommended
           a == CandidateKey(r)
           b == CandidateKey(p)
<1>3. r \in DOMAIN Policies /\ (r # p => Before(a, b))
  BY <1>1, KeyOfPolicy DEF Leading
<1>4. a \in [1 .. 6 -> Int] /\ a[1] = unsafe[r] /\ a[2] = refused[r]
  <2> HIDE DEF r
  <2> QED BY <1>1, <1>2, <1>3, KeysAreNumbers
<1>5. b \in [1 .. 6 -> Int] /\ b[1] = unsafe[p] /\ b[2] = refused[p]
  BY <1>1, <1>2, KeysAreNumbers
<1> HIDE DEF a, b
<1>6. r # p => a[1] <= b[1] /\ (a[1] = b[1] => a[2] <= b[2])
  BY <1>3, <1>4, <1>5, FirstTwo
<1>7. r = p => a[1] <= b[1] /\ (a[1] = b[1] => a[2] <= b[2])
  <2>1. a[1] \in Int /\ a[2] \in Int
    BY <1>4
  <2> QED BY <2>1, <1>4, <1>5
<1> QED BY <1>2, <1>4, <1>5, <1>6, <1>7

-----------------------------------------------------------------------------
(* The data sets that the runs evaluate (QualityData).                     *)

-----------------------------------------------------------------------------
IsVersion(v) == v = [status |-> v.status, held |-> v.held, hash |-> v.hash]
IsJob(job) == job = [of |-> job.of, total |-> job.total, status |-> job.status, read |-> job.read]

LEMMA VersionChanges ==
    ASSUME NEW v, IsVersion(v), NEW a, NEW b
    PROVE  [v EXCEPT !.status = a, !.hash = b] = [status |-> a, held |-> v.held, hash |-> b]
<1>. DEFINE new == [v EXCEPT !.status = a, !.hash = b]
<1>1. v \in [status : {v.status, a}, held : {v.held}, hash : {v.hash, b}]
  <2>1. PICK x, y, z : v = [status |-> x, held |-> y, hash |-> z]
    BY DEF IsVersion
  <2>. QED  BY <2>1
<1>2. /\ new \in [status : {v.status, a}, held : {v.held}, hash : {v.hash, b}]
      /\ new.status = a /\ new.held = v.held /\ new.hash = b
  BY <1>1
<1>. HIDE DEF new
<1>3. new = [status |-> a, held |-> v.held, hash |-> b]
  BY <1>2
<1>. QED  BY <1>3 DEF new

LEMMA JobChanges ==
    ASSUME NEW v, IsJob(v), NEW a, NEW b
    PROVE  [v EXCEPT !.status = a, !.read = b] = [of |-> v.of, total |-> v.total, status |-> a, read |-> b]
<1>. DEFINE new == [v EXCEPT !.status = a, !.read = b]
<1>1. v \in [of : {v.of}, total : {v.total}, status : {v.status, a}, read : {v.read, b}]
  <2>1. PICK w, x, y, z : v = [of |-> w, total |-> x, status |-> y, read |-> z]
    BY DEF IsJob
  <2>. QED  BY <2>1
<1>2. /\ new \in [of : {v.of}, total : {v.total}, status : {v.status, a}, read : {v.read, b}]
      /\ new.of = v.of /\ new.total = v.total /\ new.status = a /\ new.read = b
  BY <1>1
<1>. HIDE DEF new
<1>3. new = [of |-> v.of, total |-> v.total, status |-> a, read |-> b]
  BY <1>2
<1>. QED  BY <1>3 DEF new

\* What is published has the cases it was published with.
Sealed(v) == v.status = "published" => v.hash = HashOf(v.held)

CountOf(vs, of) == SumFunction([v \in of |-> Cardinality(DOMAIN vs[v].held)])

\* A run names what was published, and counted and read its cases.
JobOK(job, vs) ==
    /\ job.of \subseteq {v \in DOMAIN vs : vs[v].status = "published"}
    /\ job.total = CountOf(vs, job.of)
    /\ job.status = "read" => job.read = [v \in job.of |-> vs[v].held]

\* The built-in version is published, and what it holds came with the program.
BuiltinOK(vs) ==
    /\ Builtin \in DOMAIN vs /\ vs[Builtin].status = "published"
    /\ vs[Builtin].held = Released(DOMAIN vs[Builtin].held)

VersionsOK(vs) ==
    /\ IsList(vs) /\ BuiltinOK(vs)
    /\ \A v \in DOMAIN vs : IsVersion(vs[v]) /\ Sealed(vs[v])

JobsOK(js, vs) == IsList(js) /\ \A j \in DOMAIN js : IsJob(js[j]) /\ JobOK(js[j], vs)

DataInv == VersionsOK(versions) /\ JobsOK(jobs, versions)

\* Mutable are only drafts.
Frozen(old, new) ==
    \A v \in DOMAIN old : old[v].status = "published" =>
        v \in DOMAIN new /\ new[v].status = "published" /\ new[v].held = old[v].held

LEMMA JobsFrozen ==
    ASSUME NEW js, NEW old, NEW new, JobsOK(js, old), Frozen(old, new)
    PROVE  JobsOK(js, new)
<1>1. ASSUME NEW job, JobOK(job, old) PROVE JobOK(job, new)
  <2>1. \A v \in job.of : /\ v \in DOMAIN new /\ new[v].status = "published" /\ new[v].held = old[v].held
    BY <1>1 DEF JobOK, Frozen
  <2>2. /\ [v \in job.of |-> Cardinality(DOMAIN new[v].held)] = [v \in job.of |-> Cardinality(DOMAIN old[v].held)]
        /\ [v \in job.of |-> new[v].held] = [v \in job.of |-> old[v].held]
    BY <2>1
  <2>. QED  BY <1>1, <2>1, <2>2 DEF JobOK, CountOf
<1>. QED  BY <1>1 DEF JobsOK

\* Two releases with one hash have the same cases (hashCases).
LEMMA HashTellsRelease ==
    ASSUME NEW A, NEW B, HashOf(Released(A)) = HashOf(Released(B))
    PROVE  A = B
<1>1. \A ids : DOMAIN HashOf(Released(ids)) = {<<"released", id>> : id \in ids}
  BY DEF HashOf, Said, Released
<1>2. {<<"released", id>> : id \in A} = {<<"released", id>> : id \in B}
  BY <1>1
<1>3. \A x, y : <<"released", x>> = <<"released", y>> => x = y
  OBVIOUS
<1>4. \A x : x \in A <=> <<"released", x>> \in {<<"released", id>> : id \in A}
  BY <1>3
<1>5. \A x : x \in B <=> <<"released", x>> \in {<<"released", id>> : id \in B}
  BY <1>3
<1>. QED  BY <1>2, <1>4, <1>5


LEMMA DraftChanges ==
    ASSUME DataInv, NEW v \in DOMAIN versions, versions[v].status = "draft",
           NEW new, IsVersion(new), Sealed(new), versions' = [versions EXCEPT ![v] = new], jobs' = jobs
    PROVE  DataInv'
<1>1. IsList(versions) /\ \A w \in DOMAIN versions : IsVersion(versions[w]) /\ Sealed(versions[w])
  BY DEF DataInv, VersionsOK
<1>2. versions = [w \in DOMAIN versions |-> versions[w]]
  BY <1>1, LenProperties DEF IsList
<1>3. /\ versions' = [w \in DOMAIN versions |-> versions'[w]]
      /\ \A w \in DOMAIN versions : versions'[w] = IF w = v THEN new ELSE versions[w]
  BY <1>2
<1>4. IsList(versions') /\ DOMAIN versions' = DOMAIN versions
  BY <1>1, <1>3, ListEach
<1>5. BuiltinOK(versions')
  BY <1>3, <1>4 DEF DataInv, VersionsOK, BuiltinOK
<1>6. \A w \in DOMAIN versions' : IsVersion(versions'[w]) /\ Sealed(versions'[w])
  BY <1>1, <1>3, <1>4
<1>7. Frozen(versions, versions')
  BY <1>3, <1>4 DEF Frozen
<1>8. JobsOK(jobs', versions')
  BY <1>7, JobsFrozen DEF DataInv
<1>. QED  BY <1>4, <1>5, <1>6, <1>8 DEF DataInv, VersionsOK

LEMMA DraftAdded ==
    ASSUME DataInv, NEW new, IsVersion(new), new.status = "draft",
           versions' = Append(versions, new), jobs' = jobs
    PROVE  DataInv'
<1>1. /\ IsList(versions') /\ DOMAIN versions' = DOMAIN versions \cup {Len(versions) + 1}
      /\ \A w \in DOMAIN versions : versions'[w] = versions[w]
      /\ versions'[Len(versions) + 1] = new
  BY ListAppend DEF DataInv, VersionsOK
<1>2. Sealed(new)
  BY DEF Sealed
<1>3. BuiltinOK(versions')
  BY <1>1 DEF DataInv, VersionsOK, BuiltinOK
<1>4. \A w \in DOMAIN versions' : IsVersion(versions'[w]) /\ Sealed(versions'[w])
  BY <1>1, <1>2 DEF DataInv, VersionsOK
<1>5. JobsOK(jobs', versions')
  <2>1. Frozen(versions, versions')
    BY <1>1 DEF Frozen
  <2>. QED  BY <2>1, JobsFrozen DEF DataInv
<1>. QED  BY <1>1, <1>3, <1>4, <1>5 DEF DataInv, VersionsOK

LEMMA WriteKeeps ==
    ASSUME DataInv, NEW v \in DOMAIN versions, IsDraft(v), NEW held, Write(v, held)
    PROVE  DataInv'
<1>. DEFINE new == [versions[v] EXCEPT !.held = held]
<1>1. versions[v].status = "draft" /\ versions' = [versions EXCEPT ![v].held = held] /\ jobs' = jobs
  BY DEF IsDraft, Write
<1>2. IsVersion(versions[v])
  BY DEF DataInv, VersionsOK
<1>3. IsVersion(new) /\ new.status = "draft"
  BY <1>1, <1>2 DEF IsVersion
<1>4. versions' = [versions EXCEPT ![v] = new] /\ Sealed(new)
  BY <1>1, <1>3 DEF Sealed
<1>. HIDE DEF new
<1>. QED  BY <1>1, <1>3, <1>4, DraftChanges

LEMMA DataStarts == DataInit => DataInv
<1>. SUFFICES ASSUME DataInit PROVE DataInv
  OBVIOUS
<1>. DEFINE v == [status |-> "published", held |-> Released(manifest), hash |-> HashOf(Released(manifest))]
<1>1. versions = <<v>> /\ jobs = <<>>
  BY DEF DataInit
<1>2. IsVersion(v) /\ Sealed(v) /\ v.status = "published" /\ v.held = Released(DOMAIN v.held)
  BY DEF IsVersion, Sealed, Released
<1>. HIDE DEF v
<1>3. versions \in Seq({v}) /\ DOMAIN versions = {1} /\ versions[1] = v
  BY <1>1
<1>4. jobs \in Seq({}) /\ DOMAIN jobs = {}
  BY <1>1
<1>5. VersionsOK(versions)
  BY <1>2, <1>3 DEF VersionsOK, BuiltinOK, Builtin, IsList
<1>6. JobsOK(jobs, versions)
  BY <1>4 DEF JobsOK, IsList
<1>. QED  BY <1>5, <1>6 DEF DataInv


LEMMA DataEdits ==
    ASSUME DataInv, NEW v \in DOMAIN versions,
           CreateDataset \/ SaveCase(v) \/ ImportCases(v) \/ PublishVersion(v) \/ DeriveVersion(v)
    PROVE  DataInv'
<1>1. CASE CreateDataset
  <2>1. IsVersion([status |-> "draft", held |-> <<>>, hash |-> NoHash])
    BY DEF IsVersion
  <2>2. versions' = Append(versions, [status |-> "draft", held |-> <<>>, hash |-> NoHash]) /\ jobs' = jobs
    BY <1>1 DEF CreateDataset
  <2>. QED  BY <2>1, <2>2, DraftAdded
<1>2. CASE SaveCase(v)
  <2>1. IsDraft(v) /\ \E held : Write(v, held)
    BY <1>2 DEF SaveCase
  <2>. QED  BY <2>1, WriteKeeps
<1>3. CASE ImportCases(v)
  <2>1. IsDraft(v) /\ \E held : Write(v, held)
    BY <1>3 DEF ImportCases
  <2>. QED  BY <2>1, WriteKeeps
<1>4. CASE PublishVersion(v)
  <2>. DEFINE new == [versions[v] EXCEPT !.status = "published", !.hash = HashOf(versions[v].held)]
  <2>1. /\ versions[v].status = "draft" /\ jobs' = jobs
        /\ versions' = [versions EXCEPT ![v].status = "published", ![v].hash = HashOf(versions[v].held)]
    BY <1>4 DEF PublishVersion, IsDraft
  <2>2. IsVersion(versions[v])
    BY DEF DataInv, VersionsOK
  <2>3. IsVersion(new) /\ Sealed(new)
    <3>1. new = [status |-> "published", held |-> versions[v].held, hash |-> HashOf(versions[v].held)]
      <4>1. \A a, b : [versions[v] EXCEPT !.status = a, !.hash = b] = [status |-> a, held |-> versions[v].held, hash |-> b]
        BY <2>2, VersionChanges
      <4>. QED  BY <4>1
    <3>. HIDE DEF new
    <3>. QED  BY <3>1 DEF IsVersion, Sealed
  <2>4. versions = [w \in DOMAIN versions |-> versions[w]]
    BY LenProperties DEF DataInv, VersionsOK, IsList
  <2>5. versions' = [versions EXCEPT ![v] = new]
    BY <2>1, <2>4
  <2>. HIDE DEF new
  <2>. QED  BY <2>1, <2>3, <2>5, DraftChanges
<1>5. CASE DeriveVersion(v)
  <2>1. \E copy : versions' = Append(versions, [status |-> "draft", held |-> copy, hash |-> NoHash])
    BY <1>5 DEF DeriveVersion
  <2>2. PICK copy : versions' = Append(versions, [status |-> "draft", held |-> copy, hash |-> NoHash])
    BY <2>1
  <2>3. IsVersion([status |-> "draft", held |-> copy, hash |-> NoHash]) /\ jobs' = jobs
    BY <1>5 DEF IsVersion, DeriveVersion
  <2>. QED  BY <2>2, <2>3, DraftAdded
<1>. QED  BY <1>1, <1>2, <1>3, <1>4, <1>5

LEMMA JobCreated ==
    ASSUME DataInv, CreateJob
    PROVE  DataInv'
<1>1. PICK of \in (SUBSET DOMAIN versions) \ {{}} :
         /\ \A v \in of : Evaluable(v)
         /\ jobs' = Append(jobs, [of |-> of, total |-> Total(of), status |-> "queued", read |-> <<>>])
  BY DEF CreateJob
<1>. DEFINE job == [of |-> of, total |-> Total(of), status |-> "queued", read |-> <<>>]
<1>2. versions' = versions
  BY DEF CreateJob
<1>3. IsJob(job) /\ JobOK(job, versions)
  BY <1>1 DEF IsJob, JobOK, Total, CountOf, Evaluable
<1>. HIDE DEF job
<1>4. jobs' = Append(jobs, job)
  BY <1>1 DEF job
<1>5. /\ IsList(jobs') /\ DOMAIN jobs' = DOMAIN jobs \cup {Len(jobs) + 1}
      /\ \A j \in DOMAIN jobs : jobs'[j] = jobs[j]
      /\ jobs'[Len(jobs) + 1] = job
  BY <1>4, ListAppend DEF DataInv, JobsOK
<1>6. JobsOK(jobs', versions)
  BY <1>3, <1>5 DEF DataInv, JobsOK
<1>. QED  BY <1>2, <1>6 DEF DataInv

\* The cases are read as they are: those the run was created for.
LEMMA CasesRead ==
    ASSUME DataInv, ReadCases
    PROVE  DataInv'
<1>. DEFINE j == Min(Queued)
            job == [jobs[j] EXCEPT !.status = "read", !.read = [v \in jobs[j].of |-> versions[v].held]]
<1>1. /\ jobs' = [jobs EXCEPT ![j].status = "read", ![j].read = [v \in jobs[j].of |-> versions[v].held]]
      /\ versions' = versions
  BY DEF ReadCases
<1>2. IsList(jobs) /\ \A k \in DOMAIN jobs : IsJob(jobs[k]) /\ JobOK(jobs[k], versions)
  BY DEF DataInv, JobsOK
<1>3. jobs = [k \in DOMAIN jobs |-> jobs[k]]
  BY <1>2, LenProperties DEF IsList
<1>4. j \in DOMAIN jobs => IsJob(job) /\ JobOK(job, versions)
  <2>1. ASSUME j \in DOMAIN jobs PROVE IsJob(job) /\ JobOK(job, versions)
    <3>1. IsJob(jobs[j]) /\ JobOK(jobs[j], versions)
      BY <1>2, <2>1
    <3>2. /\ job.of = jobs[j].of /\ job.total = jobs[j].total
          /\ job.read = [v \in jobs[j].of |-> versions[v].held] /\ IsJob(job)
      <4>1. job = [of |-> jobs[j].of, total |-> jobs[j].total, status |-> "read",
                   read |-> [v \in jobs[j].of |-> versions[v].held]]
        <5>1. \A a, b : [jobs[j] EXCEPT !.status = a, !.read = b] =
                          [of |-> jobs[j].of, total |-> jobs[j].total, status |-> a, read |-> b]
          BY <3>1, JobChanges
        <5>. QED  BY <5>1
      <4>. HIDE DEF job, j
      <4>. QED  BY <4>1 DEF IsJob
    <3>. HIDE DEF job
    <3>. QED  BY <3>1, <3>2 DEF JobOK
  <2>. QED  BY <2>1
<1>5. jobs' = [k \in DOMAIN jobs |-> IF k = j THEN job ELSE jobs[k]]
  BY <1>1, <1>3
<1>. HIDE DEF j, job
<1>6. /\ jobs' = [k \in DOMAIN jobs |-> jobs'[k]]
      /\ \A k \in DOMAIN jobs : jobs'[k] = IF k = j THEN job ELSE jobs[k]
  BY <1>5
<1>7. IsList(jobs') /\ DOMAIN jobs' = DOMAIN jobs
  BY <1>2, <1>6, ListEach
<1>8. JobsOK(jobs', versions)
  BY <1>2, <1>4, <1>6, <1>7 DEF JobsOK
<1>. QED  BY <1>1, <1>8 DEF DataInv


\* bootstrapBuiltinDataset: a release that starts has the cases that are there.
LEMMA Restarted ==
    ASSUME DataInv, Restart
    PROVE  DataInv'
<1>. DEFINE held == versions[Builtin].held
<1>1. PICK m \in Manifests :
         /\ booted' = (HashOf(Released(m)) = versions[Builtin].hash)
         /\ versions' = IF booted' THEN [versions EXCEPT ![Builtin].held = Released(m \cup DOMAIN @)] ELSE versions
         /\ jobs' = IF booted' THEN [j \in DOMAIN jobs |-> IF j \in Queued THEN [jobs[j] EXCEPT !.status = "interrupted"]
                                                           ELSE jobs[j]] ELSE jobs
  BY DEF Restart
<1>2. /\ versions[Builtin].hash = HashOf(held) /\ held = Released(DOMAIN held)
      /\ Builtin \in DOMAIN versions /\ IsVersion(versions[Builtin])
  BY DEF DataInv, VersionsOK, BuiltinOK, Sealed
<1>3. CASE ~booted'
  BY <1>1, <1>3 DEF DataInv
<1>4. CASE booted'
  <2>1. m = DOMAIN held
    <3>1. HashOf(Released(m)) = HashOf(Released(DOMAIN held))
      BY <1>1, <1>2, <1>4
    <3>. QED  BY <3>1, HashTellsRelease
  <2>2. versions' = versions
    <3>1. Released(m \cup DOMAIN held) = held
      BY <1>2, <2>1
    <3>2. versions' = [versions EXCEPT ![Builtin].held = held]
      BY <1>1, <1>4, <3>1
    <3>3. versions = [w \in DOMAIN versions |-> versions[w]]
      BY LenProperties DEF DataInv, VersionsOK, IsList
    <3>4. [versions[Builtin] EXCEPT !.held = held] = versions[Builtin]
      BY <1>2 DEF IsVersion
    <3>. QED  BY <3>2, <3>3, <3>4
  <2>3. IsList(jobs) /\ \A j \in DOMAIN jobs : IsJob(jobs[j]) /\ JobOK(jobs[j], versions)
    BY DEF DataInv, JobsOK
  <2>4. \A j \in DOMAIN jobs : LET job == [jobs[j] EXCEPT !.status = "interrupted"]
                               IN  IsJob(job) /\ JobOK(job, versions)
    <3>. SUFFICES ASSUME NEW j \in DOMAIN jobs
                  PROVE  LET job == [jobs[j] EXCEPT !.status = "interrupted"]
                         IN  IsJob(job) /\ JobOK(job, versions)
      OBVIOUS
    <3>. DEFINE job == [jobs[j] EXCEPT !.status = "interrupted"]
    <3>1. job = [of |-> jobs[j].of, total |-> jobs[j].total, status |-> "interrupted", read |-> jobs[j].read]
      BY <2>3 DEF IsJob
    <3>2. JobOK(jobs[j], versions)
      BY <2>3
    <3>. HIDE DEF job
    <3>3. IsJob(job) /\ JobOK(job, versions)
      BY <3>1, <3>2 DEF IsJob, JobOK
    <3>. QED  BY <3>3 DEF job
  <2>5. /\ jobs' = [j \in DOMAIN jobs |-> jobs'[j]]
        /\ \A j \in DOMAIN jobs : jobs'[j] \in {jobs[j], [jobs[j] EXCEPT !.status = "interrupted"]}
    BY <1>1, <1>4
  <2>6. IsList(jobs') /\ DOMAIN jobs' = DOMAIN jobs
    BY <2>3, <2>5, ListEach
  <2>7. JobsOK(jobs', versions)
    BY <2>3, <2>4, <2>5, <2>6 DEF JobsOK
  <2>. QED  BY <2>2, <2>7 DEF DataInv
<1>. QED  BY <1>3, <1>4

LEMMA DataStep ==
    ASSUME DataInv, [DataNext]_dataVars
    PROVE  DataInv'
<1>1. CASE UNCHANGED dataVars
  BY <1>1 DEF dataVars, DataInv
<1>2. CASE \E v \in DOMAIN versions :
              CreateDataset \/ SaveCase(v) \/ ImportCases(v) \/ PublishVersion(v) \/ DeriveVersion(v)
  BY <1>2, DataEdits
<1>3. CASE CreateDataset
  <2>1. Builtin \in DOMAIN versions
    BY DEF DataInv, VersionsOK, BuiltinOK
  <2>. QED  BY <1>3, <2>1, DataEdits
<1>. QED  BY <1>1, <1>2, <1>3, JobCreated, CasesRead, Restarted DEF DataNext

LEMMA DataMeasured == DataInv => MeasuredAsPublished
<1>. SUFFICES ASSUME DataInv PROVE MeasuredAsPublished
  OBVIOUS
<1>1. \A v \in DOMAIN versions : versions[v].status = "published" => HashOf(versions[v].held) = versions[v].hash
  BY DEF DataInv, VersionsOK, Sealed
<1>2. ASSUME NEW j \in DOMAIN jobs, jobs[j].status = "read"
      PROVE  /\ \A v \in jobs[j].of : HashOf(jobs[j].read[v]) = versions[v].hash
             /\ SumFunction([v \in jobs[j].of |-> Cardinality(DOMAIN jobs[j].read[v])]) = jobs[j].total
  <2>. DEFINE of == jobs[j].of  read == jobs[j].read  total == jobs[j].total
  <2>1. JobOK(jobs[j], versions)
    BY DEF DataInv, JobsOK
  <2>2. /\ of \subseteq {v \in DOMAIN versions : versions[v].status = "published"}
        /\ total = CountOf(versions, of) /\ read = [v \in of |-> versions[v].held]
    BY <1>2, <2>1 DEF JobOK
  <2>. HIDE DEF of, read, total
  <2>3. \A v \in of : HashOf(read[v]) = versions[v].hash
    BY <1>1, <2>2
  <2>4. [v \in of |-> Cardinality(DOMAIN read[v])] = [v \in of |-> Cardinality(DOMAIN versions[v].held)]
    BY <2>2
  <2>5. SumFunction([v \in of |-> Cardinality(DOMAIN read[v])]) = total
    BY <2>2, <2>4 DEF CountOf
  <2>. QED  BY <2>3, <2>5 DEF of, read, total
<1>. QED  BY <1>1, <1>2 DEF MeasuredAsPublished

\* A task is carried out by its own part, and the other parts stand still.
CompareInv == IF task = "compare" THEN EvalInv ELSE recommended = 0
CurateInv == IF task = "curate" THEN DataInv ELSE versions = <<>> /\ jobs = <<>>

LEMMA QualityStarts == Init => CompareInv /\ CurateInv
<1>1. ASSUME Init PROVE IF task = "compare" THEN EvalInit ELSE recommended = 0
  BY <1>1 DEF Init, NoCompare
<1>2. ASSUME Init PROVE IF task = "curate" THEN DataInit ELSE versions = <<>> /\ jobs = <<>>
  BY <1>2 DEF Init, NoCurate
<1> QED BY <1>1, <1>2, EvalStarts, DataStarts DEF CompareInv, CurateInv

LEMMA QualityStep == ASSUME CompareInv, CurateInv, [Next]_vars PROVE CompareInv' /\ CurateInv'
<1>1. task' = task /\ (task = "compare" => [EvalNext]_evalVars) /\ (task # "compare" => UNCHANGED evalVars)
  BY DEF Next, vars
<1>2. (task = "curate" => [DataNext]_dataVars) /\ (task # "curate" => UNCHANGED dataVars)
  BY DEF Next, vars
<1>3. CompareInv'
  <2>1. CASE task = "compare"
    <3>1. EvalInv /\ [EvalNext]_evalVars
      BY <1>1, <2>1 DEF CompareInv
    <3>2. EvalInv'
      BY <3>1, EvalStep
    <3> QED BY <1>1, <2>1, <3>2 DEF CompareInv
  <2>2. CASE task # "compare"
    BY <1>1, <2>2 DEF CompareInv, evalVars
  <2> QED BY <2>1, <2>2
<1>4. CurateInv'
  <2>1. CASE task = "curate"
    <3>1. DataInv /\ [DataNext]_dataVars
      BY <1>2, <2>1 DEF CurateInv
    <3>2. DataInv'
      BY <3>1, DataStep
    <3> QED BY <1>1, <2>1, <3>2 DEF CurateInv
  <2>2. CASE task # "curate"
    BY <1>1, <1>2, <2>2 DEF CurateInv, dataVars
  <2> QED BY <2>1, <2>2
<1> QED BY <1>3, <1>4

LEMMA QualityHolds == ASSUME CompareInv, CurateInv PROVE QualityIsMeasured
<1>1. RecommendedIsSafest
  <2>1. CASE task = "compare"
    BY <2>1, SafestHolds DEF CompareInv
  <2>2. CASE task # "compare"
    BY <2>2 DEF CompareInv, RecommendedIsSafest
  <2> QED BY <2>1, <2>2
<1>2. MeasuredAsPublished
  <2>1. CASE task = "curate"
    BY <2>1, DataMeasured DEF CurateInv
  <2>2. CASE task # "curate"
    <3>1. DOMAIN versions = {} /\ DOMAIN jobs = {}
      BY <2>2 DEF CurateInv
    <3> QED BY <3>1 DEF MeasuredAsPublished
  <2> QED BY <2>1, <2>2
<1> QED BY <1>1, <1>2 DEF QualityIsMeasured

\* For any cases, policies, versions, runs and releases: what a run evaluates is
\* what its versions were published with, as many cases as were counted when it
\* was created, and the policy it recommends answers no more of the questions that
\* must not be answered than any other, and refuses least of those that are as safe
\* (createRun, processNext, bootstrapBuiltinDataset, evaluateCase, compareCandidates).
THEOREM QualityTheorem == Spec => []QualityIsMeasured
<1>1. CompareInv /\ CurateInv /\ [Next]_vars => (CompareInv /\ CurateInv)'
  BY QualityStep
<1>2. CompareInv /\ CurateInv => QualityIsMeasured
  BY QualityHolds
<1> QED BY <1>1, <1>2, QualityStarts, PTL DEF Spec

-----------------------------------------------------------------------------
(* The OCR worker.                                                         *)

\* A request has no file before it has the slot.
Unstarted == {r \in Requests : call[r] \in {"idle", "sent"}}

Progress == {"idle", "sent", "awaited", "mapped", "failed", "over"}

\* The slot and the thread have one holder; a file belongs to a request that had
\* the slot, so that a new extraction never finds its file among those left behind.
OcrInv ==
    /\ alive \in BOOLEAN /\ exitDue \in BOOLEAN
    /\ call \in [Requests -> Progress]
    /\ thread \in [of : Requests \cup {Nobody}, ended : BOOLEAN, ok : BOOLEAN]
    /\ slot = thread.of
    /\ thread.of = Nobody => thread.ended
    /\ ~thread.ended => alive
    /\ \A r \in Requests : call[r] = "awaited" => thread.of = r
    /\ thread.of \notin Unstarted
    /\ files \subseteq Requests /\ stray \subseteq Requests
    /\ files \cap Unstarted = {} /\ stray \cap Unstarted = {}
    /\ files \ stray = IF thread.ended THEN {} ELSE {thread.of}

\* What one request does to its own entry, when the thread and the files stay.
LEMMA OwnStep ==
  ASSUME OcrInv, NEW r \in Requests, NEW to \in Progress,
         call' = [call EXCEPT ![r] = to],
         to = "sent" => call[r] = "idle", to # "idle", to # "awaited",
         alive' = alive, exitDue' \in BOOLEAN, UNCHANGED <<slot, thread, files, stray>>
  PROVE  OcrInv'
<1>1. call' \in [Requests -> Progress] /\ Unstarted' \subseteq Unstarted
  BY DEF OcrInv, Unstarted
<1>2. \A q \in Requests : call'[q] = "awaited" => thread'.of = q
  BY DEF OcrInv
<1> QED
  BY <1>1, <1>2 DEF OcrInv

LEMMA OcrStep == ASSUME OcrInv, [OcrNext]_ocrVars PROVE OcrInv'
<1>1. CASE UNCHANGED ocrVars
  BY <1>1 DEF OcrInv, Unstarted, ocrVars
<1>2. ASSUME NEW r \in Requests, Send(r) PROVE OcrInv'
  <2>1. PICK to \in {"sent", "over"} : call' = [call EXCEPT ![r] = to]
    BY <1>2 DEF Send
  <2> QED
    BY <1>2, <2>1, OwnStep DEF Send, Progress, OcrInv
<1>3. ASSUME NEW r \in Requests, Reject(r) \/ Busy(r) \/ Respond(r) \/ TimedOut(r) PROVE OcrInv'
  <2>1. /\ call' = [call EXCEPT ![r] = "over"] /\ alive' = alive
        /\ UNCHANGED <<slot, thread, files, stray>>
    BY <1>3 DEF Reject, Busy, Respond, TimedOut
  <2>2. exitDue' \in BOOLEAN
    BY <1>3 DEF Reject, Busy, Respond, TimedOut, OcrInv
  <2> QED
    BY <2>1, <2>2, OwnStep DEF Progress
<1>4. ASSUME NEW r \in Requests, Start(r) PROVE OcrInv'
  <2>1. call' \in [Requests -> Progress] /\ Unstarted' = Unstarted \ {r} /\ r \in Unstarted
    BY <1>4 DEF Start, OcrInv, Unstarted, Progress
  <2>2. thread'.of = r /\ ~thread'.ended /\ thread' \in [of : Requests \cup {Nobody}, ended : BOOLEAN, ok : BOOLEAN]
    BY <1>4 DEF Start
  <2>3. \A q \in Requests : call'[q] = "awaited" => thread'.of = q
    BY <1>4, <2>2, OcrAssumption DEF Start, OcrInv
  <2>4. files \ stray = {}
    BY <1>4 DEF Start, OcrInv
  <2> QED
    BY <1>4, <2>1, <2>2, <2>3, <2>4 DEF Start, OcrInv
<1>5. ASSUME NEW r \in Requests, Receive(r) \/ NoAnswer(r) PROVE OcrInv'
  BY <1>5 DEF Receive, NoAnswer, OcrInv, Unstarted
<1>6. CASE RunExtraction
  <2>1. thread' \in [of : Requests \cup {Nobody}, ended : BOOLEAN, ok : BOOLEAN]
        /\ thread'.of = thread.of /\ thread'.ended
    BY <1>6 DEF RunExtraction, OcrInv
  <2> QED
    BY <1>6, <2>1 DEF RunExtraction, OcrInv, Unstarted
<1>7. CASE Release
  <2>1. thread.of \in Requests /\ Unstarted' = Unstarted /\ call' \in [Requests -> Progress]
    BY <1>7 DEF Release, OcrInv, Unstarted, Progress
  <2>2. \A q \in Requests : call'[q] # "awaited"
    BY <1>7 DEF Release, OcrInv
  <2>3. thread'.of = Nobody /\ thread'.ended /\ slot' = Nobody
        /\ thread' \in [of : Requests \cup {Nobody}, ended : BOOLEAN, ok : BOOLEAN]
    BY <1>7 DEF Release, NoThread
  <2> QED
    BY <1>7, <2>1, <2>2, <2>3, OcrAssumption DEF Release, OcrInv, Unstarted
<1>8. CASE ForcedExit
  <2>1. call' \in [Requests -> Progress] /\ Unstarted' \subseteq Unstarted
        /\ \A q \in Requests : call'[q] # "awaited"
    BY <1>8 DEF ForcedExit, OcrInv, Unstarted, Progress
  <2>2. thread'.of = Nobody /\ thread'.ended /\ slot' = Nobody
        /\ thread' \in [of : Requests \cup {Nobody}, ended : BOOLEAN, ok : BOOLEAN]
    BY <1>8 DEF ForcedExit, NoThread
  <2> QED
    BY <1>8, <2>1, <2>2, OcrAssumption DEF ForcedExit, OcrInv, Unstarted
<1>9. CASE RestartWorker
  BY <1>9 DEF RestartWorker, OcrInv, Unstarted
<1> QED
  BY <1>1, <1>2, <1>3, <1>4, <1>5, <1>6, <1>7, <1>8, <1>9 DEF OcrNext

-----------------------------------------------------------------------------
(* Text, word by word (OcrWorker).                                          *)

\* Lists flattened one after the other.
LEMMA FlattenConcat ==
  ASSUME NEW E, NEW ss \in Seq(Seq(E)), NEW tt \in Seq(Seq(E))
  PROVE  FlattenSeq(ss \o tt) = FlattenSeq(ss) \o FlattenSeq(tt) /\ FlattenSeq(ss) \in Seq(E)
<1> DEFINE m == Len(ss)
           n == Len(tt)
           rr == ss \o tt
<1>1. /\ m \in Nat /\ n \in Nat /\ rr \in Seq(Seq(E)) /\ Len(rr) = m + n
      /\ \A k \in 1 .. m : rr[k] = ss[k]
      /\ \A k \in 1 .. n : rr[m + k] = tt[k] /\ tt[k] \in Seq(E)
  <2>1. m \in Nat /\ n \in Nat /\ rr \in Seq(Seq(E)) /\ Len(rr) = m + n
    BY ConcatProperties
  <2>2. \A i \in 1 .. m + n : rr[i] = IF i <= m THEN ss[i] ELSE tt[i - m]
    BY ConcatProperties
  <2>3. \A k \in 1 .. m : k \in 1 .. m + n /\ k <= m
    BY <2>1
  <2>4. \A k \in 1 .. n : m + k \in 1 .. m + n /\ ~(m + k <= m) /\ (m + k) - m = k
    BY <2>1
  <2>5. \A k \in 1 .. n : tt[k] \in Seq(E)
    OBVIOUS
  <2> HIDE DEF m, n, rr
  <2> QED BY <2>1, <2>2, <2>3, <2>4, <2>5
<1>2. PICK f \in [0 .. m -> Seq(E)] : Accumulates(f, ss) /\ FlattenSeq(ss) = f[m]
  BY FlattenTrace
<1>3. PICK g \in [0 .. n -> Seq(E)] : Accumulates(g, tt) /\ FlattenSeq(tt) = g[n]
  BY FlattenTrace
<1>4. PICK h \in [0 .. m + n -> Seq(E)] : Accumulates(h, rr) /\ FlattenSeq(rr) = h[m + n]
  <2> HIDE DEF m, n, rr
  <2>1. PICK h \in [0 .. Len(rr) -> Seq(E)] : Accumulates(h, rr) /\ FlattenSeq(rr) = h[Len(rr)]
    BY <1>1, FlattenTrace
  <2> QED BY <1>1, <2>1
<1>5. /\ f[0] = <<>> /\ \A k \in 1 .. m : f[k] = f[k - 1] \o ss[k]
      /\ g[0] = <<>> /\ \A k \in 1 .. n : g[k] = g[k - 1] \o tt[k]
      /\ h[0] = <<>> /\ \A k \in 1 .. m + n : h[k] = h[k - 1] \o rr[k]
  BY <1>1, <1>2, <1>3, <1>4 DEF Accumulates
<1> HIDE DEF m, n, rr
<1> DEFINE S == {k \in 0 .. m : h[k] = f[k]}
           T == {k \in 0 .. n : h[m + k] = f[m] \o g[k]}
<1>6. m \in S
  <2>1. 0 \in S
    BY <1>1, <1>5
  <2>2. ASSUME NEW k \in 1 .. m, k - 1 \in S PROVE k \in S
    <3>1. k \in 1 .. m + n /\ rr[k] = ss[k] /\ k \in 0 .. m /\ k - 1 \in 0 .. m
      BY <1>1
    <3>2. h[k - 1] = f[k - 1]
      BY <2>2
    <3>3. h[k] = f[k]
      BY <1>5, <3>1, <3>2
    <3> QED BY <3>1, <3>3
  <2>3. 0 .. m \subseteq S
    <3> HIDE DEF S
    <3> QED BY <1>1, <2>1, <2>2, Induct
  <2> QED BY <1>1, <2>3
<1>7. n \in T
  <2>1. 0 \in T
    <3>1. f[m] \in Seq(E) /\ h[m] = f[m] /\ m + 0 = m /\ 0 \in 0 .. n
      BY <1>1, <1>6
    <3>2. f[m] \o <<>> = f[m]
      BY <3>1, ConcatEmptySeq
    <3>3. h[m + 0] = f[m] \o g[0]
      BY <1>5, <3>1, <3>2
    <3> QED BY <3>1, <3>3
  <2>2. ASSUME NEW k \in 1 .. n, k - 1 \in T PROVE k \in T
    <3>1. m + k \in 1 .. m + n /\ (m + k) - 1 = m + (k - 1) /\ k - 1 \in 0 .. n /\ k \in 0 .. n
      BY <1>1
    <3>2. h[m + k] = h[m + (k - 1)] \o tt[k]
      BY <1>1, <1>5, <3>1
    <3>3. h[m + (k - 1)] = f[m] \o g[k - 1]
      BY <2>2
    <3>4. f[m] \in Seq(E) /\ g[k - 1] \in Seq(E) /\ tt[k] \in Seq(E)
      <4>1. m \in 0 .. m
        BY <1>1
      <4> QED BY <1>1, <3>1, <4>1
    <3>5. (f[m] \o g[k - 1]) \o tt[k] = f[m] \o (g[k - 1] \o tt[k])
      <4> DEFINE a == f[m]
                 b == g[k - 1]
                 c == tt[k]
      <4>1. a \in Seq(E) /\ b \in Seq(E) /\ c \in Seq(E)
        BY <3>4
      <4> HIDE DEF a, b, c
      <4>2. (a \o b) \o c = a \o (b \o c)
        BY <4>1, ConcatAssociative, SMTT(60)
      <4> QED BY <4>2 DEF a, b, c
    <3> QED BY <1>5, <3>1, <3>2, <3>3, <3>5
  <2>3. 0 .. n \subseteq T
    <3> HIDE DEF T
    <3> QED BY <1>1, <2>1, <2>2, Induct
  <2> QED BY <1>1, <2>3
<1>8. f[m] \in Seq(E)
  BY <1>1
<1> QED BY <1>2, <1>3, <1>4, <1>7, <1>8 DEF rr

\* A list of one list, and of none.
LEMMA FlattenOne ==
  ASSUME NEW E, NEW s \in Seq(E)
  PROVE  FlattenSeq(<<s>>) = s /\ FlattenSeq(<<>>) = <<>>
<1>1. <<s>> \in Seq(Seq(E)) /\ Len(<<s>>) = 1 /\ <<s>>[1] = s
  OBVIOUS
<1>2. PICK g \in [0 .. 1 -> Seq(E)] : Accumulates(g, <<s>>) /\ FlattenSeq(<<s>>) = g[1]
  BY <1>1, FlattenTrace
<1>3. g[0] = <<>> /\ g[1] = g[0] \o s
  <2> DEFINE ss == <<s>>
  <2>1. ss[1] = s /\ Len(ss) = 1 /\ 1 \in 1 .. Len(ss) /\ Accumulates(g, ss)
    BY <1>2
  <2>2. g[0] = <<>> /\ \A k \in 1 .. Len(ss) : g[k] = g[k - 1] \o ss[k]
    <3> HIDE DEF ss
    <3> QED BY <2>1 DEF Accumulates
  <2>3. 1 - 1 = 0
    OBVIOUS
  <2> HIDE DEF ss
  <2> QED BY <2>1, <2>2, <2>3
<1>4. <<>> \o s = s
  BY ConcatEmptySeq
<1>5. <<>> \in Seq(Seq(E)) /\ Len(<<>>) = 0
  OBVIOUS
<1>6. PICK h \in [0 .. 0 -> Seq(E)] : Accumulates(h, <<>>) /\ FlattenSeq(<<>>) = h[0]
  BY <1>5, FlattenTrace
<1> QED BY <1>2, <1>3, <1>4, <1>6 DEF Accumulates

\* Blocks, items and lines have words.
Worded(E, B) == \A b \in B : b.words \in Seq(E)

LEMMA TextIsSeq ==
  ASSUME NEW E, NEW B, Worded(E, B), NEW list \in Seq(B)
  PROVE  /\ [i \in DOMAIN list |-> list[i].words] \in Seq(Seq(E)) /\ TextOf(list) \in Seq(E)
         /\ TextOf(<<>>) = <<>>
<1> DEFINE ws == [i \in DOMAIN list |-> list[i].words]
<1>1. DOMAIN list = 1 .. Len(list) /\ Len(list) \in Nat /\ \A i \in 1 .. Len(list) : list[i] \in B
  OBVIOUS
<1>2. ws \in [1 .. Len(list) -> Seq(E)]
  BY <1>1 DEF Worded
<1>3. ws \in Seq(Seq(E))
  <2> HIDE DEF ws
  <2> QED BY <1>1, <1>2, SeqDef
<1>4. <<>> \in Seq(Seq(E)) /\ <<>> \in Seq(E)
  OBVIOUS
<1>5. FlattenSeq(ws) \in Seq(E)
  <2> HIDE DEF ws
  <2> QED BY <1>3, <1>4, FlattenConcat
<1>6. TextOf(<<>>) = FlattenSeq(<<>>)
  <2>1. [i \in DOMAIN <<>> |-> <<>>[i].words] = <<>>
    OBVIOUS
  <2> QED BY <2>1 DEF TextOf
<1> QED BY <1>3, <1>4, <1>5, <1>6, FlattenOne DEF TextOf

LEMMA TextConcat ==
  ASSUME NEW E, NEW B, Worded(E, B), NEW l1 \in Seq(B), NEW l2 \in Seq(B)
  PROVE  TextOf(l1 \o l2) = TextOf(l1) \o TextOf(l2)
<1> DEFINE w1 == [i \in DOMAIN l1 |-> l1[i].words]
           w2 == [i \in DOMAIN l2 |-> l2[i].words]
           l == l1 \o l2
           w == [i \in DOMAIN l |-> l[i].words]
<1>1. w1 \in Seq(Seq(E)) /\ w2 \in Seq(Seq(E)) /\ l \in Seq(B) /\ w \in Seq(Seq(E))
  <2>1. l \in Seq(B)
    BY ConcatProperties
  <2> HIDE DEF l
  <2> QED BY <2>1, TextIsSeq
<1>2. w = w1 \o w2
  <2>1. /\ Len(l1) \in Nat /\ Len(l2) \in Nat /\ Len(l) = Len(l1) + Len(l2)
        /\ DOMAIN l1 = 1 .. Len(l1) /\ DOMAIN l2 = 1 .. Len(l2) /\ DOMAIN l = 1 .. Len(l1) + Len(l2)
        /\ \A i \in 1 .. Len(l1) + Len(l2) : l[i] = IF i <= Len(l1) THEN l1[i] ELSE l2[i - Len(l1)]
    <3>1. l \in Seq(B) /\ Len(l) = Len(l1) + Len(l2)
      BY ConcatProperties
    <3>2. \A i \in 1 .. Len(l1) + Len(l2) : l[i] = IF i <= Len(l1) THEN l1[i] ELSE l2[i - Len(l1)]
      BY ConcatProperties
    <3> HIDE DEF l
    <3> QED BY <3>1, <3>2, LenProperties
  <2>2. Len(w1) = Len(l1) /\ Len(w2) = Len(l2) /\ DOMAIN w = 1 .. Len(l1) + Len(l2)
    <3>1. DOMAIN w1 = 1 .. Len(l1) /\ DOMAIN w2 = 1 .. Len(l2) /\ DOMAIN w = 1 .. Len(l1) + Len(l2)
      BY <2>1
    <3> HIDE DEF w1, w2, w, l
    <3> QED BY <1>1, <2>1, <3>1, LenProperties
  <2>3. \A i \in 1 .. Len(l1) + Len(l2) : w[i] = IF i <= Len(l1) THEN w1[i] ELSE w2[i - Len(l1)]
    <3> SUFFICES ASSUME NEW i \in 1 .. Len(l1) + Len(l2) PROVE w[i] = IF i <= Len(l1) THEN w1[i] ELSE w2[i - Len(l1)]
      OBVIOUS
    <3>1. w[i] = l[i].words /\ (i <= Len(l1) => i \in DOMAIN l1) /\ (~(i <= Len(l1)) => i - Len(l1) \in DOMAIN l2)
      BY <2>1
    <3>2. (i <= Len(l1) => l[i] = l1[i]) /\ (~(i <= Len(l1)) => l[i] = l2[i - Len(l1)])
      BY <2>1
    <3> HIDE DEF l
    <3> QED BY <3>1, <3>2
  <2>4. /\ w1 \o w2 \in Seq(Seq(E)) /\ Len(w1 \o w2) = Len(l1) + Len(l2)
        /\ \A i \in 1 .. Len(l1) + Len(l2) : (w1 \o w2)[i] = IF i <= Len(l1) THEN w1[i] ELSE w2[i - Len(l1)]
    <3> DEFINE v == w1 \o w2
    <3> HIDE DEF w1, w2, w, l
    <3>1. /\ v \in Seq(Seq(E)) /\ Len(v) = Len(w1) + Len(w2)
          /\ \A i \in 1 .. Len(w1) + Len(w2) : v[i] = IF i <= Len(w1) THEN w1[i] ELSE w2[i - Len(w1)]
      BY <1>1, ConcatProperties
    <3> HIDE DEF v
    <3>2. /\ v \in Seq(Seq(E)) /\ Len(v) = Len(l1) + Len(l2)
          /\ \A i \in 1 .. Len(l1) + Len(l2) : v[i] = IF i <= Len(l1) THEN w1[i] ELSE w2[i - Len(l1)]
      BY <2>2, <3>1
    <3> QED BY <3>2 DEF v
  <2>5. Len(w) = Len(l1) + Len(l2)
    <3> HIDE DEF w1, w2, w, l
    <3> QED BY <1>1, <2>1, <2>2, LenProperties
  <2> HIDE DEF w1, w2, w, l
  <2> QED BY <1>1, <2>3, <2>4, <2>5, <2>1, SeqEqual
<1>3. FlattenSeq(w1 \o w2) = FlattenSeq(w1) \o FlattenSeq(w2)
  <2> HIDE DEF w1, w2
  <2> QED BY <1>1, FlattenConcat
<1> QED BY <1>2, <1>3 DEF TextOf

LEMMA TextAppend ==
  ASSUME NEW E, NEW B, Worded(E, B), NEW list \in Seq(B), NEW b \in B
  PROVE  TextOf(Append(list, b)) = TextOf(list) \o b.words
<1>1. Append(list, b) = list \o <<b>> /\ <<b>> \in Seq(B)
  BY AppendIsConcat
<1>2. TextOf(<<b>>) = FlattenSeq(<<b.words>>)
  <2>1. [i \in DOMAIN <<b>> |-> <<b>>[i].words] = <<b.words>>
    OBVIOUS
  <2> QED BY <2>1 DEF TextOf
<1>3. FlattenSeq(<<b.words>>) = b.words
  BY FlattenOne DEF Worded
<1>4. TextOf(list \o <<b>>) = TextOf(list) \o TextOf(<<b>>)
  <2> DEFINE one == <<b>>
  <2>1. one \in Seq(B)
    BY <1>1
  <2> HIDE DEF one
  <2>2. TextOf(list \o one) = TextOf(list) \o TextOf(one)
    BY <2>1, TextConcat
  <2> QED BY <2>2 DEF one
<1> QED BY <1>1, <1>2, <1>3, <1>4

-----------------------------------------------------------------------------
(* Tables (OcrWorker).                                                      *)

\* Cells as they are placed, and what they reach into.
Placed == [row : Nat, rows : Nat \ {0}, cols : Nat \ {0}, column : Nat]
MarkupCells == [row : Nat, rows : Nat \ {0}, cols : Nat \ {0}]

\* Among as many columns as cells are taken, and one more, one is free.
LEMMA ColumnFree ==
  ASSUME NEW occ \in SUBSET (Nat \X Nat), IsFiniteSet(occ), NEW row \in Nat, NEW from \in Nat
  PROVE  Column(occ, row, from) \in Nat /\ Column(occ, row, from) >= from /\ <<row, Column(occ, row, from)>> \notin occ
<1> DEFINE n == Cardinality(occ)
           places == from .. from + n
           free == {c \in places : <<row, c>> \notin occ}
<1>1. n \in Nat /\ from + n \in Nat
  BY FS_CardinalityType
<1>2. free # {}
  <2> SUFFICES ASSUME free = {} PROVE FALSE
    OBVIOUS
  <2>1. \A c \in places : <<row, c>> \in occ
    OBVIOUS
  <2> DEFINE f == [c \in places |-> <<row, c>>]
  <2>2. f \in Injection(places, occ)
    <3>1. f \in [places -> occ]
      BY <2>1
    <3>2. \A a, b \in places : f[a] = f[b] => a = b
      OBVIOUS
    <3> HIDE DEF f, places
    <3> QED BY <3>1, <3>2 DEF Injection, IsInjective
  <2>3. IsFiniteSet(places) /\ Cardinality(places) = n + 1
    <3> HIDE DEF n
    <3>1. Cardinality(places) = IF from > from + n THEN 0 ELSE (from + n) - from + 1
      BY <1>1, FS_Interval
    <3>2. IsFiniteSet(places)
      BY <1>1, FS_Interval
    <3> QED BY <1>1, <3>1, <3>2
  <2>4. Cardinality(places) <= n
    <3> HIDE DEF places, f
    <3> QED BY <2>2, FS_Injection
  <2> HIDE DEF places, n
  <2> QED BY <1>1, <2>3, <2>4
<1>3. free \in SUBSET Nat
  BY <1>1
<1>4. Min(free) \in free
  <2> HIDE DEF free
  <2> QED BY <1>2, <1>3, LeastOf
<1>5. Column(occ, row, from) = Min(free)
  BY DEF Column
<1> DEFINE least == Min(free)
<1>6. least \in places /\ <<row, least>> \notin occ
  BY <1>4
<1> HIDE DEF least, free
<1>7. least \in Nat /\ least >= from
  BY <1>1, <1>6
<1> QED BY <1>5, <1>6, <1>7 DEF least

\* What is made of the cells so far.
TableAccs == {acc \in [occupied : SUBSET (Nat \X Nat), cells : Seq(Placed)] : IsFiniteSet(acc.occupied)}

LEMMA CellMade ==
  ASSUME NEW acc \in TableAccs, NEW cell \in MarkupCells
  PROVE  \E put \in Placed :
            /\ AddCell(acc, cell) = [occupied |-> acc.occupied \cup Span(put, put.column), cells |-> Append(acc.cells, put)]
            /\ AddCell(acc, cell) \in TableAccs
            /\ put.row = cell.row /\ <<put.row, put.column>> \notin acc.occupied
            /\ acc.cells # <<>> /\ Last(acc.cells).row = cell.row => Last(acc.cells).column + Last(acc.cells).cols <= put.column
<1> DEFINE old == acc.cells
           n == Len(old)
           from == IF old # <<>> /\ Last(old).row = cell.row THEN Last(old).column + Last(old).cols ELSE 0
           column == Column(acc.occupied, cell.row, from)
           put == [row |-> cell.row, rows |-> cell.rows, cols |-> cell.cols, column |-> column]
           cells == Append(old, put)
           occ == acc.occupied \cup Span(cell, column)
<1>1. /\ old \in Seq(Placed) /\ n \in Nat /\ DOMAIN old = 1 .. n /\ (old # <<>> => n \in 1 .. n)
      /\ acc.occupied \in SUBSET (Nat \X Nat) /\ IsFiniteSet(acc.occupied)
      /\ \A x \in 1 .. n : old[x] \in Placed
  BY DEF TableAccs
<1>2. cell.row \in Nat /\ cell.rows \in Nat /\ cell.rows # 0 /\ cell.cols \in Nat /\ cell.cols # 0
  BY DEF MarkupCells
<1>3. from \in Nat
  <2>1. CASE old # <<>> /\ Last(old).row = cell.row
    <3>1. Last(old) = old[n] /\ old[n] \in Placed
      BY <1>1, <2>1 DEF Last
    <3>2. from = old[n].column + old[n].cols
      BY <2>1, <3>1
    <3> HIDE DEF from, old
    <3> QED BY <3>1, <3>2 DEF Placed
  <2>2. CASE ~(old # <<>> /\ Last(old).row = cell.row)
    BY <2>2
  <2> QED BY <2>1, <2>2
<1>4. column \in Nat /\ column >= from /\ <<cell.row, column>> \notin acc.occupied
  <2> HIDE DEF from
  <2> QED BY <1>1, <1>2, <1>3, ColumnFree
<1>5. AddCell(acc, cell) = [occupied |-> occ, cells |-> cells]
  BY DEF AddCell
<1>6. put \in Placed /\ put.row = cell.row /\ put.rows = cell.rows /\ put.cols = cell.cols /\ put.column = column
  <2> HIDE DEF column
  <2> QED BY <1>2, <1>4 DEF Placed
<1>7. Span(put, column) = Span(cell, column)
  BY DEF Span
<1>8. Span(cell, column) \subseteq Nat \X Nat /\ IsFiniteSet(Span(cell, column))
  <2> DEFINE rs == cell.row .. cell.row + cell.rows - 1
             cs == column .. column + cell.cols - 1
  <2>1. rs \subseteq Nat /\ cs \subseteq Nat /\ IsFiniteSet(rs) /\ IsFiniteSet(cs)
    <3> HIDE DEF column
    <3>1. cell.row + cell.rows - 1 \in Int /\ column + cell.cols - 1 \in Int
      BY <1>2, <1>4
    <3>2. IsFiniteSet(rs) /\ IsFiniteSet(cs)
      <4>1. \A a, b \in Int : IsFiniteSet(a .. b)
        BY FS_Interval
      <4> QED BY <1>2, <1>4, <3>1, <4>1
    <3>3. rs \subseteq Nat /\ cs \subseteq Nat
      BY <1>2, <1>4, <3>1
    <3> QED BY <3>2, <3>3
  <2>2. Span(cell, column) = rs \X cs
    BY DEF Span
  <2>3. IsFiniteSet(rs \X cs) /\ rs \X cs \subseteq Nat \X Nat
    <3> HIDE DEF rs, cs
    <3> QED BY <2>1, FS_Product
  <2> HIDE DEF rs, cs, column
  <2> QED BY <2>2, <2>3
<1>9. occ \in SUBSET (Nat \X Nat) /\ IsFiniteSet(occ)
  <2> HIDE DEF column
  <2> QED BY <1>1, <1>8, FS_Union
<1>10. /\ cells \in Seq(Placed) /\ Len(cells) = n + 1 /\ DOMAIN cells = 1 .. n + 1
       /\ \A x \in 1 .. n : cells[x] = old[x]
       /\ cells[n + 1] = put
  <2> HIDE DEF put
  <2>1. cells \in Seq(Placed) /\ Len(cells) = n + 1 /\ (\A x \in 1 .. n : cells[x] = old[x]) /\ cells[n + 1] = put
    BY <1>1, <1>6, AppendProperties
  <2> HIDE DEF cells, n
  <2> QED BY <2>1, LenProperties
<1> DEFINE new == AddCell(acc, cell)
<1>11. new = [occupied |-> occ, cells |-> cells] /\ new \in TableAccs
  <2> HIDE DEF occ, cells
  <2>1. [occupied |-> occ, cells |-> cells] \in TableAccs
    BY <1>9, <1>10 DEF TableAccs
  <2> QED BY <1>5, <2>1
<1>12. occ = acc.occupied \cup Span(put, put.column)
  <2> HIDE DEF put, column
  <2> QED BY <1>6, <1>7
<1>13. old # <<>> /\ Last(old).row = cell.row => Last(old).column + Last(old).cols <= column
  BY <1>4
<1> HIDE DEF new, occ, put, column, from
<1> QED BY <1>4, <1>6, <1>11, <1>12, <1>13 DEF new

\* The cells of a row stand side by side, no cell begins where an earlier one
\* reaches, and what they reach is marked.
CellsPlaced(acc) ==
    /\ acc \in TableAccs
    /\ \A x \in DOMAIN acc.cells : Span(acc.cells[x], acc.cells[x].column) \subseteq acc.occupied
    /\ \A x, y \in DOMAIN acc.cells : x < y =>
          /\ acc.cells[x].row <= acc.cells[y].row
          /\ acc.cells[x].row = acc.cells[y].row => acc.cells[x].column + acc.cells[x].cols <= acc.cells[y].column
          /\ <<acc.cells[y].row, acc.cells[y].column>> \notin Span(acc.cells[x], acc.cells[x].column)

\* No cell begins inside another.
CellsApart(cells) ==
    \A x, y \in DOMAIN cells : x # y => <<cells[x].row, cells[x].column>> \notin Span(cells[y], cells[y].column)

LEMMA PlacedApart ==
  ASSUME NEW acc, CellsPlaced(acc)
  PROVE  CellsApart(acc.cells)
<1> DEFINE c == acc.cells
<1>1. DOMAIN c \subseteq Nat /\ \A x \in DOMAIN c : c[x] \in Placed
  BY DEF CellsPlaced, TableAccs
<1>2. \A x, y \in DOMAIN c : x < y =>
          /\ c[x].row <= c[y].row
          /\ c[x].row = c[y].row => c[x].column + c[x].cols <= c[y].column
          /\ <<c[y].row, c[y].column>> \notin Span(c[x], c[x].column)
  BY DEF CellsPlaced
<1> HIDE DEF c
<1> SUFFICES ASSUME NEW x \in DOMAIN c, NEW y \in DOMAIN c, x < y, <<c[x].row, c[x].column>> \in Span(c[y], c[y].column) PROVE FALSE
  <2>1. \A x, y \in DOMAIN c : x # y => x < y \/ y < x
    BY <1>1
  <2> QED BY <1>2, <2>1 DEF CellsApart, c
<1>3. c[x].row >= c[y].row /\ c[x].column >= c[y].column
  <2>1. PICK r \in c[y].row .. c[y].row + c[y].rows - 1, k \in c[y].column .. c[y].column + c[y].cols - 1 : <<c[x].row, c[x].column>> = <<r, k>>
    BY DEF Span
  <2>2. c[x].row = r /\ c[x].column = k
    BY <2>1
  <2>3. c[y] \in Placed /\ c[y].row \in Nat /\ c[y].rows \in Nat /\ c[y].column \in Nat /\ c[y].cols \in Nat
    BY <1>1 DEF Placed
  <2> QED BY <2>2, <2>3
<1>4. /\ c[x].row \in Nat /\ c[y].row \in Nat /\ c[x].column \in Nat /\ c[y].column \in Nat
      /\ c[x].cols \in Nat /\ c[x].cols # 0
  BY <1>1 DEF Placed
<1>5. c[x].row = c[y].row
  <2>1. c[x].row <= c[y].row
    BY <1>2
  <2> QED BY <1>3, <1>4, <2>1
<1>6. c[x].column + c[x].cols <= c[y].column
  BY <1>2, <1>5
<1> QED BY <1>3, <1>4, <1>6

\* One more cell, in the row of the last or in a later one.
LEMMA CellAdded ==
  ASSUME NEW acc, CellsPlaced(acc), NEW cell \in MarkupCells,
         acc.cells # <<>> => acc.cells[Len(acc.cells)].row <= cell.row
  PROVE  LET new == AddCell(acc, cell) IN
         /\ CellsPlaced(new) /\ Len(new.cells) = Len(acc.cells) + 1
         /\ new.cells[Len(new.cells)].row = cell.row
<1> DEFINE old == acc.cells
           n == Len(old)
<1>1. /\ old \in Seq(Placed) /\ n \in Nat /\ DOMAIN old = 1 .. n /\ (old # <<>> => n \in 1 .. n) /\ acc \in TableAccs
      /\ \A x \in 1 .. n : old[x] \in Placed
  BY DEF CellsPlaced, TableAccs
<1>2. cell.row \in Nat
  BY DEF MarkupCells
<1>3. PICK put \in Placed :
            /\ AddCell(acc, cell) = [occupied |-> acc.occupied \cup Span(put, put.column), cells |-> Append(acc.cells, put)]
            /\ AddCell(acc, cell) \in TableAccs
            /\ put.row = cell.row /\ <<put.row, put.column>> \notin acc.occupied
            /\ acc.cells # <<>> /\ Last(acc.cells).row = cell.row => Last(acc.cells).column + Last(acc.cells).cols <= put.column
  BY <1>1, CellMade
<1> DEFINE cells == Append(old, put)
           occ == acc.occupied \cup Span(put, put.column)
           column == put.column
<1>4. /\ put.row = cell.row /\ column \in Nat /\ <<cell.row, column>> \notin acc.occupied
      /\ old # <<>> /\ Last(old).row = cell.row => Last(old).column + Last(old).cols <= column
  BY <1>3 DEF Placed
<1>10. /\ cells \in Seq(Placed) /\ Len(cells) = n + 1 /\ DOMAIN cells = 1 .. n + 1
       /\ \A x \in 1 .. n : cells[x] = old[x]
       /\ cells[n + 1] = put
  <2>1. cells \in Seq(Placed) /\ Len(cells) = n + 1 /\ (\A x \in 1 .. n : cells[x] = old[x]) /\ cells[n + 1] = put
    BY <1>1, AppendProperties
  <2> HIDE DEF cells, n
  <2> QED BY <2>1, LenProperties
<1>11. /\ \A x \in 1 .. n : Span(old[x], old[x].column) \subseteq acc.occupied
       /\ \A x, y \in 1 .. n : x < y =>
          /\ old[x].row <= old[y].row
          /\ old[x].row = old[y].row => old[x].column + old[x].cols <= old[y].column
          /\ <<old[y].row, old[y].column>> \notin Span(old[x], old[x].column)
  BY <1>1 DEF CellsPlaced
<1>12. n > 0 => old # <<>> /\ Last(old) = old[n] /\ n \in 1 .. n /\ old[n].row <= cell.row
  BY <1>1 DEF Last
<1>13. n > 0 /\ old[n].row = cell.row => old[n].column + old[n].cols <= column
  BY <1>4, <1>12
<1>5. put.column = column
  OBVIOUS
<1> HIDE DEF old, n, column, cells, occ
<1>14. ASSUME NEW x \in 1 .. n
       PROVE  /\ old[x].row <= cell.row
              /\ old[x].row = cell.row => old[x].column + old[x].cols <= column
              /\ <<cell.row, column>> \notin Span(old[x], old[x].column)
  <2>1. n > 0 /\ n \in 1 .. n /\ old[x] \in Placed /\ old[n] \in Placed
    BY <1>1
  <2>2. old[x].row \in Nat /\ old[n].row \in Nat /\ old[x].column \in Nat /\ old[x].cols \in Nat /\ old[n].column \in Nat /\ old[n].cols \in Nat
    BY <2>1 DEF Placed
  <2>3. old[x].row <= old[n].row /\ (old[x].row = old[n].row /\ x # n => old[x].column + old[x].cols <= old[n].column)
    <3>1. CASE x = n
      BY <2>2, <3>1
    <3>2. CASE x # n
      <4>1. x < n
        BY <1>1, <3>2
      <4> QED BY <1>11, <2>1, <4>1
    <3> QED BY <3>1, <3>2
  <2>4. old[x].row <= cell.row
    BY <1>2, <1>12, <2>1, <2>2, <2>3
  <2>5. old[x].row = cell.row => old[x].column + old[x].cols <= column
    <3> SUFFICES ASSUME old[x].row = cell.row PROVE old[x].column + old[x].cols <= column
      OBVIOUS
    <3>1. old[n].row = cell.row /\ old[x].row = old[n].row
      BY <1>2, <1>12, <2>1, <2>2, <2>3
    <3>2. old[n].column + old[n].cols <= column
      BY <1>13, <2>1, <3>1
    <3>3. CASE x = n
      BY <3>2, <3>3
    <3>4. CASE x # n
      <4>1. old[x].column + old[x].cols <= old[n].column
        BY <2>3, <3>1, <3>4
      <4> QED BY <1>4, <2>2, <3>2, <4>1
    <3> QED BY <3>3, <3>4
  <2>6. <<cell.row, column>> \notin Span(old[x], old[x].column)
    BY <1>4, <1>11
  <2> QED BY <2>4, <2>5, <2>6
<1>15. \A x \in DOMAIN cells : Span(cells[x], cells[x].column) \subseteq occ
  <2> SUFFICES ASSUME NEW x \in 1 .. n + 1 PROVE Span(cells[x], cells[x].column) \subseteq occ
    BY <1>10
  <2>1. CASE x \in 1 .. n
    BY <1>10, <1>11, <2>1 DEF occ
  <2>2. CASE x \notin 1 .. n
    <3>1. x = n + 1
      BY <1>1, <2>2
    <3> QED BY <1>10, <3>1 DEF occ, column
  <2> QED BY <2>1, <2>2
<1>16. \A x, y \in DOMAIN cells : x < y =>
          /\ cells[x].row <= cells[y].row
          /\ cells[x].row = cells[y].row => cells[x].column + cells[x].cols <= cells[y].column
          /\ <<cells[y].row, cells[y].column>> \notin Span(cells[x], cells[x].column)
  <2> SUFFICES ASSUME NEW x \in 1 .. n + 1, NEW y \in 1 .. n + 1, x < y
               PROVE  /\ cells[x].row <= cells[y].row
                      /\ cells[x].row = cells[y].row => cells[x].column + cells[x].cols <= cells[y].column
                      /\ <<cells[y].row, cells[y].column>> \notin Span(cells[x], cells[x].column)
    BY <1>10
  <2>1. x \in 1 .. n /\ cells[x] = old[x]
    BY <1>1, <1>10
  <2>2. CASE y \in 1 .. n
    <3>1. cells[y] = old[y]
      BY <1>10, <2>2
    <3> QED BY <1>11, <2>1, <2>2, <3>1
  <2>3. CASE y \notin 1 .. n
    <3>1. y = n + 1 /\ cells[y] = put
      BY <1>1, <1>10, <2>3
    <3> QED BY <1>4, <1>5, <1>14, <2>1, <3>1
  <2> QED BY <2>2, <2>3
<1> DEFINE new == AddCell(acc, cell)
<1>17. new.occupied = occ /\ new.cells = cells
  BY <1>3 DEF old, cells, occ
<1>9. new \in TableAccs
  BY <1>3
<1> HIDE DEF new
<1>18. CellsPlaced(new)
  BY <1>9, <1>10, <1>15, <1>16, <1>17 DEF CellsPlaced
<1> QED BY <1>4, <1>10, <1>17, <1>18 DEF new, n, old

\* The cells of a table, placed one after the other.
Celled(s, base) == FoldLeft(AddCell, base, s)
CellsIn(A, L, s) == \A a \in A : \A k \in 1 .. L : AddCell(a, s[k]) \in A

\* The cells placed so far.
LEMMA CellsTrace ==
  ASSUME NEW A, NEW base \in A, NEW L \in Nat, NEW s, DOMAIN s = 1 .. L, CellsIn(A, L, s)
  PROVE  \E g \in [0 .. L -> A] : /\ g[0] = base /\ Celled(s, base) = g[L]
                                  /\ \A k \in 1 .. L : g[k] = AddCell(g[k - 1], s[k])
<1> DEFINE H == [p \in A \X (1 .. L) |-> AddCell(p[1], s[p[2]])]
           F(it) == [x \in SUBSET (1 .. L) |-> IF x = {} THEN base ELSE AddCell(it[x \ {Max(x)}], s[Max(x)])]
           f == CHOOSE it : it = F(it)
<1>1. H \in [A \X (1 .. L) -> A]
  BY DEF CellsIn
<1>2. \A a \in A : \A k \in 1 .. L : H[<<a, k>>] = AddCell(a, s[k])
  OBVIOUS
<1>3. \A x \in SUBSET (1 .. L) : x # {} => Max(x) \in 1 .. L /\ x \ {Max(x)} \in SUBSET (1 .. L)
  BY PlacesMax
<1>4. \E it : it = F(it)
  <2>1. PICK it \in [SUBSET (1 .. L) -> A] : FoldsSets(it, base, L, H)
    <3> HIDE DEF H
    <3> QED BY <1>1, Recursion
  <2>2. it[{}] = base /\ \A x \in SUBSET (1 .. L) : x # {} => it[x] = H[<<it[x \ {Max(x)}], Max(x)>>]
    <3> HIDE DEF H
    <3> QED BY <2>1 DEF FoldsSets
  <2>3. ASSUME NEW x \in SUBSET (1 .. L), x # {} PROVE it[x] = AddCell(it[x \ {Max(x)}], s[Max(x)])
    <3> HIDE DEF H
    <3> QED BY <1>2, <1>3, <2>2, <2>3
  <2>4. it = F(it)
    <3> HIDE DEF H
    <3> QED BY <2>2, <2>3
  <2> QED BY <2>4
<1>5. f = F(f)
  <2> HIDE DEF F, H
  <2> QED BY <1>4
<1>6. Celled(s, base) = f[1 .. L]
  BY DEF Celled, FoldLeft, MapThenFoldSet
<1>7. f[{}] = base /\ \A x \in SUBSET (1 .. L) : x # {} => f[x] = AddCell(f[x \ {Max(x)}], s[Max(x)])
  <2> HIDE DEF f, H
  <2> QED BY <1>5
<1> HIDE DEF f, H
<1>8. FoldsFrom(f, A, L, H)
  BY <1>2, <1>3, <1>7 DEF FoldsFrom
<1>9. f[{}] = base
  BY <1>7
<1>10. base \in A
  OBVIOUS
<1>11. PICK g \in [0 .. L -> A] : Follows(g, base, L, H) /\ f[1 .. L] = g[L]
  <2> USE <1>1, <1>8, <1>9, <1>10
  <2> QED BY Unfold
<1>12. \A k \in 1 .. L : g[k] = AddCell(g[k - 1], s[k])
  <2> SUFFICES ASSUME NEW k \in 1 .. L PROVE g[k] = AddCell(g[k - 1], s[k])
    OBVIOUS
  <2>1. g[k - 1] \in A /\ g[k] = H[<<g[k - 1], k>>]
    BY <1>11 DEF Follows
  <2> QED BY <2>1, <1>2
<1> QED BY <1>6, <1>11, <1>12 DEF Follows


\* A table that has any cells has them all, no two in one place.
LEMMA TablePlaced ==
  ASSUME NEW t, Markup(t)
  PROVE  /\ TableStructure(t) \in Seq(Placed) /\ CellsApart(TableStructure(t))
         /\ TableStructure(t) = <<>> <=> t = <<>>
<1> DEFINE A == TableAccs
           base == [occupied |-> {}, cells |-> <<>>]
           L == Len(t)
<1>1. /\ L \in Nat /\ DOMAIN t = 1 .. L /\ (\A k \in 1 .. L : t[k] \in MarkupCells)
      /\ \A i, j \in 1 .. L : i < j => t[i].row <= t[j].row
  <2>1. t \in Seq(MarkupCells)
    BY DEF Markup, MarkupCells
  <2>2. L \in Nat /\ DOMAIN t = 1 .. L /\ \A k \in 1 .. L : t[k] \in MarkupCells
    BY <2>1
  <2>3. \A i, j \in DOMAIN t : i < j => t[i].row <= t[j].row
    BY DEF Markup
  <2> QED BY <2>2, <2>3
<1>2. CellsIn(A, L, t)
  <2> SUFFICES ASSUME NEW a \in A, NEW k \in 1 .. L PROVE AddCell(a, t[k]) \in A
    BY DEF CellsIn
  <2> HIDE DEF L
  <2> QED BY <1>1, CellMade
<1>3. base \in A /\ CellsPlaced(base) /\ base.cells = <<>>
  <2>1. IsFiniteSet({})
    BY FS_EmptySet
  <2>2. base \in TableAccs
    BY <2>1 DEF TableAccs
  <2> QED BY <2>2 DEF CellsPlaced
<1> HIDE DEF A, base, L
<1>4. PICK g \in [0 .. L -> A] : /\ g[0] = base /\ Celled(t, base) = g[L]
                                 /\ \A k \in 1 .. L : g[k] = AddCell(g[k - 1], t[k])
  BY <1>1, <1>2, <1>3, CellsTrace
<1> DEFINE Good(k) == CellsPlaced(g[k]) /\ Len(g[k].cells) = k /\ (k > 0 => g[k].cells[k].row = t[k].row)
           S == {k \in 0 .. L : Good(k)}
<1>5. 0 \in S
  <2>1. 0 \in 0 .. L /\ Len(g[0].cells) = 0
    BY <1>1, <1>3, <1>4
  <2> QED BY <1>3, <1>4, <2>1
<1>6. ASSUME NEW k \in 1 .. L, k - 1 \in S PROVE k \in S
  <2>1. k \in Nat /\ k - 1 \in 0 .. L /\ k \in 0 .. L /\ (k - 1) + 1 = k /\ Good(k - 1)
    BY <1>1, <1>6
  <2> DEFINE acc == g[k - 1]
             new == AddCell(acc, t[k])
  <2>2. acc.cells # <<>> => acc.cells[Len(acc.cells)].row <= t[k].row
    <3> SUFFICES ASSUME acc.cells # <<>> PROVE acc.cells[Len(acc.cells)].row <= t[k].row
      OBVIOUS
    <3>1. acc.cells \in Seq(Placed) /\ Len(acc.cells) = k - 1
      BY <2>1 DEF CellsPlaced, TableAccs
    <3>2. k - 1 # 0
      <4> HIDE DEF acc
      <4> QED BY <3>1
    <3>3. k - 1 \in 1 .. L /\ k - 1 < k
      BY <2>1, <3>2
    <3>4. acc.cells[k - 1].row = t[k - 1].row
      BY <2>1, <3>3
    <3> HIDE DEF acc
    <3> QED BY <1>1, <3>1, <3>3, <3>4
  <2>3. CellsPlaced(acc) /\ t[k] \in MarkupCells /\ Len(acc.cells) = k - 1
    BY <1>1, <2>1
  <2> HIDE DEF acc
  <2>4. CellsPlaced(new) /\ Len(new.cells) = Len(acc.cells) + 1 /\ new.cells[Len(new.cells)].row = t[k].row
    BY <2>2, <2>3, CellAdded
  <2>5. g[k] = new
    BY <1>4 DEF acc
  <2> HIDE DEF new
  <2> QED BY <2>1, <2>3, <2>4, <2>5
<1>7. Good(L)
  <2>1. 0 .. L \subseteq S
    <3> HIDE DEF S
    <3> QED BY <1>1, <1>5, <1>6, Induct
  <2> QED BY <1>1, <2>1
<1>8. TableStructure(t) = g[L].cells
  BY <1>4 DEF TableStructure, Celled, base
<1>9. CellsPlaced(g[L]) /\ Len(g[L].cells) = L /\ g[L].cells \in Seq(Placed)
  BY <1>7 DEF CellsPlaced, TableAccs
<1>10. CellsApart(g[L].cells)
  BY <1>9, PlacedApart
<1>11. g[L].cells = <<>> <=> L = 0
  <2> DEFINE c == g[L].cells
  <2>1. c \in Seq(Placed) /\ Len(c) = L
    BY <1>9
  <2> HIDE DEF c
  <2>2. c = <<>> <=> Len(c) = 0
    BY <2>1
  <2> QED BY <2>1, <2>2 DEF c
<1>12. t = <<>> <=> L = 0
  BY DEF L, Markup
<1> QED BY <1>8, <1>9, <1>10, <1>11, <1>12

-----------------------------------------------------------------------------
(* A page, item by item (OcrWorker).                                        *)

\* What the mapping of one page goes through; E are the words of the scan.
BlockKinds == {"heading", "table", "paragraph", "image_ref", "list", "key_value"}
ScanLabels == {"text", "title", "list", "key_value", "table", "image"}
Markups == {t \in Seq(MarkupCells) : Markup(t)}
ScanBlocks(E) == [kind : BlockKinds, page : Nat, path : Seq(Seq(E)), words : Seq(E), score : Int, cells : Seq(Placed), order : Nat]
PageAccs(E) == [blocks : Seq(ScanBlocks(E)), page : Nat, path : Seq(Seq(E)), tables : Seq(Markups)]

\* An item or a line.
Worded1(E, item) == item.words \in Seq(E) /\ item.score \in Int

\* An item of a layout that is mapped to a block when these tables are left, and
\* the block it becomes.
MapsToBlock(tables, item) ==
    \/ item.words # <<>> \/ item.label = "image"
    \/ item.label = "table" /\ tables # <<>> /\ Head(tables) # <<>>

Becomes(b, item, page, path, newpath) ==
    /\ b.words = item.words /\ b.page = page /\ b.path = newpath /\ CellsApart(b.cells)
    /\ \/ b.kind = "heading" /\ newpath = <<item.words>>
       \/ b.kind # "heading" /\ newpath = path

\* What an item does to the page so far.
ItemMade(E, acc, item, new) ==
    /\ new \in PageAccs(E) /\ new.page = acc.page
    /\ new.tables = IF item.label = "table" /\ acc.tables # <<>> THEN Tail(acc.tables) ELSE acc.tables
    /\ \/ ~MapsToBlock(acc.tables, item) /\ item.words = <<>> /\ new.blocks = acc.blocks /\ new.path = acc.path
       \/ /\ MapsToBlock(acc.tables, item)
          /\ \E b \in ScanBlocks(E) : new.blocks = Append(acc.blocks, b) /\ Becomes(b, item, acc.page, acc.path, new.path)

LEMMA BlockMade ==
  ASSUME NEW E, NEW page \in Nat, NEW path \in Seq(Seq(E)), NEW kind \in BlockKinds, NEW item, Worded1(E, item)
  PROVE  LET b == ScanBlock(page, path, kind, item) IN
         /\ b \in ScanBlocks(E) /\ b.kind = kind /\ b.page = page /\ b.path = path /\ b.words = item.words /\ b.cells = <<>>
         /\ CellsApart(b.cells)
<1>1. /\ ScanBlock(page, path, kind, item) = [kind |-> kind, page |-> page, path |-> path, words |-> item.words, score |-> item.score, cells |-> <<>>, order |-> 0]
      /\ item.words \in Seq(E) /\ item.score \in Int /\ <<>> \in Seq(Placed)
  BY DEF ScanBlock, Worded1
<1> DEFINE b == ScanBlock(page, path, kind, item)
<1>2. b.kind = kind /\ b.page = page /\ b.path = path /\ b.words = item.words /\ b.cells = <<>>
  BY <1>1
<1>3. b \in ScanBlocks(E)
  BY <1>1 DEF ScanBlocks
<1>4. CellsApart(<<>>)
  BY DEF CellsApart
<1> HIDE DEF b
<1>5. CellsApart(b.cells)
  BY <1>2, <1>4
<1> QED BY <1>2, <1>3, <1>5 DEF b

LEMMA ItemMapped ==
  ASSUME NEW E, NEW acc \in PageAccs(E), NEW item, Worded1(E, item), item.label \in ScanLabels
  PROVE  ItemMade(E, acc, item, MapItem(acc, item))
<1> DEFINE new == MapItem(acc, item)
           Plain(kind) == ScanBlock(acc.page, acc.path, kind, item)
<1>1. /\ acc.page \in Nat /\ acc.path \in Seq(Seq(E)) /\ acc.tables \in Seq(Markups) /\ acc.blocks \in Seq(ScanBlocks(E))
      /\ item.words \in Seq(E) /\ <<item.words>> \in Seq(Seq(E))
  BY DEF PageAccs, Worded1
<1>2. ASSUME NEW kind \in BlockKinds
      PROVE  /\ Plain(kind) \in ScanBlocks(E) /\ Plain(kind).kind = kind /\ Plain(kind).page = acc.page /\ Plain(kind).path = acc.path
             /\ Plain(kind).words = item.words /\ CellsApart(Plain(kind).cells)
  BY <1>1, BlockMade
<1>3. CASE item.words = <<>> /\ item.label \notin {"image", "table"}
  <2>1. new = acc
    BY <1>3 DEF MapItem
  <2> HIDE DEF new
  <2> QED BY <1>3, <2>1 DEF ItemMade, MapsToBlock, new
<1>4. CASE item.words # <<>> /\ item.label = "title"
  <2> DEFINE path == <<item.words>>
             b == ScanBlock(acc.page, path, "heading", item)
  <2>1. b \in ScanBlocks(E) /\ b.kind = "heading" /\ b.page = acc.page /\ b.path = path /\ b.words = item.words /\ CellsApart(b.cells)
    <3>1. path \in Seq(Seq(E)) /\ "heading" \in BlockKinds
      BY <1>1 DEF BlockKinds
    <3> HIDE DEF path
    <3> QED BY <1>1, <3>1, BlockMade
  <2>2. new = [acc EXCEPT !.path = path, !.blocks = Append(@, b)]
    <3> HIDE DEF b
    <3> QED BY <1>4 DEF MapItem, b
  <2> HIDE DEF b
  <2>3. new \in PageAccs(E)
    <3>1. Append(acc.blocks, b) \in Seq(ScanBlocks(E))
      BY <1>1, <2>1, AppendProperties
    <3> HIDE DEF new
    <3> QED BY <1>1, <2>2, <3>1 DEF PageAccs
  <2>4. new.page = acc.page /\ new.tables = acc.tables /\ new.path = path /\ new.blocks = Append(acc.blocks, b)
    BY <2>2 DEF PageAccs
  <2> HIDE DEF new, path
  <2>5. MapsToBlock(acc.tables, item) /\ item.label # "table"
    BY <1>4 DEF MapsToBlock
  <2>6. Becomes(b, item, acc.page, acc.path, new.path)
    BY <2>1, <2>4 DEF Becomes, path
  <2> QED BY <2>1, <2>3, <2>4, <2>5, <2>6 DEF ItemMade, new
<1>5. ASSUME NEW kind \in BlockKinds, kind # "heading", item.label # "table", MapsToBlock(acc.tables, item),
             new = [acc EXCEPT !.blocks = Append(acc.blocks, Plain(kind))]
      PROVE  ItemMade(E, acc, item, new)
  <2> DEFINE b == Plain(kind)
  <2>1. b \in ScanBlocks(E) /\ b.kind = kind /\ b.page = acc.page /\ b.path = acc.path /\ b.words = item.words /\ CellsApart(b.cells)
    BY <1>2
  <2>2. new = [acc EXCEPT !.blocks = Append(@, b)]
    BY <1>5
  <2> HIDE DEF b
  <2>3. new \in PageAccs(E)
    <3>1. Append(acc.blocks, b) \in Seq(ScanBlocks(E))
      BY <1>1, <2>1, AppendProperties
    <3> HIDE DEF new
    <3> QED BY <2>2, <3>1 DEF PageAccs
  <2>4. new.page = acc.page /\ new.tables = acc.tables /\ new.path = acc.path /\ new.blocks = Append(acc.blocks, b)
    BY <2>2 DEF PageAccs
  <2> HIDE DEF new
  <2>5. Becomes(b, item, acc.page, acc.path, new.path)
    BY <1>5, <2>1, <2>4 DEF Becomes
  <2> QED BY <1>5, <2>1, <2>3, <2>4, <2>5 DEF ItemMade
<1>9. \A kind \in BlockKinds : /\ kind # "heading" /\ item.label # "table" /\ MapsToBlock(acc.tables, item)
                               /\ new = [acc EXCEPT !.blocks = Append(acc.blocks, Plain(kind))]
                               => ItemMade(E, acc, item, new)
  <2> HIDE DEF new, Plain
  <2> QED BY <1>5
<1>6. CASE item.label = "image"
  <2>1. new = [acc EXCEPT !.blocks = Append(acc.blocks, Plain("image_ref"))]
    BY <1>6 DEF MapItem
  <2>2. MapsToBlock(acc.tables, item) /\ item.label # "table"
    BY <1>6 DEF MapsToBlock
  <2>3. "image_ref" \in BlockKinds
    BY DEF BlockKinds
  <2> HIDE DEF new, Plain
  <2> QED BY <1>9, <2>1, <2>2, <2>3 DEF new
<1>7. CASE item.words # <<>> /\ item.label \in {"list", "key_value", "text"}
  <2> DEFINE kind == IF item.label = "text" THEN "paragraph" ELSE item.label
  <2>1. new = [acc EXCEPT !.blocks = Append(acc.blocks, Plain(kind))]
    <3> HIDE DEF Plain
    <3> QED BY <1>7 DEF MapItem, Plain
  <2>2. MapsToBlock(acc.tables, item) /\ item.label # "table" /\ kind \in BlockKinds /\ kind # "heading"
    BY <1>7 DEF MapsToBlock, BlockKinds
  <2> HIDE DEF new, Plain, kind
  <2> QED BY <1>9, <2>1, <2>2 DEF new
<1>8. CASE item.label = "table"
  <2> DEFINE tables == IF acc.tables = <<>> THEN acc.tables ELSE Tail(acc.tables)
             cells == IF acc.tables # <<>> THEN TableStructure(Head(acc.tables)) ELSE <<>>
  <2>1. tables \in Seq(Markups) /\ tables = IF item.label = "table" /\ acc.tables # <<>> THEN Tail(acc.tables) ELSE acc.tables
    BY <1>1, <1>8
  <2>2. /\ cells \in Seq(Placed) /\ CellsApart(cells)
        /\ cells # <<>> <=> acc.tables # <<>> /\ Head(acc.tables) # <<>>
    <3>1. CASE acc.tables = <<>>
      <4>1. CellsApart(<<>>)
        BY DEF CellsApart
      <4> QED BY <3>1, <4>1
    <3>2. CASE acc.tables # <<>>
      <4>1. Markup(Head(acc.tables))
        BY <1>1, <3>2 DEF Markups
      <4>2. cells = TableStructure(Head(acc.tables))
        BY <3>2
      <4> HIDE DEF cells
      <4> QED BY <3>2, <4>1, <4>2, TablePlaced
    <3> QED BY <3>1, <3>2
  <2>3. new = [acc EXCEPT !.tables = tables,
                          !.blocks = CASE cells # <<>> -> Append(@, [Plain("table") EXCEPT !.cells = cells])
                                       [] cells = <<>> /\ item.words # <<>> -> Append(acc.blocks, Plain("paragraph"))
                                       [] OTHER -> @]
    <3> HIDE DEF cells, Plain
    <3> QED BY <1>8 DEF MapItem, cells, Plain
  <2>4. MapsToBlock(acc.tables, item) <=> cells # <<>> \/ item.words # <<>>
    <3> HIDE DEF cells
    <3> QED BY <1>8, <2>2 DEF MapsToBlock
  <2> HIDE DEF tables, cells
  <2>5. ASSUME NEW b \in ScanBlocks(E), new = [acc EXCEPT !.tables = tables, !.blocks = Append(@, b)], cells # <<>> \/ item.words # <<>>,
               b.kind # "heading", b.page = acc.page, b.path = acc.path, b.words = item.words, CellsApart(b.cells)
        PROVE  ItemMade(E, acc, item, new)
    <3>1. new \in PageAccs(E)
      <4>1. Append(acc.blocks, b) \in Seq(ScanBlocks(E))
        BY <1>1, AppendProperties
      <4> HIDE DEF new
      <4> QED BY <2>1, <2>5, <4>1 DEF PageAccs
    <3>2. new.page = acc.page /\ new.tables = tables /\ new.path = acc.path /\ new.blocks = Append(acc.blocks, b)
      BY <2>5 DEF PageAccs
    <3> HIDE DEF new
    <3>3. Becomes(b, item, acc.page, acc.path, new.path)
      BY <2>5, <3>2 DEF Becomes
    <3> QED BY <2>1, <2>4, <2>5, <3>1, <3>2, <3>3 DEF ItemMade
  <2>9. \A b \in ScanBlocks(E) : /\ new = [acc EXCEPT !.tables = tables, !.blocks = Append(@, b)] /\ (cells # <<>> \/ item.words # <<>>)
                                /\ b.kind # "heading" /\ b.page = acc.page /\ b.path = acc.path /\ b.words = item.words /\ CellsApart(b.cells)
                                => ItemMade(E, acc, item, new)
    <3> HIDE DEF new
    <3> QED BY <2>5
  <2>6. CASE cells # <<>>
    <3> DEFINE p == Plain("table")
               b == [p EXCEPT !.cells = cells]
    <3>1. p \in ScanBlocks(E) /\ p.kind = "table" /\ p.page = acc.page /\ p.path = acc.path /\ p.words = item.words
      BY <1>2 DEF BlockKinds
    <3>2. new = [acc EXCEPT !.tables = tables, !.blocks = Append(@, b)]
      <4> HIDE DEF p, Plain
      <4> QED BY <2>3, <2>6 DEF p
    <3> HIDE DEF p
    <3>3. b \in ScanBlocks(E) /\ b.kind = "table" /\ b.page = acc.page /\ b.path = acc.path /\ b.words = item.words /\ b.cells = cells
      BY <2>2, <3>1 DEF ScanBlocks
    <3> HIDE DEF b, new
    <3> QED BY <2>2, <2>9, <2>6, <3>2, <3>3 DEF new
  <2>7. CASE cells = <<>> /\ item.words # <<>>
    <3> DEFINE b == Plain("paragraph")
    <3>1. b \in ScanBlocks(E) /\ b.kind = "paragraph" /\ b.page = acc.page /\ b.path = acc.path /\ b.words = item.words /\ CellsApart(b.cells)
      BY <1>2 DEF BlockKinds
    <3>2. new = [acc EXCEPT !.tables = tables, !.blocks = Append(@, b)]
      <4> HIDE DEF Plain
      <4> QED BY <2>3, <2>7
    <3> HIDE DEF b, new
    <3> QED BY <2>9, <2>7, <3>1, <3>2 DEF new
  <2>8. CASE cells = <<>> /\ item.words = <<>>
    <3>1. new = [acc EXCEPT !.tables = tables, !.blocks = @]
      <4> HIDE DEF Plain
      <4> QED BY <2>3, <2>8
    <3>2. new \in PageAccs(E) /\ new.page = acc.page /\ new.tables = tables /\ new.path = acc.path /\ new.blocks = acc.blocks
      BY <2>1, <3>1 DEF PageAccs
    <3> HIDE DEF new
    <3>3. ~MapsToBlock(acc.tables, item) /\ item.words = <<>>
      BY <2>4, <2>8
    <3> QED BY <2>1, <3>2, <3>3 DEF ItemMade, new
  <2> QED BY <2>6, <2>7, <2>8
<1> HIDE DEF new
<1> QED BY <1>3, <1>4, <1>6, <1>7, <1>8 DEF ScanLabels, new

\* A title of the page pg, and the title that the first n blocks leave in force.
Titled(b, pg) == b.kind = "heading" /\ b.page = pg

Beneath(blocks, n, path, pg) ==
    \/ path = <<>> /\ \A k \in 1 .. n : ~Titled(blocks[k], pg)
    \/ \E t \in 1 .. n : Titled(blocks[t], pg) /\ path = <<blocks[t].words>> /\ \A k \in t + 1 .. n : ~Titled(blocks[k], pg)

\* Blocks of one page, each beneath the last title before it or that it is.
BlocksOfPage(blocks, pg) ==
    \A i \in DOMAIN blocks : blocks[i].page = pg /\ CellsApart(blocks[i].cells) /\ Beneath(blocks, i, blocks[i].path, pg)

\* The blocks after the first m.
LEMMA BeneathLater ==
  ASSUME NEW s, NEW u, NEW m \in Nat, NEW n \in Nat, \A k \in 1 .. n : u[m + k] = s[k], NEW path, NEW pg,
         \A k \in 1 .. m : ~Titled(u[k], pg), Beneath(s, n, path, pg)
  PROVE  Beneath(u, m + n, path, pg)
<1>1. ASSUME NEW k \in 1 .. m + n, k \notin 1 .. m PROVE k - m \in 1 .. n /\ u[k] = s[k - m]
  <2>1. k - m \in 1 .. n /\ m + (k - m) = k
    BY <1>1
  <2> QED BY <2>1
<1>2. CASE path = <<>> /\ \A k \in 1 .. n : ~Titled(s[k], pg)
  <2>1. \A k \in 1 .. m + n : ~Titled(u[k], pg)
    BY <1>1, <1>2
  <2> QED BY <1>2, <2>1 DEF Beneath
<1>3. CASE \E t \in 1 .. n : Titled(s[t], pg) /\ path = <<s[t].words>> /\ \A k \in t + 1 .. n : ~Titled(s[k], pg)
  <2>1. PICK t \in 1 .. n : Titled(s[t], pg) /\ path = <<s[t].words>> /\ \A k \in t + 1 .. n : ~Titled(s[k], pg)
    BY <1>3
  <2>2. m + t \in 1 .. m + n /\ u[m + t] = s[t]
    OBVIOUS
  <2>3. ASSUME NEW k \in (m + t) + 1 .. m + n PROVE ~Titled(u[k], pg)
    <3>1. k \in 1 .. m + n /\ k \notin 1 .. m
      OBVIOUS
    <3>2. k - m \in t + 1 .. n
      OBVIOUS
    <3> QED BY <1>1, <2>1, <3>1, <3>2
  <2> QED BY <2>1, <2>2, <2>3 DEF Beneath
<1> QED BY <1>2, <1>3 DEF Beneath

LEMMA BeneathSame ==
  ASSUME NEW s, NEW u, NEW n \in Nat, \A k \in 1 .. n : u[k] = s[k], NEW path, NEW pg, Beneath(s, n, path, pg)
  PROVE  Beneath(u, n, path, pg)
<1>1. CASE path = <<>> /\ \A k \in 1 .. n : ~Titled(s[k], pg)
  BY <1>1 DEF Beneath
<1>2. CASE \E t \in 1 .. n : Titled(s[t], pg) /\ path = <<s[t].words>> /\ \A k \in t + 1 .. n : ~Titled(s[k], pg)
  <2>1. PICK t \in 1 .. n : Titled(s[t], pg) /\ path = <<s[t].words>> /\ \A k \in t + 1 .. n : ~Titled(s[k], pg)
    BY <1>2
  <2>2. \A k \in t + 1 .. n : k \in 1 .. n
    OBVIOUS
  <2>3. Titled(u[t], pg) /\ path = <<u[t].words>> /\ \A k \in t + 1 .. n : ~Titled(u[k], pg)
    BY <2>1, <2>2
  <2> QED BY <2>3 DEF Beneath
<1> QED BY <1>1, <1>2 DEF Beneath

\* One more block: a title, or beneath the title in force.
LEMMA BeneathNext ==
  ASSUME NEW u, NEW n \in Nat, NEW path, NEW newpath, NEW pg, Beneath(u, n, path, pg),
         u[n + 1].page = pg,
         \/ u[n + 1].kind = "heading" /\ newpath = <<u[n + 1].words>>
         \/ u[n + 1].kind # "heading" /\ newpath = path
  PROVE  Beneath(u, n + 1, newpath, pg)
<1>1. CASE u[n + 1].kind = "heading" /\ newpath = <<u[n + 1].words>>
  <2>1. n + 1 \in 1 .. n + 1 /\ Titled(u[n + 1], pg) /\ \A k \in (n + 1) + 1 .. n + 1 : ~Titled(u[k], pg)
    BY <1>1 DEF Titled
  <2> QED BY <1>1, <2>1 DEF Beneath
<1>2. CASE u[n + 1].kind # "heading" /\ newpath = path
  <2>1. ~Titled(u[n + 1], pg)
    BY <1>2 DEF Titled
  <2>2. CASE path = <<>> /\ \A k \in 1 .. n : ~Titled(u[k], pg)
    <3>1. \A k \in 1 .. n + 1 : ~Titled(u[k], pg)
      <4> SUFFICES ASSUME NEW k \in 1 .. n + 1 PROVE ~Titled(u[k], pg)
        OBVIOUS
      <4>1. k \in 1 .. n \/ k = n + 1
        OBVIOUS
      <4> QED BY <2>1, <2>2, <4>1
    <3> QED BY <1>2, <2>2, <3>1 DEF Beneath
  <2>3. CASE \E t \in 1 .. n : Titled(u[t], pg) /\ path = <<u[t].words>> /\ \A k \in t + 1 .. n : ~Titled(u[k], pg)
    <3>1. PICK t \in 1 .. n : Titled(u[t], pg) /\ path = <<u[t].words>> /\ \A k \in t + 1 .. n : ~Titled(u[k], pg)
      BY <2>3
    <3>2. t \in 1 .. n + 1
      OBVIOUS
    <3>3. \A k \in t + 1 .. n + 1 : ~Titled(u[k], pg)
      <4> SUFFICES ASSUME NEW k \in t + 1 .. n + 1 PROVE ~Titled(u[k], pg)
        OBVIOUS
      <4>1. k \in t + 1 .. n \/ k = n + 1
        OBVIOUS
      <4> QED BY <2>1, <3>1, <4>1
    <3> QED BY <1>2, <3>1, <3>2, <3>3 DEF Beneath
  <2> QED BY <2>2, <2>3 DEF Beneath
<1> QED BY <1>1, <1>2

\* One more block of a page.
LEMMA BlockJoins ==
  ASSUME NEW E, NEW blocks \in Seq(ScanBlocks(E)), NEW b \in ScanBlocks(E), NEW pg, NEW path, NEW newpath,
         BlocksOfPage(blocks, pg), Beneath(blocks, Len(blocks), path, pg),
         b.page = pg, b.path = newpath, CellsApart(b.cells),
         \/ b.kind = "heading" /\ newpath = <<b.words>>
         \/ b.kind # "heading" /\ newpath = path
  PROVE  BlocksOfPage(Append(blocks, b), pg) /\ Beneath(Append(blocks, b), Len(Append(blocks, b)), newpath, pg)
<1> DEFINE u == Append(blocks, b)
           n == Len(blocks)
<1>1. /\ n \in Nat /\ DOMAIN blocks = 1 .. n /\ u \in Seq(ScanBlocks(E)) /\ Len(u) = n + 1 /\ DOMAIN u = 1 .. n + 1
      /\ (\A k \in 1 .. n : u[k] = blocks[k]) /\ u[n + 1] = b
  <2>1. u \in Seq(ScanBlocks(E)) /\ Len(u) = n + 1 /\ (\A k \in 1 .. n : u[k] = blocks[k]) /\ u[n + 1] = b
    BY AppendProperties
  <2> HIDE DEF u
  <2> QED BY <2>1, LenProperties
<1> HIDE DEF u, n
<1>2. Beneath(u, n, path, pg)
  <2>1. Beneath(blocks, n, path, pg)
    BY DEF n
  <2> QED BY <1>1, <2>1, BeneathSame
<1>3. Beneath(u, n + 1, newpath, pg)
  BY <1>1, <1>2, BeneathNext
<1>4. ASSUME NEW i \in DOMAIN u PROVE u[i].page = pg /\ CellsApart(u[i].cells) /\ Beneath(u, i, u[i].path, pg)
  <2>1. CASE i \in 1 .. n
    <3>1. i \in Nat /\ u[i] = blocks[i] /\ blocks[i].page = pg /\ CellsApart(blocks[i].cells) /\ Beneath(blocks, i, blocks[i].path, pg)
      BY <1>1, <2>1 DEF BlocksOfPage
    <3>2. \A k \in 1 .. i : u[k] = blocks[k]
      BY <1>1, <2>1
    <3>3. Beneath(u, i, blocks[i].path, pg)
      BY <3>1, <3>2, BeneathSame
    <3> QED BY <3>1, <3>3
  <2>2. CASE i \notin 1 .. n
    <3>1. i = n + 1 /\ u[i] = b
      BY <1>1, <2>2
    <3> QED BY <1>3, <3>1
  <2> QED BY <2>1, <2>2
<1> QED BY <1>1, <1>3, <1>4 DEF BlocksOfPage, u

\* The items or lines of a page.
Readable(E, list) == list \in Seq(ToSet(list)) /\ \A x \in ToSet(list) : Worded1(E, x)

LEMMA PrefixText ==
  ASSUME NEW E, NEW list, Readable(E, list)
  PROVE  /\ Len(list) \in Nat /\ DOMAIN list = 1 .. Len(list) /\ (\A k \in 1 .. Len(list) : Worded1(E, list[k]))
         /\ TextOf(SubSeq(list, 1, 0)) = <<>> /\ SubSeq(list, 1, Len(list)) = list /\ TextOf(list) \in Seq(E)
         /\ \A k \in 1 .. Len(list) : TextOf(SubSeq(list, 1, k)) = TextOf(SubSeq(list, 1, k - 1)) \o list[k].words
<1> DEFINE B == ToSet(list)
           L == Len(list)
<1>1. /\ list \in Seq(B) /\ Worded(E, B) /\ L \in Nat /\ DOMAIN list = 1 .. L
      /\ \A k \in 1 .. L : list[k] \in B /\ Worded1(E, list[k])
  <2>1. list \in Seq(B) /\ Worded(E, B) /\ \A x \in B : Worded1(E, x)
    BY DEF Readable, Worded, Worded1
  <2> HIDE DEF B
  <2> QED BY <2>1
<1> HIDE DEF B
<1>2. SubSeq(list, 1, L) = list
  BY <1>1, SubSeqFull
<1>3. SubSeq(list, 1, 0) = <<>>
  BY SubSeqEmpty
<1>4. TextOf(<<>>) = <<>> /\ TextOf(list) \in Seq(E)
  BY <1>1, TextIsSeq
<1>5. ASSUME NEW k \in 1 .. L PROVE TextOf(SubSeq(list, 1, k)) = TextOf(SubSeq(list, 1, k - 1)) \o list[k].words
  <2> DEFINE s == SubSeq(list, 1, k - 1)
             u == SubSeq(list, 1, k)
             v == Append(s, list[k])
  <2>1. k - 1 \in Int /\ k \in Int /\ 1 \in Int /\ 1 <= k /\ k - 1 \in Nat
    BY <1>1
  <2>2. s \in Seq(B) /\ Len(s) = k - 1 /\ \A i \in 1 .. k - 1 : s[i] = list[i]
    <3>1. \A i \in 1 .. k - 1 : list[i] \in B
      BY <1>1
    <3>2. s \in Seq(B) /\ Len(s) = (IF 1 <= k - 1 THEN (k - 1) - 1 + 1 ELSE 0) /\ \A i \in 1 .. (k - 1) - 1 + 1 : s[i] = list[1 + i - 1]
      BY <2>1, <3>1, SubSeqProperties
    <3>3. \A i \in 1 .. k - 1 : i \in 1 .. (k - 1) - 1 + 1 /\ 1 + i - 1 = i
      BY <2>1
    <3> HIDE DEF s
    <3> QED BY <2>1, <3>2, <3>3
  <2>3. u \in Seq(B) /\ Len(u) = k /\ \A i \in 1 .. k : u[i] = list[i]
    <3>1. \A i \in 1 .. k : list[i] \in B
      BY <1>1
    <3>2. u \in Seq(B) /\ Len(u) = (IF 1 <= k THEN k - 1 + 1 ELSE 0) /\ \A i \in 1 .. k - 1 + 1 : u[i] = list[1 + i - 1]
      BY <2>1, <3>1, SubSeqProperties
    <3>3. \A i \in 1 .. k : i \in 1 .. k - 1 + 1 /\ 1 + i - 1 = i
      BY <2>1
    <3> HIDE DEF u
    <3> QED BY <2>1, <3>2, <3>3
  <2> HIDE DEF s, u
  <2>4. v \in Seq(B) /\ Len(v) = k /\ \A i \in 1 .. k : v[i] = list[i]
    <3>1. v \in Seq(B) /\ Len(v) = Len(s) + 1 /\ (\A i \in 1 .. Len(s) : v[i] = s[i]) /\ v[Len(s) + 1] = list[k]
      BY <1>1, <2>2, AppendProperties
    <3> HIDE DEF v
    <3>2. Len(v) = k /\ v[k] = list[k] /\ \A i \in 1 .. k - 1 : v[i] = list[i]
      BY <2>1, <2>2, <3>1
    <3> QED BY <2>1, <3>1, <3>2
  <2>5. u = v
    <3> HIDE DEF v
    <3> QED BY <2>3, <2>4, SeqEqual
  <2>6. TextOf(v) = TextOf(s) \o list[k].words
    BY <1>1, <2>2, TextAppend
  <2> QED BY <2>5, <2>6 DEF s, u
<1> HIDE DEF L
<1> QED BY <1>1, <1>2, <1>3, <1>4, <1>5 DEF L

\* A page as the engine hands it over.
ReadablePage(E, page) ==
    /\ Readable(E, page.items) /\ Readable(E, page.lines) /\ page.tables \in Seq(Markups)
    /\ \A k \in DOMAIN page.items : page.items[k].label \in ScanLabels

\* The items with a table among the first k, and the results that are left after
\* n of them.
TableItems(page, k) == {i \in 1 .. k : page.items[i].label = "table"}

TablesLeft(page, tables, n) ==
    /\ n \in Nat
    /\ Len(tables) = IF n <= Len(page.tables) THEN Len(page.tables) - n ELSE 0
    /\ \A i \in 1 .. Len(tables) : tables[i] = page.tables[n + i]

LEMMA TablesCounted ==
  ASSUME NEW page, NEW k \in Nat, k # 0
  PROVE  /\ Cardinality(TableItems(page, k)) \in Nat
         /\ Cardinality(TableItems(page, k)) = IF page.items[k].label = "table" THEN Cardinality(TableItems(page, k - 1)) + 1
                                                                                ELSE Cardinality(TableItems(page, k - 1))
<1> DEFINE before == TableItems(page, k - 1)
<1>1. IsFiniteSet(before)
  <2>1. IsFiniteSet(1 .. k - 1)
    BY FS_Interval
  <2>2. before \in SUBSET (1 .. k - 1)
    BY DEF TableItems
  <2> HIDE DEF before
  <2> QED BY <2>1, <2>2, FS_Subset
<1>2. k \notin before /\ 1 .. k = (1 .. k - 1) \cup {k} /\ k \notin 1 .. k - 1
  BY DEF TableItems
<1>3. TableItems(page, k) = IF page.items[k].label = "table" THEN before \cup {k} ELSE before
  BY <1>2 DEF TableItems
<1>4. IsFiniteSet(before \cup {k}) /\ Cardinality(before \cup {k}) = Cardinality(before) + 1 /\ Cardinality(before) \in Nat
  <2> HIDE DEF before
  <2> QED BY <1>1, <1>2, FS_AddElement, FS_CardinalityType
<1> HIDE DEF before
<1>5. CASE page.items[k].label = "table"
  BY <1>3, <1>4, <1>5 DEF before
<1>6. CASE page.items[k].label # "table"
  BY <1>3, <1>4, <1>6 DEF before
<1> QED BY <1>5, <1>6

\* The first table that is left is the one of the next item.
LEMMA TableIsNext ==
  ASSUME NEW page, page.tables \in Seq(Markups), NEW tables \in Seq(Markups), NEW n, TablesLeft(page, tables, n)
  PROVE  /\ tables # <<>> <=> n + 1 <= Len(page.tables)
         /\ tables # <<>> => Head(tables) = page.tables[n + 1] /\ TablesLeft(page, Tail(tables), n + 1)
         /\ tables = <<>> => TablesLeft(page, tables, n + 1)
<1> DEFINE L == Len(page.tables)
<1>1. L \in Nat /\ n \in Nat /\ Len(tables) \in Nat
  BY DEF TablesLeft
<1>2. tables # <<>> <=> Len(tables) > 0
  OBVIOUS
<1>3. Len(tables) > 0 <=> n + 1 <= L
  BY <1>1 DEF TablesLeft
<1>4. ASSUME tables # <<>> PROVE Head(tables) = page.tables[n + 1] /\ TablesLeft(page, Tail(tables), n + 1)
  <2>1. 1 \in 1 .. Len(tables)
    BY <1>1, <1>2, <1>4
  <2>2. Head(tables) = page.tables[n + 1]
    BY <1>4, <2>1 DEF TablesLeft
  <2>3. Len(tables) = L - n /\ n <= L
    BY <1>1, <1>2, <1>4 DEF TablesLeft
  <2>4. Tail(tables) \in Seq(Markups) /\ Len(Tail(tables)) = Len(tables) - 1 /\ \A i \in 1 .. Len(Tail(tables)) : Tail(tables)[i] = tables[i + 1]
    BY <1>4, HeadTailProperties
  <2> DEFINE rest == Tail(tables)
  <2> HIDE DEF rest, L
  <2>5. Len(rest) = L - (n + 1) /\ n + 1 <= L
    BY <1>1, <1>2, <1>3, <1>4, <2>3, <2>4 DEF rest
  <2>6. \A i \in 1 .. Len(rest) : rest[i] = page.tables[(n + 1) + i]
    <3> SUFFICES ASSUME NEW i \in 1 .. Len(rest) PROVE rest[i] = page.tables[(n + 1) + i]
      OBVIOUS
    <3>1. rest[i] = tables[i + 1] /\ i + 1 \in 1 .. Len(tables) /\ n + (i + 1) = (n + 1) + i
      <4>1. Len(rest) = Len(tables) - 1 /\ i \in 1 .. Len(Tail(tables)) /\ i \in Nat
        BY <1>1, <2>4 DEF rest
      <4>2. rest[i] = tables[i + 1]
        BY <2>4, <4>1 DEF rest
      <4>3. i + 1 \in 1 .. Len(tables) /\ n + (i + 1) = (n + 1) + i
        BY <1>1, <4>1
      <4> QED BY <4>2, <4>3
    <3>2. tables[i + 1] = page.tables[n + (i + 1)]
      BY <3>1 DEF TablesLeft
    <3> QED BY <3>1, <3>2
  <2> QED BY <1>1, <2>2, <2>5, <2>6 DEF TablesLeft, rest, L
<1>5. ASSUME tables = <<>> PROVE TablesLeft(page, tables, n + 1)
  BY <1>1, <1>2, <1>3, <1>5 DEF TablesLeft
<1> QED BY <1>2, <1>3, <1>4, <1>5

\* The page after its first k items.
PageSoFar(E, page, acc, k, pg) ==
    /\ acc \in PageAccs(E) /\ acc.page = pg
    /\ TablesLeft(page, acc.tables, Cardinality(TableItems(page, k)))
    /\ TextOf(acc.blocks) = TextOf(SubSeq(page.items, 1, k))
    /\ acc.blocks # <<>> <=> \E j \in 1 .. k : Leaves(page, j)
    /\ BlocksOfPage(acc.blocks, pg) /\ Beneath(acc.blocks, Len(acc.blocks), acc.path, pg)

LEMMA ItemTaken ==
  ASSUME NEW E, NEW page, ReadablePage(E, page), NEW pg, NEW k \in 1 .. Len(page.items), NEW acc, PageSoFar(E, page, acc, k - 1, pg)
  PROVE  PageSoFar(E, page, MapItem(acc, page.items[k]), k, pg)
<1> DEFINE item == page.items[k]
           new == MapItem(acc, item)
           n == Cardinality(TableItems(page, k - 1))
           n1 == Cardinality(TableItems(page, k))
           before == TextOf(SubSeq(page.items, 1, k - 1))
           now == TextOf(SubSeq(page.items, 1, k))
<1>1. /\ Len(page.items) \in Nat /\ k \in Nat /\ k # 0 /\ k \in DOMAIN page.items /\ Worded1(E, item) /\ item.label \in ScanLabels
      /\ now = before \o item.words
  <2> DEFINE list == page.items
  <2>1. Readable(E, list) /\ \A j \in DOMAIN list : list[j].label \in ScanLabels
    BY DEF ReadablePage
  <2>2. k \in 1 .. Len(list)
    OBVIOUS
  <2> HIDE DEF list
  <2>3. /\ Len(list) \in Nat /\ DOMAIN list = 1 .. Len(list) /\ (\A j \in 1 .. Len(list) : Worded1(E, list[j]))
        /\ \A j \in 1 .. Len(list) : TextOf(SubSeq(list, 1, j)) = TextOf(SubSeq(list, 1, j - 1)) \o list[j].words
    BY <2>1, PrefixText
  <2>4. /\ Worded1(E, list[k]) /\ list[k].label \in ScanLabels /\ k \in DOMAIN list /\ k \in Nat /\ k # 0 /\ Len(list) \in Nat
        /\ TextOf(SubSeq(list, 1, k)) = TextOf(SubSeq(list, 1, k - 1)) \o list[k].words
    <3>1. k \in Nat /\ k # 0
      BY <2>2, <2>3
    <3>2. Worded1(E, list[k]) /\ TextOf(SubSeq(list, 1, k)) = TextOf(SubSeq(list, 1, k - 1)) \o list[k].words
      BY <2>2, <2>3
    <3>3. list[k].label \in ScanLabels /\ k \in DOMAIN list
      BY <2>1, <2>2, <2>3
    <3> QED BY <2>3, <3>1, <3>2, <3>3
  <2> QED BY <2>4 DEF list
<1>2. /\ acc \in PageAccs(E) /\ acc.page = pg /\ TablesLeft(page, acc.tables, n) /\ TextOf(acc.blocks) = before
      /\ acc.blocks # <<>> <=> \E j \in 1 .. k - 1 : Leaves(page, j)
      /\ BlocksOfPage(acc.blocks, pg) /\ Beneath(acc.blocks, Len(acc.blocks), acc.path, pg)
  BY DEF PageSoFar
<1>3. n1 \in Nat /\ n1 = IF item.label = "table" THEN n + 1 ELSE n
  BY <1>1, TablesCounted
<1>4. acc.tables \in Seq(Markups) /\ acc.blocks \in Seq(ScanBlocks(E)) /\ page.tables \in Seq(Markups)
  BY <1>2 DEF PageAccs, ReadablePage
<1>5. Leaves(page, k) <=> MapsToBlock(acc.tables, item)
  <2>1. item.label = "table" => TableOf(page, k) = IF n + 1 <= Len(page.tables) THEN page.tables[n + 1] ELSE <<>>
    BY <1>3 DEF TableOf, TableItems
  <2>2. /\ acc.tables # <<>> <=> n + 1 <= Len(page.tables)
        /\ acc.tables # <<>> => Head(acc.tables) = page.tables[n + 1]
    <3> HIDE DEF n
    <3> QED BY <1>2, <1>4, TableIsNext
  <2>3. item.label = "table" => (TableOf(page, k) # <<>> <=> acc.tables # <<>> /\ Head(acc.tables) # <<>>)
    <3> HIDE DEF n
    <3> QED BY <2>1, <2>2
  <2> HIDE DEF n
  <2> QED BY <2>3 DEF Leaves, MapsToBlock
<1>6. ItemMade(E, acc, item, new)
  BY <1>1, <1>2, ItemMapped
<1> HIDE DEF new, item, n, n1, before, now
<1>7. new \in PageAccs(E) /\ new.page = pg
  BY <1>2, <1>6 DEF ItemMade
<1>8. TablesLeft(page, new.tables, n1)
  <2>1. new.tables = IF item.label = "table" /\ acc.tables # <<>> THEN Tail(acc.tables) ELSE acc.tables
    BY <1>6 DEF ItemMade
  <2>2. /\ acc.tables # <<>> => TablesLeft(page, Tail(acc.tables), n + 1)
        /\ acc.tables = <<>> => TablesLeft(page, acc.tables, n + 1)
    BY <1>2, <1>4, TableIsNext
  <2>3. CASE item.label = "table"
    BY <1>3, <2>1, <2>2, <2>3
  <2>4. CASE item.label # "table"
    BY <1>2, <1>3, <2>1, <2>4
  <2> QED BY <2>3, <2>4
<1>9. 1 .. k = (1 .. k - 1) \cup {k}
  BY <1>1
<1>10. CASE ~MapsToBlock(acc.tables, item)
  <2>1. item.words = <<>> /\ new.blocks = acc.blocks /\ new.path = acc.path
    BY <1>6, <1>10 DEF ItemMade
  <2>2. now = before
    <3>1. before \in Seq(E)
      BY <1>2, <1>4, TextIsSeq DEF Worded, ScanBlocks
    <3> QED BY <1>1, <2>1, <3>1, ConcatEmptySeq
  <2>3. (\E j \in 1 .. k : Leaves(page, j)) <=> \E j \in 1 .. k - 1 : Leaves(page, j)
    BY <1>5, <1>9, <1>10
  <2> QED BY <1>2, <1>7, <1>8, <2>1, <2>2, <2>3 DEF PageSoFar, n1, now, new, item
<1>11. CASE MapsToBlock(acc.tables, item)
  <2>1. PICK b \in ScanBlocks(E) : new.blocks = Append(acc.blocks, b) /\ Becomes(b, item, acc.page, acc.path, new.path)
    BY <1>6, <1>11 DEF ItemMade
  <2>2. /\ b.words = item.words /\ b.page = pg /\ b.path = new.path /\ CellsApart(b.cells)
        /\ \/ b.kind = "heading" /\ new.path = <<b.words>>
           \/ b.kind # "heading" /\ new.path = acc.path
    BY <1>2, <2>1 DEF Becomes
  <2>3. BlocksOfPage(new.blocks, pg) /\ Beneath(new.blocks, Len(new.blocks), new.path, pg)
    BY <1>2, <1>4, <2>1, <2>2, BlockJoins
  <2>4. TextOf(new.blocks) = now
    <3>1. Worded(E, ScanBlocks(E))
      BY DEF Worded, ScanBlocks
    <3>2. TextOf(Append(acc.blocks, b)) = TextOf(acc.blocks) \o b.words
      BY <1>4, <3>1, TextAppend
    <3> QED BY <1>1, <1>2, <2>1, <2>2, <3>2
  <2>5. new.blocks # <<>>
    BY <1>4, <2>1, AppendProperties
  <2>6. \E j \in 1 .. k : Leaves(page, j)
    BY <1>5, <1>9, <1>11
  <2> QED BY <1>7, <1>8, <2>3, <2>4, <2>5, <2>6 DEF PageSoFar, n1, now, new, item
<1> QED BY <1>10, <1>11

\* The items of a page, one after the other.
Itemised(s, base) == FoldLeft(MapItem, base, s)
ItemsIn(A, L, s) == \A a \in A : \A k \in 1 .. L : MapItem(a, s[k]) \in A

\* The page after each of its items.
LEMMA ItemsTrace ==
  ASSUME NEW A, NEW base \in A, NEW L \in Nat, NEW s, DOMAIN s = 1 .. L, ItemsIn(A, L, s)
  PROVE  \E g \in [0 .. L -> A] : /\ g[0] = base /\ Itemised(s, base) = g[L]
                                  /\ \A k \in 1 .. L : g[k] = MapItem(g[k - 1], s[k])
<1> DEFINE H == [p \in A \X (1 .. L) |-> MapItem(p[1], s[p[2]])]
           F(it) == [x \in SUBSET (1 .. L) |-> IF x = {} THEN base ELSE MapItem(it[x \ {Max(x)}], s[Max(x)])]
           f == CHOOSE it : it = F(it)
<1>1. H \in [A \X (1 .. L) -> A]
  BY DEF ItemsIn
<1>2. \A a \in A : \A k \in 1 .. L : H[<<a, k>>] = MapItem(a, s[k])
  OBVIOUS
<1>3. \A x \in SUBSET (1 .. L) : x # {} => Max(x) \in 1 .. L /\ x \ {Max(x)} \in SUBSET (1 .. L)
  BY PlacesMax
<1>4. \E it : it = F(it)
  <2>1. PICK it \in [SUBSET (1 .. L) -> A] : FoldsSets(it, base, L, H)
    <3> HIDE DEF H
    <3> QED BY <1>1, Recursion
  <2>2. it[{}] = base /\ \A x \in SUBSET (1 .. L) : x # {} => it[x] = H[<<it[x \ {Max(x)}], Max(x)>>]
    <3> HIDE DEF H
    <3> QED BY <2>1 DEF FoldsSets
  <2>3. ASSUME NEW x \in SUBSET (1 .. L), x # {} PROVE it[x] = MapItem(it[x \ {Max(x)}], s[Max(x)])
    <3> HIDE DEF H
    <3> QED BY <1>2, <1>3, <2>2, <2>3
  <2>4. it = F(it)
    <3> HIDE DEF H
    <3> QED BY <2>2, <2>3
  <2> QED BY <2>4
<1>5. f = F(f)
  <2> HIDE DEF F, H
  <2> QED BY <1>4
<1>6. Itemised(s, base) = f[1 .. L]
  BY DEF Itemised, FoldLeft, MapThenFoldSet
<1>7. f[{}] = base /\ \A x \in SUBSET (1 .. L) : x # {} => f[x] = MapItem(f[x \ {Max(x)}], s[Max(x)])
  <2> HIDE DEF f, H
  <2> QED BY <1>5
<1> HIDE DEF f, H
<1>8. FoldsFrom(f, A, L, H)
  BY <1>2, <1>3, <1>7 DEF FoldsFrom
<1>9. f[{}] = base
  BY <1>7
<1>10. base \in A
  OBVIOUS
<1>11. PICK g \in [0 .. L -> A] : Follows(g, base, L, H) /\ f[1 .. L] = g[L]
  <2> USE <1>1, <1>8, <1>9, <1>10
  <2> QED BY Unfold
<1>12. \A k \in 1 .. L : g[k] = MapItem(g[k - 1], s[k])
  <2> SUFFICES ASSUME NEW k \in 1 .. L PROVE g[k] = MapItem(g[k - 1], s[k])
    OBVIOUS
  <2>1. g[k - 1] \in A /\ g[k] = H[<<g[k - 1], k>>]
    BY <1>11 DEF Follows
  <2> QED BY <2>1, <1>2
<1> QED BY <1>6, <1>11, <1>12 DEF Follows

\* The lines of a page, one after the other.
Lined(s, base) == FoldLeft(MapLine, base, s)
LinesIn(A, L, s) == \A a \in A : \A k \in 1 .. L : MapLine(a, s[k]) \in A

\* The page after each of its lines.
LEMMA LinesTrace ==
  ASSUME NEW A, NEW base \in A, NEW L \in Nat, NEW s, DOMAIN s = 1 .. L, LinesIn(A, L, s)
  PROVE  \E g \in [0 .. L -> A] : /\ g[0] = base /\ Lined(s, base) = g[L]
                                  /\ \A k \in 1 .. L : g[k] = MapLine(g[k - 1], s[k])
<1> DEFINE H == [p \in A \X (1 .. L) |-> MapLine(p[1], s[p[2]])]
           F(it) == [x \in SUBSET (1 .. L) |-> IF x = {} THEN base ELSE MapLine(it[x \ {Max(x)}], s[Max(x)])]
           f == CHOOSE it : it = F(it)
<1>1. H \in [A \X (1 .. L) -> A]
  BY DEF LinesIn
<1>2. \A a \in A : \A k \in 1 .. L : H[<<a, k>>] = MapLine(a, s[k])
  OBVIOUS
<1>3. \A x \in SUBSET (1 .. L) : x # {} => Max(x) \in 1 .. L /\ x \ {Max(x)} \in SUBSET (1 .. L)
  BY PlacesMax
<1>4. \E it : it = F(it)
  <2>1. PICK it \in [SUBSET (1 .. L) -> A] : FoldsSets(it, base, L, H)
    <3> HIDE DEF H
    <3> QED BY <1>1, Recursion
  <2>2. it[{}] = base /\ \A x \in SUBSET (1 .. L) : x # {} => it[x] = H[<<it[x \ {Max(x)}], Max(x)>>]
    <3> HIDE DEF H
    <3> QED BY <2>1 DEF FoldsSets
  <2>3. ASSUME NEW x \in SUBSET (1 .. L), x # {} PROVE it[x] = MapLine(it[x \ {Max(x)}], s[Max(x)])
    <3> HIDE DEF H
    <3> QED BY <1>2, <1>3, <2>2, <2>3
  <2>4. it = F(it)
    <3> HIDE DEF H
    <3> QED BY <2>2, <2>3
  <2> QED BY <2>4
<1>5. f = F(f)
  <2> HIDE DEF F, H
  <2> QED BY <1>4
<1>6. Lined(s, base) = f[1 .. L]
  BY DEF Lined, FoldLeft, MapThenFoldSet
<1>7. f[{}] = base /\ \A x \in SUBSET (1 .. L) : x # {} => f[x] = MapLine(f[x \ {Max(x)}], s[Max(x)])
  <2> HIDE DEF f, H
  <2> QED BY <1>5
<1> HIDE DEF f, H
<1>8. FoldsFrom(f, A, L, H)
  BY <1>2, <1>3, <1>7 DEF FoldsFrom
<1>9. f[{}] = base
  BY <1>7
<1>10. base \in A
  OBVIOUS
<1>11. PICK g \in [0 .. L -> A] : Follows(g, base, L, H) /\ f[1 .. L] = g[L]
  <2> USE <1>1, <1>8, <1>9, <1>10
  <2> QED BY Unfold
<1>12. \A k \in 1 .. L : g[k] = MapLine(g[k - 1], s[k])
  <2> SUFFICES ASSUME NEW k \in 1 .. L PROVE g[k] = MapLine(g[k - 1], s[k])
    OBVIOUS
  <2>1. g[k - 1] \in A /\ g[k] = H[<<g[k - 1], k>>]
    BY <1>11 DEF Follows
  <2> QED BY <2>1, <1>2
<1> QED BY <1>6, <1>11, <1>12 DEF Follows


\* The page after its first k lines.
LinesSoFar(E, list, acc, k, pg) ==
    /\ acc \in PageAccs(E) /\ acc.page = pg
    /\ TextOf(acc.blocks) = TextOf(SubSeq(list, 1, k))
    /\ BlocksOfPage(acc.blocks, pg) /\ Beneath(acc.blocks, Len(acc.blocks), <<>>, pg)

\* What a line does to it.
LineMade(E, acc, line, new) ==
    /\ new \in PageAccs(E) /\ new.page = acc.page
    /\ \/ line.words = <<>> /\ new.blocks = acc.blocks
       \/ \E b \in ScanBlocks(E) : /\ new.blocks = Append(acc.blocks, b)
                                   /\ b.kind = "paragraph" /\ b.page = acc.page /\ b.path = <<>> /\ b.words = line.words /\ CellsApart(b.cells)

LEMMA LineMapped ==
  ASSUME NEW E, NEW acc \in PageAccs(E), NEW line, Worded1(E, line)
  PROVE  LineMade(E, acc, line, MapLine(acc, line))
<1> DEFINE new == MapLine(acc, line)
           b == ScanBlock(acc.page, <<>>, "paragraph", line)
<1>1. acc.page \in Nat /\ acc.blocks \in Seq(ScanBlocks(E)) /\ <<>> \in Seq(Seq(E)) /\ "paragraph" \in BlockKinds
  BY DEF PageAccs, BlockKinds
<1>2. b \in ScanBlocks(E) /\ b.kind = "paragraph" /\ b.page = acc.page /\ b.path = <<>> /\ b.words = line.words /\ CellsApart(b.cells)
  <2> DEFINE path == <<>>
  <2>1. path \in Seq(Seq(E))
    BY <1>1
  <2> HIDE DEF path
  <2>2. LET p == ScanBlock(acc.page, path, "paragraph", line) IN
        p \in ScanBlocks(E) /\ p.kind = "paragraph" /\ p.page = acc.page /\ p.path = path /\ p.words = line.words /\ CellsApart(p.cells)
    BY <1>1, <2>1, BlockMade
  <2> QED BY <2>2 DEF path
<1>3. CASE line.words = <<>>
  BY <1>3 DEF MapLine, LineMade
<1>4. CASE line.words # <<>>
  <2>1. new = [acc EXCEPT !.blocks = Append(@, b)]
    <3> HIDE DEF b
    <3> QED BY <1>4 DEF MapLine, b
  <2> HIDE DEF b
  <2>2. Append(acc.blocks, b) \in Seq(ScanBlocks(E))
    BY <1>1, <1>2, AppendProperties
  <2>3. new \in PageAccs(E) /\ new.page = acc.page /\ new.blocks = Append(acc.blocks, b)
    <3> HIDE DEF new
    <3> QED BY <2>1, <2>2 DEF PageAccs
  <2> HIDE DEF new
  <2> QED BY <1>2, <2>3 DEF LineMade, new
<1> QED BY <1>3, <1>4

LEMMA LineTaken ==
  ASSUME NEW E, NEW list, Readable(E, list), NEW pg, NEW k \in 1 .. Len(list), NEW acc, LinesSoFar(E, list, acc, k - 1, pg)
  PROVE  LinesSoFar(E, list, MapLine(acc, list[k]), k, pg)
<1> DEFINE line == list[k]
           new == MapLine(acc, line)
           before == TextOf(SubSeq(list, 1, k - 1))
           now == TextOf(SubSeq(list, 1, k))
           none == <<>>
<1>1. Worded1(E, line) /\ now = before \o line.words
  BY PrefixText
<1>2. /\ acc \in PageAccs(E) /\ acc.page = pg /\ TextOf(acc.blocks) = before /\ acc.blocks \in Seq(ScanBlocks(E))
      /\ BlocksOfPage(acc.blocks, pg) /\ Beneath(acc.blocks, Len(acc.blocks), none, pg)
  BY DEF LinesSoFar, PageAccs
<1>3. LineMade(E, acc, line, new)
  BY <1>1, <1>2, LineMapped
<1>4. Worded(E, ScanBlocks(E))
  BY DEF Worded, ScanBlocks
<1> HIDE DEF new, line, before, now, none
<1>5. new \in PageAccs(E) /\ new.page = pg
  BY <1>2, <1>3 DEF LineMade
<1>6. CASE line.words = <<>> /\ new.blocks = acc.blocks
  <2>1. before \in Seq(E)
    BY <1>2, <1>4, TextIsSeq
  <2>2. now = before
    BY <1>1, <1>6, <2>1, ConcatEmptySeq
  <2> QED BY <1>2, <1>5, <1>6, <2>2 DEF LinesSoFar, now, new, line, none
<1>7. ASSUME NEW b \in ScanBlocks(E), new.blocks = Append(acc.blocks, b), b.kind = "paragraph", b.page = acc.page, b.path = none,
             b.words = line.words, CellsApart(b.cells)
      PROVE  LinesSoFar(E, list, new, k, pg)
  <2>1. b.page = pg /\ b.path = none /\ CellsApart(b.cells) /\ b.kind # "heading" /\ none = none
    BY <1>2, <1>7
  <2>2. BlocksOfPage(new.blocks, pg) /\ Beneath(new.blocks, Len(new.blocks), none, pg)
    BY <1>2, <1>7, <2>1, BlockJoins
  <2>3. TextOf(Append(acc.blocks, b)) = TextOf(acc.blocks) \o b.words
    BY <1>2, <1>4, TextAppend
  <2>4. TextOf(new.blocks) = now
    BY <1>1, <1>2, <1>7, <2>3
  <2> QED BY <1>5, <2>2, <2>4 DEF LinesSoFar, now, none
<1>8. CASE \E b \in ScanBlocks(E) : /\ new.blocks = Append(acc.blocks, b)
                                    /\ b.kind = "paragraph" /\ b.page = acc.page /\ b.path = none /\ b.words = line.words /\ CellsApart(b.cells)
  <2>1. LinesSoFar(E, list, new, k, pg)
    BY <1>7, <1>8
  <2> QED BY <2>1 DEF new, line
<1>9. (line.words = <<>> /\ new.blocks = acc.blocks)
      \/ (\E b \in ScanBlocks(E) : /\ new.blocks = Append(acc.blocks, b)
                                   /\ b.kind = "paragraph" /\ b.page = acc.page /\ b.path = none /\ b.words = line.words /\ CellsApart(b.cells))
  BY <1>3 DEF LineMade, none
<1> QED BY <1>6, <1>8, <1>9

\* The start of a page.
PageStart(page, pg) == [blocks |-> <<>>, page |-> pg, path |-> <<>>, tables |-> page.tables]

LEMMA PageStarts ==
  ASSUME NEW E, NEW page, ReadablePage(E, page), NEW pg \in Nat
  PROVE  /\ PageStart(page, pg) \in PageAccs(E)
         /\ PageSoFar(E, page, PageStart(page, pg), 0, pg) /\ LinesSoFar(E, page.lines, PageStart(page, pg), 0, pg)
<1> DEFINE acc == PageStart(page, pg)
<1>1. acc \in PageAccs(E) /\ acc.blocks = <<>> /\ acc.page = pg /\ acc.path = <<>> /\ acc.tables = page.tables
  BY DEF PageStart, PageAccs, ReadablePage
<1>2. BlocksOfPage(<<>>, pg) /\ Beneath(<<>>, 0, <<>>, pg) /\ Len(<<>>) = 0
  BY DEF BlocksOfPage, Beneath
<1>3. TextOf(<<>>) = <<>>
  <2>1. <<>> \in Seq({}) /\ Worded(E, {})
    BY DEF Worded
  <2> QED BY <2>1, TextIsSeq
<1>4. TextOf(SubSeq(page.items, 1, 0)) = <<>> /\ TextOf(SubSeq(page.lines, 1, 0)) = <<>>
  BY PrefixText DEF ReadablePage
<1>5. TablesLeft(page, page.tables, Cardinality(TableItems(page, 0)))
  <2>1. TableItems(page, 0) = {}
    BY DEF TableItems
  <2>2. Cardinality({}) = 0
    BY FS_EmptySet
  <2> DEFINE list == page.tables
  <2>3. Len(list) \in Nat /\ \A i \in 1 .. Len(list) : 0 + i = i
    BY DEF ReadablePage
  <2> HIDE DEF list
  <2>4. Len(list) = (IF 0 <= Len(list) THEN Len(list) - 0 ELSE 0) /\ \A i \in 1 .. Len(list) : list[i] = list[0 + i]
    BY <2>3
  <2>5. TablesLeft(page, list, 0)
    BY <2>4 DEF TablesLeft, list
  <2>6. Cardinality(TableItems(page, 0)) = 0
    BY <2>1, <2>2
  <2> QED BY <2>5, <2>6 DEF list
<1> HIDE DEF acc
<1>6. PageSoFar(E, page, acc, 0, pg)
  <2>1. ~(\E j \in 1 .. 0 : Leaves(page, j))
    OBVIOUS
  <2> QED BY <1>1, <1>2, <1>3, <1>4, <1>5, <2>1 DEF PageSoFar
<1>7. LinesSoFar(E, page.lines, acc, 0, pg)
  BY <1>1, <1>2, <1>3, <1>4 DEF LinesSoFar
<1> QED BY <1>1, <1>6, <1>7 DEF acc

LEMMA ItemsTaken ==
  ASSUME NEW E, NEW page, ReadablePage(E, page), NEW pg \in Nat
  PROVE  PageSoFar(E, page, Itemised(page.items, PageStart(page, pg)), Len(page.items), pg)
<1> DEFINE list == page.items
           L == Len(list)
           A == PageAccs(E)
           base == PageStart(page, pg)
<1>1. L \in Nat /\ DOMAIN list = 1 .. L /\ \A k \in 1 .. L : Worded1(E, list[k]) /\ list[k].label \in ScanLabels
  <2>1. Readable(E, list) /\ \A k \in DOMAIN list : list[k].label \in ScanLabels
    BY DEF ReadablePage
  <2> HIDE DEF list
  <2> QED BY <2>1, PrefixText
<1>2. base \in A /\ PageSoFar(E, page, base, 0, pg)
  BY PageStarts
<1>3. ItemsIn(A, L, list)
  <2> SUFFICES ASSUME NEW a \in A, NEW k \in 1 .. L PROVE MapItem(a, list[k]) \in A
    BY DEF ItemsIn
  <2> HIDE DEF list, L
  <2>1. ItemMade(E, a, list[k], MapItem(a, list[k]))
    BY <1>1, ItemMapped
  <2> QED BY <2>1 DEF ItemMade
<1> HIDE DEF A, base, L
<1>4. PICK g \in [0 .. L -> A] : /\ g[0] = base /\ Itemised(list, base) = g[L]
                                 /\ \A k \in 1 .. L : g[k] = MapItem(g[k - 1], list[k])
  <2> HIDE DEF list
  <2>1. L \in Nat /\ DOMAIN list = 1 .. L /\ base \in A /\ ItemsIn(A, L, list)
    BY <1>1, <1>2, <1>3
  <2> QED BY <2>1, ItemsTrace
<1> DEFINE S == {k \in 0 .. L : PageSoFar(E, page, g[k], k, pg)}
<1>5. 0 \in S
  BY <1>1, <1>2, <1>4
<1>6. ASSUME NEW k \in 1 .. L, k - 1 \in S PROVE k \in S
  <2>1. PageSoFar(E, page, g[k - 1], k - 1, pg) /\ k \in 0 .. L /\ k \in 1 .. Len(page.items)
    BY <1>6 DEF L
  <2>2. PageSoFar(E, page, MapItem(g[k - 1], page.items[k]), k, pg)
    BY <2>1, ItemTaken
  <2>3. g[k] = MapItem(g[k - 1], page.items[k])
    BY <1>4
  <2> QED BY <2>1, <2>2, <2>3
<1>7. 0 .. L \subseteq S
  <2> HIDE DEF S
  <2> QED BY <1>1, <1>5, <1>6, Induct
<1>8. PageSoFar(E, page, g[L], L, pg)
  BY <1>1, <1>7
<1> QED BY <1>4, <1>8 DEF base, L

LEMMA LinesTaken ==
  ASSUME NEW E, NEW page, ReadablePage(E, page), NEW pg \in Nat
  PROVE  LinesSoFar(E, page.lines, Lined(page.lines, PageStart(page, pg)), Len(page.lines), pg)
<1> DEFINE list == page.lines
           L == Len(list)
           A == PageAccs(E)
           base == PageStart(page, pg)
<1>0. Readable(E, list)
  BY DEF ReadablePage
<1>2. base \in A /\ LinesSoFar(E, list, base, 0, pg)
  BY PageStarts
<1> HIDE DEF list
<1>1. L \in Nat /\ DOMAIN list = 1 .. L /\ \A k \in 1 .. L : Worded1(E, list[k])
  BY <1>0, PrefixText
<1>3. LinesIn(A, L, list)
  <2> SUFFICES ASSUME NEW a \in A, NEW k \in 1 .. L PROVE MapLine(a, list[k]) \in A
    BY DEF LinesIn
  <2> HIDE DEF L
  <2>1. LineMade(E, a, list[k], MapLine(a, list[k]))
    BY <1>1, LineMapped
  <2> QED BY <2>1 DEF LineMade
<1> HIDE DEF A, base, L
<1>4. PICK g \in [0 .. L -> A] : /\ g[0] = base /\ Lined(list, base) = g[L]
                                 /\ \A k \in 1 .. L : g[k] = MapLine(g[k - 1], list[k])
  <2>1. L \in Nat /\ DOMAIN list = 1 .. L /\ base \in A /\ LinesIn(A, L, list)
    BY <1>1, <1>2, <1>3
  <2> QED BY <2>1, LinesTrace
<1> DEFINE S == {k \in 0 .. L : LinesSoFar(E, list, g[k], k, pg)}
<1>5. 0 \in S
  BY <1>1, <1>2, <1>4
<1>6. ASSUME NEW k \in 1 .. L, k - 1 \in S PROVE k \in S
  <2>1. LinesSoFar(E, list, g[k - 1], k - 1, pg) /\ k \in 0 .. L /\ k \in 1 .. Len(list)
    BY <1>6 DEF L
  <2>2. LinesSoFar(E, list, MapLine(g[k - 1], list[k]), k, pg)
    BY <1>0, <2>1, LineTaken
  <2>3. g[k] = MapLine(g[k - 1], list[k])
    BY <1>4
  <2> QED BY <2>1, <2>2, <2>3
<1>7. 0 .. L \subseteq S
  <2> HIDE DEF S
  <2> QED BY <1>1, <1>5, <1>6, Induct
<1>8. LinesSoFar(E, list, g[L], L, pg)
  BY <1>1, <1>7
<1> QED BY <1>4, <1>8 DEF base, L, list

\* What is shown of a page: its items, or its lines where these show nothing.
PageText(page) == IF \E j \in DOMAIN page.items : Leaves(page, j) THEN page.items ELSE page.lines

\* The blocks of a page are its text, each beneath its title.
LEMMA PageMapped ==
  ASSUME NEW E, NEW page, ReadablePage(E, page), NEW offset, NEW pg \in Nat, PageNumber(page, offset) = pg
  PROVE  /\ PageBlocks(page, offset) \in Seq(ScanBlocks(E)) /\ BlocksOfPage(PageBlocks(page, offset), pg)
         /\ TextOf(PageBlocks(page, offset)) = TextOf(PageText(page)) /\ TextOf(PageText(page)) \in Seq(E)
<1> DEFINE parsed == Itemised(page.items, PageStart(page, pg))
           lined == Lined(page.lines, PageStart(page, pg))
           b == PageBlocks(page, offset)
<1>1. b = IF parsed.blocks # <<>> THEN parsed.blocks ELSE lined.blocks
  BY DEF PageBlocks, PageStart, Itemised, Lined
<1>2. PageSoFar(E, page, parsed, Len(page.items), pg)
  BY ItemsTaken
<1>3. LinesSoFar(E, page.lines, lined, Len(page.lines), pg)
  BY LinesTaken
<1>4. /\ DOMAIN page.items = 1 .. Len(page.items)
      /\ SubSeq(page.items, 1, Len(page.items)) = page.items /\ SubSeq(page.lines, 1, Len(page.lines)) = page.lines
      /\ TextOf(page.items) \in Seq(E) /\ TextOf(page.lines) \in Seq(E)
  BY PrefixText DEF ReadablePage
<1> HIDE DEF parsed, lined, b
<1>5. CASE \E j \in DOMAIN page.items : Leaves(page, j)
  <2>1. b = parsed.blocks /\ PageText(page) = page.items
    BY <1>1, <1>2, <1>4, <1>5 DEF PageSoFar, PageText
  <2> QED BY <1>2, <1>4, <2>1 DEF PageSoFar, PageAccs, b
<1>6. CASE ~(\E j \in DOMAIN page.items : Leaves(page, j))
  <2>1. b = lined.blocks /\ PageText(page) = page.lines
    BY <1>1, <1>2, <1>4, <1>6 DEF PageSoFar, PageText
  <2> QED BY <1>3, <1>4, <2>1 DEF LinesSoFar, PageAccs, b
<1> QED BY <1>5, <1>6

-----------------------------------------------------------------------------
(* A scan, page by page (OcrWorker).                                        *)

\* The blocks of several pages, and what they keep of them.
BlocksOfScan(blocks) ==
    /\ \A i, j \in DOMAIN blocks : i < j => blocks[i].page <= blocks[j].page
    /\ \A i \in DOMAIN blocks : CellsApart(blocks[i].cells) /\ Beneath(blocks, i, blocks[i].path, blocks[i].page)

\* One more page.
LEMMA PageJoins ==
  ASSUME NEW E, NEW old \in Seq(ScanBlocks(E)), NEW more \in Seq(ScanBlocks(E)), NEW pg \in Nat,
         BlocksOfScan(old), \A i \in DOMAIN old : old[i].page < pg, BlocksOfPage(more, pg)
  PROVE  /\ old \o more \in Seq(ScanBlocks(E)) /\ BlocksOfScan(old \o more)
         /\ \A i \in DOMAIN (old \o more) : (old \o more)[i].page <= pg
<1> DEFINE u == old \o more
           m == Len(old)
           n == Len(more)
<1>1. /\ m \in Nat /\ n \in Nat /\ DOMAIN old = 1 .. m /\ DOMAIN more = 1 .. n /\ u \in Seq(ScanBlocks(E)) /\ DOMAIN u = 1 .. m + n
      /\ \A i \in 1 .. m + n : u[i] = IF i <= m THEN old[i] ELSE more[i - m]
  <2>1. u \in Seq(ScanBlocks(E)) /\ Len(u) = m + n /\ \A i \in 1 .. m + n : u[i] = IF i <= m THEN old[i] ELSE more[i - m]
    BY ConcatProperties
  <2>2. m \in Nat /\ n \in Nat /\ DOMAIN old = 1 .. m /\ DOMAIN more = 1 .. n
    OBVIOUS
  <2> HIDE DEF u, m, n
  <2> QED BY <2>1, <2>2, LenProperties
<1>2. /\ \A i \in 1 .. m : old[i].page \in Nat /\ old[i].page < pg
      /\ \A i \in 1 .. n : more[i].page = pg /\ CellsApart(more[i].cells) /\ Beneath(more, i, more[i].path, pg)
  <2>1. \A i \in 1 .. m : old[i] \in ScanBlocks(E)
    BY <1>1
  <2>2. \A i \in 1 .. m : old[i].page \in Nat
    BY <2>1 DEF ScanBlocks
  <2> QED BY <1>1, <2>2 DEF BlocksOfPage
<1> HIDE DEF u, m, n
<1>3. \A k \in 1 .. m : u[k] = old[k]
  BY <1>1
<1>4. \A k \in 1 .. n : u[m + k] = more[k] /\ m + k \in 1 .. m + n
  <2> SUFFICES ASSUME NEW k \in 1 .. n PROVE u[m + k] = more[k] /\ m + k \in 1 .. m + n
    OBVIOUS
  <2>1. m + k \in 1 .. m + n /\ ~(m + k <= m) /\ (m + k) - m = k
    BY <1>1
  <2> QED BY <1>1, <2>1
<1>5. \A i \in 1 .. m + n : i \notin 1 .. m => i - m \in 1 .. n /\ m + (i - m) = i /\ u[i] = more[i - m]
  <2> SUFFICES ASSUME NEW i \in 1 .. m + n, i \notin 1 .. m PROVE i - m \in 1 .. n /\ m + (i - m) = i /\ u[i] = more[i - m]
    OBVIOUS
  <2>1. i - m \in 1 .. n /\ m + (i - m) = i
    BY <1>1
  <2> QED BY <1>4, <2>1
<1>6. \A i \in 1 .. m + n : u[i].page \in Nat /\ u[i].page <= pg /\ (i \notin 1 .. m => u[i].page = pg)
  BY <1>2, <1>3, <1>5
<1>7. ASSUME NEW i \in 1 .. m + n, NEW j \in 1 .. m + n, i < j PROVE u[i].page <= u[j].page
  <2>1. CASE j \in 1 .. m
    <3>1. i \in 1 .. m
      BY <1>1, <1>7, <2>1
    <3>2. old[i].page <= old[j].page
      BY <1>1, <1>7, <2>1, <3>1 DEF BlocksOfScan
    <3> QED BY <1>3, <2>1, <3>1, <3>2
  <2>2. CASE j \notin 1 .. m
    BY <1>6, <2>2
  <2> QED BY <2>1, <2>2
<1>8. ASSUME NEW i \in 1 .. m + n PROVE CellsApart(u[i].cells) /\ Beneath(u, i, u[i].path, u[i].page)
  <2>1. CASE i \in 1 .. m
    <3>1. u[i] = old[i] /\ CellsApart(old[i].cells) /\ Beneath(old, i, old[i].path, old[i].page) /\ i \in Nat
      <4>1. i \in DOMAIN old /\ u[i] = old[i] /\ i \in Nat
        BY <1>1, <1>3, <2>1
      <4> QED BY <4>1 DEF BlocksOfScan
    <3>2. \A k \in 1 .. i : u[k] = old[k]
      BY <1>1, <1>3, <2>1
    <3>3. Beneath(u, i, old[i].path, old[i].page)
      BY <3>1, <3>2, BeneathSame
    <3> QED BY <3>1, <3>3
  <2>2. CASE i \notin 1 .. m
    <3> DEFINE k == i - m
    <3>1. k \in 1 .. n /\ m + k = i /\ u[i] = more[k]
      BY <1>5, <2>2
    <3> HIDE DEF k
    <3>2. CellsApart(more[k].cells) /\ Beneath(more, k, more[k].path, pg) /\ more[k].page = pg /\ k \in Nat
      BY <1>2, <3>1
    <3>3. \A l \in 1 .. k : u[m + l] = more[l]
      <4>1. \A l \in 1 .. k : l \in 1 .. n
        BY <1>1, <3>1
      <4> QED BY <1>4, <4>1
    <3>4. \A l \in 1 .. m : ~Titled(u[l], pg)
      <4>1. \A l \in 1 .. m : old[l].page # pg
        BY <1>2
      <4> QED BY <1>3, <4>1 DEF Titled
    <3>5. Beneath(u, m + k, more[k].path, pg)
      BY <1>1, <3>2, <3>3, <3>4, BeneathLater
    <3> QED BY <3>1, <3>2, <3>5
  <2> QED BY <2>1, <2>2
<1>9. BlocksOfScan(u)
  BY <1>1, <1>7, <1>8 DEF BlocksOfScan
<1> QED BY <1>1, <1>6, <1>9 DEF u

\* A scan as the engine hands it over.
ReadableScan(E, pages) ==
    /\ pages \in Seq(ToSet(pages))
    /\ \A i \in DOMAIN pages : ReadablePage(E, pages[i]) /\ PageNumber(pages[i], i) \in Nat
    /\ \A i, j \in DOMAIN pages : i < j => PageNumber(pages[i], i) < PageNumber(pages[j], j)

PagesMapped(pages) == [i \in DOMAIN pages |-> PageBlocks(pages[i], i)]

\* All pages of a scan.
LEMMA PagesJoined ==
  ASSUME NEW E, NEW pages, ReadableScan(E, pages)
  PROVE  /\ FlattenSeq(PagesMapped(pages)) \in Seq(ScanBlocks(E)) /\ BlocksOfScan(FlattenSeq(PagesMapped(pages)))
         /\ TextOf(FlattenSeq(PagesMapped(pages))) = Words(pages)
<1> DEFINE L == Len(pages)
           B == ScanBlocks(E)
           per == PagesMapped(pages)
           tt == [i \in DOMAIN pages |-> TextOf(PageText(pages[i]))]
           num(i) == PageNumber(pages[i], i)
<1>1. L \in Nat /\ DOMAIN pages = 1 .. L
  BY DEF ReadableScan
<1>2. \A i \in 1 .. L : per[i] \in Seq(B) /\ BlocksOfPage(per[i], num(i)) /\ TextOf(per[i]) = tt[i] /\ tt[i] \in Seq(E) /\ num(i) \in Nat
  <2> SUFFICES ASSUME NEW i \in 1 .. L
               PROVE  per[i] \in Seq(B) /\ BlocksOfPage(per[i], num(i)) /\ TextOf(per[i]) = tt[i] /\ tt[i] \in Seq(E) /\ num(i) \in Nat
    OBVIOUS
  <2>1. ReadablePage(E, pages[i]) /\ num(i) \in Nat /\ i \in DOMAIN pages
    BY <1>1 DEF ReadableScan
  <2>2. per[i] = PageBlocks(pages[i], i) /\ tt[i] = TextOf(PageText(pages[i]))
    BY <2>1 DEF PagesMapped
  <2> DEFINE pg == num(i)
  <2>3. PageNumber(pages[i], i) = pg
    OBVIOUS
  <2> HIDE DEF pg, per, tt
  <2>4. PageBlocks(pages[i], i) \in Seq(B) /\ BlocksOfPage(PageBlocks(pages[i], i), pg)
        /\ TextOf(PageBlocks(pages[i], i)) = TextOf(PageText(pages[i])) /\ TextOf(PageText(pages[i])) \in Seq(E)
    <3>1. pg \in Nat /\ ReadablePage(E, pages[i])
      BY <2>1 DEF pg
    <3> QED BY <2>3, <3>1, PageMapped
  <2> QED BY <2>1, <2>2, <2>4 DEF pg
<1>3. per \in Seq(Seq(B)) /\ Len(per) = L /\ tt \in Seq(Seq(E)) /\ Len(tt) = L
  <2>1. DOMAIN per = 1 .. L /\ DOMAIN tt = 1 .. L
    BY <1>1 DEF PagesMapped
  <2>2. per \in [1 .. L -> Seq(B)] /\ tt \in [1 .. L -> Seq(E)]
    <3>1. per = [i \in 1 .. L |-> per[i]] /\ tt = [i \in 1 .. L |-> tt[i]]
      BY <1>1 DEF PagesMapped
    <3> HIDE DEF per, tt, B
    <3> QED BY <1>2, <3>1
  <2>3. per \in Seq(Seq(B)) /\ tt \in Seq(Seq(E))
    <3> HIDE DEF per, tt, B
    <3> QED BY <1>1, <2>2, SeqDef
  <2> HIDE DEF per, tt, B
  <2> QED BY <1>1, <2>1, <2>3, LenProperties
<1>4. Words(pages) = FlattenSeq(tt)
  BY DEF Words, PageText
<1>5. \A i, j \in 1 .. L : i < j => num(i) < num(j)
  BY <1>1 DEF ReadableScan
<1> HIDE DEF L, per, tt, num
<1>6. PICK g \in [0 .. L -> Seq(B)] : Accumulates(g, per) /\ FlattenSeq(per) = g[L]
  <2> HIDE DEF B
  <2> QED BY <1>3, FlattenTrace
<1>7. PICK h \in [0 .. L -> Seq(E)] : Accumulates(h, tt) /\ FlattenSeq(tt) = h[L]
  BY <1>3, FlattenTrace
<1>8. g[0] = <<>> /\ h[0] = <<>> /\ \A k \in 1 .. L : g[k] = g[k - 1] \o per[k] /\ h[k] = h[k - 1] \o tt[k]
  BY <1>3, <1>6, <1>7 DEF Accumulates
<1>9. Worded(E, B)
  BY DEF Worded, ScanBlocks
<1> HIDE DEF B
<1> DEFINE Good(k) == BlocksOfScan(g[k]) /\ TextOf(g[k]) = h[k] /\ \A i \in DOMAIN g[k] : k > 0 /\ g[k][i].page <= num(k)
           S == {k \in 0 .. L : Good(k)}
<1>10. 0 \in S
  <2>1. BlocksOfScan(<<>>) /\ DOMAIN <<>> = {}
    BY DEF BlocksOfScan
  <2>2. TextOf(<<>>) = <<>>
    <3>1. <<>> \in Seq(B)
      OBVIOUS
    <3> QED BY <1>9, <3>1, TextIsSeq
  <2>3. Good(0)
    BY <1>8, <2>1, <2>2
  <2> QED BY <1>1, <2>3
<1>11. ASSUME NEW k \in 1 .. L, k - 1 \in S PROVE k \in S
  <2>1. k \in Nat /\ k > 0 /\ k - 1 \in 0 .. L /\ k \in 0 .. L /\ g[k - 1] \in Seq(B) /\ num(k) \in Nat
    BY <1>1, <1>2
  <2>2. Good(k - 1)
    BY <1>11
  <2> DEFINE old == g[k - 1]
             more == per[k]
             pg == num(k)
  <2>3. BlocksOfScan(old) /\ TextOf(old) = h[k - 1] /\ old \in Seq(B) /\ more \in Seq(B) /\ BlocksOfPage(more, pg) /\ TextOf(more) = tt[k] /\ pg \in Nat
    BY <1>2, <2>1, <2>2
  <2>4. \A i \in DOMAIN old : old[i].page < pg
    <3> SUFFICES ASSUME NEW i \in DOMAIN old PROVE old[i].page < pg
      OBVIOUS
    <3>1. k - 1 > 0 /\ old[i].page <= num(k - 1)
      BY <2>2
    <3>2. k - 1 \in 1 .. L /\ k - 1 < k
      BY <2>1, <3>1
    <3>3. num(k - 1) < num(k) /\ num(k - 1) \in Nat
      BY <1>2, <1>5, <3>2
    <3>4. old[i] \in B
      BY <2>3
    <3>5. old[i].page \in Nat
      BY <3>4 DEF B, ScanBlocks
    <3> HIDE DEF old
    <3> QED BY <2>1, <3>1, <3>3, <3>5
  <2> HIDE DEF old, more, pg
  <2>5. BlocksOfScan(old \o more) /\ \A i \in DOMAIN (old \o more) : (old \o more)[i].page <= pg
    BY <2>3, <2>4, PageJoins DEF B
  <2>6. TextOf(old \o more) = TextOf(old) \o TextOf(more)
    <3>1. old \in Seq(B) /\ more \in Seq(B)
      BY <2>3
    <3> QED BY <1>9, <3>1, TextConcat
  <2>7. g[k] = old \o more /\ h[k] = h[k - 1] \o tt[k]
    BY <1>8 DEF old, more
  <2>8. Good(k)
    BY <2>1, <2>3, <2>5, <2>6, <2>7 DEF pg
  <2> HIDE DEF Good
  <2> QED BY <2>1, <2>8
<1>12. Good(L)
  <2>1. 0 .. L \subseteq S
    <3> HIDE DEF S
    <3> QED BY <1>1, <1>10, <1>11, Induct
  <2> QED BY <1>1, <2>1
<1>13. L \in 0 .. L
  BY <1>1
<1> QED BY <1>4, <1>6, <1>7, <1>12, <1>13 DEF per, B

\* The title in force is the last one.
TitlesOf(u, n, pg) == {k \in 1 .. n : u[k].kind = "heading" /\ u[k].page = pg}
SaysTheSame(u, s, n) == \A k \in 1 .. n : u[k].kind = s[k].kind /\ u[k].page = s[k].page /\ u[k].words = s[k].words

LEMMA BeneathLast ==
  ASSUME NEW s, NEW u, NEW n \in Nat, NEW path, NEW pg, Beneath(s, n, path, pg),
         SaysTheSame(u, s, n), NEW titles, titles = TitlesOf(u, n, pg)
  PROVE  path = IF titles = {} THEN <<>> ELSE <<u[Max(titles)].words>>
<1>1. \A k \in 1 .. n : k \in titles <=> Titled(s[k], pg)
  BY DEF Titled, TitlesOf, SaysTheSame
<1>2. titles \subseteq 1 .. n
  BY DEF TitlesOf
<1>3. CASE path = <<>> /\ \A k \in 1 .. n : ~Titled(s[k], pg)
  <2>1. titles = {}
    BY <1>1, <1>2, <1>3
  <2> QED BY <1>3, <2>1
<1>4. CASE \E t \in 1 .. n : Titled(s[t], pg) /\ path = <<s[t].words>> /\ \A k \in t + 1 .. n : ~Titled(s[k], pg)
  <2>1. PICK t \in 1 .. n : Titled(s[t], pg) /\ path = <<s[t].words>> /\ \A k \in t + 1 .. n : ~Titled(s[k], pg)
    BY <1>4
  <2>2. t \in titles /\ \A k \in titles : k <= t
    <3>1. ASSUME NEW k \in titles, ~(k <= t) PROVE FALSE
      <4>1. k \in t + 1 .. n /\ k \in 1 .. n
        BY <1>2, <3>1
      <4> QED BY <1>1, <2>1, <3>1, <4>1
    <3> QED BY <1>1, <2>1, <3>1
  <2>3. titles \subseteq 0 .. n /\ titles # {}
    BY <1>2, <2>2
  <2>4. Max(titles) \in titles /\ t <= Max(titles)
    BY <2>2, <2>3, GreatestOf
  <2>5. Max(titles) = t
    BY <1>2, <2>2, <2>4
  <2>6. u[t].words = s[t].words
    BY DEF SaysTheSame
  <2> QED BY <2>1, <2>3, <2>5, <2>6
<1> QED BY <1>3, <1>4 DEF Beneath

\* Every scan of a request is one.
LEMMA ScansReadable ==
  ASSUME NEW r \in Requests
  PROVE  \E E : ReadableScan(E, Scans[r])
<1> DEFINE pages == Scans[r]
           Pieces == UNION {ToSet(p.items) \cup ToSet(p.lines) : p \in ToSet(pages)}
           E == UNION {ToSet(x.words) : x \in Pieces}
<1>1. /\ pages \in Seq(ToSet(pages))
      /\ \A i \in DOMAIN pages : Scanned(pages[i]) /\ PageNumber(pages[i], i) \in Nat
      /\ \A i, j \in DOMAIN pages : i < j => PageNumber(pages[i], i) < PageNumber(pages[j], j)
  BY OcrAssumption
<1> HIDE DEF pages
<1>2. ASSUME NEW i \in DOMAIN pages PROVE ReadablePage(E, pages[i])
  <2> DEFINE p == pages[i]
  <2>1. Scanned(p) /\ p \in ToSet(pages)
    BY <1>1 DEF ToSet
  <2> HIDE DEF p
  <2>2. ASSUME NEW x \in ToSet(p.items) \cup ToSet(p.lines) PROVE Worded1(E, x)
    <3>1. x.words \in Seq(ToSet(x.words)) /\ x.score \in Int
      BY <2>1 DEF Scanned
    <3>2. x \in Pieces
      BY <2>1
    <3>3. ToSet(x.words) \subseteq E
      <4> HIDE DEF Pieces
      <4> QED BY <3>2
    <3> HIDE DEF E
    <3>4. Seq(ToSet(x.words)) \subseteq Seq(E)
      BY <3>3, SeqMonotonic
    <3> QED BY <3>1, <3>4 DEF Worded1
  <2> HIDE DEF E
  <2>3. Readable(E, p.items) /\ Readable(E, p.lines)
    BY <2>1, <2>2 DEF Readable, Scanned
  <2>4. p.tables \in Seq(Markups)
    <3>1. p.tables \in Seq(ToSet(p.tables)) /\ \A t \in ToSet(p.tables) : Markup(t)
      BY <2>1 DEF Scanned
    <3>2. \A t \in ToSet(p.tables) : t \in Seq(MarkupCells)
      BY <3>1 DEF Markup, MarkupCells
    <3>3. ToSet(p.tables) \subseteq Markups
      BY <3>1, <3>2 DEF Markups
    <3>4. Seq(ToSet(p.tables)) \subseteq Seq(Markups)
      BY <3>3, SeqMonotonic
    <3> QED BY <3>1, <3>4
  <2>5. \A k \in DOMAIN p.items : p.items[k].label \in ScanLabels
    <3>1. \A x \in ToSet(p.items) : x.label \in {"text", "title", "list", "key_value", "table", "image"}
      BY <2>1 DEF Scanned
    <3> QED BY <3>1 DEF ToSet, ScanLabels
  <2> QED BY <2>3, <2>4, <2>5 DEF ReadablePage, p
<1> HIDE DEF E
<1>3. ReadableScan(E, pages)
  BY <1>1, <1>2 DEF ReadableScan
<1> QED BY <1>3 DEF pages

\* What is said of a result.
FaithfulTo(blocks, pages) ==
    /\ TextOf(blocks) = Words(pages)
    /\ \A i, j \in DOMAIN blocks : i < j => blocks[i].page <= blocks[j].page
    /\ \A i \in DOMAIN blocks :
          LET cells == blocks[i].cells
              titles == {k \in 1 .. i : blocks[k].kind = "heading" /\ blocks[k].page = blocks[i].page}
          IN  /\ blocks[i].path = IF titles = {} THEN <<>> ELSE <<blocks[Max(titles)].words>>
              /\ \A x, y \in DOMAIN cells : x # y =>
                    <<cells[x].row, cells[x].column>> \notin Span(cells[y], cells[y].column)

\* Numbering the blocks changes nothing else.
LEMMA ResultFaithful ==
  ASSUME NEW E, NEW pages, ReadableScan(E, pages)
  PROVE  FaithfulTo(MapResults(pages).blocks, pages)
<1> DEFINE all == FlattenSeq(PagesMapped(pages))
           u == [i \in DOMAIN all |-> [all[i] EXCEPT !.order = i]]
           L == Len(all)
<1>1. MapResults(pages).blocks = u
  BY DEF MapResults, PagesMapped
<1>2. all \in Seq(ScanBlocks(E)) /\ BlocksOfScan(all) /\ TextOf(all) = Words(pages)
  BY PagesJoined
<1> HIDE DEF all
<1>3. L \in Nat /\ DOMAIN all = 1 .. L /\ \A i \in 1 .. L : all[i] \in ScanBlocks(E)
  BY <1>2
<1>4. DOMAIN u = 1 .. L
  BY <1>3
<1>5. ASSUME NEW i \in 1 .. L
      PROVE  /\ u[i].kind = all[i].kind /\ u[i].page = all[i].page /\ u[i].words = all[i].words
             /\ u[i].path = all[i].path /\ u[i].cells = all[i].cells
  <2>1. u[i] = [all[i] EXCEPT !.order = i] /\ all[i] \in ScanBlocks(E)
    BY <1>3
  <2> HIDE DEF u
  <2> QED BY <2>1 DEF ScanBlocks
<1> HIDE DEF u, L
<1>6. TextOf(u) = TextOf(all)
  <2>1. [i \in DOMAIN u |-> u[i].words] = [i \in DOMAIN all |-> all[i].words]
    BY <1>3, <1>4, <1>5
  <2> QED BY <2>1 DEF TextOf
<1>7. ASSUME NEW i \in DOMAIN u, NEW j \in DOMAIN u, i < j PROVE u[i].page <= u[j].page
  <2>1. all[i].page <= all[j].page
    BY <1>2, <1>3, <1>4, <1>7 DEF BlocksOfScan
  <2> QED BY <1>4, <1>5, <2>1
<1>8. ASSUME NEW i \in DOMAIN u, NEW titles, titles = {k \in 1 .. i : u[k].kind = "heading" /\ u[k].page = u[i].page}
      PROVE  u[i].path = IF titles = {} THEN <<>> ELSE <<u[Max(titles)].words>>
  <2> DEFINE pg == u[i].page
             path == u[i].path
  <2>1. i \in Nat /\ i \in 1 .. L /\ \A k \in 1 .. i : k \in 1 .. L
    BY <1>3, <1>4
  <2>2. Beneath(all, i, path, pg)
    <3>1. Beneath(all, i, all[i].path, all[i].page)
      BY <1>2, <1>3, <2>1 DEF BlocksOfScan
    <3> QED BY <1>5, <2>1, <3>1
  <2>3. titles = TitlesOf(u, i, pg)
    BY <1>8 DEF TitlesOf
  <2>4. SaysTheSame(u, all, i)
    BY <1>5, <2>1 DEF SaysTheSame
  <2> HIDE DEF pg, path
  <2>5. path = IF titles = {} THEN <<>> ELSE <<u[Max(titles)].words>>
    BY <2>1, <2>2, <2>3, <2>4, BeneathLast
  <2> QED BY <2>5 DEF path
<1>9. ASSUME NEW i \in DOMAIN u PROVE CellsApart(u[i].cells)
  <2>1. CellsApart(all[i].cells) /\ i \in 1 .. L
    BY <1>2, <1>3, <1>4 DEF BlocksOfScan
  <2> QED BY <1>5, <2>1
<1>10. FaithfulTo(u, pages)
  <2>1. \A i \in DOMAIN u :
          LET titles == {k \in 1 .. i : u[k].kind = "heading" /\ u[k].page = u[i].page}
          IN  u[i].path = IF titles = {} THEN <<>> ELSE <<u[Max(titles)].words>>
    BY <1>8
  <2>2. \A i \in DOMAIN u : LET cells == u[i].cells IN
          \A x, y \in DOMAIN cells : x # y => <<cells[x].row, cells[x].column>> \notin Span(cells[y], cells[y].column)
    BY <1>9 DEF CellsApart
  <2>3. TextOf(u) = Words(pages) /\ \A i, j \in DOMAIN u : i < j => u[i].page <= u[j].page
    BY <1>2, <1>6, <1>7
  <2> QED BY <2>1, <2>2, <2>3 DEF FaithfulTo
<1> QED BY <1>1, <1>10

LEMMA OcrResultHolds == OcrResultFaithful
<1>1. ASSUME NEW r \in Requests PROVE FaithfulTo(MapResults(Scans[r]).blocks, Scans[r])
  <2>1. PICK E : ReadableScan(E, Scans[r])
    BY ScansReadable
  <2> QED BY <2>1, ResultFaithful
<1> QED BY <1>1 DEF FaithfulTo, OcrResultFaithful

-----------------------------------------------------------------------------
(* The extraction.                                                          *)

\* Only the extraction moves the worker, and every other task finds it at rest.
LEMMA OcrMoves == (Init => OcrInit) /\ ([Next]_vars => [OcrNext]_ocrVars)
<1>1. Init => OcrInit
  BY DEF Init
<1>2. ASSUME [Next]_vars PROVE [OcrNext]_ocrVars
  <2>1. CASE UNCHANGED vars
    BY <2>1 DEF vars, ocrVars
  <2>2. CASE Next
    BY <2>2 DEF Next
  <2> QED BY <1>2, <2>1, <2>2
<1> QED BY <1>1, <1>2

LEMMA OcrStarts == ASSUME OcrInit PROVE OcrInv
  <1>1. thread = NoThread /\ NoThread \in [of : Requests \cup {Nobody}, ended : BOOLEAN, ok : BOOLEAN]
        /\ NoThread.of = Nobody /\ NoThread.ended
    BY DEF OcrInit, NoThread
  <1>2. call \in [Requests -> Progress] /\ (\A r \in Requests : call[r] = "idle")
    BY DEF OcrInit, Progress
  <1> QED
    BY <1>1, <1>2, OcrAssumption DEF OcrInit, OcrInv, Unstarted

\* One extraction at a time, however many requests come in, run out of time and
\* end the process: nobody waits for work that nobody does, and the only files
\* are those of the running extraction and of forced exits.  And for every scan a
\* result has the words of the pages once each and in their order, on the page
\* they stand on and under its last title, and no cell of a table begins inside
\* another (extract, _run_extraction, schedule_forced_exit,
\* map_ppstructure_results, _map_parsing_blocks, _TableParser).
THEOREM OcrTheorem == Spec => []OcrIsFaithful
<1>1. OcrInit => OcrInv
  BY OcrStarts
<1>2. OcrInv /\ [OcrNext]_ocrVars => OcrInv'
  BY OcrStep
<1>3. OcrInv => OcrIsFaithful
  BY OcrResultHolds DEF OcrInv, OcrSlotHeld, OcrIsFaithful
<1> QED
  BY <1>1, <1>2, <1>3, OcrMoves, PTL DEF Spec

================================================================================
