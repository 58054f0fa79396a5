----------------------------- MODULE UnixFSProofs -----------------------------
(***************************************************************************)
(* Files as trees of blocks, for any files, chunk size, width of the tree, *)
(* slices, buffers, writers and readers.  The invariant speaks of a        *)
(* function c that gives every block its content.  c is not computed from  *)
(* the tree, which would take a recursion over it: it exists, because each *)
(* block is made after its children and c is extended to it then.          *)
(***************************************************************************)
EXTENDS UnixFS, SequenceTheorems, WellFoundedInduction, TLAPS

-----------------------------------------------------------------------------
(* Numbers.  The library's induction theorems take an operator; its        *)
(* theorem about least elements takes a set, which serves as well.         *)

LEMMA Least ==
  ASSUME NEW T, T \subseteq Nat, T # {}
  PROVE  \E x \in T : \A y \in T : ~(y < x)
<1>1. \E x \in T : \A y \in T : ~(<<y, x>> \in OpToRel(<, Nat))
  BY NatLessThanWellFounded, WFMin, Zenon
<1> QED
  BY <1>1 DEF OpToRel

(* A set of numbers that holds 0 and with each number the next holds them  *)
(* all: the least of those left out would follow one that is in.           *)
LEMMA Induct ==
  ASSUME NEW T, 0 \in T, \A n \in Nat : n \in T => n + 1 \in T
  PROVE  Nat \subseteq T
<1> SUFFICES ASSUME Nat \ T # {} PROVE FALSE
  OBVIOUS
<1>1. PICK x \in Nat \ T : \A y \in Nat \ T : ~(y < x)
  BY Least
<1>2. x # 0 /\ x - 1 \in Nat /\ x - 1 < x
  BY <1>1
<1>3. x - 1 \in T
  BY <1>1, <1>2
<1> QED
  BY <1>1, <1>2, <1>3

(* Numbers up to n have a greatest.                                        *)
LEMMA Greatest ==
  ASSUME NEW n \in Nat, NEW T, T \subseteq 1 .. n, T # {}
  PROVE  \E x \in T : \A y \in T : y <= x
<1> DEFINE B == {j \in Nat : \A y \in T : y <= j}
<1>1. n \in B
  OBVIOUS
<1>2. PICK x \in B : \A y \in B : ~(y < x)
  BY <1>1, Least
<1>3. x \in T
  <2> SUFFICES ASSUME x \notin T PROVE FALSE
    OBVIOUS
  <2>1. x \in Nat /\ \A y \in T : y \in Nat /\ y <= x /\ y # x /\ y >= 1
    BY <1>2
  <2>2. PICK y \in T : TRUE
    OBVIOUS
  <2>3. x - 1 \in B
    BY <2>1, <2>2
  <2> QED
    BY <1>2, <2>1, <2>3
<1> QED
  BY <1>2, <1>3

-----------------------------------------------------------------------------
(* Running sums.                                                           *)

LEMMA BeforeExists ==
  ASSUME NEW s
  PROVE  \A n \in Nat : \E g : g = [i \in 0 .. n |-> IF i = 0 THEN 0 ELSE g[i - 1] + s[i]]
<1> DEFINE T == {n \in Nat : \E g : g = [i \in 0 .. n |-> IF i = 0 THEN 0 ELSE g[i - 1] + s[i]]}
<1>1. 0 \in T
  <2> DEFINE g == [i \in 0 .. 0 |-> 0]
  <2>1. g = [i \in 0 .. 0 |-> IF i = 0 THEN 0 ELSE g[i - 1] + s[i]]
    OBVIOUS
  <2> QED
    BY <2>1
<1>2. ASSUME NEW n \in Nat, n \in T PROVE n + 1 \in T
  <2>1. PICK g : g = [i \in 0 .. n |-> IF i = 0 THEN 0 ELSE g[i - 1] + s[i]]
    BY <1>2
  <2> DEFINE h == [i \in 0 .. n + 1 |-> IF i = n + 1 THEN g[n] + s[n + 1] ELSE g[i]]
  <2>2. ASSUME NEW i \in 0 .. n + 1 PROVE h[i] = IF i = 0 THEN 0 ELSE h[i - 1] + s[i]
    BY <2>1
  <2>3. h = [i \in 0 .. n + 1 |-> IF i = 0 THEN 0 ELSE h[i - 1] + s[i]]
    BY <2>2
  <2> HIDE DEF h
  <2>4. \E gg : gg = [i \in 0 .. n + 1 |-> IF i = 0 THEN 0 ELSE gg[i - 1] + s[i]]
    BY <2>3, Zenon
  <2> QED
    BY <2>4
<1> HIDE DEF T
<1>3. Nat \subseteq T
  BY <1>1, <1>2, Induct
<1> QED
  BY <1>3 DEF T

(* Before is what its definition says: TLA+ gives a recursive function its *)
(* value only where there is one, and BeforeExists shows there is.         *)
LEMMA BeforeDef ==
  ASSUME NEW s \in Seq(Nat)
  PROVE  /\ Before(s) \in [0 .. Len(s) -> Nat]
         /\ Before(s)[0] = 0
         /\ \A i \in 1 .. Len(s) : Before(s)[i] = Before(s)[i - 1] + s[i]
<1> DEFINE f == Before(s)
<1>1. Len(s) \in Nat
  OBVIOUS
<1>2. PICK g : g = [i \in 0 .. Len(s) |-> IF i = 0 THEN 0 ELSE g[i - 1] + s[i]]
  BY <1>1, BeforeExists
<1>3. f = [i \in 0 .. Len(s) |-> IF i = 0 THEN 0 ELSE f[i - 1] + s[i]]
  BY <1>2, Zenon DEF Before
<1> HIDE DEF f
<1>4. /\ DOMAIN f = 0 .. Len(s) /\ f[0] = 0
      /\ \A i \in 1 .. Len(s) : f[i] = f[i - 1] + s[i]
  BY <1>1, <1>3
<1>5. \A i \in 0 .. Len(s) : f[i] \in Nat
  <2> DEFINE T == {i \in Nat : i <= Len(s) => f[i] \in Nat}
  <2>1. 0 \in T
    BY <1>4
  <2>2. ASSUME NEW n \in Nat, n \in T PROVE n + 1 \in T
    <3>1. CASE n + 1 <= Len(s)
      <4>1. s[n + 1] \in Nat /\ f[n + 1] = f[n] + s[n + 1] /\ f[n] \in Nat
        BY <3>1, <2>2, <1>1, <1>4, ElementOfSeq
      <4> QED
        BY <4>1
    <3>2. CASE ~(n + 1 <= Len(s))
      BY <3>2
    <3> QED
      BY <3>1, <3>2
  <2> HIDE DEF T
  <2>3. Nat \subseteq T
    BY <2>1, <2>2, Induct
  <2> QED
    BY <2>3, <1>1 DEF T
<1>6. f \in [0 .. Len(s) -> Nat]
  BY <1>3, <1>5
<1> QED
  BY <1>4, <1>6 DEF f

(* A part of a sequence has the running sums of the whole, less where it   *)
(* begins.                                                                 *)
LEMMA BeforeShift ==
  ASSUME NEW s \in Seq(Nat), NEW t \in Seq(Nat), NEW m \in Nat, m + Len(t) <= Len(s),
         \A i \in 1 .. Len(t) : t[i] = s[m + i]
  PROVE  \A i \in 0 .. Len(t) : Before(s)[m + i] = Before(s)[m] + Before(t)[i]
<1> DEFINE N == Len(s)
           M == Len(t)
           b == Before(s)
           d == Before(t)
           T == {i \in Nat : i <= M => b[m + i] = b[m] + d[i]}
<1>1. M \in Nat /\ N \in Nat /\ m + M <= N
  OBVIOUS
<1>2. /\ b \in [0 .. N -> Nat] /\ b[0] = 0 /\ \A i \in 1 .. N : b[i] = b[i - 1] + s[i]
      /\ d \in [0 .. M -> Nat] /\ d[0] = 0 /\ \A i \in 1 .. M : d[i] = d[i - 1] + t[i]
  BY BeforeDef
<1>3. \A i \in 1 .. M : t[i] = s[m + i] /\ t[i] \in Nat
  BY ElementOfSeq
<1> HIDE DEF N, M, b, d
<1>4. 0 \in T
  BY <1>1, <1>2
<1>5. ASSUME NEW n \in Nat, n \in T, n + 1 <= M PROVE n + 1 \in T
  <2>1. n + 1 \in 1 .. M /\ (n + 1) - 1 = n /\ n \in 0 .. M
    BY <1>1, <1>5
  <2>2. m + (n + 1) \in 1 .. N /\ (m + (n + 1)) - 1 = m + n /\ m \in 0 .. N /\ m + n \in 0 .. N
    BY <1>1, <1>5
  <2>3. d[n + 1] = d[n] + t[n + 1] /\ d[n] \in Nat
    BY <2>1, <1>2
  <2>4. b[m + (n + 1)] = b[m + n] + s[m + (n + 1)] /\ b[m] \in Nat
    BY <2>2, <1>2
  <2>5. b[m + n] = b[m] + d[n]
    BY <1>5, <1>1
  <2>6. t[n + 1] = s[m + (n + 1)] /\ t[n + 1] \in Nat
    BY <2>1, <1>3
  <2>7. n + 1 <= M => b[m + (n + 1)] = b[m] + d[n + 1]
    <3>1. b[m] + (d[n] + t[n + 1]) = (b[m] + d[n]) + t[n + 1]
      BY <2>3, <2>4, <2>6
    <3>2. b[m + (n + 1)] = (b[m] + d[n]) + t[n + 1]
      BY <2>4, <2>5, <2>6, Zenon
    <3> QED
      BY <2>3, <3>1, <3>2, Zenon
  <2>8. n + 1 \in Nat
    OBVIOUS
  <2> QED
    BY <2>7, <2>8, Zenon
<1>6. ASSUME NEW n \in Nat, n \in T PROVE n + 1 \in T
  <2>1. CASE n + 1 <= M
    BY <1>5, <1>6, <2>1, Zenon
  <2>2. CASE ~(n + 1 <= M)
    <3>1. n + 1 \in Nat
      OBVIOUS
    <3> QED
      BY <2>2, <3>1, Zenon
  <2> QED
    BY <2>1, <2>2, Zenon
<1> HIDE DEF T
<1>7. Nat \subseteq T
  BY <1>4, <1>6, Induct
<1>8. \A i \in 0 .. M : b[m + i] = b[m] + d[i]
  BY <1>7, <1>1 DEF T
<1> QED
  BY <1>8 DEF N, M, b, d

(* Children start one after the other.                                     *)
LEMMA BeforeGrows ==
  ASSUME NEW s \in Seq(Nat)
  PROVE  \A i, j \in 0 .. Len(s) : i <= j => Before(s)[i] <= Before(s)[j]
<1> DEFINE N == Len(s)
           b == Before(s)
           T == {e \in Nat : \A i \in 0 .. N : i + e <= N => b[i] <= b[i + e]}
<1>1. N \in Nat
  OBVIOUS
<1>2. b \in [0 .. N -> Nat] /\ \A i \in 1 .. N : b[i] = b[i - 1] + s[i]
  BY BeforeDef
<1>3. \A i \in 1 .. N : s[i] \in Nat
  BY ElementOfSeq
<1> HIDE DEF N, b
<1>4. 0 \in T
  BY <1>1, <1>2
<1>5. ASSUME NEW e \in Nat, e \in T PROVE e + 1 \in T
  <2> SUFFICES ASSUME NEW i \in 0 .. N, i + (e + 1) <= N
               PROVE  b[i] <= b[i + (e + 1)]
    OBVIOUS
  <2>1. i + (e + 1) \in 1 .. N /\ (i + (e + 1)) - 1 = i + e /\ i + e \in 0 .. N
    BY <1>1
  <2>2. b[i + (e + 1)] = b[i + e] + s[i + (e + 1)] /\ s[i + (e + 1)] \in Nat
    BY <2>1, <1>2, <1>3
  <2>3. i + e <= N
    BY <2>1, <1>1
  <2>4. b[i] <= b[i + e]
    BY <1>5, <2>3
  <2>5. b[i] \in Nat /\ b[i + e] \in Nat
    BY <2>1, <1>2
  <2> QED
    BY <2>2, <2>4, <2>5
<1> HIDE DEF T
<1>6. Nat \subseteq T
  BY <1>4, <1>5, Induct
<1>7. ASSUME NEW i \in 0 .. N, NEW j \in 0 .. N, i <= j PROVE b[i] <= b[j]
  <2>1. j - i \in T /\ i + (j - i) = j
    BY <1>6, <1>1, <1>7
  <2> QED
    BY <2>1, <1>1 DEF T
<1> QED
  BY <1>7 DEF N, b

(* No children take no space.                                              *)
LEMMA BeforeNone == Before(<<>>)[0] = 0
BY BeforeDef, EmptySeq

-----------------------------------------------------------------------------
(* The bytes below a block.  c gives each block its content.               *)

Lengths(nodes, c) == [i \in DOMAIN nodes |-> Len(c[nodes[i]])]

(* The contents of the nodes, one after the other, are f.                  *)
Joined(nodes, c, f) ==
  LET at == Before(Lengths(nodes, c)) IN
  /\ Len(f) = at[Len(nodes)]
  /\ \A i \in 1 .. Len(nodes) : \A q \in 1 .. Len(c[nodes[i]]) : f[at[i - 1] + q] = c[nodes[i]][q]

(* The block b of content f, whose links are in bs.                        *)
Fits(b, bs, c, f) ==
  IF IsLeaf(b) THEN b.links = <<>> /\ f = b.data
  ELSE /\ b.links \in Seq(bs)
       /\ b.sizes = Lengths(b.links, c)
       /\ Joined(b.links, c, f)

WellBuilt(bs, c) == \A b \in bs : c[b] \in Seq(Nat) /\ Fits(b, bs, c, c[b])

(* The lengths of the contents of the nodes.                               *)
LEMMA LengthsType ==
  ASSUME NEW S, NEW c, \A b \in S : c[b] \in Seq(Nat), NEW nodes \in Seq(S)
  PROVE  /\ Lengths(nodes, c) \in Seq(Nat)
         /\ Len(Lengths(nodes, c)) = Len(nodes)
         /\ \A i \in 1 .. Len(nodes) : Lengths(nodes, c)[i] = Len(c[nodes[i]])
<1> DEFINE n == Len(nodes)
           l == Lengths(nodes, c)
<1>1. n \in Nat /\ DOMAIN nodes = 1 .. n
  BY LenProperties
<1>2. \A i \in 1 .. n : nodes[i] \in S
  BY ElementOfSeq
<1>3. \A i \in 1 .. n : Len(c[nodes[i]]) \in Nat
  BY <1>2, LenProperties
<1>4. l = [i \in 1 .. n |-> Len(c[nodes[i]])]
  BY <1>1 DEF Lengths
<1> HIDE DEF n, l
<1>5. l \in [1 .. n -> Nat]
  BY <1>3, <1>4
<1>6. l \in Seq(Nat) /\ Len(l) = n
  BY <1>1, <1>5, LenProperties, SeqDef
<1>7. \A i \in 1 .. n : l[i] = Len(c[nodes[i]])
  BY <1>4
<1> QED
  BY <1>6, <1>7 DEF n, l

(* They depend on the contents of those nodes alone,                       *)
LEMMA LengthsSame ==
  ASSUME NEW S, NEW c, NEW d, \A b \in S : d[b] = c[b], NEW nodes \in Seq(S)
  PROVE  Lengths(nodes, d) = Lengths(nodes, c)
<1>1. \A i \in DOMAIN nodes : nodes[i] \in S
  BY LenProperties, ElementOfSeq
<1> QED
  BY <1>1 DEF Lengths

(* and so does what the nodes hold together.                               *)
LEMMA JoinedSame ==
  ASSUME NEW S, NEW c, NEW d, \A b \in S : d[b] = c[b], NEW nodes \in Seq(S)
  PROVE  \A f : Joined(nodes, c, f) => Joined(nodes, d, f)
<1>1. \A i \in 1 .. Len(nodes) : nodes[i] \in S
  BY ElementOfSeq
<1>2. Lengths(nodes, d) = Lengths(nodes, c)
  BY LengthsSame
<1> QED
  BY <1>1, <1>2 DEF Joined

(* The last of the parts that start at a position or before.               *)
LEMMA Locate ==
  ASSUME NEW s \in Seq(Nat), s # <<>>, NEW pos \in Nat
  PROVE  \E i \in 1 .. Len(s) : /\ Before(s)[i - 1] <= pos
                                /\ \A j \in i + 1 .. Len(s) : Before(s)[j - 1] > pos
<1> DEFINE n == Len(s)
           b == Before(s)
           T == {i \in 1 .. n : b[i - 1] <= pos}
<1>1. n \in Nat /\ n # 0
  BY EmptySeq
<1>2. b \in [0 .. n -> Nat] /\ b[0] = 0
  BY BeforeDef
<1> HIDE DEF n, b
<1>3. 1 \in T
  BY <1>1, <1>2
<1>4. PICK i \in T : \A y \in T : y <= i
  BY <1>1, <1>3, Greatest
<1>5. ASSUME NEW j \in i + 1 .. n PROVE b[j - 1] > pos
  <2>1. j \in 1 .. n /\ j - 1 \in 0 .. n /\ ~(j <= i)
    BY <1>1
  <2>2. b[j - 1] \in Nat
    BY <2>1, <1>2
  <2>3. j \notin T
    BY <1>4, <2>1
  <2> QED
    BY <2>1, <2>2, <2>3
<1>6. i \in 1 .. n /\ b[i - 1] <= pos
  OBVIOUS
<1> QED
  BY <1>5, <1>6 DEF n, b

(* A position inside lies in one of the parts.                             *)
LEMMA LocateWithin ==
  ASSUME NEW s \in Seq(Nat), NEW pos \in Nat, pos < Before(s)[Len(s)]
  PROVE  \E i \in 1 .. Len(s) : Before(s)[i - 1] <= pos /\ pos < Before(s)[i]
<1> DEFINE n == Len(s)
           b == Before(s)
<1>1. n \in Nat
  OBVIOUS
<1>2. b \in [0 .. n -> Nat] /\ b[0] = 0
  BY BeforeDef
<1>3. s # <<>>
  BY <1>2, EmptySeq, BeforeNone
<1>4. PICK i \in 1 .. n : b[i - 1] <= pos /\ \A j \in i + 1 .. n : b[j - 1] > pos
  BY <1>3, Locate
<1>5. pos < b[n]
  OBVIOUS
<1> HIDE DEF n, b
<1>6. pos < b[i]
  <2>1. CASE i = n
    BY <2>1, <1>5
  <2>2. CASE i # n
    <3>1. i + 1 \in i + 1 .. n /\ (i + 1) - 1 = i /\ i \in 0 .. n
      BY <2>2, <1>1
    <3>2. b[i] > pos /\ b[i] \in Nat
      BY <3>1, <1>4, <1>2
    <3> QED
      BY <3>2
  <2> QED
    BY <2>1, <2>2
<1>7. \E k \in 1 .. n : b[k - 1] <= pos /\ pos < b[k]
  BY <1>4, <1>6
<1> QED
  BY <1>7 DEF n, b

(* The nodes determine the bytes.                                          *)
LEMMA JoinedUnique ==
  ASSUME NEW S, NEW c, \A b \in S : c[b] \in Seq(Nat), NEW nodes \in Seq(S)
  PROVE  \A f, g \in Seq(Nat) : Joined(nodes, c, f) /\ Joined(nodes, c, g) => f = g
<1> DEFINE l == Lengths(nodes, c)
           at == Before(l)
           n == Len(nodes)
<1>1. l \in Seq(Nat) /\ Len(l) = n /\ \A i \in 1 .. n : l[i] = Len(c[nodes[i]])
  BY LengthsType
<1>2. n \in Nat /\ at \in [0 .. n -> Nat] /\ \A i \in 1 .. n : at[i] = at[i - 1] + l[i]
  BY <1>1, BeforeDef
<1>3. \A i \in 1 .. n : l[i] \in Nat
  BY <1>1, ElementOfSeq
<1> SUFFICES ASSUME NEW f \in Seq(Nat), NEW g \in Seq(Nat),
                    Joined(nodes, c, f), Joined(nodes, c, g)
             PROVE  f = g
  OBVIOUS
<1>4. /\ Len(f) = at[n] /\ Len(g) = at[n]
      /\ \A i \in 1 .. n : \A q \in 1 .. l[i] : f[at[i - 1] + q] = g[at[i - 1] + q]
  <2>1. /\ Len(f) = at[n]
        /\ \A i \in 1 .. n : \A q \in 1 .. Len(c[nodes[i]]) : f[at[i - 1] + q] = c[nodes[i]][q]
    BY DEF Joined
  <2>2. /\ Len(g) = at[n]
        /\ \A i \in 1 .. n : \A q \in 1 .. Len(c[nodes[i]]) : g[at[i - 1] + q] = c[nodes[i]][q]
    BY DEF Joined
  <2> HIDE DEF l, at, n
  <2>3. ASSUME NEW i \in 1 .. n, NEW q \in 1 .. l[i] PROVE f[at[i - 1] + q] = g[at[i - 1] + q]
    <3>1. q \in 1 .. Len(c[nodes[i]])
      BY <1>1
    <3> QED
      BY <3>1, <2>1, <2>2
  <2> QED
    BY <2>1, <2>2, <2>3
<1>5. \A p \in Nat : p < at[n] => \E i \in 1 .. n : at[i - 1] <= p /\ p < at[i]
  BY <1>1, LocateWithin
<1> HIDE DEF l, at, n
<1>6. ASSUME NEW p \in 1 .. Len(f) PROVE f[p] = g[p]
  <2>1. at[n] \in Nat /\ p - 1 \in Nat /\ p - 1 < at[n]
    BY <1>2, <1>4
  <2>2. PICK i \in 1 .. n : at[i - 1] <= p - 1 /\ p - 1 < at[i]
    BY <1>5, <2>1
  <2>3. at[i - 1] \in Nat /\ at[i] = at[i - 1] + l[i] /\ l[i] \in Nat
    BY <1>2, <1>3
  <2>4. p - at[i - 1] \in 1 .. l[i] /\ at[i - 1] + (p - at[i - 1]) = p
    BY <2>1, <2>2, <2>3, SMTT(30)
  <2> QED
    BY <1>4, <2>4
<1> QED
  BY <1>4, <1>6, SeqEqual

(* Size, which adds up block sizes, is the length of the content.          *)
LEMMA SizeIsLength ==
  ASSUME NEW bs, NEW c, WellBuilt(bs, c), NEW b \in bs
  PROVE  Size(b) = Len(c[b]) /\ Size(b) \in Nat
<1>1. \A x \in bs : c[x] \in Seq(Nat)
  BY DEF WellBuilt
<1>2. Fits(b, bs, c, c[b]) /\ c[b] \in Seq(Nat) /\ Len(c[b]) \in Nat
  BY DEF WellBuilt
<1>3. CASE IsLeaf(b)
  BY <1>2, <1>3 DEF Fits, Size
<1>4. CASE ~IsLeaf(b)
  <2>1. b.links \in Seq(bs) /\ b.sizes = Lengths(b.links, c) /\ Joined(b.links, c, c[b])
    BY <1>2, <1>4 DEF Fits
  <2>2. Len(b.sizes) = Len(b.links)
    BY <1>1, <2>1, LengthsType
  <2> QED
    BY <1>2, <1>4, <2>1, <2>2 DEF Joined, Size
<1> QED
  BY <1>3, <1>4

(* A part of a sequence, item by item.                                     *)
LEMMA SubSeqIs ==
  ASSUME NEW S, NEW s \in Seq(S), NEW a \in Nat, NEW e \in Nat, 1 <= a, a <= e + 1, e <= Len(s)
  PROVE  /\ SubSeq(s, a, e) \in Seq(S)
         /\ Len(SubSeq(s, a, e)) = (e + 1) - a
         /\ \A i \in 1 .. (e + 1) - a : SubSeq(s, a, e)[i] = s[(a - 1) + i]
<1> DEFINE t == SubSeq(s, a, e)
<1>1. Len(s) \in Nat
  BY LenProperties
<1>2. \A i \in a .. e : s[i] \in S
  BY <1>1, ElementOfSeq
<1>3. a \in Int /\ e \in Int
  OBVIOUS
<1>4. /\ t \in Seq(S)
      /\ Len(t) = IF a <= e THEN e - a + 1 ELSE 0
      /\ \A i \in 1 .. e - a + 1 : t[i] = s[a + i - 1]
  BY <1>2, <1>3, SubSeqProperties
<1> HIDE DEF t
<1>5. Len(t) = (e + 1) - a
  BY <1>4
<1>6. ASSUME NEW i \in 1 .. (e + 1) - a PROVE t[i] = s[(a - 1) + i]
  <2>1. i \in 1 .. e - a + 1 /\ a + i - 1 = (a - 1) + i
    OBVIOUS
  <2> QED
    BY <1>4, <2>1
<1> QED
  BY <1>4, <1>5, <1>6 DEF t

(* No nodes hold nothing.                                                  *)
LEMMA JoinedNone ==
  ASSUME NEW c
  PROVE  Joined(<<>>, c, <<>>)
<1>1. Lengths(<<>>, c) = <<>> /\ Len(<<>>) = 0
  BY DEF Lengths
<1> QED
  BY <1>1, BeforeNone DEF Joined

(* One more node holds its content more.                                   *)
LEMMA JoinedAppend ==
  ASSUME NEW S, NEW c, \A b \in S : c[b] \in Seq(Nat), NEW nodes \in Seq(S), NEW x \in S
  PROVE  /\ \A f \in Seq(Nat) : Joined(nodes, c, f) => Joined(Append(nodes, x), c, f \o c[x])
         /\ \A i \in 0 .. Len(nodes) :
              Before(Lengths(Append(nodes, x), c))[i] = Before(Lengths(nodes, c))[i]
<1> DEFINE n == Len(nodes)
           more == Append(nodes, x)
           l == Lengths(nodes, c)
           k == Lengths(more, c)
           at == Before(l)
           bt == Before(k)
           g == c[x]
<1>1. n \in Nat /\ more \in Seq(S) /\ Len(more) = n + 1
      /\ (\A i \in 1 .. n : more[i] = nodes[i]) /\ more[n + 1] = x
  BY AppendProperties, LenProperties
<1>2. l \in Seq(Nat) /\ Len(l) = n /\ \A i \in 1 .. n : l[i] = Len(c[nodes[i]])
  <2>1. l \in Seq(Nat)
    BY LengthsType
  <2>2. Len(l) = n
    BY LengthsType
  <2>3. \A i \in 1 .. n : l[i] = Len(c[nodes[i]])
    BY LengthsType
  <2> QED
    BY <2>1, <2>2, <2>3
<1> HIDE DEF more
<1>3. k \in Seq(Nat) /\ Len(k) = n + 1 /\ \A i \in 1 .. n + 1 : k[i] = Len(c[more[i]])
  <2>1. k \in Seq(Nat)
    BY <1>1, LengthsType
  <2>2. Len(k) = Len(more)
    BY <1>1, LengthsType
  <2>3. \A i \in 1 .. Len(more) : k[i] = Len(c[more[i]])
    BY <1>1, LengthsType
  <2> QED
    BY <2>1, <2>2, <2>3, <1>1
<1>4. g \in Seq(Nat)
  OBVIOUS
<1> HIDE DEF n, l, k, g
<1>5. \A i \in 1 .. n : l[i] = k[0 + i] /\ l[i] \in Nat
  BY <1>1, <1>2, <1>3, ElementOfSeq
<1>6. \A i \in 0 .. n : bt[0 + i] = bt[0] + at[i]
  <2>1. 0 + Len(l) <= Len(k) /\ 0 \in Nat /\ \A i \in 1 .. Len(l) : l[i] = k[0 + i]
    BY <1>1, <1>2, <1>3, <1>5
  <2>2. \A i \in 0 .. Len(l) : Before(k)[0 + i] = Before(k)[0] + Before(l)[i]
    BY <2>1, <1>2, <1>3, BeforeShift
  <2> QED
    BY <2>2, <1>2
<1>7. /\ at \in [0 .. n -> Nat] /\ \A i \in 1 .. n : at[i] = at[i - 1] + l[i]
      /\ bt \in [0 .. n + 1 -> Nat] /\ bt[0] = 0 /\ \A i \in 1 .. n + 1 : bt[i] = bt[i - 1] + k[i]
      /\ \A i, j \in 0 .. n : i <= j => at[i] <= at[j]
  BY <1>2, <1>3, BeforeDef, BeforeGrows
<1> HIDE DEF at, bt
<1>8. \A i \in 0 .. n : bt[i] = at[i]
  BY <1>1, <1>6, <1>7
<1>9. bt[n + 1] = at[n] + Len(g)
  BY <1>1, <1>3, <1>7, <1>8 DEF g
<1>10. ASSUME NEW f \in Seq(Nat), Joined(nodes, c, f) PROVE Joined(more, c, f \o g)
  <2>1. /\ Len(f) = at[n]
        /\ \A i \in 1 .. n : \A q \in 1 .. Len(c[nodes[i]]) : f[at[i - 1] + q] = c[nodes[i]][q]
    BY <1>10 DEF Joined, at, n, l
  <2>2. /\ Len(f \o g) = Len(f) + Len(g) /\ Len(f) \in Nat /\ Len(g) \in Nat
        /\ \A i \in 1 .. Len(f) + Len(g) : (f \o g)[i] = IF i <= Len(f) THEN f[i] ELSE g[i - Len(f)]
    BY <1>4, ConcatProperties, LenProperties
  <2>3. ASSUME NEW i \in 1 .. n, NEW q \in 1 .. Len(c[more[i]])
        PROVE  (f \o g)[bt[i - 1] + q] = c[more[i]][q]
    <3>1. more[i] = nodes[i] /\ q \in 1 .. l[i] /\ l[i] \in Nat
      BY <1>1, <1>2, <1>5
    <3>2. bt[i - 1] = at[i - 1] /\ at[i - 1] \in Nat /\ at[i] = at[i - 1] + l[i] /\ at[i] <= at[n]
          /\ at[n] \in Nat
      BY <1>1, <1>7, <1>8, SMTT(30)
    <3>3. bt[i - 1] + q \in 1 .. Len(f) + Len(g) /\ bt[i - 1] + q <= Len(f)
      <4>1. at[i - 1] + q <= at[n] /\ q \in Nat /\ q >= 1
        BY <3>1, <3>2, SMTT(30)
      <4>2. Len(f) = at[n] /\ Len(g) \in Nat
        BY <2>1, <2>2
      <4> QED
        BY <4>1, <4>2, <3>2, SMTT(30)
    <3>4. (f \o g)[bt[i - 1] + q] = f[bt[i - 1] + q]
      BY <2>2, <3>3
    <3> QED
      BY <2>1, <3>1, <3>2, <3>4
  <2>4. ASSUME NEW q \in 1 .. Len(c[more[n + 1]])
        PROVE  (f \o g)[bt[(n + 1) - 1] + q] = c[more[n + 1]][q]
    <3>1. c[more[n + 1]] = g
      BY <1>1 DEF g
    <3>2. bt[(n + 1) - 1] = Len(f)
      BY <2>1, <1>1, <1>8
    <3>3. Len(f) + q \in 1 .. Len(f) + Len(g) /\ ~(Len(f) + q <= Len(f)) /\ (Len(f) + q) - Len(f) = q
      BY <2>2, <3>1
    <3> QED
      BY <2>2, <3>1, <3>2, <3>3
  <2>5. \A i \in 1 .. n + 1 : \A q \in 1 .. Len(c[more[i]]) : (f \o g)[bt[i - 1] + q] = c[more[i]][q]
    <3> SUFFICES ASSUME NEW i \in 1 .. n + 1
                 PROVE  \A q \in 1 .. Len(c[more[i]]) : (f \o g)[bt[i - 1] + q] = c[more[i]][q]
      OBVIOUS
    <3>1. CASE i \in 1 .. n
      BY <2>3, <3>1
    <3>2. CASE i = n + 1
      BY <2>4, <3>2
    <3>3. i \in 1 .. n \/ i = n + 1
      BY <1>1
    <3> QED
      BY <3>1, <3>2, <3>3
  <2>6. Len(f \o g) = bt[n + 1]
    BY <2>1, <2>2, <1>9
  <2> QED
    BY <2>5, <2>6, <1>1 DEF Joined, bt, k
<1> QED
  BY <1>8, <1>10 DEF n, more, g, at, bt, l, k

(* Some nodes in a row hold the bytes from where the first starts to where *)
(* the next one would.                                                     *)
LEMMA JoinedTake ==
  ASSUME NEW S, NEW c, \A b \in S : c[b] \in Seq(Nat), NEW nodes \in Seq(S)
  PROVE  LET at == Before(Lengths(nodes, c)) IN
         \A m, e \in Nat : m <= e /\ e <= Len(nodes) =>
           /\ SubSeq(nodes, m + 1, e) \in Seq(S)
           /\ Len(SubSeq(nodes, m + 1, e)) = e - m
           /\ at[m] \in Nat /\ at[e] \in Nat /\ at[m] <= at[e] /\ at[e] <= at[Len(nodes)]
           /\ \A f \in Seq(Nat) : Joined(nodes, c, f) =>
                Joined(SubSeq(nodes, m + 1, e), c, SubSeq(f, at[m] + 1, at[e]))
<1> DEFINE n == Len(nodes)
           l == Lengths(nodes, c)
           at == Before(l)
<1>3. l \in Seq(Nat) /\ Len(l) = n /\ \A i \in 1 .. n : l[i] = Len(c[nodes[i]])
  <2>1. l \in Seq(Nat)
    BY LengthsType
  <2>2. Len(l) = n
    BY LengthsType
  <2>3. \A i \in 1 .. n : l[i] = Len(c[nodes[i]])
    BY LengthsType
  <2> QED
    BY <2>1, <2>2, <2>3
<1> SUFFICES ASSUME NEW m \in Nat, NEW e \in Nat, m <= e, e <= n
             PROVE  /\ SubSeq(nodes, m + 1, e) \in Seq(S)
                    /\ Len(SubSeq(nodes, m + 1, e)) = e - m
                    /\ at[m] \in Nat /\ at[e] \in Nat /\ at[m] <= at[e] /\ at[e] <= at[Len(nodes)]
                    /\ \A f \in Seq(Nat) : Joined(nodes, c, f) =>
                         Joined(SubSeq(nodes, m + 1, e), c, SubSeq(f, at[m] + 1, at[e]))
  BY Zenon
<1> DEFINE part == SubSeq(nodes, m + 1, e)
           k == Lengths(part, c)
           bt == Before(k)
<1>1. n \in Nat /\ m \in Nat /\ e \in Nat /\ m <= e /\ e <= n
  BY LenProperties
<1>2. part \in Seq(S) /\ Len(part) = e - m /\ \A i \in 1 .. e - m : part[i] = nodes[m + i]
  <2>1. m + 1 \in Nat /\ 1 <= m + 1 /\ m + 1 <= e + 1 /\ (e + 1) - (m + 1) = e - m /\ (m + 1) - 1 = m
    BY <1>1
  <2>2. /\ part \in Seq(S)
        /\ Len(part) = (e + 1) - (m + 1)
        /\ \A i \in 1 .. (e + 1) - (m + 1) : part[i] = nodes[((m + 1) - 1) + i]
    BY <1>1, <2>1, SubSeqIs
  <2> QED
    BY <2>1, <2>2
<1> HIDE DEF part, n, l
<1>4. k \in Seq(Nat) /\ Len(k) = e - m /\ \A i \in 1 .. e - m : k[i] = Len(c[part[i]])
  <2>0. part \in Seq(S)
    BY <1>2
  <2>1. k \in Seq(Nat)
    BY <2>0, LengthsType
  <2>2. Len(k) = Len(part)
    BY <2>0, LengthsType
  <2>4. DOMAIN part = 1 .. Len(part)
    BY <2>0, LenProperties
  <2>3. \A i \in 1 .. Len(part) : k[i] = Len(c[part[i]])
    BY <2>4 DEF Lengths
  <2> QED
    BY <2>1, <2>2, <2>3, <1>2
<1> HIDE DEF k
<1>5. \A i \in 1 .. e - m : k[i] = l[m + i] /\ k[i] \in Nat
  <2> SUFFICES ASSUME NEW i \in 1 .. e - m PROVE k[i] = l[m + i] /\ k[i] \in Nat
    OBVIOUS
  <2>1. m + i \in 1 .. n
    BY <1>1
  <2> QED
    BY <2>1, <1>2, <1>3, <1>4, ElementOfSeq
<1>6. \A i \in 0 .. e - m : at[m + i] = at[m] + bt[i]
  <2>1. m + Len(k) <= Len(l) /\ m \in Nat /\ \A i \in 1 .. Len(k) : k[i] = l[m + i]
    BY <1>1, <1>3, <1>4, <1>5
  <2>2. \A i \in 0 .. Len(k) : Before(l)[m + i] = Before(l)[m] + Before(k)[i]
    BY <2>1, <1>3, <1>4, BeforeShift
  <2> QED
    BY <2>2, <1>4
<1>7. /\ at \in [0 .. n -> Nat] /\ \A i, j \in 0 .. n : i <= j => at[i] <= at[j]
      /\ bt \in [0 .. e - m -> Nat] /\ \A i \in 1 .. e - m : bt[i] = bt[i - 1] + k[i]
  BY <1>3, <1>4, BeforeDef, BeforeGrows
<1> HIDE DEF at, bt
<1>8. at[m] \in Nat /\ at[e] \in Nat /\ at[n] \in Nat /\ at[m] <= at[e] /\ at[e] <= at[n]
  BY <1>1, <1>7
<1>9. ASSUME NEW f \in Seq(Nat), Joined(nodes, c, f)
      PROVE  Joined(part, c, SubSeq(f, at[m] + 1, at[e]))
  <2> DEFINE g == SubSeq(f, at[m] + 1, at[e])
  <2>1. /\ Len(f) = at[n]
        /\ \A i \in 1 .. n : \A q \in 1 .. Len(c[nodes[i]]) : f[at[i - 1] + q] = c[nodes[i]][q]
    BY <1>9 DEF Joined, at, n, l
  <2>2. at[e] <= Len(f)
    BY <1>8, <2>1
  <2>3. Len(g) = at[e] - at[m] /\ \A i \in 1 .. at[e] - at[m] : g[i] = f[at[m] + i]
    <3>1. PICK x \in Nat : x = at[m]
      BY <1>8
    <3>2. PICK y \in Nat : y = at[e]
      BY <1>8
    <3>3. x <= y /\ y <= Len(f) /\ g = SubSeq(f, x + 1, y)
      BY <3>1, <3>2, <1>8, <2>2
    <3> HIDE DEF g
    <3>4. x + 1 \in Nat /\ 1 <= x + 1 /\ x + 1 <= y + 1 /\ (y + 1) - (x + 1) = y - x /\ (x + 1) - 1 = x
      BY <3>3
    <3>5. /\ Len(g) = (y + 1) - (x + 1)
          /\ \A i \in 1 .. (y + 1) - (x + 1) : g[i] = f[((x + 1) - 1) + i]
      BY <3>3, <3>4, SubSeqIs
    <3>6. Len(g) = y - x /\ \A i \in 1 .. y - x : g[i] = f[x + i]
      BY <3>4, <3>5
    <3> QED
      BY <3>1, <3>2, <3>6
  <2> HIDE DEF g
  <2>4. bt[e - m] = at[e] - at[m]
    <3>1. e - m \in 0 .. e - m /\ m + (e - m) = e
      BY <1>1
    <3>2. bt[e - m] \in Nat
      BY <3>1, <1>7
    <3> QED
      BY <3>1, <3>2, <1>6, <1>8
  <2>5. ASSUME NEW i \in 1 .. e - m, NEW q \in 1 .. Len(c[part[i]])
        PROVE  g[bt[i - 1] + q] = c[part[i]][q]
    <3>1. m + i \in 1 .. n /\ (m + i) - 1 = m + (i - 1) /\ i - 1 \in 0 .. e - m /\ i \in 0 .. e - m
          /\ m + i \in 0 .. n /\ m + i <= e /\ e \in 0 .. n
      BY <1>1
    <3>2. part[i] = nodes[m + i] /\ q \in 1 .. k[i] /\ k[i] \in Nat
      BY <1>2, <1>4, <1>5
    <3>3. at[m + (i - 1)] = at[m] + bt[i - 1] /\ at[m + i] = at[m] + bt[i] /\ bt[i] = bt[i - 1] + k[i]
          /\ bt[i - 1] \in Nat /\ bt[i] \in Nat /\ at[m + i] <= at[e]
      BY <3>1, <1>6, <1>7
    <3>4. bt[i - 1] + q \in 1 .. at[e] - at[m] /\ at[m] + (bt[i - 1] + q) = at[m + (i - 1)] + q
      <4>1. q \in Nat /\ q >= 1 /\ q <= k[i]
        BY <3>2
      <4>2. bt[i - 1] + q <= bt[i]
        BY <4>1, <3>2, <3>3, SMTT(30)
      <4>3. bt[i] <= at[e] - at[m]
        BY <3>3, <1>8
      <4>6. bt[i - 1] \in Nat /\ bt[i] \in Nat /\ at[e] \in Nat /\ at[m] \in Nat
        BY <3>3, <1>8
      <4>4. bt[i - 1] + q <= at[e] - at[m] /\ bt[i - 1] + q >= 1
        BY <4>1, <4>2, <4>3, <4>6, SMTT(30)
      <4>5. at[m] + (bt[i - 1] + q) = at[m + (i - 1)] + q
        BY <4>1, <3>3, <1>8, SMTT(30)
      <4> QED
        BY <4>1, <4>4, <4>5, <3>3, <1>8, SMTT(30)
    <3>5. g[bt[i - 1] + q] = f[at[m + (i - 1)] + q]
      BY <3>4, <2>3
    <3>6. f[at[(m + i) - 1] + q] = c[nodes[m + i]][q]
      BY <2>1, <3>1, <3>2
    <3> QED
      BY <3>1, <3>2, <3>5, <3>6
  <2>6. Joined(part, c, g)
    BY <2>3, <2>4, <2>5, <1>2 DEF Joined, bt, k
  <2> QED
    BY <2>6 DEF g
<1> QED
  BY <1>2, <1>8, <1>9 DEF at, part, l, n

(* What a block holds does not change when there are more blocks.          *)
LEMMA FitsMore ==
  ASSUME NEW bs, NEW more, bs \subseteq more, NEW c, NEW d, \A x \in bs : d[x] = c[x], NEW b
  PROVE  \A f : Fits(b, bs, c, f) => Fits(b, more, d, f)
<1>1. ASSUME b.links \in Seq(bs)
      PROVE  /\ b.links \in Seq(more)
             /\ Lengths(b.links, d) = Lengths(b.links, c)
             /\ \A f : Joined(b.links, c, f) => Joined(b.links, d, f)
  <2>1. b.links \in Seq(more)
    BY <1>1, SeqMonotonic
  <2>2. Lengths(b.links, d) = Lengths(b.links, c)
    BY <1>1, LengthsSame
  <2>3. \A f : Joined(b.links, c, f) => Joined(b.links, d, f)
    BY <1>1, JoinedSame
  <2> QED
    BY <2>1, <2>2, <2>3
<1> QED
  BY <1>1, Zenon DEF Fits

(* A block that is put or named has the content its maker meant, and so    *)
(* have all the others.                                                    *)
With(bs, c, b, f, d) ==
  WellBuilt(bs \cup {b}, d) /\ d[b] = f /\ \A x \in bs : d[x] = c[x]

(* The contents can be extended to a block whose links are there: this is  *)
(* what a call of Put adds.                                                *)
LEMMA NewBlock ==
  ASSUME NEW bs, NEW c, NEW b, NEW f \in Seq(Nat)
  PROVE  WellBuilt(bs, c) /\ Fits(b, bs, c, f) => \E d : With(bs, c, b, f, d)
<1> SUFFICES ASSUME WellBuilt(bs, c), Fits(b, bs, c, f)
             PROVE  \E d : WellBuilt(bs \cup {b}, d) /\ d[b] = f /\ \A x \in bs : d[x] = c[x]
  BY Zenon DEF With
<1>1. \A x \in bs : c[x] \in Seq(Nat) /\ Fits(x, bs, c, c[x])
  BY DEF WellBuilt
<1>2. CASE b \in bs
  <2>1. c[b] \in Seq(Nat) /\ Fits(b, bs, c, c[b])
    BY <1>1, <1>2
  <2>2. CASE IsLeaf(b)
    <3>1. c[b] = f
      BY <2>1, <2>2, Zenon DEF Fits
    <3>2. bs \cup {b} = bs
      BY <1>2
    <3> QED
      BY <3>1, <3>2, Zenon
  <2>3. CASE ~IsLeaf(b)
    <3>1. b.links \in Seq(bs) /\ Joined(b.links, c, f) /\ Joined(b.links, c, c[b])
      BY <2>1, <2>3, Zenon DEF Fits
    <3>2. \A x \in bs : c[x] \in Seq(Nat)
      BY <1>1
    <3>3. \A g, h \in Seq(Nat) : Joined(b.links, c, g) /\ Joined(b.links, c, h) => g = h
      BY <3>1, <3>2, JoinedUnique
    <3>4. c[b] = f
      BY <2>1, <3>1, <3>3, Zenon
    <3>5. bs \cup {b} = bs
      BY <1>2
    <3> QED
      BY <3>4, <3>5, Zenon
  <2> QED
    BY <2>2, <2>3
<1>3. CASE b \notin bs
  <2> DEFINE d == [x \in bs \cup {b} |-> IF x = b THEN f ELSE c[x]]
  <2>1. d[b] = f /\ \A x \in bs : d[x] = c[x]
    BY <1>3
  <2> HIDE DEF d
  <2>2. ASSUME NEW x \in bs \cup {b} PROVE d[x] \in Seq(Nat) /\ Fits(x, bs \cup {b}, d, d[x])
    <3>1. bs \subseteq bs \cup {b}
      OBVIOUS
    <3>2. \A g : Fits(x, bs, c, g) => Fits(x, bs \cup {b}, d, g)
      BY <2>1, <3>1, FitsMore
    <3>3. Fits(x, bs, c, d[x]) /\ d[x] \in Seq(Nat)
      <4>1. CASE x = b
        BY <4>1, <2>1
      <4>2. CASE x \in bs
        BY <4>2, <2>1, <1>1
      <4> QED
        BY <4>1, <4>2
    <3> QED
      BY <3>2, <3>3, Zenon
  <2>3. WellBuilt(bs \cup {b}, d)
    BY <2>2, Zenon DEF WellBuilt
  <2> QED
    BY <2>1, <2>3, Zenon
<1> QED
  BY <1>2, <1>3

(* Blocks can be forgotten as long as the others do not lead to them.      *)
LEMMA WellBuiltFewer ==
  ASSUME NEW bs, NEW fewer, fewer \subseteq bs, Closed(fewer), NEW c
  PROVE  WellBuilt(bs, c) => WellBuilt(fewer, c)
<1> SUFFICES ASSUME WellBuilt(bs, c), NEW b \in fewer
             PROVE  c[b] \in Seq(Nat) /\ Fits(b, fewer, c, c[b])
  BY Zenon DEF WellBuilt
<1>1. c[b] \in Seq(Nat) /\ Fits(b, bs, c, c[b])
  BY Zenon DEF WellBuilt
<1>2. ASSUME ~IsLeaf(b) PROVE b.links \in Seq(fewer)
  <2>1. b.links \in Seq(bs)
    BY <1>1, <1>2, Zenon DEF Fits
  <2>2. Len(b.links) \in Nat /\ DOMAIN b.links = 1 .. Len(b.links)
        /\ b.links \in [1 .. Len(b.links) -> bs]
    BY <2>1, LenProperties
  <2>3. \A i \in 1 .. Len(b.links) : b.links[i] \in fewer
    BY <2>2 DEF Closed
  <2>4. b.links \in [1 .. Len(b.links) -> fewer]
    BY <2>2, <2>3
  <2> QED
    BY <2>2, <2>4, SeqDef
<1> QED
  BY <1>1, <1>2, Zenon DEF Fits

-----------------------------------------------------------------------------
(* The children of a node.                                                 *)

(* The i-th child has its place in the content of the node.                *)
ChildAt(b, i, bs, c) ==
  /\ b.links[i] \in bs /\ Size(b.links[i]) = Len(c[b.links[i]])
  /\ Position(b, i) \in Nat /\ Size(b.links[i]) \in Nat
  /\ Position(b, i) + Size(b.links[i]) <= Size(b)
  /\ \A q \in 1 .. Size(b.links[i]) : c[b][Position(b, i) + q] = c[b.links[i]][q]

(* A node that is no leaf has children.                                    *)
LEMMA InnerNode ==
  ASSUME NEW bs, NEW c, NEW b \in bs
  PROVE  WellBuilt(bs, c) /\ ~IsLeaf(b) =>
           Len(b.links) \in Nat \ {0} /\ \A i \in 1 .. Len(b.links) : ChildAt(b, i, bs, c)
<1> SUFFICES ASSUME WellBuilt(bs, c), ~IsLeaf(b)
             PROVE  /\ Len(b.links) \in Nat \ {0}
                    /\ \A i \in 1 .. Len(b.links) : ChildAt(b, i, bs, c)
  OBVIOUS
<1> DEFINE n == Len(b.links)
           at == Before(b.sizes)
<1>1. \A x \in bs : c[x] \in Seq(Nat)
  BY DEF WellBuilt
<1>2. b.links \in Seq(bs) /\ b.sizes = Lengths(b.links, c) /\ Joined(b.links, c, c[b])
  BY DEF WellBuilt, Fits
<1>3. n \in Nat /\ b.sizes \in Seq(Nat) /\ Len(b.sizes) = n
  BY <1>1, <1>2, LengthsType
<1>4. \A i \in 1 .. n : b.sizes[i] = Len(c[b.links[i]])
  BY <1>2, LenProperties DEF Lengths
<1>5. n # 0
  BY <1>3, EmptySeq DEF IsLeaf
<1>6. Size(b) = at[n]
  BY <1>3 DEF Size
<1>7. \A i \in 1 .. n : \A q \in 1 .. Len(c[b.links[i]]) : c[b][at[i - 1] + q] = c[b.links[i]][q]
  BY <1>2 DEF Joined
<1>8. /\ at \in [0 .. n -> Nat] /\ \A i \in 1 .. n : at[i] = at[i - 1] + b.sizes[i]
      /\ \A i, j \in 0 .. n : i <= j => at[i] <= at[j]
  BY <1>3, BeforeDef, BeforeGrows
<1>9. ASSUME NEW i \in 1 .. n
      PROVE  ChildAt(b, i, bs, c)
  <2>1. b.links[i] \in bs
    BY <1>2, ElementOfSeq
  <2>2. Size(b.links[i]) = Len(c[b.links[i]]) /\ Size(b.links[i]) \in Nat
    BY <2>1, SizeIsLength
  <2>3. Position(b, i) = at[i - 1]
    BY DEF Position
  <2> HIDE DEF at, n
  <2>4. i \in 0 .. n /\ i - 1 \in 0 .. n /\ n \in 0 .. n /\ i <= n
    BY <1>3
  <2>5. at[i - 1] \in Nat /\ at[i] = at[i - 1] + b.sizes[i] /\ at[i] <= at[n]
    BY <1>8, <2>4
  <2>6. at[i - 1] + Size(b.links[i]) <= Size(b)
    BY <2>2, <2>5, <1>4, <1>6
  <2> QED
    BY <2>1, <2>2, <2>3, <2>5, <2>6, <1>7 DEF ChildAt
<1> QED
  BY <1>3, <1>5, <1>9

(* Need finds the child in which a position lies.                          *)
LEMMA NeedIs ==
  ASSUME NEW bs, NEW c, NEW b \in bs, NEW pos \in Nat
  PROVE  WellBuilt(bs, c) /\ ~IsLeaf(b) =>
           /\ Need(b, pos) \in 1 .. Len(b.links)
           /\ Position(b, Need(b, pos)) <= pos
           /\ pos < Size(b) => pos < Position(b, Need(b, pos)) + Size(b.links[Need(b, pos)])
<1> SUFFICES ASSUME WellBuilt(bs, c), ~IsLeaf(b)
             PROVE  /\ Need(b, pos) \in 1 .. Len(b.links)
                    /\ Position(b, Need(b, pos)) <= pos
                    /\ pos < Size(b) =>
                         pos < Position(b, Need(b, pos)) + Size(b.links[Need(b, pos)])
  OBVIOUS
<1> DEFINE n == Len(b.links)
           at == Before(b.sizes)
           k == Need(b, pos)
<1>1. \A x \in bs : c[x] \in Seq(Nat)
  BY DEF WellBuilt
<1>2. b.links \in Seq(bs) /\ b.sizes = Lengths(b.links, c)
  BY DEF WellBuilt, Fits
<1>3. n \in Nat /\ b.sizes \in Seq(Nat) /\ Len(b.sizes) = n /\ b.sizes # <<>> /\ DOMAIN b.links = 1 .. n
  BY <1>1, <1>2, LengthsType, LenProperties DEF IsLeaf
<1>4. \A i \in 1 .. n : b.sizes[i] = Len(c[b.links[i]]) /\ Size(b.links[i]) = Len(c[b.links[i]])
  BY <1>2, LenProperties, ElementOfSeq, SizeIsLength DEF Lengths
<1>5. Size(b) = at[n]
  BY <1>3 DEF Size
<1>6. at \in [0 .. n -> Nat] /\ \A i \in 1 .. n : at[i] = at[i - 1] + b.sizes[i]
  BY <1>3, BeforeDef
<1>7. \E i \in 1 .. n : at[i - 1] <= pos /\ \A j \in i + 1 .. n : at[j - 1] > pos
  BY <1>3, Locate
<1>8. k \in 1 .. n /\ at[k - 1] <= pos /\ \A j \in k + 1 .. n : at[j - 1] > pos
  <2> HIDE DEF n, at
  <2>1. \E i \in DOMAIN b.links : /\ Position(b, i) <= pos
                                  /\ \A j \in i + 1 .. Len(b.links) : Position(b, j) > pos
    BY <1>3, <1>7 DEF Position, at, n
  <2>2. k \in DOMAIN b.links /\ Position(b, k) <= pos
        /\ \A j \in k + 1 .. Len(b.links) : Position(b, j) > pos
    BY <2>1, Zenon DEF Need
  <2> HIDE DEF k
  <2> QED
    BY <2>2, <1>3 DEF Position, at, n
<1> HIDE DEF k, n, at
<1>9. ASSUME pos < at[n] PROVE pos < at[k - 1] + b.sizes[k]
  <2>1. CASE k = n
    BY <2>1, <1>6, <1>8, <1>9, <1>3
  <2>2. CASE k # n
    <3>1. k + 1 \in k + 1 .. n /\ (k + 1) - 1 = k /\ k \in 0 .. n /\ k \in 1 .. n
      BY <2>2, <1>3, <1>8
    <3>2. at[k] > pos /\ at[k] = at[k - 1] + b.sizes[k]
      BY <3>1, <1>8, <1>6
    <3> QED
      BY <3>2
  <2> QED
    BY <2>1, <2>2
<1> QED
  BY <1>4, <1>5, <1>8, <1>9 DEF k, n, at, Position

-----------------------------------------------------------------------------
(* The tree that a file becomes.                                           *)

(* n pieces of the given length, but the last, which may be shorter, make  *)
(* up the first upto of len.                                               *)
IsCut(cut, n, len, step, upto) ==
  /\ cut \in [0 .. n -> Nat] /\ cut[0] = 0 /\ cut[n] = upto
  /\ \A i \in 1 .. n : cut[i] = Smaller(cut[i - 1] + step, len) /\ (i = 1 \/ cut[i - 1] < len)

Leaves(nodes, f, raw, upto) ==
  \E cut : /\ IsCut(cut, Len(nodes), Len(f), ChunkSize, upto)
           /\ nodes = [i \in 1 .. Len(nodes) |-> Leaf(SubSeq(f, cut[i - 1] + 1, cut[i]), raw)]

Bundles(tree, nodes, upto) ==
  \E cut : /\ IsCut(cut, Len(tree), Len(nodes), LinksPerBlock, upto)
           /\ tree = [i \in 1 .. Len(tree) |-> Bundle(SubSeq(nodes, cut[i - 1] + 1, cut[i]))]

LeafLevel(nodes, f, raw) == Len(nodes) \in Nat \ {0} /\ Leaves(nodes, f, raw, Len(f))

NextLevel(tree, nodes) ==
  Len(nodes) > 1 /\ Len(tree) \in Nat \ {0} /\ Bundles(tree, nodes, Len(nodes))

(* The levels from the leaves on.                                          *)
IsTower(t, k, f, raw) ==
  k \in Nat /\ LeafLevel(t[0], f, raw) /\ \A j \in 1 .. k : NextLevel(t[j], t[j - 1])

LevelOf(nodes, f, raw) == \E t, k : IsTower(t, k, f, raw) /\ t[k] = nodes

(* The next piece.                                                         *)
LEMMA CutMore ==
  ASSUME NEW n \in Nat, NEW len \in Nat, NEW step \in Nat, NEW upto \in Nat, NEW cut
  PROVE  IsCut(cut, n, len, step, upto) /\ (n = 0 \/ upto < len) =>
           \E more : /\ IsCut(more, n + 1, len, step, Smaller(upto + step, len))
                     /\ \A i \in 0 .. n : more[i] = cut[i]
<1> SUFFICES ASSUME IsCut(cut, n, len, step, upto), n = 0 \/ upto < len
             PROVE  \E more : /\ IsCut(more, n + 1, len, step, Smaller(upto + step, len))
                              /\ \A i \in 0 .. n : more[i] = cut[i]
  OBVIOUS
<1> DEFINE e == Smaller(upto + step, len)
           more == [i \in 0 .. n + 1 |-> IF i = n + 1 THEN e ELSE cut[i]]
<1>1. e \in Nat
  BY DEF Smaller
<1> HIDE DEF e
<1>2. /\ cut \in [0 .. n -> Nat] /\ cut[0] = 0 /\ cut[n] = upto
      /\ \A i \in 1 .. n : cut[i] = Smaller(cut[i - 1] + step, len) /\ (i = 1 \/ cut[i - 1] < len)
  BY DEF IsCut
<1>3. \A i \in 0 .. n : more[i] = cut[i]
  OBVIOUS
<1>4. more \in [0 .. n + 1 -> Nat] /\ more[0] = 0 /\ more[n + 1] = e
  BY <1>1, <1>2
<1> HIDE DEF more
<1>5. ASSUME NEW i \in 1 .. n + 1
      PROVE  more[i] = Smaller(more[i - 1] + step, len) /\ (i = 1 \/ more[i - 1] < len)
  <2>1. CASE i = n + 1
    <3>1. more[i - 1] = upto
      BY <2>1, <1>2, <1>3
    <3> QED
      BY <3>1, <2>1, <1>4 DEF e
  <2>2. CASE i # n + 1
    <3>1. i \in 1 .. n /\ i \in 0 .. n /\ i - 1 \in 0 .. n
      BY <2>2
    <3>2. more[i] = cut[i] /\ more[i - 1] = cut[i - 1]
      BY <3>1, <1>3
    <3> QED
      BY <3>1, <3>2, <1>2
  <2> QED
    BY <2>1, <2>2
<1>6. IsCut(more, n + 1, len, step, e)
  BY <1>4, <1>5 DEF IsCut
<1> QED
  BY <1>3, <1>6 DEF e

(* There is one way to cut a length into pieces.                           *)
LEMMA CutUnique ==
  ASSUME NEW n \in Nat \ {0}, NEW m \in Nat \ {0}, NEW len, NEW step, NEW a, NEW b
  PROVE  IsCut(a, n, len, step, len) /\ IsCut(b, m, len, step, len) /\ n <= m => n = m /\ a = b
<1> SUFFICES ASSUME IsCut(a, n, len, step, len), IsCut(b, m, len, step, len), n <= m
             PROVE  n = m /\ a = b
  OBVIOUS
<1>1. /\ a \in [0 .. n -> Nat] /\ a[0] = 0 /\ a[n] = len
      /\ \A i \in 1 .. n : a[i] = Smaller(a[i - 1] + step, len)
  BY DEF IsCut
<1>2. /\ b \in [0 .. m -> Nat] /\ b[0] = 0 /\ b[m] = len
      /\ \A i \in 1 .. m : b[i] = Smaller(b[i - 1] + step, len) /\ (i = 1 \/ b[i - 1] < len)
  BY DEF IsCut
<1> DEFINE T == {i \in Nat : i <= n => a[i] = b[i]}
<1>3. 0 \in T
  BY <1>1, <1>2
<1>4. ASSUME NEW i \in Nat, i \in T PROVE i + 1 \in T
  <2>1. CASE i + 1 <= n
    <3>1. i + 1 \in 1 .. n /\ i + 1 \in 1 .. m /\ (i + 1) - 1 = i /\ i <= n
      BY <2>1
    <3>2. a[i] = b[i]
      BY <1>4, <3>1
    <3>3. a[i + 1] = Smaller(a[i] + step, len) /\ b[i + 1] = Smaller(b[i] + step, len)
      BY <3>1, <1>1, <1>2
    <3> QED
      BY <3>2, <3>3
  <2>2. CASE ~(i + 1 <= n)
    BY <2>2
  <2> QED
    BY <2>1, <2>2
<1> HIDE DEF T
<1>5. Nat \subseteq T
  BY <1>3, <1>4, Induct
<1>6. \A i \in 0 .. n : a[i] = b[i]
  BY <1>5 DEF T
<1>7. n = m
  <2> SUFFICES ASSUME n # m PROVE FALSE
    OBVIOUS
  <2>1. n + 1 \in 1 .. m /\ n + 1 # 1 /\ (n + 1) - 1 = n /\ n \in 0 .. n /\ n \in 0 .. m
    OBVIOUS
  <2>2. b[n] < len /\ b[n] = len /\ b[n] \in Nat
    BY <2>1, <1>1, <1>2, <1>6
  <2> QED
    BY <2>2
<1> QED
  BY <1>1, <1>2, <1>6, <1>7

(* A file has one level of leaves,                                         *)
LEMMA LeafLevelUnique ==
  ASSUME NEW x, NEW y, NEW f, NEW raw
  PROVE  LeafLevel(x, f, raw) /\ LeafLevel(y, f, raw) => x = y
<1> SUFFICES ASSUME LeafLevel(x, f, raw), LeafLevel(y, f, raw) PROVE x = y
  OBVIOUS
<1>1. Len(x) \in Nat \ {0} /\ Len(y) \in Nat \ {0}
  BY DEF LeafLevel
<1>2. PICK a : /\ IsCut(a, Len(x), Len(f), ChunkSize, Len(f))
               /\ x = [i \in 1 .. Len(x) |-> Leaf(SubSeq(f, a[i - 1] + 1, a[i]), raw)]
  BY Zenon DEF LeafLevel, Leaves
<1>3. PICK b : /\ IsCut(b, Len(y), Len(f), ChunkSize, Len(f))
               /\ y = [i \in 1 .. Len(y) |-> Leaf(SubSeq(f, b[i - 1] + 1, b[i]), raw)]
  BY Zenon DEF LeafLevel, Leaves
<1>4. Len(x) <= Len(y) => Len(x) = Len(y) /\ a = b
  BY <1>1, <1>2, <1>3, CutUnique
<1>5. Len(y) <= Len(x) => Len(y) = Len(x) /\ b = a
  BY <1>1, <1>2, <1>3, CutUnique
<1>6. Len(x) <= Len(y) \/ Len(y) <= Len(x)
  BY <1>1
<1>7. Len(x) = Len(y) /\ a = b
  BY <1>4, <1>5, <1>6
<1> QED
  BY <1>2, <1>3, <1>7, Zenon

(* a level has one next level,                                             *)
LEMMA NextLevelUnique ==
  ASSUME NEW x, NEW y, NEW nodes
  PROVE  NextLevel(x, nodes) /\ NextLevel(y, nodes) => x = y
<1> SUFFICES ASSUME NextLevel(x, nodes), NextLevel(y, nodes) PROVE x = y
  OBVIOUS
<1>1. Len(x) \in Nat \ {0} /\ Len(y) \in Nat \ {0}
  BY DEF NextLevel
<1>2. PICK a : /\ IsCut(a, Len(x), Len(nodes), LinksPerBlock, Len(nodes))
               /\ x = [i \in 1 .. Len(x) |-> Bundle(SubSeq(nodes, a[i - 1] + 1, a[i]))]
  BY Zenon DEF NextLevel, Bundles
<1>3. PICK b : /\ IsCut(b, Len(y), Len(nodes), LinksPerBlock, Len(nodes))
               /\ y = [i \in 1 .. Len(y) |-> Bundle(SubSeq(nodes, b[i - 1] + 1, b[i]))]
  BY Zenon DEF NextLevel, Bundles
<1>4. Len(x) <= Len(y) => Len(x) = Len(y) /\ a = b
  BY <1>1, <1>2, <1>3, CutUnique
<1>5. Len(y) <= Len(x) => Len(y) = Len(x) /\ b = a
  BY <1>1, <1>2, <1>3, CutUnique
<1>6. Len(x) <= Len(y) \/ Len(y) <= Len(x)
  BY <1>1
<1>7. Len(x) = Len(y) /\ a = b
  BY <1>4, <1>5, <1>6
<1> QED
  BY <1>2, <1>3, <1>7, Zenon

(* and so two towers over a file that both come to a single node come to   *)
(* the same one.                                                           *)
LEMMA TowersAgree ==
  ASSUME NEW t, NEW k, NEW u, NEW m, NEW f, NEW raw
  PROVE  IsTower(t, k, f, raw) /\ IsTower(u, m, f, raw) /\ k <= m /\ Len(t[k]) = 1 => u[m] = t[k]
<1> SUFFICES ASSUME IsTower(t, k, f, raw), IsTower(u, m, f, raw), k <= m, Len(t[k]) = 1
             PROVE  u[m] = t[k]
  OBVIOUS
<1>1. /\ k \in Nat /\ LeafLevel(t[0], f, raw) /\ \A j \in 1 .. k : NextLevel(t[j], t[j - 1])
      /\ m \in Nat /\ LeafLevel(u[0], f, raw) /\ \A j \in 1 .. m : NextLevel(u[j], u[j - 1])
  BY DEF IsTower
<1> DEFINE T == {j \in Nat : j <= k => t[j] = u[j]}
<1>2. 0 \in T
  BY <1>1, LeafLevelUnique
<1>3. ASSUME NEW j \in Nat, j \in T PROVE j + 1 \in T
  <2>1. CASE j + 1 <= k
    <3>1. j + 1 \in 1 .. k /\ j + 1 \in 1 .. m /\ (j + 1) - 1 = j /\ j <= k
      BY <2>1, <1>1
    <3>2. t[j] = u[j]
      BY <1>3, <3>1
    <3>3. NextLevel(t[j + 1], t[j]) /\ NextLevel(u[j + 1], u[j])
      BY <3>1, <1>1
    <3>4. t[j + 1] = u[j + 1]
      BY <3>2, <3>3, NextLevelUnique
    <3> QED
      BY <3>4
  <2>2. CASE ~(j + 1 <= k)
    BY <2>2
  <2> QED
    BY <2>1, <2>2
<1> HIDE DEF T
<1>4. Nat \subseteq T
  BY <1>2, <1>3, Induct
<1>5. t[k] = u[k]
  BY <1>1, <1>4 DEF T
<1>6. k = m
  <2> SUFFICES ASSUME k # m PROVE FALSE
    OBVIOUS
  <2>1. k + 1 \in 1 .. m /\ (k + 1) - 1 = k
    BY <1>1
  <2>2. NextLevel(u[k + 1], u[k])
    BY <2>1, <1>1
  <2>3. Len(u[k]) > 1
    BY <2>2 DEF NextLevel
  <2> QED
    BY <2>3, <1>5, SMTT(30)
<1> QED
  BY <1>5, <1>6

(* A file has one root.                                                    *)
LEMMA OneRoot ==
  ASSUME NEW x, NEW y, NEW f, NEW raw
  PROVE  LevelOf(x, f, raw) /\ LevelOf(y, f, raw) /\ Len(x) = 1 /\ Len(y) = 1 => x = y
<1> SUFFICES ASSUME LevelOf(x, f, raw), LevelOf(y, f, raw), Len(x) = 1, Len(y) = 1
             PROVE  x = y
  OBVIOUS
<1>1. PICK t, k : IsTower(t, k, f, raw) /\ t[k] = x
  BY Zenon DEF LevelOf
<1>2. PICK u, m : IsTower(u, m, f, raw) /\ u[m] = y
  BY Zenon DEF LevelOf
<1>3. k \in Nat /\ m \in Nat
  BY <1>1, <1>2 DEF IsTower
<1>4. CASE k <= m
  BY <1>1, <1>2, <1>4, TowersAgree
<1>5. CASE m <= k
  BY <1>1, <1>2, <1>5, TowersAgree
<1> QED
  BY <1>3, <1>4, <1>5

(* The leaves are a level of the tree,                                     *)
LEMMA FirstLevel ==
  ASSUME NEW x, NEW f, NEW raw
  PROVE  LeafLevel(x, f, raw) => LevelOf(x, f, raw)
<1> SUFFICES ASSUME LeafLevel(x, f, raw) PROVE LevelOf(x, f, raw)
  OBVIOUS
<1> DEFINE t == [j \in {0} |-> x]
<1>1. t[0] = x
  OBVIOUS
<1> HIDE DEF t
<1>2. IsTower(t, 0, f, raw)
  BY <1>1 DEF IsTower
<1> QED
  BY <1>1, <1>2, Zenon DEF LevelOf

(* and so is what is built from a level.                                   *)
LEMMA HigherLevel ==
  ASSUME NEW x, NEW y, NEW f, NEW raw
  PROVE  LevelOf(x, f, raw) /\ NextLevel(y, x) => LevelOf(y, f, raw)
<1> SUFFICES ASSUME LevelOf(x, f, raw), NextLevel(y, x) PROVE LevelOf(y, f, raw)
  OBVIOUS
<1>1. PICK t, k : IsTower(t, k, f, raw) /\ t[k] = x
  BY Zenon DEF LevelOf
<1> DEFINE u == [j \in 0 .. k + 1 |-> IF j = k + 1 THEN y ELSE t[j]]
<1>2. k \in Nat /\ LeafLevel(t[0], f, raw) /\ \A j \in 1 .. k : NextLevel(t[j], t[j - 1])
  BY <1>1 DEF IsTower
<1>3. u[k + 1] = y /\ \A j \in 0 .. k : u[j] = t[j]
  BY <1>2
<1> HIDE DEF u
<1>4. ASSUME NEW j \in 1 .. k + 1 PROVE NextLevel(u[j], u[j - 1])
  <2>1. CASE j = k + 1
    <3>1. u[j] = y /\ u[j - 1] = x
      BY <2>1, <1>1, <1>2, <1>3
    <3> QED
      BY <3>1
  <2>2. CASE j # k + 1
    <3>1. j \in 1 .. k /\ j \in 0 .. k /\ j - 1 \in 0 .. k
      BY <2>2, <1>2
    <3>2. u[j] = t[j] /\ u[j - 1] = t[j - 1]
      BY <3>1, <1>3
    <3> QED
      BY <3>1, <3>2, <1>2
  <2> QED
    BY <2>1, <2>2
<1>5. u[0] = t[0] /\ k + 1 \in Nat
  BY <1>2, <1>3
<1>6. IsTower(u, k + 1, f, raw)
  BY <1>2, <1>4, <1>5 DEF IsTower
<1> QED
  BY <1>3, <1>6, Zenon DEF LevelOf

-----------------------------------------------------------------------------
(* Readers.                                                                *)

Frames(bs) == [node : bs, pos : Nat, cur : Nat, data : Seq(Nat), filled : Nat]

ReadRecord(bs) ==
  [ pc : {"closed", "open", "reading", "ended"}, file : Seq(Nat), slice : Nat \X Nat, end : Nat,
    want : Nat, stack : Seq(Frames(bs)), got : Seq(Nat), broken : BOOLEAN ]

Child(x) == x.node.links[x.cur]

(* A stream has an array as long as its current child.                     *)
FrameOK(x, bs, c) ==
  x.cur # 0 => /\ ~IsLeaf(x.node) /\ x.cur \in 1 .. Len(x.node.links) /\ Child(x) \in bs
               /\ Len(x.data) = Len(c[Child(x)]) /\ x.filled <= Len(x.data)

(* What has been filled of it are the bytes of that child.                 *)
FrameExact(x, c) == x.cur # 0 => \A q \in 1 .. x.filled : x.data[q] = c[Child(x)][q]

Whole(x) == x.cur # 0 => x.filled = Len(x.data)

(* The stream above reads the child.                                       *)
Linked(x, y) == x.cur # 0 /\ y.node = Child(x) /\ y.pos = x.filled

AtFile(s, c) ==
  /\ s.end = LogicalEnd(s.slice, Len(s.file)) /\ c[s.stack[1].node] = s.file
  /\ s.stack[1].pos = s.slice[1] + Len(s.got)
  /\ Len(s.got) = 0 \/ s.stack[1].pos <= s.end
  /\ s.pc = "reading" => s.want # 0 /\ s.stack[1].pos + s.want <= s.end
  /\ s.pc = "ended" => s.stack[1].pos >= s.end

Exact(s, c) ==
  /\ \A i \in 1 .. Len(s.got) : s.got[i] = s.file[s.slice[1] + i]
  /\ \A i \in 1 .. Len(s.stack) : FrameExact(s.stack[i], c)
  /\ Whole(Top(s))

Reading(s, bs, c) ==
  /\ s \in ReadRecord(bs)
  /\ s.pc = "closed" <=> s.stack = <<>>
  /\ s.pc \in {"open", "ended"} => Len(s.stack) = 1
  /\ s.pc # "closed" => AtFile(s, c)
  /\ \A i \in 1 .. Len(s.stack) : FrameOK(s.stack[i], bs, c)
  /\ \A i \in 1 .. Len(s.stack) - 1 : Linked(s.stack[i], s.stack[i + 1])
  /\ s.pc # "closed" /\ ~s.broken => Exact(s, c)

(* The streams of a reader.                                                *)
LEMMA StackIs ==
  ASSUME NEW bs, NEW s \in ReadRecord(bs)
  PROVE  /\ s.stack \in Seq(Frames(bs)) /\ Len(s.stack) \in Nat
         /\ \A i \in 1 .. Len(s.stack) : s.stack[i] \in Frames(bs)
         /\ s.stack # <<>> => Len(s.stack) # 0 /\ Top(s) = s.stack[Len(s.stack)]
                              /\ s.stack[1] \in Frames(bs) /\ Top(s) \in Frames(bs)
<1>1. s.stack \in Seq(Frames(bs))
  BY DEF ReadRecord
<1>2. Len(s.stack) \in Nat /\ \A i \in 1 .. Len(s.stack) : s.stack[i] \in Frames(bs)
  BY <1>1, LenProperties, ElementOfSeq
<1>3. s.stack # <<>> => Len(s.stack) # 0
  BY <1>1, EmptySeq
<1> QED
  BY <1>1, <1>2, <1>3 DEF Top

(* Streams stay streams when there are more blocks.                        *)
LEMMA FramesMore ==
  ASSUME NEW bs, NEW more, bs \subseteq more
  PROVE  ReadRecord(bs) \subseteq ReadRecord(more)
<1>1. Frames(bs) \subseteq Frames(more)
  BY DEF Frames
<1>2. Seq(Frames(bs)) \subseteq Seq(Frames(more))
  BY <1>1, SeqMonotonic
<1> HIDE DEF Frames
<1> QED
  BY <1>2 DEF ReadRecord

(* What a reader has done stays right when there are more blocks.          *)
LEMMA ReadingMore ==
  ASSUME NEW s, NEW bs, NEW more, bs \subseteq more, NEW c, NEW d, \A x \in bs : d[x] = c[x]
  PROVE  Reading(s, bs, c) => Reading(s, more, d)
<1> SUFFICES ASSUME Reading(s, bs, c) PROVE Reading(s, more, d)
  OBVIOUS
<1>1. /\ s \in ReadRecord(bs)
      /\ s.pc = "closed" <=> s.stack = <<>>
      /\ s.pc \in {"open", "ended"} => Len(s.stack) = 1
      /\ s.pc # "closed" => AtFile(s, c)
      /\ \A i \in 1 .. Len(s.stack) : FrameOK(s.stack[i], bs, c)
      /\ \A i \in 1 .. Len(s.stack) - 1 : Linked(s.stack[i], s.stack[i + 1])
      /\ s.pc # "closed" /\ ~s.broken => Exact(s, c)
  BY Zenon DEF Reading
<1>2. s \in ReadRecord(more)
  BY <1>1, FramesMore
<1>3. /\ \A i \in 1 .. Len(s.stack) : s.stack[i].node \in bs
      /\ s.stack # <<>> => s.stack[1].node \in bs
  BY <1>1, StackIs DEF Frames
<1>4. s.pc # "closed" => AtFile(s, d)
  BY <1>1, <1>3 DEF AtFile
<1>5. \A i \in 1 .. Len(s.stack) : FrameOK(s.stack[i], more, d) /\
         (s.stack[i].cur # 0 => d[Child(s.stack[i])] = c[Child(s.stack[i])])
  BY <1>1 DEF FrameOK
<1>6. \A i \in 1 .. Len(s.stack) : FrameExact(s.stack[i], c) => FrameExact(s.stack[i], d)
  BY <1>5 DEF FrameExact
<1>7. s.pc # "closed" /\ ~s.broken => Exact(s, d)
  BY <1>1, <1>6 DEF Exact
<1> QED
  BY <1>1, <1>2, <1>4, <1>5, <1>7, Zenon DEF Reading

(* A closed stream is a record of a reader,                                *)
LEMMA Empty == ASSUME NEW bs PROVE NoStream \in ReadRecord(bs)
<1>1. <<>> \in Seq(Nat) /\ <<>> \in Seq(Frames(bs)) /\ <<0, 0>> \in Nat \X Nat
  BY EmptySeq
<1>2. "closed" \in {"closed", "open", "reading", "ended"}
  OBVIOUS
<1> QED
  BY <1>1, <1>2 DEF ReadRecord, NoStream

(* and has nothing to get right.                                           *)
LEMMA ReadingNothing == ASSUME NEW bs, NEW c PROVE Reading(NoStream, bs, c)
<1>1. /\ NoStream \in ReadRecord(bs) /\ NoStream.pc = "closed" /\ NoStream.stack = <<>>
  BY Empty DEF NoStream
<1>2. Len(<<>>) = 0
  OBVIOUS
<1> HIDE DEF NoStream
<1> QED
  BY <1>1, <1>2 DEF Reading

-----------------------------------------------------------------------------
(* Stacks of streams.                                                      *)

(* The stack with one stream in place of those above m,                    *)
LEMMA PutOn ==
  ASSUME NEW S, NEW s \in Seq(S), NEW m \in Nat, m <= Len(s), NEW x \in S
  PROVE  LET t == SubSeq(s, 1, m) \o <<x>> IN
         /\ t \in Seq(S) /\ Len(t) = m + 1 /\ t[m + 1] = x /\ \A i \in 1 .. m : t[i] = s[i]
<1> DEFINE u == SubSeq(s, 1, m)
           t == u \o <<x>>
<1>1. u \in Seq(S) /\ Len(u) = m /\ \A i \in 1 .. m : u[i] = s[i]
  <2>1. /\ u \in Seq(S) /\ Len(u) = (m + 1) - 1
        /\ \A i \in 1 .. (m + 1) - 1 : u[i] = s[(1 - 1) + i]
    BY SubSeqIs
  <2> QED
    BY <2>1
<1>2. <<x>> \in Seq(S) /\ Len(<<x>>) = 1 /\ <<x>>[1] = x
  OBVIOUS
<1> HIDE DEF u
<1>3. /\ t \in Seq(S) /\ Len(t) = m + 1
      /\ \A i \in 1 .. m + 1 : t[i] = IF i <= m THEN u[i] ELSE <<x>>[i - m]
  BY <1>1, <1>2, ConcatProperties
<1> HIDE DEF t
<1>4. t[m + 1] = x
  <2>1. m + 1 \in 1 .. m + 1 /\ ~(m + 1 <= m) /\ (m + 1) - m = 1
    OBVIOUS
  <2> QED
    BY <2>1, <1>2, <1>3
<1>5. \A i \in 1 .. m : t[i] = s[i]
  BY <1>1, <1>3
<1> QED
  BY <1>3, <1>4, <1>5 DEF t, u

(* and with two.                                                           *)
LEMMA PutTwo ==
  ASSUME NEW S, NEW s \in Seq(S), NEW m \in Nat, m <= Len(s), NEW x \in S, NEW y \in S
  PROVE  LET t == SubSeq(s, 1, m) \o <<x, y>> IN
         /\ t \in Seq(S) /\ Len(t) = m + 2 /\ t[m + 1] = x /\ t[m + 2] = y
         /\ \A i \in 1 .. m : t[i] = s[i]
<1> DEFINE u == SubSeq(s, 1, m)
           t == u \o <<x, y>>
<1>1. u \in Seq(S) /\ Len(u) = m /\ \A i \in 1 .. m : u[i] = s[i]
  <2>1. /\ u \in Seq(S) /\ Len(u) = (m + 1) - 1
        /\ \A i \in 1 .. (m + 1) - 1 : u[i] = s[(1 - 1) + i]
    BY SubSeqIs
  <2> QED
    BY <2>1
<1>2. <<x, y>> \in Seq(S) /\ Len(<<x, y>>) = 2 /\ <<x, y>>[1] = x /\ <<x, y>>[2] = y
  OBVIOUS
<1> HIDE DEF u
<1>3. /\ t \in Seq(S) /\ Len(t) = m + 2
      /\ \A i \in 1 .. m + 2 : t[i] = IF i <= m THEN u[i] ELSE <<x, y>>[i - m]
  BY <1>1, <1>2, ConcatProperties
<1> HIDE DEF t
<1>4. t[m + 1] = x /\ t[m + 2] = y
  <2>1. /\ m + 1 \in 1 .. m + 2 /\ ~(m + 1 <= m) /\ (m + 1) - m = 1
        /\ m + 2 \in 1 .. m + 2 /\ ~(m + 2 <= m) /\ (m + 2) - m = 2
    OBVIOUS
  <2> QED
    BY <2>1, <1>2, <1>3
<1>5. \A i \in 1 .. m : t[i] = s[i]
  <2> SUFFICES ASSUME NEW i \in 1 .. m PROVE t[i] = s[i]
    OBVIOUS
  <2>1. i \in 1 .. m + 2 /\ i <= m
    OBVIOUS
  <2> QED
    BY <2>1, <1>1, <1>3
<1> QED
  BY <1>3, <1>4, <1>5 DEF t, u

(* A step that changes the streams above, but not where the first is.      *)
LEMMA NewStack ==
  ASSUME NEW bs, NEW c, NEW s, Reading(s, bs, c), s.pc = "reading",
         NEW t \in Seq(Frames(bs)), t # <<>>,
         t[1].node = s.stack[1].node, t[1].pos = s.stack[1].pos,
         \A i \in 1 .. Len(t) : FrameOK(t[i], bs, c),
         \A i \in 1 .. Len(t) - 1 : Linked(t[i], t[i + 1]),
         ~s.broken => (\A i \in 1 .. Len(t) : FrameExact(t[i], c)) /\ Whole(t[Len(t)])
  PROVE  Reading([s EXCEPT !.stack = t], bs, c)
<1> DEFINE z == [s EXCEPT !.stack = t]
<1>1. /\ s \in ReadRecord(bs)
      /\ s.pc # "closed" => AtFile(s, c)
      /\ s.pc # "closed" /\ ~s.broken => Exact(s, c)
  BY Zenon DEF Reading
<1>2. /\ z \in ReadRecord(bs) /\ z.stack = t
      /\ z.pc = s.pc /\ z.file = s.file /\ z.slice = s.slice /\ z.end = s.end
      /\ z.want = s.want /\ z.got = s.got /\ z.broken = s.broken
  BY <1>1 DEF ReadRecord
<1> HIDE DEF z
<1>3. AtFile(z, c)
  BY <1>1, <1>2 DEF AtFile
<1>4. ~z.broken => Exact(z, c)
  BY <1>1, <1>2 DEF Exact, Top
<1> QED
  BY <1>2, <1>3, <1>4 DEF Reading, z

(* The bytes that are copied.                                              *)
LEMMA Copied ==
  ASSUME NEW data \in Seq(Nat), NEW p \in Nat, NEW n \in Nat, p + n <= Len(data)
  PROVE  /\ SubSeq(data, p + 1, p + n) \in Seq(Nat) /\ Len(SubSeq(data, p + 1, p + n)) = n
         /\ \A i \in 1 .. n : SubSeq(data, p + 1, p + n)[i] = data[p + i]
<1>1. PICK e \in Nat : e = p + n
  OBVIOUS
<1>2. PICK a \in Nat : a = p + 1
  OBVIOUS
<1>3. 1 <= a /\ a <= e + 1 /\ e <= Len(data) /\ (e + 1) - a = n /\ a - 1 = p
  BY <1>1, <1>2, LenProperties
<1>4. SubSeq(data, a, e) \in Seq(Nat) /\ Len(SubSeq(data, a, e)) = (e + 1) - a
      /\ \A i \in 1 .. (e + 1) - a : SubSeq(data, a, e)[i] = data[(a - 1) + i]
  <2>1. 1 <= a /\ a <= e + 1 /\ e <= Len(data)
    BY <1>3
  <2> QED
    BY <2>1, SubSeqIs, SMTT(30)
<1> QED
  BY <1>1, <1>2, <1>3, <1>4

Written(d, m, n, bytes) ==
  [i \in DOMAIN d |-> IF i \in m + 1 .. m + n THEN bytes[i - m] ELSE d[i]]

(* A function on 1 .. n is a sequence.                                     *)
LEMMA InSeq ==
  ASSUME NEW S, NEW n \in Nat, NEW f \in [1 .. n -> S]
  PROVE  f \in Seq(S) /\ Len(f) = n
<1>1. f \in Seq(S)
  BY SeqDef
<1> QED
  BY <1>1, LenProperties

(* An array into which bytes have been written.                            *)
LEMMA ArrayFilled ==
  ASSUME NEW d \in Seq(Nat), NEW m \in Nat, NEW n \in Nat, NEW bytes \in Seq(Nat)
  PROVE  Len(bytes) = n /\ m + n <= Len(d) =>
         /\ Written(d, m, n, bytes) \in Seq(Nat)
         /\ Len(Written(d, m, n, bytes)) = Len(d)
         /\ \A q \in 1 .. m : Written(d, m, n, bytes)[q] = d[q]
         /\ \A q \in 1 .. n : Written(d, m, n, bytes)[m + q] = bytes[q]
<1> DEFINE array == Written(d, m, n, bytes)
<1>1. Len(d) \in Nat /\ DOMAIN d = 1 .. Len(d)
  BY LenProperties
<1>2. ASSUME NEW i \in 1 .. Len(d)
      PROVE  array[i] = IF i \in m + 1 .. m + n THEN bytes[i - m] ELSE d[i]
  BY <1>1 DEF Written
<1>3. array = [i \in 1 .. Len(d) |-> array[i]]
  BY <1>1 DEF Written
<1> HIDE DEF array
<1>4. \A q \in 1 .. n : q \in Nat /\ m + q \in m + 1 .. m + n /\ (m + q) - m = q
  OBVIOUS
<1>5. \A q \in 1 .. m : q \in Nat /\ ~(q \in m + 1 .. m + n)
  OBVIOUS
<1>6. \A i \in m + 1 .. m + n : i \in Nat /\ i - m \in 1 .. n
  OBVIOUS
<1>7. m + n <= Len(d) => (\A q \in 1 .. n : m + q \in 1 .. Len(d)) /\ (\A q \in 1 .. m : q \in 1 .. Len(d))
  BY <1>1
<1> SUFFICES ASSUME Len(bytes) = n, m + n <= Len(d)
             PROVE  /\ array \in Seq(Nat) /\ Len(array) = Len(d)
                    /\ \A q \in 1 .. m : array[q] = d[q]
                    /\ \A q \in 1 .. n : array[m + q] = bytes[q]
  BY DEF array
<1>8. ASSUME NEW i \in 1 .. Len(d) PROVE array[i] \in Nat
  <2>1. d[i] \in Nat
    BY <1>1, ElementOfSeq
  <2>2. ASSUME i \in m + 1 .. m + n PROVE bytes[i - m] \in Nat
    BY <2>2, <1>6, ElementOfSeq
  <2> QED
    BY <2>1, <2>2, <1>2
<1>9. array \in [1 .. Len(d) -> Nat]
  BY <1>3, <1>8
<1>10. array \in Seq(Nat)
  BY <1>1, <1>9, InSeq
<1>11. Len(array) = Len(d)
  BY <1>1, <1>9, InSeq
<1>12. \A q \in 1 .. m : array[q] = d[q]
  BY <1>2, <1>5, <1>7
<1>13. ASSUME NEW q \in 1 .. n PROVE array[m + q] = bytes[q]
  <2>1. m + q \in m + 1 .. m + n /\ (m + q) - m = q /\ m + q \in 1 .. Len(d)
    BY <1>4, <1>7
  <2>2. array[m + q] = IF m + q \in m + 1 .. m + n THEN bytes[(m + q) - m] ELSE d[m + q]
    BY <2>1, <1>2
  <2> QED
    BY <2>1, <2>2
<1> QED
  BY <1>10, <1>11, <1>12, <1>13

Fill(u, n, bytes) ==
  [u EXCEPT
     !.filled = @ + n,
     !.data = [i \in DOMAIN @ |-> IF i \in u.filled + 1 .. u.filled + n
                                  THEN bytes[i - u.filled] ELSE @[i]]]

(* A stream whose array has been written to.                               *)
LEMMA Filled ==
  ASSUME NEW bs, NEW u \in Frames(bs), NEW n \in Nat, NEW bytes \in Seq(Nat)
  PROVE  Len(bytes) = n /\ u.filled + n <= Len(u.data) =>
         /\ Fill(u, n, bytes) \in Frames(bs) /\ Fill(u, n, bytes).node = u.node
         /\ Fill(u, n, bytes).pos = u.pos /\ Fill(u, n, bytes).cur = u.cur
         /\ Fill(u, n, bytes).filled = u.filled + n
         /\ Len(Fill(u, n, bytes).data) = Len(u.data)
         /\ \A q \in 1 .. u.filled : Fill(u, n, bytes).data[q] = u.data[q]
         /\ \A q \in 1 .. n : Fill(u, n, bytes).data[u.filled + q] = bytes[q]
<1> DEFINE array == Written(u.data, u.filled, n, bytes)
<1>1. u.data \in Seq(Nat) /\ u.filled \in Nat /\ u.node \in bs /\ u.pos \in Nat /\ u.cur \in Nat
  BY DEF Frames
<1>2. ASSUME NEW x \in Nat, NEW y \in Seq(Nat), NEW z, z = [u EXCEPT !.filled = x, !.data = y]
      PROVE  /\ z \in Frames(bs) /\ z.node = u.node /\ z.pos = u.pos /\ z.cur = u.cur
             /\ z.filled = x /\ z.data = y
  BY <1>2 DEF Frames
<1>3. [i \in DOMAIN u.data |-> IF i \in u.filled + 1 .. u.filled + n
                                  THEN bytes[i - u.filled] ELSE u.data[i]] = array
  BY DEF Written
<1>4. Fill(u, n, bytes) = [u EXCEPT !.filled = u.filled + n,
      !.data = [i \in DOMAIN u.data |-> IF i \in u.filled + 1 .. u.filled + n
                                  THEN bytes[i - u.filled] ELSE u.data[i]]]
  BY DEF Fill
<1> HIDE DEF array
<1>5. Fill(u, n, bytes) = [u EXCEPT !.filled = u.filled + n, !.data = array]
  BY <1>3, <1>4
<1>6. Len(bytes) = n /\ u.filled + n <= Len(u.data) =>
      /\ array \in Seq(Nat) /\ Len(array) = Len(u.data)
      /\ \A q \in 1 .. u.filled : array[q] = u.data[q]
      /\ \A q \in 1 .. n : array[u.filled + q] = bytes[q]
  <2>1. Len(bytes) = n /\ u.filled + n <= Len(u.data) =>
        /\ Written(u.data, u.filled, n, bytes) \in Seq(Nat)
        /\ Len(Written(u.data, u.filled, n, bytes)) = Len(u.data)
        /\ \A q \in 1 .. u.filled : Written(u.data, u.filled, n, bytes)[q] = u.data[q]
        /\ \A q \in 1 .. n : Written(u.data, u.filled, n, bytes)[u.filled + q] = bytes[q]
    <3>1. \A d \in Seq(Nat), m \in Nat : Len(bytes) = n /\ m + n <= Len(d) =>
          /\ Written(d, m, n, bytes) \in Seq(Nat)
          /\ Len(Written(d, m, n, bytes)) = Len(d)
          /\ \A q \in 1 .. m : Written(d, m, n, bytes)[q] = d[q]
          /\ \A q \in 1 .. n : Written(d, m, n, bytes)[m + q] = bytes[q]
      BY ArrayFilled
    <3> QED
      BY <1>1, <3>1, Zenon
  <2> QED
    BY <2>1 DEF array
<1>7. u.filled + n \in Nat
  BY <1>1
<1>8. ASSUME array \in Seq(Nat) PROVE
      /\ Fill(u, n, bytes) \in Frames(bs) /\ Fill(u, n, bytes).node = u.node
      /\ Fill(u, n, bytes).pos = u.pos /\ Fill(u, n, bytes).cur = u.cur
      /\ Fill(u, n, bytes).filled = u.filled + n /\ Fill(u, n, bytes).data = array
  <2>1. PICK x \in Nat : x = u.filled + n
    BY <1>7
  <2> DEFINE z == Fill(u, n, bytes)
  <2>2. z = [u EXCEPT !.filled = x, !.data = array]
    BY <1>5, <2>1
  <2> HIDE DEF z
  <2>3. /\ z \in Frames(bs) /\ z.node = u.node /\ z.pos = u.pos /\ z.cur = u.cur
        /\ z.filled = x /\ z.data = array
    BY <1>8, <2>2 DEF Frames
  <2> QED
    BY <2>1, <2>3 DEF z
<1> HIDE DEF Fill
<1>9. array \in Seq(Nat) /\ Fill(u, n, bytes).data = array =>
      ((/\ Len(array) = Len(u.data)
        /\ \A q \in 1 .. u.filled : array[q] = u.data[q]
        /\ \A q \in 1 .. n : array[u.filled + q] = bytes[q]) =>
       (/\ Len(Fill(u, n, bytes).data) = Len(u.data)
        /\ \A q \in 1 .. u.filled : Fill(u, n, bytes).data[q] = u.data[q]
        /\ \A q \in 1 .. n : Fill(u, n, bytes).data[u.filled + q] = bytes[q]))
  BY Zenon
<1> QED
  BY <1>6, <1>8, <1>9, Zenon

(* What there is to know of a stream that is being read.                   *)
LEMMA Parts ==
  ASSUME NEW s, NEW bs, NEW c
  PROVE  Reading(s, bs, c) /\ s.pc = "reading" =>
         /\ s \in ReadRecord(bs) /\ s.stack # <<>> /\ Len(s.stack) \in Nat \ {0}
         /\ s.stack \in Seq(Frames(bs)) /\ Top(s) = s.stack[Len(s.stack)]
         /\ AtFile(s, c)
         /\ \A i \in 1 .. Len(s.stack) : s.stack[i] \in Frames(bs) /\ FrameOK(s.stack[i], bs, c)
         /\ \A i \in 1 .. Len(s.stack) - 1 : Linked(s.stack[i], s.stack[i + 1])
         /\ ~s.broken => Exact(s, c)
<1>1. Reading(s, bs, c) /\ s.pc = "reading" =>
      /\ s \in ReadRecord(bs) /\ s.stack # <<>>
      /\ AtFile(s, c)
      /\ \A i \in 1 .. Len(s.stack) : FrameOK(s.stack[i], bs, c)
      /\ \A i \in 1 .. Len(s.stack) - 1 : Linked(s.stack[i], s.stack[i + 1])
      /\ ~s.broken => Exact(s, c)
  BY DEF Reading
<1> SUFFICES ASSUME s \in ReadRecord(bs), s.stack # <<>>
             PROVE  /\ Len(s.stack) \in Nat \ {0} /\ s.stack \in Seq(Frames(bs))
                    /\ Top(s) = s.stack[Len(s.stack)]
                    /\ \A i \in 1 .. Len(s.stack) : s.stack[i] \in Frames(bs)
  BY <1>1
<1> QED
  BY StackIs

(* What is delivered, and how much of it.                                  *)
Amount(s, data, p) == Smaller(Wanted(s), Len(data) - p)
Bytes(s, data, p) == SubSeq(data, p + 1, p + Amount(s, data, p))
(* The places of the last two streams.                                     *)
LEMMA BeforeLast ==
  ASSUME NEW m \in Nat \ {0}, m # 1
  PROVE  /\ m - 1 \in Nat /\ m - 1 # 0 /\ m - 1 \in 1 .. m /\ m - 1 \in 1 .. m - 1
         /\ (m - 1) + 1 = m
         /\ m - 2 \in Nat /\ m - 2 <= m /\ (m - 2) + 1 = m - 1 /\ (m - 2) + 2 = m
  OBVIOUS

(* A stream that has moved on keeps its current child.                     *)
LEMMA MovedOn ==
  ASSUME NEW bs, NEW c, NEW x \in Frames(bs), NEW n \in Nat, NEW y, y = [x EXCEPT !.pos = @ + n]
  PROVE  /\ y \in Frames(bs) /\ y.pos = x.pos + n /\ y.node = x.node
         /\ Child(y) = Child(x) /\ y.filled = x.filled
         /\ FrameOK(x, bs, c) => FrameOK(y, bs, c)
         /\ FrameExact(x, c) => FrameExact(y, c)
         /\ Whole(x) => Whole(y)
<1>1. /\ y \in Frames(bs) /\ y.pos = x.pos + n
      /\ y.node = x.node /\ y.cur = x.cur /\ y.data = x.data /\ y.filled = x.filled
  BY DEF Frames
<1> QED
  BY <1>1 DEF FrameOK, FrameExact, Whole, Child

(* Filling an array does not go past its end,                              *)
LEMMA FillOK ==
  ASSUME NEW bs, NEW c, NEW u \in Frames(bs), NEW n \in Nat,
         NEW bytes \in Seq(Nat), NEW x, x = Fill(u, n, bytes)
  PROVE  Len(bytes) = n /\ u.filled + n <= Len(u.data) =>
            /\ x \in Frames(bs) /\ x.node = u.node /\ x.pos = u.pos /\ x.cur = u.cur
            /\ Child(x) = Child(u)
            /\ x.filled = u.filled + n /\ Len(x.data) = Len(u.data)
            /\ FrameOK(u, bs, c) => FrameOK(x, bs, c)
<1>1. Len(bytes) = n /\ u.filled + n <= Len(u.data) =>
         /\ x \in Frames(bs) /\ x.node = u.node
         /\ x.pos = u.pos /\ x.cur = u.cur
         /\ x.filled = u.filled + n
         /\ Len(x.data) = Len(u.data)
  BY Filled
<1>2. u.filled \in Nat
  BY DEF Frames
<1>3. SUFFICES ASSUME Len(bytes) = n, u.filled + n <= Len(u.data)
      PROVE  /\ x \in Frames(bs) /\ x.node = u.node /\ x.pos = u.pos /\ x.cur = u.cur
             /\ Child(x) = Child(u)
             /\ x.filled = u.filled + n /\ Len(x.data) = Len(u.data)
             /\ FrameOK(u, bs, c) => FrameOK(x, bs, c)
  OBVIOUS
<1>4. /\ x \in Frames(bs) /\ x.node = u.node
      /\ x.pos = u.pos /\ x.cur = u.cur
      /\ x.filled = u.filled + n
      /\ Len(x.data) = Len(u.data)
  BY <1>1, <1>3
<1>7. Child(x) = Child(u)
  BY <1>4 DEF Child
<1>8. FrameOK(u, bs, c) => FrameOK(x, bs, c)
  BY <1>3, <1>4, <1>7 DEF FrameOK
<1> QED
  BY <1>4, <1>7, <1>8

(* and puts the bytes of the child in their places, if they are those at   *)
(* the position of the stream above.                                       *)
LEMMA FillExact ==
  ASSUME NEW bs, NEW c, NEW u \in Frames(bs), NEW top, NEW n \in Nat,
         NEW bytes \in Seq(Nat), NEW x, x = Fill(u, n, bytes)
  PROVE  /\ Len(bytes) = n /\ u.filled + n <= Len(u.data)
         /\ FrameExact(u, c) /\ Linked(u, top)
         /\ \A q \in 1 .. n : bytes[q] = c[top.node][top.pos + q]
         => FrameExact(x, c)
<1>1. Len(bytes) = n /\ u.filled + n <= Len(u.data) =>
         /\ x.node = u.node /\ x.cur = u.cur
         /\ x.filled = u.filled + n
         /\ \A q \in 1 .. u.filled : x.data[q] = u.data[q]
         /\ \A q \in 1 .. n : x.data[u.filled + q] = bytes[q]
  BY Filled
<1>2. u.filled \in Nat
  BY DEF Frames
<1>3. SUFFICES ASSUME Len(bytes) = n, u.filled + n <= Len(u.data),
                      FrameExact(u, c), Linked(u, top),
                      \A q \in 1 .. n : bytes[q] = c[top.node][top.pos + q]
               PROVE  FrameExact(x, c)
  OBVIOUS
<1>4. /\ x.node = u.node /\ x.cur = u.cur /\ x.filled = u.filled + n
  BY <1>1, <1>3
<1>5. \A q \in 1 .. u.filled : x.data[q] = u.data[q]
  BY <1>1, <1>3
<1>6. \A q \in 1 .. n : x.data[u.filled + q] = bytes[q]
  BY <1>1, <1>3
<1>7. Child(x) = Child(u)
  BY <1>4 DEF Child
<1>8. u.cur # 0 /\ top.node = Child(u) /\ top.pos = u.filled
  BY <1>3 DEF Linked
<1>9. \A q \in 1 .. u.filled : u.data[q] = c[Child(u)][q]
  BY <1>3, <1>8 DEF FrameExact
<1>10. ASSUME NEW q \in 1 .. u.filled + n PROVE x.data[q] = c[Child(x)][q]
  <2>1. CASE q \in 1 .. u.filled
    BY <2>1, <1>5, <1>7, <1>9
  <2>2. CASE ~(q \in 1 .. u.filled)
    <3>1. PICK j \in 1 .. n : u.filled + j = q
      <4>1. q - u.filled \in 1 .. n /\ u.filled + (q - u.filled) = q
        BY <2>2, <1>2
      <4> QED
        BY <4>1
    <3>2. x.data[q] = bytes[j]
      BY <3>1, <1>6
    <3>3. bytes[j] = c[Child(u)][q]
      BY <3>1, <1>3, <1>8
    <3> QED
      BY <3>2, <3>3, <1>7
  <2> QED
    BY <2>1, <2>2
<1> QED
  BY <1>4, <1>10 DEF FrameExact

(* How much is copied: what is wanted, or all there is.                    *)
LEMMA AmountIs ==
  ASSUME NEW s, NEW bs, NEW c, NEW data \in Seq(Nat), NEW p \in Nat
  PROVE  Reading(s, bs, c) /\ s.pc = "reading" /\ p <= Len(data) =>
         /\ Wanted(s) \in Nat
         /\ Amount(s, data, p) \in Nat
         /\ Amount(s, data, p) <= Wanted(s)
         /\ Amount(s, data, p) = Wanted(s) \/ Amount(s, data, p) = Len(data) - p
         /\ Bytes(s, data, p) \in Seq(Nat)
         /\ Len(Bytes(s, data, p)) = Amount(s, data, p)
         /\ \A i \in 1 .. Amount(s, data, p) : Bytes(s, data, p)[i] = data[p + i] /\ i \in 1 .. Len(data) - p
<1>1. SUFFICES ASSUME Reading(s, bs, c), s.pc = "reading", p <= Len(data)
      PROVE  /\ Wanted(s) \in Nat
             /\ Amount(s, data, p) \in Nat
             /\ Amount(s, data, p) <= Wanted(s)
             /\ Amount(s, data, p) = Wanted(s) \/ Amount(s, data, p) = Len(data) - p
             /\ Bytes(s, data, p) \in Seq(Nat)
             /\ Len(Bytes(s, data, p)) = Amount(s, data, p)
             /\ \A i \in 1 .. Amount(s, data, p) : Bytes(s, data, p)[i] = data[p + i] /\ i \in 1 .. Len(data) - p
  OBVIOUS
<1>2. /\ s \in ReadRecord(bs) /\ Len(s.stack) \in Nat \ {0}
      /\ \A i \in 1 .. Len(s.stack) : s.stack[i] \in Frames(bs) /\ FrameOK(s.stack[i], bs, c)
      /\ \A i \in 1 .. Len(s.stack) - 1 : Linked(s.stack[i], s.stack[i + 1])
  BY <1>1, Parts, Zenon
<1>9. Len(s.stack) \in Nat \ {0}
  BY <1>2
<1>3. Wanted(s) \in Nat
  <2>1. CASE Len(s.stack) = 1
    <3>1. s.want \in Nat
      BY <1>2 DEF ReadRecord
    <3> QED
      BY <2>1, <3>1 DEF Wanted
  <2>2. CASE Len(s.stack) # 1
    <3>0. PICK m \in Nat \ {0} : m = Len(s.stack)
      BY <1>9, Zenon
    <3>a. m - 1 \in Nat /\ m - 1 \in 1 .. m /\ m - 1 \in 1 .. m - 1
      <4>1. m # 1
        BY <2>2, <3>0
      <4> QED
        BY <4>1, BeforeLast
    <3>1. PICK k \in Nat : k = m - 1
      BY <3>a, Zenon
    <3>2. k \in 1 .. Len(s.stack) /\ k \in 1 .. Len(s.stack) - 1
      BY <3>0, <3>a, <3>1, Zenon
    <3>3. PICK x : x = s.stack[k]
      OBVIOUS
    <3>8. x \in Frames(bs) /\ FrameOK(x, bs, c)
      BY <1>2, <3>2, <3>3
    <3>9. Linked(x, s.stack[k + 1])
      BY <1>2, <3>2, <3>3
    <3>4. x.cur # 0
      BY <3>9 DEF Linked
    <3>5. x.data \in Seq(Nat) /\ x.filled \in Nat /\ x.filled <= Len(x.data)
      BY <3>4, <3>8 DEF Frames, FrameOK
    <3>6. Len(x.data) \in Nat
      BY <3>5, LenProperties
    <3>7. Wanted(s) = Len(x.data) - x.filled
      BY <2>2, <3>0, <3>1, <3>3 DEF Wanted
    <3> QED
      BY <3>5, <3>6, <3>7
  <2> QED
    BY <2>1, <2>2
<1>4. Len(data) \in Nat
  BY LenProperties
<1>5. PICK n : n = Amount(s, data, p)
  OBVIOUS
<1>6. n \in Nat /\ n <= Wanted(s) /\ (n = Wanted(s) \/ n = Len(data) - p) /\ p + n <= Len(data)
  BY <1>1, <1>3, <1>4, <1>5 DEF Smaller, Amount
<1>7. /\ Bytes(s, data, p) \in Seq(Nat) /\ Len(Bytes(s, data, p)) = n
      /\ \A i \in 1 .. n : Bytes(s, data, p)[i] = data[p + i]
  BY <1>5, <1>6, Copied DEF Bytes
<1>8. \A i \in 1 .. n : i \in 1 .. Len(data) - p
  BY <1>4, <1>6
<1> QED
  BY <1>3, <1>5, <1>6, <1>7, <1>8

(* The bytes go into the array of the stream below: it is whole when the   *)
(* child has been read whole.                                              *)
LEMMA DeliverUp ==
  ASSUME NEW bs, NEW c, NEW s, NEW data \in Seq(Nat), NEW p \in Nat
  PROVE  /\ Reading(s, bs, c) /\ s.pc = "reading" /\ p <= Len(data) /\ Len(s.stack) # 1
         /\ ~s.broken => \A q \in 1 .. Len(data) - p : data[p + q] = c[Top(s).node][Top(s).pos + q]
         => Reading(Deliver(s, data, p), bs, c)
<1>1. SUFFICES ASSUME Reading(s, bs, c), s.pc = "reading", p <= Len(data), Len(s.stack) # 1,
                      ~s.broken => \A q \in 1 .. Len(data) - p : data[p + q] = c[Top(s).node][Top(s).pos + q]
               PROVE  Reading(Deliver(s, data, p), bs, c)
  OBVIOUS
<1>2. /\ s \in ReadRecord(bs) /\ s.stack # <<>> /\ Len(s.stack) \in Nat \ {0}
      /\ s.stack \in Seq(Frames(bs)) /\ Top(s) = s.stack[Len(s.stack)]
      /\ \A i \in 1 .. Len(s.stack) : s.stack[i] \in Frames(bs) /\ FrameOK(s.stack[i], bs, c)
      /\ \A i \in 1 .. Len(s.stack) - 1 : Linked(s.stack[i], s.stack[i + 1])
      /\ ~s.broken => Exact(s, c)
  BY <1>1, Parts, Zenon
<1>3. PICK k \in Nat \ {0} : k = Len(s.stack)
  BY <1>2, Zenon
<1>4. k # 1
  BY <1>1, <1>3
<1>5. PICK n : n = Amount(s, data, p)
  OBVIOUS
<1>6. PICK bytes : bytes = Bytes(s, data, p)
  OBVIOUS
<1>7. PICK top : top = s.stack[k]
  OBVIOUS
<1>8. PICK moved : moved = [top EXCEPT !.pos = @ + n]
  OBVIOUS
<1>9. PICK u : u = s.stack[k - 1]
  OBVIOUS
<1>10. PICK x : x = Fill(u, n, bytes)
  OBVIOUS
<1>11. PICK m \in Nat : m = k - 1
  BY <1>4
<1>12. /\ m \in 1 .. k /\ m \in 1 .. k - 1 /\ m + 1 = k /\ m # 0 /\ k \in 1 .. k
       /\ k - 2 \in Nat /\ k - 2 <= k /\ (k - 2) + 1 = m /\ (k - 2) + 2 = k
  BY <1>4, <1>11
<1>13. top \in Frames(bs) /\ FrameOK(top, bs, c) /\ Top(s) = top
  BY <1>2, <1>3, <1>7, <1>12
<1>14. u \in Frames(bs) /\ FrameOK(u, bs, c)
  BY <1>2, <1>3, <1>9, <1>11, <1>12
<1>15. Linked(u, top)
  <2>1. Linked(s.stack[m], s.stack[m + 1])
    BY <1>2, <1>3, <1>12
  <2> QED
    BY <2>1, <1>7, <1>9, <1>11, <1>12
<1>16. /\ Wanted(s) \in Nat /\ n \in Nat /\ n <= Wanted(s)
       /\ bytes \in Seq(Nat) /\ Len(bytes) = n
       /\ \A i \in 1 .. n : bytes[i] = data[p + i] /\ i \in 1 .. Len(data) - p
  <2>1. /\ Wanted(s) \in Nat
        /\ Amount(s, data, p) \in Nat
        /\ Amount(s, data, p) <= Wanted(s)
        /\ Bytes(s, data, p) \in Seq(Nat)
        /\ Len(Bytes(s, data, p)) = Amount(s, data, p)
        /\ \A i \in 1 .. Amount(s, data, p) : Bytes(s, data, p)[i] = data[p + i] /\ i \in 1 .. Len(data) - p
    BY <1>1, AmountIs
  <2> QED
    BY <2>1, <1>5, <1>6, Zenon
<1>17. Wanted(s) = Len(u.data) - u.filled
  BY <1>3, <1>4, <1>9 DEF Wanted
<1>18. u.filled \in Nat /\ Len(u.data) \in Nat /\ u.cur # 0 /\ u.filled <= Len(u.data)
       /\ top.node = Child(u) /\ top.pos = u.filled
  <2>1. u.filled \in Nat /\ u.data \in Seq(Nat)
    BY <1>14 DEF Frames
  <2>2. u.cur # 0 /\ top.node = Child(u) /\ top.pos = u.filled
    BY <1>15 DEF Linked
  <2>3. u.filled <= Len(u.data)
    BY <2>2, <1>14 DEF FrameOK
  <2> QED
    BY <2>1, <2>2, <2>3, LenProperties
<1>19. u.filled + n <= Len(u.data)
  <2>1. n \in Nat /\ n <= Wanted(s)
    BY <1>16
  <2> QED
    BY <2>1, <1>17, <1>18
<1>20. /\ x \in Frames(bs) /\ x.node = u.node /\ x.pos = u.pos /\ x.cur = u.cur
       /\ Child(x) = Child(u) /\ x.filled = u.filled + n /\ Len(x.data) = Len(u.data)
       /\ FrameOK(x, bs, c)
  BY <1>10, <1>13, <1>14, <1>16, <1>19, FillOK
<1>21. ~s.broken => FrameExact(x, c)
  <2>1. ASSUME ~s.broken PROVE FrameExact(x, c)
    <3>1. FrameExact(u, c)
      BY <2>1, <1>2, <1>3, <1>9, <1>11, <1>12 DEF Exact
    <3>2. \A q \in 1 .. n : bytes[q] = c[top.node][top.pos + q]
      BY <2>1, <1>1, <1>13, <1>16
    <3> QED
      <4>1. top \in Frames(bs) /\ u \in Frames(bs) /\ n \in Nat /\ bytes \in Seq(Nat) /\ Len(bytes) = n
        BY <1>13, <1>14, <1>16
      <4> QED
        BY <4>1, <3>1, <3>2, <1>10, <1>15, <1>19, FillExact
  <2> QED
    BY <2>1
<1>22. /\ moved \in Frames(bs) /\ moved.pos = top.pos + n /\ moved.node = top.node
       /\ FrameOK(moved, bs, c)
       /\ FrameExact(top, c) => FrameExact(moved, c)
       /\ Whole(top) => Whole(moved)
  BY <1>8, <1>13, <1>16, MovedOn
<1>23. PICK r : r = SubSeq(s.stack, 1, k - 2)
  OBVIOUS
<1>24. Deliver(s, data, p) = IF x.filled = Len(x.data) THEN [s EXCEPT !.stack = r \o <<x>>]
                             ELSE [s EXCEPT !.stack = r \o <<x, moved>>]
  BY <1>3, <1>4, <1>5, <1>6, <1>7, <1>8, <1>9, <1>10, <1>23 DEF Deliver, Fill, Amount, Bytes
<1>25. ~s.broken => \A i \in 1 .. k : FrameExact(s.stack[i], c)
  BY <1>2, <1>3 DEF Exact
<1>26. ~s.broken => Whole(top)
  BY <1>2, <1>13 DEF Exact
<1>27. \A i \in 1 .. k - 2 : i \in 1 .. k /\ i \in 1 .. k - 1 /\ (i + 1 = m \/ i + 1 \in 1 .. k - 2)
  BY <1>12
<1>28. ASSUME NEW t \in Seq(Frames(bs)), NEW h \in Nat, h = Len(t), h = m \/ h = k,
              \A i \in 1 .. k - 2 : t[i] = s.stack[i], t[m] = x, h = k => t[k] = moved
       PROVE  /\ t # <<>> /\ t[1].node = s.stack[1].node /\ t[1].pos = s.stack[1].pos
              /\ \A i \in 1 .. Len(t) : FrameOK(t[i], bs, c)
              /\ \A i \in 1 .. Len(t) - 1 : Linked(t[i], t[i + 1])
              /\ ~s.broken => \A i \in 1 .. Len(t) : FrameExact(t[i], c)
  <2>1. \A i \in 1 .. h : i \in 1 .. k - 2 \/ i = m \/ (h = k /\ i = k)
    BY <1>12, <1>28
  <2>2. t # <<>>
    <3>1. h # 0
      BY <1>12, <1>28
    <3> QED
      BY <3>1, <1>28, EmptySeq
  <2>3. t[1].node = s.stack[1].node /\ t[1].pos = s.stack[1].pos
    <3>1. 1 \in 1 .. k - 2 \/ m = 1
      BY <1>12
    <3>2. m = 1 => u = s.stack[1]
      BY <1>9, <1>11
    <3> QED
      BY <3>1, <3>2, <1>20, <1>28
  <2>4. \A i \in 1 .. k - 2 : FrameOK(s.stack[i], bs, c)
    BY <1>2, <1>3, <1>27
  <2>5. \A i \in 1 .. h : FrameOK(t[i], bs, c)
    BY <2>1, <2>4, <1>20, <1>22, <1>28
  <2>6. ASSUME NEW i \in 1 .. h - 1 PROVE Linked(t[i], t[i + 1])
    <3>1. CASE i \in 1 .. k - 2
      <4>1. Linked(s.stack[i], s.stack[i + 1]) /\ t[i] = s.stack[i]
        BY <3>1, <1>2, <1>3, <1>27, <1>28
      <4>2. CASE i + 1 \in 1 .. k - 2
        <5>1. t[i + 1] = s.stack[i + 1]
          BY <4>2, <1>28
        <5> QED
          BY <5>1, <4>1
      <4>3. CASE i + 1 = m
        <5>1. t[i + 1] = x /\ s.stack[i + 1] = u
          BY <4>3, <1>9, <1>11, <1>28
        <5> QED
          BY <5>1, <4>1, <1>20 DEF Linked
      <4> QED
        BY <3>1, <4>2, <4>3, <1>27
    <3>2. CASE ~(i \in 1 .. k - 2)
      <4>1. i = m /\ i + 1 = k /\ h = k
        BY <3>2, <1>12, <1>28, <2>6
      <4>2. t[i] = x /\ t[i + 1] = moved
        BY <4>1, <1>28
      <4>3. x.cur # 0 /\ moved.node = Child(x) /\ moved.pos = x.filled
        BY <1>18, <1>20, <1>22
      <4> QED
        BY <4>2, <4>3 DEF Linked
    <3> QED
      BY <3>1, <3>2
  <2>7. ~s.broken => \A i \in 1 .. h : FrameExact(t[i], c)
    <3>1. ASSUME ~s.broken, NEW i \in 1 .. h PROVE FrameExact(t[i], c)
      <4>1. i \in 1 .. k - 2 => FrameExact(t[i], c)
        BY <3>1, <1>25, <1>27, <1>28
      <4>2. FrameExact(x, c) /\ FrameExact(moved, c)
        BY <3>1, <1>7, <1>12, <1>21, <1>22, <1>25
      <4> QED
        BY <2>1, <4>1, <4>2, <1>28
    <3> QED
      BY <3>1
  <2> QED
    BY <2>2, <2>3, <2>5, <2>6, <2>7, <1>28
<1>29. CASE x.filled = Len(x.data)
  <2>1. PICK t : t = r \o <<x>>
    OBVIOUS
  <2>2. /\ t \in Seq(Frames(bs)) /\ Len(t) = m /\ t[m] = x
        /\ \A i \in 1 .. k - 2 : t[i] = s.stack[i]
    <3>1. PICK j \in Nat : j = k - 2
      BY <1>12
    <3>2. j <= Len(s.stack) /\ j + 1 = m
      BY <3>1, <1>3, <1>12
    <3> QED
      BY <3>1, <3>2, <2>1, <1>2, <1>20, <1>23, PutOn
  <2>3. /\ t # <<>> /\ t[1].node = s.stack[1].node /\ t[1].pos = s.stack[1].pos
        /\ \A i \in 1 .. Len(t) : FrameOK(t[i], bs, c)
        /\ \A i \in 1 .. Len(t) - 1 : Linked(t[i], t[i + 1])
        /\ ~s.broken => \A i \in 1 .. Len(t) : FrameExact(t[i], c)
    <3>1. m # k
      BY <1>12
    <3> QED
      BY <3>1, <2>2, <1>28
  <2>4. Whole(t[Len(t)])
    BY <2>2, <1>29 DEF Whole
  <2>5. Reading([s EXCEPT !.stack = t], bs, c)
    BY <2>2, <2>3, <2>4, <1>1, NewStack
  <2> QED
    BY <2>1, <2>5, <1>24, <1>29
<1>30. CASE x.filled # Len(x.data)
  <2>1. PICK t : t = r \o <<x, moved>>
    OBVIOUS
  <2>2. /\ t \in Seq(Frames(bs)) /\ Len(t) = k /\ t[m] = x /\ t[k] = moved
        /\ \A i \in 1 .. k - 2 : t[i] = s.stack[i]
    <3>1. PICK j \in Nat : j = k - 2
      BY <1>12
    <3>2. j <= Len(s.stack) /\ j + 1 = m /\ j + 2 = k
      BY <3>1, <1>3, <1>12
    <3> QED
      BY <3>1, <3>2, <2>1, <1>2, <1>20, <1>22, <1>23, PutTwo
  <2>3. /\ t # <<>> /\ t[1].node = s.stack[1].node /\ t[1].pos = s.stack[1].pos
        /\ \A i \in 1 .. Len(t) : FrameOK(t[i], bs, c)
        /\ \A i \in 1 .. Len(t) - 1 : Linked(t[i], t[i + 1])
        /\ ~s.broken => \A i \in 1 .. Len(t) : FrameExact(t[i], c)
    BY <2>2, <1>28
  <2>4. ~s.broken => Whole(t[Len(t)])
    BY <2>2, <1>22, <1>26
  <2>5. Reading([s EXCEPT !.stack = t], bs, c)
    BY <2>2, <2>3, <2>4, <1>1, NewStack
  <2> QED
    BY <2>1, <2>5, <1>24, <1>30
<1> QED
  BY <1>29, <1>30

(* The bytes go to the caller, who has wanted no more than the slice has   *)
(* left.                                                                   *)
LEMMA DeliverOut ==
  ASSUME NEW bs, NEW c, NEW s, NEW data \in Seq(Nat), NEW p \in Nat
  PROVE  /\ Reading(s, bs, c) /\ s.pc = "reading" /\ p < Len(data) /\ Len(s.stack) = 1
         /\ ~s.broken => \A q \in 1 .. Len(data) - p : data[p + q] = c[Top(s).node][Top(s).pos + q]
         => Reading(Deliver(s, data, p), bs, c)
<1>1. SUFFICES ASSUME Reading(s, bs, c), s.pc = "reading", p < Len(data), Len(s.stack) = 1,
                      ~s.broken => \A q \in 1 .. Len(data) - p : data[p + q] = c[Top(s).node][Top(s).pos + q]
               PROVE  Reading(Deliver(s, data, p), bs, c)
  OBVIOUS
<1>2. /\ s \in ReadRecord(bs) /\ Top(s) = s.stack[Len(s.stack)]
      /\ AtFile(s, c)
      /\ \A i \in 1 .. Len(s.stack) : s.stack[i] \in Frames(bs) /\ FrameOK(s.stack[i], bs, c)
      /\ ~s.broken => Exact(s, c)
  BY <1>1, Parts, Zenon
<1>3. p <= Len(data) /\ Len(data) \in Nat
  BY <1>1, LenProperties
<1>4. PICK n : n = Amount(s, data, p)
  OBVIOUS
<1>5. PICK bytes : bytes = Bytes(s, data, p)
  OBVIOUS
<1>6. PICK top : top = s.stack[1]
  OBVIOUS
<1>7. PICK moved : moved = [top EXCEPT !.pos = @ + n]
  OBVIOUS
<1>8. top \in Frames(bs) /\ FrameOK(top, bs, c) /\ Top(s) = top
  BY <1>1, <1>2, <1>6
<1>9. /\ n \in Nat /\ n <= Wanted(s) /\ (n = Wanted(s) \/ n = Len(data) - p)
      /\ bytes \in Seq(Nat) /\ Len(bytes) = n
      /\ \A i \in 1 .. n : bytes[i] = data[p + i] /\ i \in 1 .. Len(data) - p
  <2>1. /\ Amount(s, data, p) \in Nat
        /\ Amount(s, data, p) <= Wanted(s)
        /\ Amount(s, data, p) = Wanted(s) \/ Amount(s, data, p) = Len(data) - p
        /\ Bytes(s, data, p) \in Seq(Nat)
        /\ Len(Bytes(s, data, p)) = Amount(s, data, p)
        /\ \A i \in 1 .. Amount(s, data, p) : Bytes(s, data, p)[i] = data[p + i] /\ i \in 1 .. Len(data) - p
    BY <1>1, <1>3, AmountIs
  <2> QED
    BY <2>1, <1>4, <1>5, Zenon
<1>10. /\ moved \in Frames(bs) /\ moved.pos = top.pos + n /\ moved.node = top.node
       /\ FrameOK(moved, bs, c)
       /\ FrameExact(top, c) => FrameExact(moved, c)
       /\ Whole(top) => Whole(moved)
  BY <1>7, <1>8, <1>9, MovedOn
<1>11. s.want \in Nat /\ s.end \in Nat /\ s.got \in Seq(Nat) /\ s.file \in Seq(Nat) /\ s.slice[1] \in Nat
  BY <1>2 DEF ReadRecord
<1>12. Len(s.got) \in Nat
  BY <1>11, LenProperties
<1>13. /\ s.end = LogicalEnd(s.slice, Len(s.file)) /\ c[top.node] = s.file
       /\ top.pos = s.slice[1] + Len(s.got)
       /\ s.want # 0 /\ top.pos + s.want <= s.end
  BY <1>1, <1>2, <1>6 DEF AtFile
<1>14. Wanted(s) = s.want
  BY <1>1 DEF Wanted
<1>15. n # 0
  <2>1. n = s.want \/ n = Len(data) - p
    BY <1>9, <1>14
  <2>2. Len(data) - p # 0
    BY <1>1, <1>3
  <2> QED
    BY <2>1, <2>2, <1>13
<1>16. PICK out : out = s.got \o bytes
  OBVIOUS
<1>17. PICK l \in Nat : l = Len(s.got)
  BY <1>12, Zenon
<1>18. /\ out \in Seq(Nat) /\ Len(out) = l + n
       /\ \A i \in 1 .. l + n : out[i] = IF i <= l THEN s.got[i] ELSE bytes[i - l]
  <2>1. s.got \in Seq(Nat) /\ bytes \in Seq(Nat) /\ Len(bytes) = n
    BY <1>9, <1>11
  <2>2. /\ out \in Seq(Nat) /\ Len(out) = Len(s.got) + Len(bytes)
        /\ \A i \in 1 .. Len(s.got) + Len(bytes) :
             out[i] = IF i <= Len(s.got) THEN s.got[i] ELSE bytes[i - Len(s.got)]
    BY <2>1, <1>16, ConcatProperties
  <2> QED
    BY <2>1, <2>2, <1>17, Zenon
<1>31. top.pos = s.slice[1] + l
  BY <1>13, <1>17
<1>32. s.slice[1] \in Nat
  BY <1>11
<1>33. \A i \in 1 .. 1 : i = 1
  OBVIOUS
<1>34. 1 - 1 = 0 /\ \A i : i \notin 1 .. 0
  OBVIOUS
<1>19. PICK t : t = <<moved>>
  OBVIOUS
<1>20. t \in Seq(Frames(bs)) /\ Len(t) = 1 /\ t[1] = moved /\ t # <<>>
  BY <1>10, <1>19
<1>21. PICK z : z = [s EXCEPT !.pc = "open", !.got = out, !.stack = t]
  OBVIOUS
<1>22. Deliver(s, data, p) = z
  BY <1>1, <1>4, <1>5, <1>6, <1>7, <1>15, <1>16, <1>19, <1>21 DEF Deliver, Amount, Bytes
<1>23. /\ z \in ReadRecord(bs) /\ z.pc = "open" /\ z.got = out /\ z.stack = t
       /\ z.file = s.file /\ z.slice = s.slice /\ z.end = s.end /\ z.want = s.want
       /\ z.broken = s.broken
  BY <1>2, <1>18, <1>20, <1>21 DEF ReadRecord
<1>24. top.pos \in Nat
  BY <1>8 DEF Frames
<1>25. moved.pos <= s.end
  <2>1. n <= s.want
    BY <1>9, <1>14
  <2>2. n \in Nat /\ moved.pos = top.pos + n
    BY <1>9, <1>10
  <2> QED
    BY <2>1, <2>2, <1>11, <1>13, <1>24
<1>26. moved.pos = s.slice[1] + (l + n)
  <2>1. n \in Nat /\ moved.pos = top.pos + n
    BY <1>9, <1>10
  <2> QED
    BY <2>1, <1>31, <1>32
<1>27. AtFile(z, c)
  BY <1>10, <1>13, <1>18, <1>20, <1>23, <1>25, <1>26 DEF AtFile
<1>28. ASSUME ~s.broken PROVE Exact(z, c)
  <2>1. /\ FrameExact(top, c) /\ Whole(top)
        /\ \A i \in 1 .. Len(s.got) : s.got[i] = s.file[s.slice[1] + i]
    BY <1>1, <1>2, <1>6, <1>8, <1>28 DEF Exact
  <2>2. \A q \in 1 .. Len(data) - p : data[p + q] = s.file[top.pos + q]
    BY <1>1, <1>8, <1>13, <1>28
  <2>3. ASSUME NEW i \in 1 .. l + n PROVE out[i] = s.file[s.slice[1] + i]
    <3>1. CASE i <= l
      <4>1. i \in 1 .. l
        BY <3>1
      <4> QED
        BY <3>1, <4>1, <2>1, <1>17, <1>18
    <3>2. CASE ~(i <= l)
      <4>1. PICK q \in 1 .. n : l + q = i
        <5>1. n \in Nat
          BY <1>9
        <5>2. i - l \in 1 .. n /\ l + (i - l) = i
          BY <5>1, <3>2
        <5> QED
          BY <5>2
      <4>2. out[i] = bytes[q]
        <5>1. n \in Nat
          BY <1>9
        <5>2. i - l = q
          BY <5>1, <4>1
        <5> QED
          BY <5>2, <3>2, <1>18
      <4>3. bytes[q] = s.file[top.pos + q]
        BY <1>9, <2>2
      <4>4. top.pos + q = s.slice[1] + i
        <5>1. q \in Nat
          BY <1>9
        <5> QED
          BY <5>1, <4>1, <1>31, <1>32
      <4> QED
        BY <4>2, <4>3, <4>4
    <3> QED
      BY <3>1, <3>2
  <2>4. \A i \in 1 .. Len(z.got) : z.got[i] = z.file[z.slice[1] + i]
    BY <2>3, <1>18, <1>23
  <2>5. Top(z) = moved
    BY <1>20, <1>23 DEF Top
  <2>6. \A i \in 1 .. Len(z.stack) : FrameExact(z.stack[i], c)
    BY <2>1, <1>10, <1>20, <1>23, <1>33, Zenon
  <2>7. Whole(Top(z))
    BY <2>1, <2>5, <1>10
  <2> QED
    BY <2>4, <2>6, <2>7 DEF Exact
<1>29. /\ z.stack # <<>> /\ Len(z.stack) = 1
       /\ \A i \in 1 .. Len(z.stack) : FrameOK(z.stack[i], bs, c)
       /\ \A i \in 1 .. Len(z.stack) - 1 : Linked(z.stack[i], z.stack[i + 1])
  BY <1>10, <1>20, <1>23, <1>33, <1>34, Zenon
<1>30. Reading(z, bs, c)
  BY <1>23, <1>27, <1>28, <1>29 DEF Reading
<1> QED
  BY <1>22, <1>30

(* Delivering the bytes at the position of the top is right either way.    *)
LEMMA DeliverOK ==
  ASSUME NEW bs, NEW c, NEW s, NEW data \in Seq(Nat), NEW p \in Nat
  PROVE  /\ Reading(s, bs, c) /\ s.pc = "reading" /\ p <= Len(data)
         /\ Len(s.stack) = 1 => p < Len(data)
         /\ ~s.broken => \A q \in 1 .. Len(data) - p : data[p + q] = c[Top(s).node][Top(s).pos + q]
         => Reading(Deliver(s, data, p), bs, c)
  BY DeliverUp, DeliverOut, Zenon

(* A slice ends inside the file.                                           *)
LEMMA EndIs ==
  ASSUME NEW slice \in Nat \X Nat, NEW size \in Nat
  PROVE  LogicalEnd(slice, size) \in Nat /\ LogicalEnd(slice, size) <= size
<1>1. slice[1] \in Nat /\ slice[2] \in Nat
  OBVIOUS
<1> QED
  BY <1>1 DEF LogicalEnd, Smaller

(* Where the stream at the top is.                                         *)
LEMMA TopWithin ==
  ASSUME NEW bs, NEW c, NEW s
  PROVE  WellBuilt(bs, c) /\ Reading(s, bs, c) /\ s.pc = "reading" =>
         /\ Top(s) \in Frames(bs) /\ FrameOK(Top(s), bs, c) /\ c[Top(s).node] \in Seq(Nat)
         /\ Top(s).pos <= Len(c[Top(s).node])
         /\ Len(s.stack) = 1 => Top(s).pos < Len(c[Top(s).node])
<1>1. SUFFICES ASSUME WellBuilt(bs, c), Reading(s, bs, c), s.pc = "reading"
      PROVE  /\ Top(s) \in Frames(bs) /\ FrameOK(Top(s), bs, c) /\ c[Top(s).node] \in Seq(Nat)
             /\ Top(s).pos <= Len(c[Top(s).node])
             /\ Len(s.stack) = 1 => Top(s).pos < Len(c[Top(s).node])
  OBVIOUS
<1>2. /\ s \in ReadRecord(bs) /\ Len(s.stack) \in Nat \ {0}
      /\ Top(s) = s.stack[Len(s.stack)]
      /\ AtFile(s, c)
      /\ \A i \in 1 .. Len(s.stack) : s.stack[i] \in Frames(bs) /\ FrameOK(s.stack[i], bs, c)
      /\ \A i \in 1 .. Len(s.stack) - 1 : Linked(s.stack[i], s.stack[i + 1])
  BY <1>1, Parts, Zenon
<1>3. PICK k \in Nat \ {0} : k = Len(s.stack)
  BY <1>2, Zenon
<1>4. k \in 1 .. k
  OBVIOUS
<1>5. PICK top : top = Top(s)
  OBVIOUS
<1>6. top \in Frames(bs) /\ FrameOK(top, bs, c) /\ top = s.stack[k]
  BY <1>2, <1>3, <1>4, <1>5
<1>7. top.node \in bs /\ top.pos \in Nat
  BY <1>6 DEF Frames
<1>8. c[top.node] \in Seq(Nat)
  BY <1>1, <1>7 DEF WellBuilt
<1>9. Len(c[top.node]) \in Nat
  BY <1>8, LenProperties
<1>10. k = 1 => top.pos < Len(c[top.node])
  <2>1. ASSUME k = 1 PROVE top.pos < Len(c[top.node])
    <3>1. /\ s.end = LogicalEnd(s.slice, Len(s.file)) /\ c[top.node] = s.file
          /\ s.want # 0 /\ top.pos + s.want <= s.end
      BY <2>1, <1>1, <1>2, <1>6 DEF AtFile
    <3>2. s.slice \in Nat \X Nat /\ s.want \in Nat
      BY <1>2 DEF ReadRecord
    <3>3. s.end \in Nat /\ s.end <= Len(c[top.node])
      BY <3>1, <3>2, <1>9, EndIs
    <3>4. s.want # 0 /\ top.pos + s.want <= s.end
      BY <3>1
    <3> QED
      BY <3>2, <3>3, <3>4, <1>7, <1>9
  <2> QED
    BY <2>1
<1>11. top.pos <= Len(c[top.node])
  <2>1. CASE k = 1
    BY <2>1, <1>7, <1>9, <1>10
  <2>2. CASE k # 1
    <3>1. PICK m : m = k - 1
      OBVIOUS
    <3>2. m \in 1 .. k - 1 /\ m \in 1 .. k /\ m + 1 = k
      BY <2>2, <3>1
    <3>3. PICK u : u = s.stack[m]
      OBVIOUS
    <3>4. FrameOK(u, bs, c) /\ Linked(u, top)
      BY <3>2, <3>3, <1>2, <1>3, <1>6
    <3>5. top.pos = u.filled /\ top.node = Child(u) /\ u.cur # 0
      BY <3>4 DEF Linked
    <3>6. Len(u.data) = Len(c[Child(u)]) /\ u.filled <= Len(u.data)
      BY <3>4, <3>5 DEF FrameOK
    <3> QED
      BY <3>5, <3>6
  <2> QED
    BY <2>1, <2>2
<1> QED
  BY <1>3, <1>5, <1>6, <1>8, <1>10, <1>11

(* A leaf delivers its data.                                               *)
LEMMA CopyLeaf ==
  ASSUME NEW bs, NEW c, NEW s
  PROVE  WellBuilt(bs, c) /\ Reading(s, bs, c) /\ s.pc = "reading" /\ IsLeaf(Top(s).node) =>
           Reading(Deliver(s, Top(s).node.data, Top(s).pos), bs, c)
<1>1. SUFFICES ASSUME WellBuilt(bs, c), Reading(s, bs, c), s.pc = "reading", IsLeaf(Top(s).node)
      PROVE  Reading(Deliver(s, Top(s).node.data, Top(s).pos), bs, c)
  OBVIOUS
<1>2. /\ Top(s) \in Frames(bs) /\ c[Top(s).node] \in Seq(Nat)
      /\ Top(s).pos <= Len(c[Top(s).node])
      /\ Len(s.stack) = 1 => Top(s).pos < Len(c[Top(s).node])
  BY <1>1, TopWithin
<1>3. Top(s).node \in bs /\ Top(s).pos \in Nat
  BY <1>2 DEF Frames
<1>4. Fits(Top(s).node, bs, c, c[Top(s).node])
  BY <1>1, <1>3, Zenon DEF WellBuilt
<1>5. c[Top(s).node] = Top(s).node.data
  BY <1>1, <1>4, Zenon DEF Fits
<1>6. PICK data : data = Top(s).node.data
  OBVIOUS
<1>7. PICK p \in Nat : p = Top(s).pos
  BY <1>3, Zenon
<1>8. data \in Seq(Nat) /\ p <= Len(data) /\ (Len(s.stack) = 1 => p < Len(data))
  BY <1>2, <1>5, <1>6, <1>7
<1>9. \A q \in 1 .. Len(data) - p : data[p + q] = c[Top(s).node][Top(s).pos + q]
  BY <1>5, <1>6, <1>7, Zenon
<1>10. Reading(Deliver(s, data, p), bs, c)
  BY <1>1, <1>8, <1>9, DeliverOK
<1> QED
  BY <1>6, <1>7, <1>10, Zenon

(* A node delivers from the array of the child in which its position lies: *)
(* the array is that child's content.                                      *)
LEMMA CopyChild ==
  ASSUME NEW bs, NEW c, NEW s
  PROVE  /\ WellBuilt(bs, c) /\ Reading(s, bs, c) /\ s.pc = "reading" /\ ~IsLeaf(Top(s).node)
         /\ Top(s).pos < Size(Top(s).node) /\ Need(Top(s).node, Top(s).pos) = Top(s).cur
         => Reading(Deliver(s, Top(s).data, Top(s).pos - Position(Top(s).node, Top(s).cur)), bs, c)
<1>1. SUFFICES ASSUME WellBuilt(bs, c), Reading(s, bs, c), s.pc = "reading", ~IsLeaf(Top(s).node),
                      Top(s).pos < Size(Top(s).node), Need(Top(s).node, Top(s).pos) = Top(s).cur
      PROVE  Reading(Deliver(s, Top(s).data, Top(s).pos - Position(Top(s).node, Top(s).cur)), bs, c)
  OBVIOUS
<1>2. PICK top : top = Top(s)
  OBVIOUS
<1>3. top \in Frames(bs) /\ FrameOK(top, bs, c)
  BY <1>1, <1>2, TopWithin
<1>4. PICK b : b = top.node
  OBVIOUS
<1>5. PICK i : i = top.cur
  OBVIOUS
<1>6. PICK data : data = top.data
  OBVIOUS
<1>7. b \in bs /\ top.pos \in Nat /\ data \in Seq(Nat)
  BY <1>3, <1>4, <1>6 DEF Frames
<1>8. PICK pos \in Nat : pos = top.pos
  BY <1>7
<1>9. ~IsLeaf(b) /\ pos < Size(b) /\ Need(b, pos) = i
  BY <1>1, <1>2, <1>4, <1>5, <1>8
<1>10. i \in 1 .. Len(b.links) /\ Position(b, i) <= pos /\ pos < Position(b, i) + Size(b.links[i])
  BY <1>1, <1>7, <1>9, NeedIs
<1>11. /\ Len(b.links) \in Nat
       /\ b.links[i] \in bs /\ Size(b.links[i]) = Len(c[b.links[i]])
       /\ Position(b, i) \in Nat /\ Size(b.links[i]) \in Nat
       /\ \A q \in 1 .. Size(b.links[i]) : c[b][Position(b, i) + q] = c[b.links[i]][q]
  <2>1. Len(b.links) \in Nat \ {0} /\ ChildAt(b, i, bs, c)
    BY <1>1, <1>7, <1>9, <1>10, InnerNode
  <2>2. Len(b.links) \in Nat
    BY <2>1
  <2> QED
    BY <2>1, <2>2, Zenon DEF ChildAt
<1>12. PICK at \in Nat : at = Position(b, i)
  BY <1>11
<1>13. PICK child : child = b.links[i]
  OBVIOUS
<1>14. i # 0
  BY <1>10, <1>11
<1>15. Child(top) = child
  BY <1>4, <1>5, <1>13 DEF Child
<1>16. Len(data) = Len(c[child])
  BY <1>3, <1>5, <1>6, <1>14, <1>15 DEF FrameOK
<1>17. PICK size \in Nat : size = Len(data)
  BY <1>7, LenProperties, Zenon
<1>18. size = Size(child)
  BY <1>11, <1>13, <1>16, <1>17
<1>19. at <= pos /\ pos < at + size
  BY <1>10, <1>12, <1>13, <1>18
<1>20. pos - at \in Nat
  BY <1>19
<1>21. PICK p \in Nat : p = pos - at
  BY <1>20, Zenon
<1>22. p < size /\ at + p = pos
  BY <1>19, <1>21
<1>23. ~s.broken => \A q \in 1 .. Len(data) - p : data[p + q] = c[Top(s).node][Top(s).pos + q]
  <2>1. ASSUME ~s.broken, NEW q \in 1 .. size - p PROVE data[p + q] = c[b][pos + q]
    <3>1. Exact(s, c) /\ Top(s) = s.stack[Len(s.stack)] /\ Len(s.stack) \in Nat \ {0}
      BY <2>1, <1>1, Parts, Zenon
    <3>2. Len(s.stack) \in 1 .. Len(s.stack)
      BY <3>1
    <3>3. FrameExact(top, c) /\ Whole(top)
      BY <3>1, <3>2, <1>2 DEF Exact
    <3>4. top.filled = size
      BY <3>3, <1>5, <1>6, <1>14, <1>17 DEF Whole
    <3>5. \A j \in 1 .. size : data[j] = c[child][j]
      BY <3>3, <3>4, <1>5, <1>6, <1>14, <1>15 DEF FrameExact
    <3>6. PICK j : j = p + q
      OBVIOUS
    <3>7. j \in 1 .. size /\ at + j = pos + q
      BY <2>1, <3>6, <1>22
    <3>8. c[b][at + j] = c[child][j]
      BY <3>7, <1>11, <1>12, <1>13, <1>18
    <3> QED
      BY <3>5, <3>6, <3>7, <3>8
  <2> QED
    BY <2>1, <1>2, <1>4, <1>8, <1>17
<1>24. p <= Len(data) /\ p < Len(data)
  BY <1>17, <1>22
<1>25. Reading(Deliver(s, data, p), bs, c)
  BY <1>1, <1>7, <1>23, <1>24, DeliverOK
<1>26. Top(s).pos - Position(Top(s).node, Top(s).cur) = p
  BY <1>2, <1>4, <1>5, <1>8, <1>12, <1>21
<1> QED
  BY <1>2, <1>6, <1>25, <1>26

NewTop(x, need, size) == [x EXCEPT !.cur = need, !.data = NewArray(size), !.filled = 0]

(* A new array.                                                            *)
LEMMA ArrayIs ==
  ASSUME NEW n \in Nat
  PROVE  NewArray(n) \in Seq(Nat) /\ Len(NewArray(n)) = n
<1>1. NewArray(n) \in [1 .. n -> Nat]
  BY DEF NewArray, Zero
<1> QED
  BY <1>1, InSeq

(* A stream over a child starts at its beginning.                          *)
LEMMA StreamIs ==
  ASSUME NEW bs, NEW b \in bs, NEW c
  PROVE  /\ Stream(b) \in Frames(bs) /\ Stream(b).node = b /\ Stream(b).pos = 0
         /\ FrameOK(Stream(b), bs, c) /\ FrameExact(Stream(b), c) /\ Whole(Stream(b))
<1>1. <<>> \in Seq(Nat)
  BY EmptySeq
<1>2. Stream(b) \in Frames(bs) /\ Stream(b).node = b /\ Stream(b).pos = 0 /\ Stream(b).cur = 0
  BY <1>1 DEF Stream, Frames
<1> QED
  BY <1>2 DEF FrameOK, FrameExact, Whole

(* The child becomes the current one of the node.                          *)
LEMMA NewTopIs ==
  ASSUME NEW bs, NEW c, NEW x \in Frames(bs), NEW i \in Nat \ {0}, NEW size \in Nat, NEW y,
         y = NewTop(x, i, size), NEW child, child = x.node.links[i]
  PROVE  /\ y \in Frames(bs) /\ y.node = x.node /\ y.pos = x.pos /\ y.cur = i /\ y.filled = 0
         /\ Child(y) = child /\ FrameExact(y, c)
         /\ ~IsLeaf(x.node) /\ i \in 1 .. Len(x.node.links) /\ child \in bs /\ size = Len(c[child])
            => FrameOK(y, bs, c)
<1>1. PICK array : array = NewArray(size)
  OBVIOUS
<1>2. array \in Seq(Nat) /\ Len(array) = size
  BY <1>1, ArrayIs
<1>3. y = [x EXCEPT !.cur = i, !.data = array, !.filled = 0]
  BY <1>1 DEF NewTop
<1>4. /\ y \in Frames(bs) /\ y.node = x.node /\ y.pos = x.pos /\ y.cur = i /\ y.filled = 0
      /\ y.data = array
  <2>1. i \in Nat /\ array \in Seq(Nat)
    BY <1>2
  <2>2. PICK z \in Nat : z = 0
    OBVIOUS
  <2>3. y = [x EXCEPT !.cur = i, !.data = array, !.filled = z]
    BY <1>3, <2>2
  <2>4. /\ y \in Frames(bs) /\ y.node = x.node /\ y.pos = x.pos /\ y.cur = i /\ y.filled = z
        /\ y.data = array
    BY <2>1, <2>3 DEF Frames
  <2> QED
    BY <2>2, <2>4
<1>5. Child(y) = child
  BY <1>4 DEF Child
<1>6. FrameExact(y, c)
  BY <1>4 DEF FrameExact
<1>7. ASSUME ~IsLeaf(x.node), i \in 1 .. Len(x.node.links), child \in bs, size = Len(c[child])
      PROVE  FrameOK(y, bs, c)
  BY <1>2, <1>4, <1>5, <1>7 DEF FrameOK
<1> QED
  BY <1>4, <1>5, <1>6, <1>7

(* Two streams take the place of the top: the node, with an array to fill, *)
(* and its child.                                                          *)
LEMMA FetchOK ==
  ASSUME NEW bs, NEW c, NEW s, NEW k, NEW need, NEW child
  PROVE  /\ WellBuilt(bs, c) /\ Reading(s, bs, c) /\ s.pc = "reading" /\ ~IsLeaf(Top(s).node)
         /\ k = Len(s.stack) /\ need = Need(Top(s).node, Top(s).pos)
         /\ child = Top(s).node.links[need]
         => Reading([s EXCEPT !.stack = SubSeq(s.stack, 1, k - 1)
                                        \o <<NewTop(Top(s), need, Size(child)), Stream(child)>>], bs, c)
<1>1. SUFFICES ASSUME WellBuilt(bs, c), Reading(s, bs, c), s.pc = "reading", ~IsLeaf(Top(s).node),
                      k = Len(s.stack), need = Need(Top(s).node, Top(s).pos),
                      child = Top(s).node.links[need]
      PROVE  Reading([s EXCEPT !.stack = SubSeq(s.stack, 1, k - 1)
                                        \o <<NewTop(Top(s), need, Size(child)), Stream(child)>>], bs, c)
  OBVIOUS
<1>2. /\ s \in ReadRecord(bs) /\ Len(s.stack) \in Nat \ {0} /\ s.stack \in Seq(Frames(bs))
      /\ Top(s) = s.stack[Len(s.stack)]
      /\ \A i \in 1 .. Len(s.stack) : s.stack[i] \in Frames(bs) /\ FrameOK(s.stack[i], bs, c)
      /\ \A i \in 1 .. Len(s.stack) - 1 : Linked(s.stack[i], s.stack[i + 1])
      /\ ~s.broken => Exact(s, c)
  BY <1>1, Parts, Zenon
<1>3. k \in Nat \ {0}
  BY <1>1, <1>2
<1>4. PICK m \in Nat : m = k - 1
  BY <1>3
<1>5. m + 1 = k /\ m + 2 = k + 1 /\ k \in 1 .. k /\ m <= k
  BY <1>3, <1>4
<1>6. PICK top : top = Top(s)
  OBVIOUS
<1>7. top \in Frames(bs) /\ top = s.stack[k]
  BY <1>1, <1>2, <1>5, <1>6
<1>8. PICK b : b = top.node
  OBVIOUS
<1>9. b \in bs /\ top.pos \in Nat
  BY <1>7, <1>8 DEF Frames
<1>10. ~IsLeaf(b) /\ need = Need(b, top.pos) /\ child = b.links[need]
  BY <1>1, <1>6, <1>8
<1>11. need \in 1 .. Len(b.links)
  BY <1>1, <1>9, <1>10, NeedIs
<1>12. /\ Len(b.links) \in Nat
       /\ b.links[need] \in bs /\ Size(b.links[need]) = Len(c[b.links[need]])
       /\ Size(b.links[need]) \in Nat
  <2>1. Len(b.links) \in Nat \ {0} /\ ChildAt(b, need, bs, c)
    BY <1>1, <1>9, <1>10, <1>11, InnerNode
  <2>2. Len(b.links) \in Nat
    BY <2>1
  <2> QED
    BY <2>1, <2>2, Zenon DEF ChildAt
<1>13. child \in bs /\ Size(child) = Len(c[child]) /\ Size(child) \in Nat
  BY <1>10, <1>12
<1>14. need \in Nat \ {0}
  <2>1. Len(b.links) \in Nat
    BY <1>12
  <2> QED
    BY <2>1, <1>11
<1>15. PICK y : y = NewTop(top, need, Size(child))
  OBVIOUS
<1>16. /\ y \in Frames(bs) /\ y.node = top.node /\ y.pos = top.pos /\ y.cur = need /\ y.filled = 0
       /\ Child(y) = child /\ FrameOK(y, bs, c) /\ FrameExact(y, c)
  <2>1. /\ ~IsLeaf(top.node) /\ need \in 1 .. Len(top.node.links) /\ child = top.node.links[need]
    BY <1>8, <1>10, <1>11
  <2>2. PICK size \in Nat : size = Size(child)
    BY <1>13, Zenon
  <2>3. y = NewTop(top, need, size) /\ size = Len(c[child]) /\ child \in bs /\ top \in Frames(bs)
    BY <2>2, <1>7, <1>13, <1>15
  <2>4. /\ y \in Frames(bs) /\ y.node = top.node /\ y.pos = top.pos /\ y.cur = need /\ y.filled = 0
        /\ Child(y) = child /\ FrameExact(y, c)
    BY <2>1, <2>3, <1>14, NewTopIs
  <2>5. FrameOK(y, bs, c)
    BY <2>1, <2>3, <1>14, NewTopIs
  <2> QED
    BY <2>4, <2>5
<1>17. PICK z : z = Stream(child)
  OBVIOUS
<1>18. /\ z \in Frames(bs) /\ z.node = child /\ z.pos = 0
       /\ FrameOK(z, bs, c) /\ FrameExact(z, c) /\ Whole(z)
  BY <1>13, <1>17, StreamIs
<1>19. PICK t : t = SubSeq(s.stack, 1, m) \o <<y, z>>
  OBVIOUS
<1>20. /\ t \in Seq(Frames(bs)) /\ Len(t) = m + 2 /\ t[m + 1] = y /\ t[m + 2] = z
       /\ \A i \in 1 .. m : t[i] = s.stack[i]
  <2>1. m <= Len(s.stack)
    BY <1>1, <1>5
  <2> QED
    BY <2>1, <1>2, <1>16, <1>18, <1>19, PutTwo
<1>21. /\ t \in Seq(Frames(bs)) /\ Len(t) = k + 1 /\ t[k] = y /\ t[k + 1] = z
       /\ \A i \in 1 .. m : t[i] = s.stack[i]
  BY <1>5, <1>20
<1>22. \A i \in 1 .. k + 1 : i \in 1 .. m \/ i = k \/ i = k + 1
  BY <1>5
<1>23. \A i \in 1 .. m : i \in 1 .. k /\ i \in 1 .. k - 1 /\ (i + 1 = k \/ i + 1 \in 1 .. m)
  BY <1>5
<1>24. t # <<>> /\ t[1].node = s.stack[1].node /\ t[1].pos = s.stack[1].pos
  <2>1. t # <<>>
    <3>1. k + 1 # 0
      BY <1>3
    <3> QED
      BY <3>1, <1>21, EmptySeq
  <2>2. k = 1 \/ 1 \in 1 .. m
    BY <1>5
  <2>3. CASE k = 1
    BY <2>1, <2>3, <1>7, <1>16, <1>21
  <2>4. CASE 1 \in 1 .. m
    BY <2>1, <2>4, <1>21
  <2> QED
    BY <2>2, <2>3, <2>4
<1>25. \A i \in 1 .. Len(t) : FrameOK(t[i], bs, c)
  <2>1. \A i \in 1 .. m : FrameOK(s.stack[i], bs, c)
    BY <1>1, <1>2, <1>23
  <2> QED
    BY <2>1, <1>16, <1>18, <1>21, <1>22
<1>26. ASSUME NEW i \in 1 .. Len(t) - 1 PROVE Linked(t[i], t[i + 1])
  <2>1. i \in 1 .. m \/ i = k
    <3>1. Len(t) = k + 1
      BY <1>21
    <3> QED
      BY <3>1, <1>3, <1>5, <1>26
  <2>2. CASE i \in 1 .. m
    <3>1. Linked(s.stack[i], s.stack[i + 1]) /\ t[i] = s.stack[i]
      BY <2>2, <1>1, <1>2, <1>21, <1>23
    <3>2. CASE i + 1 = k
      <4>1. t[i + 1] = y /\ s.stack[i + 1] = top
        BY <3>2, <1>7, <1>21
      <4> QED
        BY <4>1, <3>1, <1>16 DEF Linked
    <3>3. CASE i + 1 \in 1 .. m
      <4>1. t[i + 1] = s.stack[i + 1]
        BY <3>3, <1>21
      <4> QED
        BY <4>1, <3>1
    <3> QED
      BY <2>2, <3>2, <3>3, <1>23
  <2>3. CASE i = k
    <3>1. t[i] = y /\ t[i + 1] = z
      BY <2>3, <1>21
    <3>2. y.cur # 0 /\ z.node = Child(y) /\ z.pos = y.filled
      BY <1>14, <1>16, <1>18
    <3> QED
      BY <3>1, <3>2 DEF Linked
  <2> QED
    BY <2>1, <2>2, <2>3
<1>27. ASSUME ~s.broken PROVE (\A i \in 1 .. Len(t) : FrameExact(t[i], c)) /\ Whole(t[Len(t)])
  <2>1. \A i \in 1 .. m : FrameExact(s.stack[i], c)
    BY <1>1, <1>2, <1>23, <1>27 DEF Exact
  <2>2. \A i \in 1 .. Len(t) : FrameExact(t[i], c)
    BY <2>1, <1>16, <1>18, <1>21, <1>22
  <2> QED
    BY <2>2, <1>18, <1>21
<1>28. Reading([s EXCEPT !.stack = t], bs, c)
  BY <1>1, <1>21, <1>24, <1>25, <1>26, <1>27, NewStack
<1> QED
  BY <1>4, <1>6, <1>15, <1>17, <1>19, <1>28

(* A stream that was opened at an offset.                                  *)
LEMMA StreamAt ==
  ASSUME NEW bs, NEW b \in bs, NEW c, NEW pos \in Nat
  PROVE  LET x == [Stream(b) EXCEPT !.pos = pos] IN
         /\ x \in Frames(bs) /\ x.node = b /\ x.pos = pos
         /\ FrameOK(x, bs, c) /\ FrameExact(x, c) /\ Whole(x)
<1> DEFINE x == [Stream(b) EXCEPT !.pos = pos]
<1>1. Stream(b) \in Frames(bs) /\ Stream(b).node = b /\ Stream(b).cur = 0
  BY StreamIs DEF Stream
<1> HIDE DEF Stream
<1>2. x \in Frames(bs) /\ x.node = b /\ x.pos = pos /\ x.cur = 0
  BY <1>1 DEF Frames
<1> HIDE DEF x
<1>3. FrameOK(x, bs, c) /\ FrameExact(x, c) /\ Whole(x)
  BY <1>2 DEF FrameOK, FrameExact, Whole
<1> QED
  BY <1>2, <1>3 DEF x

(* A reader that opens a file starts at the offset of its slice.           *)
LEMMA OpenOK ==
  ASSUME NEW bs, NEW c, NEW root \in bs, NEW file \in Seq(Nat), NEW slice \in Nat \X Nat,
         c[root] = file, Size(root) = Len(file)
  PROVE  Reading([NoStream EXCEPT !.pc = "open", !.file = file, !.slice = slice,
                          !.end = LogicalEnd(slice, Size(root)),
                          !.stack = <<[Stream(root) EXCEPT !.pos = slice[1]]>>], bs, c)
<1>1. slice[1] \in Nat /\ Len(file) \in Nat
  BY LenProperties
<1>2. PICK end : end = LogicalEnd(slice, Size(root))
  OBVIOUS
<1>3. end \in Nat /\ end = LogicalEnd(slice, Len(file))
  BY <1>1, <1>2, EndIs
<1>4. PICK x : x = [Stream(root) EXCEPT !.pos = slice[1]]
  OBVIOUS
<1>5. /\ x \in Frames(bs) /\ x.node = root /\ x.pos = slice[1]
      /\ FrameOK(x, bs, c) /\ FrameExact(x, c) /\ Whole(x)
  <2>1. PICK p \in Nat : p = slice[1]
    BY <1>1, Zenon
  <2>2. x = [Stream(root) EXCEPT !.pos = p]
    BY <1>4, <2>1
  <2>3. /\ x \in Frames(bs) /\ x.node = root /\ x.pos = p
        /\ FrameOK(x, bs, c) /\ FrameExact(x, c) /\ Whole(x)
    BY <2>2, StreamAt
  <2> QED
    BY <2>1, <2>3
<1>6. PICK t : t = <<x>>
  OBVIOUS
<1>7. t \in Seq(Frames(bs)) /\ Len(t) = 1 /\ t[1] = x /\ t # <<>>
  BY <1>5, <1>6
<1>8. PICK s : s = [NoStream EXCEPT !.pc = "open", !.file = file, !.slice = slice, !.end = end,
                                    !.stack = t]
  OBVIOUS
<1>9. NoStream \in ReadRecord(bs) /\ NoStream.got = <<>> /\ NoStream.broken = FALSE
  BY Empty DEF NoStream
<1>10. "open" \in {"closed", "open", "reading", "ended"}
  OBVIOUS
<1> HIDE DEF NoStream
<1>11. /\ s \in ReadRecord(bs) /\ s.pc = "open" /\ s.file = file /\ s.slice = slice /\ s.end = end
       /\ s.stack = t /\ s.got = <<>> /\ s.broken = FALSE
  BY <1>3, <1>7, <1>8, <1>9, <1>10 DEF ReadRecord
<1>12. Len(s.got) = 0
  BY <1>11
<1>13. \A i \in 1 .. 1 : i = 1
  OBVIOUS
<1>14. 1 - 1 = 0 /\ \A i : i \notin 1 .. 0
  OBVIOUS
<1>15. AtFile(s, c)
  <2>1. s.stack[1].pos = s.slice[1] + Len(s.got)
    BY <1>1, <1>5, <1>7, <1>11, <1>12
  <2>2. s.end = LogicalEnd(s.slice, Len(s.file)) /\ c[s.stack[1].node] = s.file
    BY <1>3, <1>5, <1>7, <1>11
  <2> QED
    BY <2>1, <2>2, <1>11, <1>12 DEF AtFile
<1>16. Exact(s, c)
  <2>1. \A i \in 1 .. Len(s.stack) : FrameExact(s.stack[i], c)
    BY <1>5, <1>7, <1>11, <1>13, Zenon
  <2>2. Whole(Top(s))
    BY <1>5, <1>7, <1>11 DEF Top
  <2>3. \A i \in 1 .. Len(s.got) : s.got[i] = s.file[s.slice[1] + i]
    BY <1>12, <1>14, Zenon
  <2> QED
    BY <2>1, <2>2, <2>3 DEF Exact
<1>17. /\ \A i \in 1 .. Len(s.stack) : FrameOK(s.stack[i], bs, c)
       /\ \A i \in 1 .. Len(s.stack) - 1 : Linked(s.stack[i], s.stack[i + 1])
  BY <1>5, <1>7, <1>11, <1>13, <1>14, Zenon
<1>18. Reading(s, bs, c)
  BY <1>7, <1>11, <1>15, <1>16, <1>17 DEF Reading
<1> QED
  BY <1>2, <1>4, <1>6, <1>8, <1>18

(* A stream that only changes what it is about to do.                      *)
LEMMA Turns ==
  ASSUME NEW bs, NEW c, NEW s, NEW want \in Nat, NEW pc, NEW z, z = [s EXCEPT !.pc = pc, !.want = want]
  PROVE  Reading(s, bs, c) /\ s.pc = "open"
         /\ \/ pc = "ended" /\ s.stack[1].pos >= s.end
            \/ pc = "reading" /\ want # 0 /\ s.stack[1].pos + want <= s.end
         => Reading(z, bs, c)
<1>1. SUFFICES ASSUME Reading(s, bs, c), s.pc = "open",
                      \/ pc = "ended" /\ s.stack[1].pos >= s.end
                      \/ pc = "reading" /\ want # 0 /\ s.stack[1].pos + want <= s.end
      PROVE  Reading(z, bs, c)
  OBVIOUS
<1>2. /\ s \in ReadRecord(bs) /\ s.stack # <<>> /\ Len(s.stack) = 1
      /\ AtFile(s, c)
      /\ \A i \in 1 .. Len(s.stack) : FrameOK(s.stack[i], bs, c)
      /\ \A i \in 1 .. Len(s.stack) - 1 : Linked(s.stack[i], s.stack[i + 1])
      /\ ~s.broken => Exact(s, c)
  BY <1>1 DEF Reading
<1>3. pc \in {"closed", "open", "reading", "ended"} /\ pc # "closed"
  BY <1>1
<1>4. /\ z \in ReadRecord(bs) /\ z.pc = pc /\ z.want = want
      /\ z.file = s.file /\ z.slice = s.slice /\ z.end = s.end
      /\ z.stack = s.stack /\ z.got = s.got /\ z.broken = s.broken
  BY <1>2, <1>3 DEF ReadRecord
<1>5. AtFile(z, c)
  BY <1>1, <1>2, <1>4 DEF AtFile
<1>6. ~z.broken => Exact(z, c)
  BY <1>2, <1>4 DEF Exact, Top
<1> QED
  BY <1>2, <1>3, <1>4, <1>5, <1>6 DEF Reading

(* A fetch that fails leaves the first stream, which is broken if it was   *)
(* filling an array.                                                       *)
LEMMA UnwoundOK ==
  ASSUME NEW bs, NEW c, NEW s, NEW z,
         z = [s EXCEPT !.pc = "open", !.stack = <<s.stack[1]>>, !.broken = @ \/ Len(s.stack) > 1]
  PROVE  Reading(s, bs, c) /\ s.pc = "reading" => Reading(z, bs, c)
<1>1. SUFFICES ASSUME Reading(s, bs, c), s.pc = "reading"
      PROVE  Reading(z, bs, c)
  OBVIOUS
<1>2. /\ s \in ReadRecord(bs) /\ Len(s.stack) \in Nat \ {0}
      /\ Top(s) = s.stack[Len(s.stack)]
      /\ AtFile(s, c)
      /\ \A i \in 1 .. Len(s.stack) : s.stack[i] \in Frames(bs) /\ FrameOK(s.stack[i], bs, c)
      /\ ~s.broken => Exact(s, c)
  BY <1>1, Parts, Zenon
<1>3. 1 \in 1 .. Len(s.stack)
  <2>1. Len(s.stack) \in Nat \ {0}
    BY <1>2
  <2> QED
    BY <2>1
<1>4. PICK x : x = s.stack[1]
  OBVIOUS
<1>5. x \in Frames(bs) /\ FrameOK(x, bs, c)
  BY <1>2, <1>3, <1>4
<1>6. PICK t : t = <<x>>
  OBVIOUS
<1>7. t \in Seq(Frames(bs)) /\ Len(t) = 1 /\ t[1] = x /\ t # <<>>
  BY <1>5, <1>6
<1>8. PICK broken : broken = (s.broken \/ Len(s.stack) > 1)
  OBVIOUS
<1>9. broken \in BOOLEAN /\ (~broken => ~s.broken /\ Len(s.stack) = 1)
  <2>1. s.broken \in BOOLEAN
    BY <1>2 DEF ReadRecord
  <2>2. Len(s.stack) \in Nat \ {0}
    BY <1>2
  <2>3. PICK n \in Nat \ {0} : n = Len(s.stack)
    BY <2>2, Zenon
  <2>4. ~(n > 1) => n = 1
    OBVIOUS
  <2>5. broken \in BOOLEAN
    BY <1>8
  <2>6. ~broken => ~s.broken /\ ~(n > 1)
    BY <1>8, <2>3, Zenon
  <2> QED
    BY <2>3, <2>4, <2>5, <2>6, Zenon
<1>10. z = [s EXCEPT !.pc = "open", !.stack = t, !.broken = broken]
  BY <1>4, <1>6, <1>8
<1>11. "open" \in {"closed", "open", "reading", "ended"}
  OBVIOUS
<1>12. /\ z \in ReadRecord(bs) /\ z.pc = "open" /\ z.want = s.want
       /\ z.file = s.file /\ z.slice = s.slice /\ z.end = s.end
       /\ z.stack = t /\ z.got = s.got /\ z.broken = broken
  BY <1>2, <1>7, <1>9, <1>10, <1>11 DEF ReadRecord
<1>13. \A i \in 1 .. 1 : i = 1
  OBVIOUS
<1>14. 1 - 1 = 0 /\ \A i : i \notin 1 .. 0
  OBVIOUS
<1>15. AtFile(z, c)
  BY <1>2, <1>4, <1>7, <1>12 DEF AtFile
<1>16. ASSUME ~z.broken PROVE Exact(z, c)
  <2>1. ~s.broken /\ Len(s.stack) = 1
    BY <1>9, <1>12, <1>16
  <2>2. Exact(s, c) /\ Top(s) = x
    BY <2>1, <1>2, <1>4
  <2>3. Top(z) = x
    BY <1>7, <1>12 DEF Top
  <2>4. FrameExact(x, c) /\ Whole(x)
    BY <2>1, <2>2, <1>3, <1>4 DEF Exact
  <2>5. \A i \in 1 .. Len(z.stack) : FrameExact(z.stack[i], c)
    BY <2>4, <1>7, <1>12, <1>13, Zenon
  <2> QED
    BY <2>2, <2>3, <2>4, <2>5, <1>12 DEF Exact
<1>17. /\ \A i \in 1 .. Len(z.stack) : FrameOK(z.stack[i], bs, c)
       /\ \A i \in 1 .. Len(z.stack) - 1 : Linked(z.stack[i], z.stack[i + 1])
  BY <1>5, <1>7, <1>12, <1>13, <1>14, Zenon
<1> QED
  BY <1>7, <1>12, <1>15, <1>16, <1>17 DEF Reading

-----------------------------------------------------------------------------
(* Writers.                                                                *)

AddRecord(made) ==
  [ pc : {"idle", "chunk", "tree"}, file : Seq(Nat), options : Options \cup {None},
    read : Nat, length : Nat, nodes : Seq(made), tree : Seq(made), next : Nat, made : {made} ]

(* The leaves so far are what has been stored of the file.                 *)
Chunking(a, c) ==
  /\ a.tree = <<>> /\ a.next = 0
  /\ Joined(a.nodes, c, SubSeq(a.file, 1, a.read - a.length))
  /\ Leaves(a.nodes, a.file, a.options.raw, a.read - a.length)

(* A level, and what there is of the next.                                 *)
Building(a, c) ==
  /\ a.nodes # <<>> /\ a.next <= Len(a.nodes)
  /\ Joined(a.nodes, c, a.file) /\ LevelOf(a.nodes, a.file, a.options.raw)
  /\ Joined(a.tree, c, SubSeq(a.file, 1, Before(Lengths(a.nodes, c))[a.next]))
  /\ Bundles(a.tree, a.nodes, a.next)

Adding(a, c) ==
  /\ a \in AddRecord(a.made) /\ Closed(a.made)
  /\ a.length <= ChunkSize /\ a.length <= a.read /\ a.read <= Len(a.file)
  /\ a.pc = "idle" => a = NoAdd
  /\ a.pc # "idle" => a.file \in Files /\ a.options \in Options
  /\ a.pc = "chunk" => Chunking(a, c)
  /\ a.pc = "tree" => Building(a, c)

(* The files are sequences of bytes.                                       *)
LEMMA FilesAre == \A f \in Files : f \in Seq(Nat) /\ Len(f) \in Nat
<1> SUFFICES ASSUME NEW f \in Files PROVE f \in Seq(Nat) /\ Len(f) \in Nat
  OBVIOUS
<1>1. f \in Seq(Nat \ {Zero})
  BY UnixFSAssumption
<1>2. f \in Seq(Nat)
  BY <1>1, SeqMonotonic
<1> QED
  BY <1>2, LenProperties

(* A file is its beginning and what follows.                               *)
LEMMA FileParts ==
  ASSUME NEW f \in Seq(Nat)
  PROVE  /\ SubSeq(f, 1, 0) = <<>> /\ SubSeq(f, 1, Len(f)) = f
         /\ \A m, e \in Nat : m <= e /\ e <= Len(f) =>
              /\ SubSeq(f, 1, m) \in Seq(Nat) /\ SubSeq(f, m + 1, e) \in Seq(Nat)
              /\ SubSeq(f, 1, m) \o SubSeq(f, m + 1, e) = SubSeq(f, 1, e)
<1>1. SubSeq(f, 1, 0) = <<>>
  <2>1. /\ SubSeq(f, 1, 0) \in Seq(Nat) /\ Len(SubSeq(f, 1, 0)) = (0 + 1) - 1
    BY LenProperties, SubSeqIs
  <2> QED
    BY <2>1, EmptySeq
<1>2. SubSeq(f, 1, Len(f)) = f
  <2>1. PICK e \in Nat : e = Len(f)
    BY LenProperties, Zenon
  <2>2. /\ SubSeq(f, 1, e) \in Seq(Nat) /\ Len(SubSeq(f, 1, e)) = (e + 1) - 1
        /\ \A i \in 1 .. (e + 1) - 1 : SubSeq(f, 1, e)[i] = f[(1 - 1) + i]
    BY <2>1, SubSeqIs
  <2>3. PICK g : g = SubSeq(f, 1, e)
    OBVIOUS
  <2>4. g \in Seq(Nat) /\ Len(g) = e /\ \A i \in 1 .. e : g[i] = f[i]
    BY <2>2, <2>3
  <2>5. g = f
    BY <2>1, <2>4, SeqEqual
  <2> QED
    BY <2>1, <2>3, <2>5
<1>3. ASSUME NEW m \in Nat, NEW e \in Nat, m <= e, e <= Len(f)
      PROVE  /\ SubSeq(f, 1, m) \in Seq(Nat) /\ SubSeq(f, m + 1, e) \in Seq(Nat)
             /\ SubSeq(f, 1, m) \o SubSeq(f, m + 1, e) = SubSeq(f, 1, e)
  <2>1. PICK n \in Nat : n = m + 1
    OBVIOUS
  <2>2. Len(f) \in Nat
    BY LenProperties
  <2>3. 1 <= n /\ n <= e + 1 /\ m <= Len(f) /\ n - 1 = m
    BY <2>1, <2>2, <1>3
  <2>4. SubSeq(f, 1, m) \in Seq(Nat) /\ SubSeq(f, n, e) \in Seq(Nat)
    BY <2>3, <1>3, SubSeqIs
  <2>5. PICK x : x = SubSeq(f, 1, m)
    OBVIOUS
  <2>6. x \in Seq(Nat) /\ Len(x) = m /\ \A i \in 1 .. m : x[i] = f[i]
    <3>1. /\ SubSeq(f, 1, m) \in Seq(Nat) /\ Len(SubSeq(f, 1, m)) = (m + 1) - 1
          /\ \A i \in 1 .. (m + 1) - 1 : SubSeq(f, 1, m)[i] = f[(1 - 1) + i]
      BY <2>3, SubSeqIs
    <3> QED
      BY <3>1, <2>5
  <2>7. PICK y : y = SubSeq(f, n, e)
    OBVIOUS
  <2>8. y \in Seq(Nat) /\ Len(y) = e - m /\ \A i \in 1 .. e - m : y[i] = f[m + i]
    <3>1. /\ SubSeq(f, n, e) \in Seq(Nat) /\ Len(SubSeq(f, n, e)) = (e + 1) - n
          /\ \A i \in 1 .. (e + 1) - n : SubSeq(f, n, e)[i] = f[(n - 1) + i]
      <4>1. 1 <= n /\ n <= e + 1 /\ e <= Len(f)
        BY <2>3, <1>3
      <4> QED
        BY <4>1, SubSeqIs, SMTT(30)
    <3>2. (e + 1) - n = e - m
      BY <2>1
    <3> QED
      BY <3>1, <3>2, <2>3, <2>7
  <2>9. PICK z : z = SubSeq(f, 1, e)
    OBVIOUS
  <2>10. z \in Seq(Nat) /\ Len(z) = e /\ \A i \in 1 .. e : z[i] = f[i]
    <3>1. /\ SubSeq(f, 1, e) \in Seq(Nat) /\ Len(SubSeq(f, 1, e)) = (e + 1) - 1
          /\ \A i \in 1 .. (e + 1) - 1 : SubSeq(f, 1, e)[i] = f[(1 - 1) + i]
      BY <1>3, SubSeqIs
    <3> QED
      BY <3>1, <2>9
  <2>11. PICK v : v = x \o y
    OBVIOUS
  <2>12. /\ v \in Seq(Nat) /\ Len(v) = Len(x) + Len(y)
         /\ \A i \in 1 .. Len(x) + Len(y) : v[i] = IF i <= Len(x) THEN x[i] ELSE y[i - Len(x)]
    BY <2>6, <2>8, <2>11, ConcatProperties
  <2>13. Len(x) + Len(y) = e
    BY <2>6, <2>8, <1>3
  <2>14. ASSUME NEW i \in 1 .. e PROVE v[i] = z[i]
    <3>1. v[i] = IF i <= m THEN x[i] ELSE y[i - m]
      BY <2>6, <2>12, <2>13
    <3>2. z[i] = f[i]
      BY <2>10
    <3>3. CASE i <= m
      <4>1. i \in 1 .. m
        BY <3>3
      <4> QED
        BY <4>1, <3>1, <3>2, <3>3, <2>6
    <3>4. CASE ~(i <= m)
      <4>1. PICK j \in 1 .. e - m : j = i - m
        <5>1. i - m \in 1 .. e - m
          BY <3>4
        <5> QED
          BY <5>1, Zenon
      <4>2. m + j = i
        BY <4>1
      <4>3. y[j] = f[i]
        BY <4>2, <2>8
      <4> QED
        BY <4>1, <4>3, <3>1, <3>2, <3>4
    <3> QED
      BY <3>3, <3>4
  <2>15. v = z
    BY <2>10, <2>12, <2>13, <2>14, SeqEqual
  <2> QED
    BY <2>1, <2>4, <2>5, <2>7, <2>9, <2>11, <2>15
<1> QED
  BY <1>1, <1>2, <1>3

(* No pieces make up nothing:                                              *)
LEMMA NoCut ==
  ASSUME NEW len, NEW step
  PROVE  \E cut : IsCut(cut, 0, len, step, 0)
<1> DEFINE cut == [i \in 0 .. 0 |-> 0]
<1>1. cut \in [0 .. 0 -> Nat] /\ cut[0] = 0
  OBVIOUS
<1> HIDE DEF cut
<1>2. \A i : i \notin 1 .. 0
  OBVIOUS
<1>3. IsCut(cut, 0, len, step, 0)
  BY <1>1, <1>2 DEF IsCut
<1> QED
  BY <1>3

(* there are no leaves before the first,                                   *)
LEMMA NoLeaves == ASSUME NEW f, NEW raw PROVE Leaves(<<>>, f, raw, 0)
<1>1. PICK cut : IsCut(cut, 0, Len(f), ChunkSize, 0)
  BY NoCut, Zenon
<1>2. Len(<<>>) = 0
  OBVIOUS
<1>3. <<>> = [i \in 1 .. 0 |-> Leaf(SubSeq(f, cut[i - 1] + 1, cut[i]), raw)]
  OBVIOUS
<1> QED
  BY <1>1, <1>2, <1>3 DEF Leaves

(* and no bundles.                                                         *)
LEMMA NoBundles == ASSUME NEW nodes PROVE Bundles(<<>>, nodes, 0)
<1>1. PICK cut : IsCut(cut, 0, Len(nodes), LinksPerBlock, 0)
  BY NoCut, Zenon
<1>2. Len(<<>>) = 0
  OBVIOUS
<1>3. <<>> = [i \in 1 .. 0 |-> Bundle(SubSeq(nodes, cut[i - 1] + 1, cut[i]))]
  OBVIOUS
<1> QED
  BY <1>1, <1>2, <1>3 DEF Bundles

(* One more node.                                                          *)
LEMMA Appended ==
  ASSUME NEW S, NEW s \in Seq(S), NEW x \in S
  PROVE  /\ Append(s, x) \in Seq(S) /\ Append(s, x) # <<>>
         /\ Len(Append(s, x)) = Len(s) + 1
         /\ Append(s, x) = [i \in 1 .. Len(s) + 1 |-> IF i = Len(s) + 1 THEN x ELSE s[i]]
<1>1. /\ Append(s, x) \in Seq(S) /\ Len(Append(s, x)) = Len(s) + 1
      /\ \A i \in 1 .. Len(s) : Append(s, x)[i] = s[i]
      /\ Append(s, x)[Len(s) + 1] = x
  BY AppendProperties
<1>2. Len(s) \in Nat
  BY LenProperties
<1>3. PICK n \in Nat : n = Len(s)
  BY <1>2, Zenon
<1>4. PICK t : t = Append(s, x)
  OBVIOUS
<1>5. t \in Seq(S) /\ Len(t) = n + 1 /\ (\A i \in 1 .. n : t[i] = s[i]) /\ t[n + 1] = x
  BY <1>1, <1>3, <1>4
<1>6. t # <<>>
  BY <1>5, <1>3
<1>7. t = [i \in 1 .. n + 1 |-> t[i]]
  BY <1>5, LenProperties
<1>8. \A i \in 1 .. n + 1 : t[i] = IF i = n + 1 THEN x ELSE s[i]
  <2> SUFFICES ASSUME NEW i \in 1 .. n + 1 PROVE t[i] = IF i = n + 1 THEN x ELSE s[i]
    OBVIOUS
  <2>1. i = n + 1 \/ (i \in 1 .. n /\ i # n + 1)
    OBVIOUS
  <2> QED
    BY <2>1, <1>5
<1>9. [i \in 1 .. n + 1 |-> t[i]] = [i \in 1 .. n + 1 |-> IF i = n + 1 THEN x ELSE s[i]]
  BY <1>8
<1> QED
  BY <1>3, <1>4, <1>5, <1>6, <1>7, <1>9, Zenon

(* The next chunk is the next leaf.                                        *)
LEMMA LeavesMore ==
  ASSUME NEW S, NEW nodes \in Seq(S), NEW f, NEW raw, Len(f) \in Nat, NEW upto \in Nat,
         NEW e, NEW x \in S
  PROVE  /\ Leaves(nodes, f, raw, upto) /\ (Len(nodes) = 0 \/ upto < Len(f))
         /\ e = Smaller(upto + ChunkSize, Len(f)) /\ x = Leaf(SubSeq(f, upto + 1, e), raw)
         => Leaves(Append(nodes, x), f, raw, e)
<1>1. SUFFICES ASSUME Leaves(nodes, f, raw, upto), Len(nodes) = 0 \/ upto < Len(f),
                      e = Smaller(upto + ChunkSize, Len(f)), x = Leaf(SubSeq(f, upto + 1, e), raw)
               PROVE  Leaves(Append(nodes, x), f, raw, e)
  OBVIOUS
<1>2. PICK n \in Nat : n = Len(nodes)
  BY LenProperties, Zenon
<1>3. PICK cut : /\ IsCut(cut, n, Len(f), ChunkSize, upto)
                 /\ nodes = [i \in 1 .. n |-> Leaf(SubSeq(f, cut[i - 1] + 1, cut[i]), raw)]
  BY <1>1, <1>2, Zenon DEF Leaves
<1>4. PICK more : IsCut(more, n + 1, Len(f), ChunkSize, e) /\ \A i \in 0 .. n : more[i] = cut[i]
  <2>1. ChunkSize \in Nat /\ (n = 0 \/ upto < Len(f))
    BY <1>1, <1>2, UnixFSAssumption
  <2> QED
    BY <2>1, <1>1, <1>3, CutMore
<1>5. PICK t : t = Append(nodes, x)
  OBVIOUS
<1>6. Len(t) = n + 1 /\ t = [i \in 1 .. n + 1 |-> IF i = n + 1 THEN x ELSE nodes[i]]
  BY <1>2, <1>5, Appended
<1>7. cut[n] = upto /\ more[n + 1] = e
  BY <1>3, <1>4 DEF IsCut
<1>8. ASSUME NEW i \in 1 .. n + 1
      PROVE  (IF i = n + 1 THEN x ELSE nodes[i]) = Leaf(SubSeq(f, more[i - 1] + 1, more[i]), raw)
  <2>1. CASE i = n + 1
    <3>1. i - 1 = n /\ n \in 0 .. n
      BY <2>1
    <3>2. more[i - 1] = upto /\ more[i] = e
      BY <2>1, <3>1, <1>4, <1>7
    <3> QED
      BY <2>1, <3>2, <1>1
  <2>2. CASE i # n + 1
    <3>1. i \in 1 .. n /\ i \in 0 .. n /\ i - 1 \in 0 .. n
      BY <2>2
    <3>2. more[i - 1] = cut[i - 1] /\ more[i] = cut[i]
      BY <3>1, <1>4
    <3>3. nodes[i] = Leaf(SubSeq(f, cut[i - 1] + 1, cut[i]), raw)
      BY <3>1, <1>3
    <3> QED
      BY <2>2, <3>2, <3>3
  <2> QED
    BY <2>1, <2>2
<1>9. t = [i \in 1 .. n + 1 |-> Leaf(SubSeq(f, more[i - 1] + 1, more[i]), raw)]
  BY <1>6, <1>8, Zenon
<1> QED
  BY <1>4, <1>5, <1>6, <1>9 DEF Leaves

(* The next nodes are the next bundle.                                     *)
LEMMA BundlesMore ==
  ASSUME NEW S, NEW tree \in Seq(S), NEW nodes, Len(nodes) \in Nat, NEW upto \in Nat,
         NEW e, NEW x \in S
  PROVE  /\ Bundles(tree, nodes, upto) /\ (Len(tree) = 0 \/ upto < Len(nodes))
         /\ e = Smaller(upto + LinksPerBlock, Len(nodes)) /\ x = Bundle(SubSeq(nodes, upto + 1, e))
         => Bundles(Append(tree, x), nodes, e)
<1>1. SUFFICES ASSUME Bundles(tree, nodes, upto), Len(tree) = 0 \/ upto < Len(nodes),
                      e = Smaller(upto + LinksPerBlock, Len(nodes)),
                      x = Bundle(SubSeq(nodes, upto + 1, e))
               PROVE  Bundles(Append(tree, x), nodes, e)
  OBVIOUS
<1>2. PICK n \in Nat : n = Len(tree)
  BY LenProperties, Zenon
<1>3. PICK cut : /\ IsCut(cut, n, Len(nodes), LinksPerBlock, upto)
                 /\ tree = [i \in 1 .. n |-> Bundle(SubSeq(nodes, cut[i - 1] + 1, cut[i]))]
  BY <1>1, <1>2, Zenon DEF Bundles
<1>4. PICK more : IsCut(more, n + 1, Len(nodes), LinksPerBlock, e) /\ \A i \in 0 .. n : more[i] = cut[i]
  <2>1. LinksPerBlock \in Nat /\ (n = 0 \/ upto < Len(nodes))
    BY <1>1, <1>2, UnixFSAssumption
  <2> QED
    BY <2>1, <1>1, <1>3, CutMore
<1>5. PICK t : t = Append(tree, x)
  OBVIOUS
<1>6. Len(t) = n + 1 /\ t = [i \in 1 .. n + 1 |-> IF i = n + 1 THEN x ELSE tree[i]]
  BY <1>2, <1>5, Appended
<1>7. cut[n] = upto /\ more[n + 1] = e
  BY <1>3, <1>4 DEF IsCut
<1>8. ASSUME NEW i \in 1 .. n + 1
      PROVE  (IF i = n + 1 THEN x ELSE tree[i]) = Bundle(SubSeq(nodes, more[i - 1] + 1, more[i]))
  <2>1. CASE i = n + 1
    <3>1. i - 1 = n /\ n \in 0 .. n
      BY <2>1
    <3>2. more[i - 1] = upto /\ more[i] = e
      BY <2>1, <3>1, <1>4, <1>7
    <3> QED
      BY <2>1, <3>2, <1>1
  <2>2. CASE i # n + 1
    <3>1. i \in 1 .. n /\ i \in 0 .. n /\ i - 1 \in 0 .. n
      BY <2>2
    <3>2. more[i - 1] = cut[i - 1] /\ more[i] = cut[i]
      BY <3>1, <1>4
    <3>3. tree[i] = Bundle(SubSeq(nodes, cut[i - 1] + 1, cut[i]))
      BY <3>1, <1>3
    <3> QED
      BY <2>2, <3>2, <3>3
  <2> QED
    BY <2>1, <2>2
<1>9. t = [i \in 1 .. n + 1 |-> Bundle(SubSeq(nodes, more[i - 1] + 1, more[i]))]
  BY <1>6, <1>8, Zenon
<1> QED
  BY <1>4, <1>5, <1>6, <1>9 DEF Bundles

(* A bundle fits what its nodes hold.                                      *)
LEMMA BundleFits ==
  ASSUME NEW bs, NEW c, NEW nodes \in Seq(bs), NEW f
  PROVE  WellBuilt(bs, c) /\ nodes # <<>> /\ Joined(nodes, c, f) => Fits(Bundle(nodes), bs, c, f)
<1>1. SUFFICES ASSUME WellBuilt(bs, c), nodes # <<>>, Joined(nodes, c, f)
      PROVE  Fits(Bundle(nodes), bs, c, f)
  OBVIOUS
<1>2. \A i \in DOMAIN nodes : nodes[i] \in bs
  BY LenProperties, ElementOfSeq
<1>3. \A i \in DOMAIN nodes : Size(nodes[i]) = Len(c[nodes[i]])
  BY <1>1, <1>2, SizeIsLength
<1>4. Sizes(nodes) = Lengths(nodes, c)
  BY <1>3, Zenon DEF Sizes, Lengths
<1>5. \A x \in bs : c[x] \in Seq(Nat)
  BY <1>1, Zenon DEF WellBuilt
<1>6. Len(nodes) \in Nat /\ Len(nodes) # 0
  BY <1>1, LenProperties, EmptySeq
<1>7. Lengths(nodes, c) # <<>>
  <2>1. Len(Lengths(nodes, c)) = Len(nodes)
    BY <1>5, LengthsType
  <2> QED
    BY <2>1, <1>6
<1>8. PICK b : b = Bundle(nodes)
  OBVIOUS
<1>9. b.sizes = Lengths(nodes, c) /\ b.links = nodes
  BY <1>4, <1>8 DEF Bundle, BlockSizes
<1> QED
  BY <1>1, <1>7, <1>8, <1>9 DEF Fits, IsLeaf

(* A leaf holds its data.                                                  *)
LEMMA LeafFits ==
  ASSUME NEW bs, NEW c, NEW f, NEW raw
  PROVE  Fits(Leaf(f, raw), bs, c, f) /\ Leaf(f, raw).links = <<>>
  BY DEF Fits, IsLeaf, Leaf

(* A call is not concerned with blocks that are not its own.               *)
LEMMA AddingMore ==
  ASSUME NEW a, NEW bs, a.made \subseteq bs, NEW c, NEW d, \A x \in bs : d[x] = c[x]
  PROVE  Adding(a, c) => Adding(a, d)
<1>1. SUFFICES ASSUME Adding(a, c) PROVE Adding(a, d)
  OBVIOUS
<1>2. a.nodes \in Seq(a.made) /\ a.tree \in Seq(a.made)
  BY <1>1 DEF Adding, AddRecord
<1>3. \A x \in a.made : d[x] = c[x]
  OBVIOUS
<1>4. /\ \A f : Joined(a.nodes, c, f) => Joined(a.nodes, d, f)
      /\ \A f : Joined(a.tree, c, f) => Joined(a.tree, d, f)
  BY <1>2, <1>3, JoinedSame
<1>5. Lengths(a.nodes, d) = Lengths(a.nodes, c)
  BY <1>2, <1>3, LengthsSame
<1>6. Chunking(a, c) => Chunking(a, d)
  BY <1>4, Zenon DEF Chunking
<1>7. Building(a, c) => Building(a, d)
  BY <1>4, <1>5, Zenon DEF Building
<1> QED
  BY <1>1, <1>6, <1>7, Zenon DEF Adding

(* A writer that does nothing.                                             *)
LEMMA AddingNothing == ASSUME NEW c PROVE Adding(NoAdd, c) /\ NoAdd.made = {} /\ NoAdd.pc = "idle"
<1>1. <<>> \in Seq({}) /\ <<>> \in Seq(Nat) /\ Len(<<>>) = 0
  BY EmptySeq
<1>2. "idle" \in {"idle", "chunk", "tree"} /\ "idle" # "chunk" /\ "idle" # "tree"
  OBVIOUS
<1>3. /\ NoAdd.made = {} /\ NoAdd.pc = "idle" /\ NoAdd.length = 0 /\ NoAdd.read = 0
      /\ NoAdd.file = <<>>
  BY DEF NoAdd
<1>4. NoAdd \in AddRecord({})
  BY <1>1, <1>2 DEF NoAdd, AddRecord
<1>5. Closed({})
  BY DEF Closed
<1>6. ChunkSize \in Nat
  BY UnixFSAssumption
<1> HIDE DEF NoAdd
<1>7. NoAdd.length <= ChunkSize /\ NoAdd.length <= NoAdd.read /\ NoAdd.read <= Len(NoAdd.file)
  BY <1>1, <1>3, <1>6
<1> QED
  BY <1>2, <1>3, <1>4, <1>5, <1>7 DEF Adding

(* A call begins with an empty tree.                                       *)
LEMMA Begins ==
  ASSUME NEW f \in Files, NEW o \in Options, NEW c, NEW n
  PROVE  n = [NoAdd EXCEPT !.pc = "chunk", !.file = f, !.options = o] => Adding(n, c) /\ n.made = {}
<1>a. SUFFICES ASSUME n = [NoAdd EXCEPT !.pc = "chunk", !.file = f, !.options = o]
               PROVE  Adding(n, c) /\ n.made = {}
  OBVIOUS
<1>1. <<>> \in Seq({}) /\ <<>> \in Seq(Nat) /\ Len(<<>>) = 0
  BY EmptySeq
<1>2. "chunk" \in {"idle", "chunk", "tree"} /\ "chunk" # "idle" /\ "chunk" # "tree"
  OBVIOUS
<1>3. f \in Seq(Nat) /\ Len(f) \in Nat
  BY FilesAre
<1>4. n = [ pc |-> "chunk", file |-> f, options |-> o, read |-> 0, length |-> 0,
            nodes |-> <<>>, tree |-> <<>>, next |-> 0, made |-> {} ]
  BY <1>a DEF NoAdd
<1>5. n \in AddRecord({})
  BY <1>1, <1>2, <1>3, <1>4 DEF AddRecord
<1>6. Closed({})
  BY DEF Closed
<1>7. ChunkSize \in Nat
  BY UnixFSAssumption
<1>8. /\ n.pc = "chunk" /\ n.file = f /\ n.options = o /\ n.read = 0 /\ n.length = 0
      /\ n.nodes = <<>> /\ n.tree = <<>> /\ n.next = 0 /\ n.made = {}
  BY <1>4
<1>9. n.length <= ChunkSize /\ n.length <= n.read /\ n.read <= Len(n.file) /\ n.read - n.length = 0
  BY <1>3, <1>7, <1>8
<1>10. Chunking(n, c)
  <2>1. SubSeq(f, 1, 0) = <<>>
    BY <1>3, FileParts
  <2>2. Joined(<<>>, c, SubSeq(f, 1, 0))
    BY <2>1, JoinedNone
  <2>3. Leaves(<<>>, f, n.options.raw, 0)
    BY NoLeaves
  <2> QED
    BY <2>2, <2>3, <1>8, <1>9 DEF Chunking
<1> QED
  BY <1>2, <1>5, <1>6, <1>8, <1>9, <1>10 DEF Adding

(* Reading from the source changes what is pending alone.                  *)
LEMMA ReadsOn ==
  ASSUME NEW a, NEW c, NEW m \in Nat, NEW n
  PROVE  /\ Adding(a, c) /\ a.pc = "chunk" /\ a.length + m <= ChunkSize /\ a.read + m <= Len(a.file)
         /\ n = [a EXCEPT !.read = @ + m, !.length = @ + m]
         => Adding(n, c) /\ n.made = a.made
<1>1. SUFFICES ASSUME Adding(a, c), a.pc = "chunk", a.length + m <= ChunkSize,
                      a.read + m <= Len(a.file), n = [a EXCEPT !.read = @ + m, !.length = @ + m]
               PROVE  Adding(n, c) /\ n.made = a.made
  OBVIOUS
<1>2. a \in AddRecord(a.made) /\ Closed(a.made) /\ Chunking(a, c)
      /\ a.file \in Files /\ a.options \in Options /\ a.length <= a.read
  BY <1>1 DEF Adding
<1>3. a.read \in Nat /\ a.length \in Nat
  BY <1>2 DEF AddRecord
<1>4. PICK x \in Nat : x = a.read + m
  BY <1>3
<1>5. PICK y \in Nat : y = a.length + m
  BY <1>3
<1>6. n = [a EXCEPT !.read = x, !.length = y]
  BY <1>1, <1>4, <1>5
<1>7. PICK made : made = a.made
  OBVIOUS
<1>8. a \in AddRecord(made)
  BY <1>2, <1>7
<1>9. /\ n \in AddRecord(made) /\ n.pc = "chunk" /\ n.file = a.file /\ n.options = a.options
      /\ n.read = x /\ n.length = y /\ n.nodes = a.nodes /\ n.tree = a.tree /\ n.next = a.next
      /\ n.made = made
  BY <1>1, <1>6, <1>7, <1>8 DEF AddRecord
<1>10. x - y = a.read - a.length /\ y <= x
  <2>1. a.length <= a.read
    BY <1>2
  <2> QED
    BY <2>1, <1>3, <1>4, <1>5
<1>11. x <= Len(a.file) /\ y <= ChunkSize
  BY <1>1, <1>4, <1>5
<1>12. Chunking(n, c)
  BY <1>2, <1>9, <1>10 DEF Chunking
<1> QED
  BY <1>2, <1>7, <1>9, <1>10, <1>11, <1>12 DEF Adding

(* A level is complete.                                                    *)
LEMMA LevelBegins ==
  ASSUME NEW made, NEW nodes \in Seq(made), NEW f \in Seq(Nat), NEW raw, NEW c, NEW n,
         \A x \in made : c[x] \in Seq(Nat),
         n.nodes = nodes, n.tree = <<>>, n.next = 0, n.file = f, n.options.raw = raw
  PROVE  nodes # <<>> /\ Joined(nodes, c, f) /\ LevelOf(nodes, f, raw) => Building(n, c)
<1>1. SUFFICES ASSUME nodes # <<>>, Joined(nodes, c, f), LevelOf(nodes, f, raw)
      PROVE  Building(n, c)
  OBVIOUS
<1>2. Bundles(<<>>, nodes, 0)
  BY NoBundles
<1>3. Lengths(nodes, c) \in Seq(Nat)
  BY LengthsType
<1>4. Before(Lengths(nodes, c))[0] = 0
  BY <1>3, BeforeDef
<1>5. SubSeq(f, 1, 0) = <<>>
  BY FileParts
<1>6. Joined(<<>>, c, SubSeq(f, 1, Before(Lengths(nodes, c))[0]))
  BY <1>4, <1>5, JoinedNone
<1>7. 0 <= Len(nodes)
  BY LenProperties
<1> QED
  BY <1>1, <1>2, <1>6, <1>7, Zenon DEF Building

(* The source has ended: its leaves are the first level.                   *)
LEMMA SourceDone ==
  ASSUME NEW a, NEW c, \A x \in a.made : c[x] \in Seq(Nat), NEW n, n = [a EXCEPT !.pc = "tree"]
  PROVE  Adding(a, c) /\ a.pc = "chunk" /\ AtEnd(a) /\ a.length = 0 /\ a.nodes # <<>> =>
           Adding(n, c) /\ n.made = a.made
<1>1. SUFFICES ASSUME Adding(a, c), a.pc = "chunk", AtEnd(a), a.length = 0, a.nodes # <<>>
               PROVE  Adding(n, c) /\ n.made = a.made
  OBVIOUS
<1>2. /\ a \in AddRecord(a.made) /\ Closed(a.made) /\ Chunking(a, c)
      /\ a.file \in Files /\ a.options \in Options
      /\ a.length <= a.read /\ a.length <= ChunkSize /\ a.read <= Len(a.file)
  BY <1>1 DEF Adding
<1>3. PICK made : made = a.made
  OBVIOUS
<1>4. a \in AddRecord(made)
  BY <1>2, <1>3
<1>5. "tree" \in {"idle", "chunk", "tree"} /\ "tree" # "idle" /\ "tree" # "chunk"
  OBVIOUS
<1>6. /\ n \in AddRecord(made) /\ n.pc = "tree" /\ n.file = a.file /\ n.options = a.options
      /\ n.read = a.read /\ n.length = a.length /\ n.nodes = a.nodes /\ n.tree = a.tree
      /\ n.next = a.next /\ n.made = made
  BY <1>4, <1>5 DEF AddRecord
<1>7. PICK f : f = a.file
  OBVIOUS
<1>8. f \in Seq(Nat) /\ Len(f) \in Nat
  BY <1>2, <1>7, FilesAre
<1>9. a.read - a.length = Len(f)
  BY <1>1, <1>7, <1>8 DEF AtEnd
<1>10. a.tree = <<>> /\ a.next = 0 /\ Joined(a.nodes, c, SubSeq(f, 1, Len(f)))
       /\ Leaves(a.nodes, f, a.options.raw, Len(f))
  BY <1>2, <1>7, <1>9 DEF Chunking
<1>11. SubSeq(f, 1, Len(f)) = f
  BY <1>8, FileParts
<1>12. a.nodes \in Seq(made)
  BY <1>4 DEF AddRecord
<1>13. Len(a.nodes) \in Nat \ {0}
  BY <1>1, <1>12, LenProperties, EmptySeq
<1>14. LevelOf(a.nodes, f, a.options.raw)
  BY <1>10, <1>13, FirstLevel DEF LeafLevel
<1>15. Building(n, c)
  <2>1. Joined(a.nodes, c, f)
    BY <1>10, <1>11
  <2>2. \A x \in made : c[x] \in Seq(Nat)
    BY <1>3
  <2>3. n.nodes = a.nodes /\ n.tree = <<>> /\ n.next = 0 /\ n.file = f /\ n.options.raw = a.options.raw
    BY <1>6, <1>7, <1>10
  <2> QED
    BY <2>1, <2>2, <2>3, <1>1, <1>8, <1>12, <1>14, LevelBegins
<1> QED
  BY <1>2, <1>3, <1>5, <1>6, <1>15 DEF Adding

(* One more block whose links are there.                                   *)
LEMMA ClosedMore ==
  ASSUME NEW bs, Closed(bs), NEW b, \A i \in DOMAIN b.links : b.links[i] \in bs
  PROVE  Closed(bs \cup {b})
  BY DEF Closed

(* What is still to be cut, and the next chunk of it.                      *)
LEMMA ChunkIs ==
  ASSUME NEW a, NEW c
  PROVE  /\ Adding(a, c) /\ a.pc = "chunk" /\ (Full(a) \/ AtEnd(a))
         /\ a.length > 0 \/ a.nodes = <<>>
         => /\ a.file \in Seq(Nat) /\ Len(a.file) \in Nat
            /\ a.read \in Nat /\ a.length \in Nat /\ a.read - a.length \in Nat
            /\ a.read <= Len(a.file) /\ a.read - a.length <= a.read
            /\ a.read = Smaller((a.read - a.length) + ChunkSize, Len(a.file))
            /\ a.nodes = <<>> \/ a.read - a.length < Len(a.file)
            /\ ~Full(a) => a.read = Len(a.file)
<1>1. SUFFICES ASSUME Adding(a, c), a.pc = "chunk", Full(a) \/ AtEnd(a),
                      a.length > 0 \/ a.nodes = <<>>
      PROVE /\ a.file \in Seq(Nat) /\ Len(a.file) \in Nat
            /\ a.read \in Nat /\ a.length \in Nat /\ a.read - a.length \in Nat
            /\ a.read <= Len(a.file) /\ a.read - a.length <= a.read
            /\ a.read = Smaller((a.read - a.length) + ChunkSize, Len(a.file))
            /\ a.nodes = <<>> \/ a.read - a.length < Len(a.file)
            /\ ~Full(a) => a.read = Len(a.file)
  OBVIOUS
<1>2. a \in AddRecord(a.made) /\ a.file \in Files
  BY <1>1 DEF Adding
<1>3. a.length <= a.read /\ a.length <= ChunkSize /\ a.read <= Len(a.file)
  BY <1>1 DEF Adding
<1>4. a.read \in Nat /\ a.length \in Nat
  BY <1>2 DEF AddRecord
<1>5. a.file \in Seq(Nat) /\ Len(a.file) \in Nat
  BY <1>2, FilesAre
<1>6. PICK r \in Nat : r = a.read
  BY <1>4, Zenon
<1>7. PICK l \in Nat : l = a.length
  BY <1>4, Zenon
<1>8. PICK e \in Nat : e = Len(a.file)
  BY <1>5, Zenon
<1>9. PICK s \in Nat : s = ChunkSize
  BY UnixFSAssumption
<1>10. l <= r /\ l <= s /\ r <= e
  BY <1>3, <1>6, <1>7, <1>8, <1>9
<1>11. l = s \/ r = e
  BY <1>1, <1>6, <1>7, <1>8, <1>9 DEF Full, AtEnd
<1>12. r - l \in Nat /\ r - l <= r
  BY <1>10
<1>13. r = Smaller((r - l) + s, e)
  BY <1>10, <1>11 DEF Smaller
<1>14. a.nodes = <<>> \/ r - l < e
  <2>1. l > 0 => r - l < e
    BY <1>10
  <2>2. l > 0 \/ a.nodes = <<>>
    BY <1>1, <1>7
  <2> QED
    BY <2>1, <2>2
<1>15. ~Full(a) => r = e
  BY <1>7, <1>9, <1>11 DEF Full
<1> QED
  BY <1>4, <1>5, <1>6, <1>7, <1>8, <1>9, <1>10, <1>12, <1>13, <1>14, <1>15

(* There is one more block, and the call has it.                           *)
GoesOn(bs, c, b, n) ==
  \E d : WellBuilt(bs \cup {b}, d) /\ (\A x \in bs : d[x] = c[x]) /\ Adding(n, d)

(* A chunk becomes a leaf. It is full, or the file ends with it: that is   *)
(* what makes the leaves the same however the source was read.             *)
LEMMA LeafStored ==
  ASSUME NEW bs, NEW c, NEW a, NEW chunk, NEW n
  PROVE  /\ WellBuilt(bs, c) /\ a.made \subseteq bs /\ Adding(a, c) /\ a.pc = "chunk"
         /\ Full(a) \/ AtEnd(a)
         /\ a.length > 0 \/ a.nodes = <<>>
         /\ chunk = Leaf(SubSeq(a.file, a.read - a.length + 1, a.read), a.options.raw)
         /\ n = [a EXCEPT !.nodes = Append(@, chunk), !.length = 0, !.made = @ \cup {chunk},
                          !.pc = IF Full(a) THEN "chunk" ELSE "tree"]
         => /\ n.made = a.made \cup {chunk}
            /\ GoesOn(bs, c, chunk, n)
<1>1. SUFFICES
        ASSUME WellBuilt(bs, c), a.made \subseteq bs, Adding(a, c), a.pc = "chunk",
               Full(a) \/ AtEnd(a), a.length > 0 \/ a.nodes = <<>>,
               chunk = Leaf(SubSeq(a.file, a.read - a.length + 1, a.read), a.options.raw),
               n = [a EXCEPT !.nodes = Append(@, chunk), !.length = 0, !.made = @ \cup {chunk},
                             !.pc = IF Full(a) THEN "chunk" ELSE "tree"]
        PROVE  /\ n.made = a.made \cup {chunk}
               /\ GoesOn(bs, c, chunk, n)
  OBVIOUS
<1>2. /\ a \in AddRecord(a.made) /\ Closed(a.made) /\ Chunking(a, c)
      /\ a.file \in Files /\ a.options \in Options
  BY <1>1 DEF Adding
<1>3. /\ a.file \in Seq(Nat) /\ Len(a.file) \in Nat
      /\ a.read \in Nat /\ a.length \in Nat /\ a.read - a.length \in Nat
      /\ a.read <= Len(a.file) /\ a.read - a.length <= a.read
      /\ a.read = Smaller((a.read - a.length) + ChunkSize, Len(a.file))
      /\ a.nodes = <<>> \/ a.read - a.length < Len(a.file)
      /\ ~Full(a) => a.read = Len(a.file)
  BY <1>1, ChunkIs, Zenon
<1>4. PICK file : file = a.file
  OBVIOUS
<1>5. PICK raw : raw = a.options.raw
  OBVIOUS
<1>6. PICK from \in Nat : from = a.read - a.length
  BY <1>3, Zenon
<1>7. PICK upto \in Nat : upto = a.read
  BY <1>3, Zenon
<1>8. /\ file \in Seq(Nat) /\ Len(file) \in Nat /\ upto <= Len(file) /\ from <= upto
      /\ upto = Smaller(from + ChunkSize, Len(file))
      /\ a.nodes = <<>> \/ from < Len(file)
      /\ ~Full(a) => upto = Len(file)
  BY <1>3, <1>4, <1>6, <1>7
<1>9. PICK f : f = SubSeq(file, from + 1, upto)
  OBVIOUS
<1>10. chunk = Leaf(f, raw)
  BY <1>1, <1>4, <1>5, <1>6, <1>7, <1>9
<1>11. /\ f \in Seq(Nat) /\ SubSeq(file, 1, from) \in Seq(Nat)
       /\ SubSeq(file, 1, from) \o f = SubSeq(file, 1, upto)
  <2>1. upto <= Len(file) /\ from <= upto /\ file \in Seq(Nat)
    BY <1>8
  <2> QED
    BY <2>1, <1>9, FileParts
<1>12. Fits(chunk, bs, c, f) /\ chunk.links = <<>>
  BY <1>10, LeafFits
<1>13. PICK d : WellBuilt(bs \cup {chunk}, d) /\ d[chunk] = f /\ \A x \in bs : d[x] = c[x]
  <2>1. WellBuilt(bs, c) /\ Fits(chunk, bs, c, f) /\ f \in Seq(Nat)
    BY <1>1, <1>11, <1>12
  <2>2. \E d : With(bs, c, chunk, f, d)
    BY <2>1, NewBlock
  <2> QED
    BY <2>2, Zenon DEF With
<1>14. PICK old : old = a.made
  OBVIOUS
<1>15. PICK made : made = old \cup {chunk}
  OBVIOUS
<1>16. PICK nodes : nodes = a.nodes
  OBVIOUS
<1>17. nodes \in Seq(old) /\ old \subseteq bs
  BY <1>1, <1>2, <1>14, <1>16 DEF AddRecord
<1>18. nodes \in Seq(made) /\ chunk \in made
  <2>1. old \subseteq made
    BY <1>15
  <2> QED
    BY <2>1, <1>15, <1>17, SeqMonotonic
<1>19. \A x \in made : d[x] \in Seq(Nat)
  <2>1. \A x \in bs \cup {chunk} : d[x] \in Seq(Nat)
    BY <1>13, Zenon DEF WellBuilt
  <2> QED
    BY <2>1, <1>15, <1>17
<1>20. PICK more : more = Append(nodes, chunk)
  OBVIOUS
<1>21. more \in Seq(made) /\ more # <<>> /\ Len(more) = Len(nodes) + 1 /\ Len(nodes) \in Nat
  BY <1>18, <1>20, Appended, LenProperties
<1>22. a.tree = <<>> /\ a.next = 0 /\ Joined(nodes, c, SubSeq(file, 1, from)) /\ Leaves(nodes, file, raw, from)
  BY <1>2, <1>4, <1>5, <1>6, <1>16, Zenon DEF Chunking
<1>23. Joined(nodes, d, SubSeq(file, 1, from))
  <2>1. \A x \in old : d[x] = c[x]
    BY <1>13, <1>17
  <2> QED
    BY <2>1, <1>17, <1>22, JoinedSame
<1>24. Joined(more, d, SubSeq(file, 1, upto))
  <2>1. Joined(more, d, SubSeq(file, 1, from) \o d[chunk])
    BY <1>11, <1>18, <1>19, <1>20, <1>23, JoinedAppend
  <2> QED
    BY <2>1, <1>11, <1>13
<1>25. Leaves(more, file, raw, upto)
  <2>1. Len(nodes) = 0 \/ from < Len(file)
    BY <1>8, <1>16
  <2>2. Len(file) \in Nat /\ upto = Smaller(from + ChunkSize, Len(file))
    BY <1>8
  <2> QED
    BY <2>1, <2>2, <1>9, <1>10, <1>18, <1>20, <1>22, LeavesMore
<1>26. PICK pc : pc = IF Full(a) THEN "chunk" ELSE "tree"
  OBVIOUS
<1>27. n = [a EXCEPT !.nodes = more, !.length = 0, !.made = made, !.pc = pc]
  BY <1>1, <1>14, <1>15, <1>16, <1>20, <1>26
<1>28. pc \in {"idle", "chunk", "tree"} /\ pc # "idle" /\ (pc = "chunk" <=> Full(a)) /\ (pc = "tree" <=> ~Full(a))
  BY <1>26
<1>29. a \in AddRecord(old)
  BY <1>2, <1>14
<1>30. <<>> \in Seq(made)
  BY EmptySeq
<1>31. /\ n.pc = pc /\ n.file = file /\ n.options = a.options
       /\ n.read = upto /\ n.length = 0 /\ n.nodes = more /\ n.tree = <<>>
       /\ n.next = 0 /\ n.made = made
  BY <1>4, <1>7, <1>22, <1>27, <1>29 DEF AddRecord
<1>32. n = [ pc |-> n.pc, file |-> n.file, options |-> n.options, read |-> n.read,
             length |-> n.length, nodes |-> n.nodes, tree |-> n.tree, next |-> n.next,
             made |-> n.made ]
  BY <1>27, <1>29 DEF AddRecord
<1>33. n \in AddRecord(made)
  <2>1. n.pc \in {"idle", "chunk", "tree"}
    BY <1>28, <1>31
  <2>2. n.file \in Seq(Nat) /\ n.options \in Options \cup {None}
    BY <1>2, <1>8, <1>31
  <2>3. n.read \in Nat /\ n.length \in Nat /\ n.next \in Nat
    BY <1>31
  <2>4. n.nodes \in Seq(made) /\ n.tree \in Seq(made) /\ n.made \in {made}
    BY <1>21, <1>30, <1>31
  <2> QED
    BY <2>1, <2>2, <2>3, <2>4, <1>32 DEF AddRecord
<1>34. Closed(made)
  <2>1. \A i \in DOMAIN chunk.links : chunk.links[i] \in old
    BY <1>12
  <2> QED
    BY <2>1, <1>2, <1>14, <1>15, ClosedMore
<1>35. n.length <= ChunkSize /\ n.length <= n.read /\ n.read <= Len(n.file) /\ n.read - n.length = upto
  BY <1>8, <1>31, UnixFSAssumption
<1>36. pc = "chunk" => Chunking(n, d)
  BY <1>5, <1>24, <1>25, <1>31, <1>35, Zenon DEF Chunking
<1>37. pc = "tree" => Building(n, d)
  <2>1. SUFFICES ASSUME pc = "tree" PROVE Building(n, d)
    OBVIOUS
  <2>2. upto = Len(file)
    BY <2>1, <1>8, <1>28
  <2>3. file \in Seq(Nat)
    BY <1>8
  <2>4. Joined(more, d, file)
    BY <2>2, <2>3, <1>24, FileParts
  <2>5. Len(more) \in Nat \ {0}
    BY <1>21
  <2>6. LevelOf(more, file, raw)
    BY <2>2, <2>5, <1>25, FirstLevel DEF LeafLevel
  <2>7. /\ n.nodes = more /\ n.tree = <<>> /\ n.next = 0 /\ n.file = file /\ n.options.raw = raw
        /\ more \in Seq(made) /\ more # <<>>
    BY <1>5, <1>21, <1>31
  <2> QED
    BY <2>3, <2>4, <2>6, <2>7, <1>19, LevelBegins
<1>38. Adding(n, d)
  BY <1>2, <1>4, <1>28, <1>31, <1>33, <1>34, <1>35, <1>36, <1>37 DEF Adding
<1> QED
  BY <1>13, <1>14, <1>15, <1>31, <1>38 DEF GoesOn

(* Some nodes of a level become a node of the next.                        *)
LEMMA NodeStored ==
  ASSUME NEW bs, NEW c, NEW a, NEW last, NEW node, NEW n
  PROVE  /\ WellBuilt(bs, c) /\ a.made \subseteq bs /\ Adding(a, c) /\ a.pc = "tree"
         /\ Len(a.nodes) > 1 /\ a.next < Len(a.nodes)
         /\ last = IF a.next + LinksPerBlock < Len(a.nodes) THEN a.next + LinksPerBlock
                   ELSE Len(a.nodes)
         /\ node = Bundle(SubSeq(a.nodes, a.next + 1, last))
         /\ n = [a EXCEPT !.tree = Append(@, node), !.next = last, !.made = @ \cup {node}]
         => /\ n.made = a.made \cup {node}
            /\ GoesOn(bs, c, node, n)
<1>1. SUFFICES
        ASSUME WellBuilt(bs, c), a.made \subseteq bs, Adding(a, c), a.pc = "tree",
               Len(a.nodes) > 1, a.next < Len(a.nodes),
               last = IF a.next + LinksPerBlock < Len(a.nodes) THEN a.next + LinksPerBlock
                      ELSE Len(a.nodes),
               node = Bundle(SubSeq(a.nodes, a.next + 1, last)),
               n = [a EXCEPT !.tree = Append(@, node), !.next = last, !.made = @ \cup {node}]
        PROVE  /\ n.made = a.made \cup {node}
               /\ GoesOn(bs, c, node, n)
  OBVIOUS
<1>2. /\ a \in AddRecord(a.made) /\ Closed(a.made) /\ Building(a, c)
      /\ a.file \in Files /\ a.options \in Options
      /\ a.length <= ChunkSize /\ a.length <= a.read /\ a.read <= Len(a.file)
  BY <1>1 DEF Adding
<1>3. PICK old : old = a.made
  OBVIOUS
<1>4. a \in AddRecord(old) /\ Closed(old) /\ old \subseteq bs
  BY <1>1, <1>2, <1>3
<1>5. PICK nodes : nodes = a.nodes
  OBVIOUS
<1>6. PICK tree : tree = a.tree
  OBVIOUS
<1>7. nodes \in Seq(old) /\ tree \in Seq(old) /\ a.next \in Nat
  BY <1>4, <1>5, <1>6 DEF AddRecord
<1>8. PICK next \in Nat : next = a.next
  BY <1>7, Zenon
<1>9. PICK len \in Nat : len = Len(nodes)
  BY <1>7, LenProperties, Zenon
<1>10. PICK step \in Nat \ {0} : step = LinksPerBlock
  BY UnixFSAssumption
<1>11. next < len /\ last = IF next + step < len THEN next + step ELSE len
  BY <1>1, <1>5, <1>8, <1>9, <1>10
<1>12. last \in Nat /\ next <= last /\ last <= len /\ last - next # 0 /\ last = Smaller(next + step, len)
  BY <1>11 DEF Smaller
<1>13. PICK file : file = a.file
  OBVIOUS
<1>14. PICK raw : raw = a.options.raw
  OBVIOUS
<1>15. file \in Seq(Nat) /\ Len(file) \in Nat
  BY <1>2, <1>13, FilesAre
<1>16. PICK at : at = Before(Lengths(nodes, c))
  OBVIOUS
<1>17. /\ nodes # <<>>
       /\ Joined(nodes, c, file) /\ LevelOf(nodes, file, raw)
       /\ Joined(tree, c, SubSeq(file, 1, at[next])) /\ Bundles(tree, nodes, next)
  BY <1>2, <1>5, <1>6, <1>8, <1>13, <1>14, <1>16, Zenon DEF Building
<1>18. \A x \in bs : c[x] \in Seq(Nat)
  BY <1>1, Zenon DEF WellBuilt
<1>19. \A x \in old : c[x] \in Seq(Nat)
  BY <1>4, <1>18
<1>20. PICK links : links = SubSeq(nodes, next + 1, last)
  OBVIOUS
<1>21. PICK g : g = SubSeq(file, at[next] + 1, at[last])
  OBVIOUS
<1>22. /\ links \in Seq(old) /\ Len(links) = last - next
       /\ at[next] \in Nat /\ at[last] \in Nat /\ at[next] <= at[last] /\ at[last] <= at[len]
       /\ Joined(links, c, g)
  <2>1. LET f == Before(Lengths(nodes, c)) IN
        \A m, e \in Nat : m <= e /\ e <= Len(nodes) =>
          /\ SubSeq(nodes, m + 1, e) \in Seq(old)
          /\ Len(SubSeq(nodes, m + 1, e)) = e - m
          /\ f[m] \in Nat /\ f[e] \in Nat /\ f[m] <= f[e] /\ f[e] <= f[Len(nodes)]
          /\ \A x \in Seq(Nat) : Joined(nodes, c, x) =>
               Joined(SubSeq(nodes, m + 1, e), c, SubSeq(x, f[m] + 1, f[e]))
    BY <1>7, <1>19, JoinedTake
  <2>2. \A m, e \in Nat : m <= e /\ e <= Len(nodes) =>
          /\ SubSeq(nodes, m + 1, e) \in Seq(old)
          /\ Len(SubSeq(nodes, m + 1, e)) = e - m
          /\ at[m] \in Nat /\ at[e] \in Nat /\ at[m] <= at[e] /\ at[e] <= at[Len(nodes)]
          /\ \A x \in Seq(Nat) : Joined(nodes, c, x) =>
               Joined(SubSeq(nodes, m + 1, e), c, SubSeq(x, at[m] + 1, at[e]))
    BY <2>1, <1>16, Zenon
  <2>3. next \in Nat /\ last \in Nat /\ next <= last /\ last <= Len(nodes)
    BY <1>9, <1>12
  <2>4. /\ SubSeq(nodes, next + 1, last) \in Seq(old)
        /\ Len(SubSeq(nodes, next + 1, last)) = last - next
        /\ at[next] \in Nat /\ at[last] \in Nat /\ at[next] <= at[last] /\ at[last] <= at[Len(nodes)]
        /\ \A x \in Seq(Nat) : Joined(nodes, c, x) =>
             Joined(SubSeq(nodes, next + 1, last), c, SubSeq(x, at[next] + 1, at[last]))
    BY <2>2, <2>3, Zenon
  <2>5. Joined(SubSeq(nodes, next + 1, last), c, SubSeq(file, at[next] + 1, at[last]))
    BY <2>4, <1>15, <1>17, Zenon
  <2> QED
    BY <2>4, <2>5, <1>9, <1>20, <1>21, Zenon
<1>23. at[len] = Len(file)
  BY <1>9, <1>16, <1>17 DEF Joined
<1>24. PICK p \in Nat : p = at[next]
  BY <1>22, Zenon
<1>25. PICK q \in Nat : q = at[last]
  BY <1>22, Zenon
<1>26. p <= q /\ q <= Len(file)
  BY <1>22, <1>23, <1>24, <1>25
<1>27. /\ g \in Seq(Nat) /\ SubSeq(file, 1, p) \in Seq(Nat)
       /\ SubSeq(file, 1, p) \o g = SubSeq(file, 1, q)
  <2>1. g = SubSeq(file, p + 1, q)
    BY <1>21, <1>24, <1>25
  <2>2. file \in Seq(Nat)
    BY <1>15
  <2>3. \A m, e \in Nat : m <= e /\ e <= Len(file) =>
          /\ SubSeq(file, 1, m) \in Seq(Nat) /\ SubSeq(file, m + 1, e) \in Seq(Nat)
          /\ SubSeq(file, 1, m) \o SubSeq(file, m + 1, e) = SubSeq(file, 1, e)
    BY <2>2, FileParts
  <2>4. p \in Nat /\ q \in Nat /\ p <= q /\ q <= Len(file)
    BY <1>26
  <2>5. /\ SubSeq(file, 1, p) \in Seq(Nat) /\ SubSeq(file, p + 1, q) \in Seq(Nat)
        /\ SubSeq(file, 1, p) \o SubSeq(file, p + 1, q) = SubSeq(file, 1, q)
    BY <2>3, <2>4, Zenon
  <2> QED
    BY <2>1, <2>5, Zenon
<1>28. links # <<>>
  <2>1. Len(links) # 0
    BY <1>12, <1>22
  <2> QED
    BY <2>1
<1>29. links \in Seq(bs)
  BY <1>4, <1>22, SeqMonotonic
<1>30. node = Bundle(links)
  BY <1>1, <1>5, <1>8, <1>20
<1>31. Fits(node, bs, c, g)
  BY <1>1, <1>22, <1>28, <1>29, <1>30, BundleFits
<1>32. PICK d : WellBuilt(bs \cup {node}, d) /\ d[node] = g /\ \A x \in bs : d[x] = c[x]
  <2>1. WellBuilt(bs, c) /\ Fits(node, bs, c, g) /\ g \in Seq(Nat)
    BY <1>1, <1>27, <1>31
  <2>2. \E d : With(bs, c, node, g, d)
    BY <2>1, NewBlock
  <2> QED
    BY <2>2, Zenon DEF With
<1>33. PICK made : made = old \cup {node}
  OBVIOUS
<1>34. nodes \in Seq(made) /\ tree \in Seq(made) /\ node \in made
  <2>1. old \subseteq made
    BY <1>33
  <2> QED
    BY <2>1, <1>33, <1>7, SeqMonotonic
<1>35. \A x \in made : d[x] \in Seq(Nat)
  <2>1. \A x \in bs \cup {node} : d[x] \in Seq(Nat)
    BY <1>32, Zenon DEF WellBuilt
  <2> QED
    BY <2>1, <1>4, <1>33
<1>36. \A x \in old : d[x] = c[x]
  BY <1>4, <1>32
<1>37. Joined(nodes, d, file) /\ Joined(tree, d, SubSeq(file, 1, p)) /\ Lengths(nodes, d) = Lengths(nodes, c)
  <2>1. Joined(tree, c, SubSeq(file, 1, p))
    BY <1>17, <1>24
  <2>2. Joined(tree, d, SubSeq(file, 1, p))
    BY <2>1, <1>7, <1>36, JoinedSame
  <2>3. Joined(nodes, d, file)
    BY <1>7, <1>17, <1>36, JoinedSame
  <2>4. Lengths(nodes, d) = Lengths(nodes, c)
    BY <1>7, <1>36, LengthsSame
  <2> QED
    BY <2>2, <2>3, <2>4
<1>38. PICK more : more = Append(tree, node)
  OBVIOUS
<1>39. more \in Seq(made) /\ Len(tree) \in Nat
  BY <1>34, <1>38, Appended, LenProperties
<1>40. Joined(more, d, SubSeq(file, 1, q))
  <2>1. Joined(more, d, SubSeq(file, 1, p) \o d[node])
    BY <1>27, <1>34, <1>35, <1>37, <1>38, JoinedAppend
  <2> QED
    BY <2>1, <1>27, <1>32
<1>41. Bundles(more, nodes, last)
  <2>1. next < Len(nodes) /\ Len(nodes) \in Nat
    BY <1>9, <1>11
  <2>2. last = Smaller(next + LinksPerBlock, Len(nodes)) /\ node = Bundle(SubSeq(nodes, next + 1, last))
    BY <1>9, <1>10, <1>12, <1>20, <1>30
  <2> QED
    BY <2>1, <2>2, <1>17, <1>34, <1>38, BundlesMore
<1>42. n = [a EXCEPT !.tree = more, !.next = last, !.made = made]
  BY <1>1, <1>3, <1>6, <1>33, <1>38
<1>43. /\ n.pc = "tree" /\ n.file = file /\ n.options = a.options
       /\ n.read = a.read /\ n.length = a.length /\ n.nodes = nodes /\ n.tree = more
       /\ n.next = last /\ n.made = made
  BY <1>1, <1>4, <1>5, <1>13, <1>42 DEF AddRecord
<1>44. n = [ pc |-> n.pc, file |-> n.file, options |-> n.options, read |-> n.read,
             length |-> n.length, nodes |-> n.nodes, tree |-> n.tree, next |-> n.next,
             made |-> n.made ]
  BY <1>4, <1>42 DEF AddRecord
<1>45. n \in AddRecord(made)
  <2>1. n.pc \in {"idle", "chunk", "tree"}
    BY <1>43
  <2>2. n.file \in Seq(Nat) /\ n.options \in Options \cup {None}
    BY <1>2, <1>15, <1>43
  <2>3. n.read \in Nat /\ n.length \in Nat
    BY <1>4, <1>43 DEF AddRecord
  <2>4. n.nodes \in Seq(made) /\ n.tree \in Seq(made) /\ n.made \in {made} /\ n.next \in Nat
    BY <1>12, <1>34, <1>39, <1>43
  <2> QED
    BY <2>1, <2>2, <2>3, <2>4, <1>44 DEF AddRecord
<1>46. Closed(made)
  <2>1. node.links = links
    BY <1>30 DEF Bundle
  <2>2. \A i \in DOMAIN node.links : node.links[i] \in old
    BY <2>1, <1>22, LenProperties, ElementOfSeq
  <2> QED
    BY <2>2, <1>4, <1>33, ClosedMore
<1>47. Building(n, d)
  <2>1. n.nodes # <<>> /\ n.next <= Len(n.nodes)
    BY <1>9, <1>12, <1>17, <1>43
  <2>2. Joined(n.nodes, d, n.file) /\ LevelOf(n.nodes, n.file, n.options.raw)
    BY <1>14, <1>17, <1>37, <1>43
  <2>3. Joined(n.tree, d, SubSeq(n.file, 1, Before(Lengths(n.nodes, d))[n.next]))
    BY <1>16, <1>25, <1>37, <1>40, <1>43
  <2>4. Bundles(n.tree, n.nodes, n.next)
    BY <1>41, <1>43
  <2> QED
    BY <2>1, <2>2, <2>3, <2>4, Zenon DEF Building
<1>48. Adding(n, d)
  BY <1>2, <1>13, <1>43, <1>45, <1>46, <1>47 DEF Adding
<1> QED
  BY <1>3, <1>32, <1>33, <1>43, <1>48 DEF GoesOn

(* A level is bundled: the bundles are the next level.                     *)
LEMMA LevelDone ==
  ASSUME NEW a, NEW c, \A x \in a.made : c[x] \in Seq(Nat), NEW n
  PROVE  /\ Adding(a, c) /\ a.pc = "tree" /\ Len(a.nodes) > 1 /\ a.next = Len(a.nodes)
         /\ n = [a EXCEPT !.nodes = a.tree, !.tree = <<>>, !.next = 0]
         => Adding(n, c) /\ n.made = a.made
<1>1. SUFFICES ASSUME Adding(a, c), a.pc = "tree", Len(a.nodes) > 1, a.next = Len(a.nodes),
                      n = [a EXCEPT !.nodes = a.tree, !.tree = <<>>, !.next = 0]
               PROVE  Adding(n, c) /\ n.made = a.made
  OBVIOUS
<1>2. /\ a \in AddRecord(a.made) /\ Closed(a.made) /\ Building(a, c)
      /\ a.file \in Files /\ a.options \in Options
      /\ a.length <= ChunkSize /\ a.length <= a.read /\ a.read <= Len(a.file)
  BY <1>1 DEF Adding
<1>3. PICK made : made = a.made
  OBVIOUS
<1>4. a \in AddRecord(made)
  BY <1>2, <1>3
<1>5. <<>> \in Seq(made)
  BY EmptySeq
<1>6. PICK tree : tree = a.tree
  OBVIOUS
<1>7. PICK nodes : nodes = a.nodes
  OBVIOUS
<1>8. tree \in Seq(made) /\ nodes \in Seq(made)
  BY <1>4, <1>6, <1>7 DEF AddRecord
<1>9. n = [a EXCEPT !.nodes = tree, !.tree = <<>>, !.next = 0]
  BY <1>1, <1>6
<1>10. /\ n \in AddRecord(made) /\ n.pc = "tree" /\ n.file = a.file /\ n.options = a.options
       /\ n.read = a.read /\ n.length = a.length /\ n.nodes = tree /\ n.tree = <<>>
       /\ n.next = 0 /\ n.made = made
  <2>1. PICK none : none = <<>>
    OBVIOUS
  <2>2. PICK zero \in Nat : zero = 0
    OBVIOUS
  <2>3. n = [a EXCEPT !.nodes = tree, !.tree = none, !.next = zero]
    BY <2>1, <2>2, <1>9
  <2>4. /\ n.pc = a.pc /\ n.file = a.file /\ n.options = a.options
        /\ n.read = a.read /\ n.length = a.length /\ n.nodes = tree /\ n.tree = none
        /\ n.next = zero /\ n.made = a.made
    BY <2>3, <1>4 DEF AddRecord
  <2>5. n = [ pc |-> n.pc, file |-> n.file, options |-> n.options, read |-> n.read,
              length |-> n.length, nodes |-> n.nodes, tree |-> n.tree, next |-> n.next,
              made |-> n.made ]
    BY <2>3, <1>4 DEF AddRecord
  <2>6. /\ n.pc \in {"idle", "chunk", "tree"} /\ n.file \in Seq(Nat)
        /\ n.options \in Options \cup {None} /\ n.read \in Nat /\ n.length \in Nat
    BY <2>4, <1>4 DEF AddRecord
  <2>7. n.nodes \in Seq(made) /\ n.tree \in Seq(made) /\ n.next \in Nat /\ n.made \in {made}
    BY <2>1, <2>4, <1>3, <1>5, <1>8
  <2>8. n \in AddRecord(made)
    BY <2>5, <2>6, <2>7 DEF AddRecord
  <2> QED
    BY <2>1, <2>2, <2>4, <2>8, <1>1, <1>3
<1>11. PICK file : file = a.file
  OBVIOUS
<1>12. PICK raw : raw = a.options.raw
  OBVIOUS
<1>13. file \in Seq(Nat) /\ Len(file) \in Nat
  BY <1>2, <1>11, FilesAre
<1>14. PICK at : at = Before(Lengths(nodes, c))
  OBVIOUS
<1>15. /\ Joined(nodes, c, file) /\ LevelOf(nodes, file, raw)
       /\ Joined(tree, c, SubSeq(file, 1, at[Len(nodes)])) /\ Bundles(tree, nodes, Len(nodes))
  BY <1>1, <1>2, <1>6, <1>7, <1>11, <1>12, <1>14 DEF Building
<1>16. at[Len(nodes)] = Len(file)
  BY <1>14, <1>15 DEF Joined
<1>17. Joined(tree, c, file)
  BY <1>13, <1>15, <1>16, FileParts
<1>18. Len(tree) \in Nat \ {0}
  <2>1. PICK k \in Nat : k = Len(tree)
    BY <1>8, LenProperties, Zenon
  <2>2. PICK cut : IsCut(cut, k, Len(nodes), LinksPerBlock, Len(nodes))
    BY <2>1, <1>15, Zenon DEF Bundles
  <2>3. cut[0] = 0 /\ cut[k] = Len(nodes)
    BY <2>2 DEF IsCut
  <2>4. Len(nodes) > 1 /\ Len(nodes) \in Nat
    BY <1>1, <1>7, <1>8, LenProperties
  <2>5. k # 0
    BY <2>3, <2>4
  <2> QED
    BY <2>1, <2>5
<1>19. tree # <<>>
  BY <1>18
<1>20. LevelOf(tree, file, raw)
  <2>1. NextLevel(tree, nodes)
    BY <1>1, <1>7, <1>15, <1>18 DEF NextLevel
  <2> QED
    BY <2>1, <1>15, HigherLevel
<1>21. Building(n, c)
  <2>1. n.nodes = tree /\ n.tree = <<>> /\ n.next = 0 /\ n.file = file /\ n.options.raw = raw
    BY <1>10, <1>11, <1>12
  <2>2. \A x \in made : c[x] \in Seq(Nat)
    BY <1>3
  <2>3. file \in Seq(Nat)
    BY <1>13
  <2> QED
    BY <2>1, <2>2, <2>3, <1>8, <1>17, <1>19, <1>20, LevelBegins
<1> QED
  BY <1>2, <1>3, <1>10, <1>21 DEF Adding

Stored(a, c) ==
  /\ a = [file |-> a.file, options |-> a.options, root |-> a.root, made |-> a.made]
  /\ a.file \in Files /\ a.options \in Options /\ a.root \in a.made /\ Closed(a.made)
  /\ c[a.root] = a.file /\ LevelOf(<<a.root>>, a.file, a.options.raw)

(* A single node holds its content.                                        *)
LEMMA JoinedOne ==
  ASSUME NEW S, NEW c, \A b \in S : c[b] \in Seq(Nat), NEW b \in S
  PROVE  Joined(<<b>>, c, c[b])
<1>1. <<b>> \in Seq(S) /\ Len(<<b>>) = 1 /\ <<b>>[1] = b
  <2>1. <<b>> \in Seq(S)
    BY SeqDef
  <2> QED
    BY <2>1
<1>2. PICK x : x = <<b>>
  OBVIOUS
<1>3. x \in Seq(S) /\ Len(x) = 1 /\ x[1] = b
  BY <1>1, <1>2
<1>4. PICK l : l = Lengths(x, c)
  OBVIOUS
<1>5. l \in Seq(Nat) /\ Len(l) = 1 /\ \A i \in 1 .. 1 : l[i] = Len(c[x[i]])
  BY <1>3, <1>4, LengthsType
<1>6. PICK at : at = Before(l)
  OBVIOUS
<1>7. at[0] = 0 /\ \A i \in 1 .. 1 : at[i] = at[i - 1] + l[i]
  BY <1>5, <1>6, BeforeDef
<1>8. 1 \in 1 .. 1 /\ 1 - 1 = 0 /\ \A i \in 1 .. 1 : i = 1
  OBVIOUS
<1>9. PICK f : f = c[b]
  OBVIOUS
<1>10. f \in Seq(Nat) /\ Len(f) \in Nat
  BY <1>9, LenProperties
<1>11. PICK n \in Nat : n = Len(f)
  BY <1>10, Zenon
<1>12. l[1] = n
  BY <1>3, <1>5, <1>8, <1>9, <1>11
<1>13. at[1] = 0 + n
  BY <1>7, <1>8, <1>12
<1>14. at[1] = Len(f)
  BY <1>11, <1>13
<1>15. \A q \in 1 .. Len(f) : f[at[1 - 1] + q] = f[q]
  BY <1>7, <1>8
<1>16. Joined(x, c, f)
  <2>1. at = Before(Lengths(x, c))
    BY <1>4, <1>6
  <2>2. Len(f) = at[Len(x)]
    BY <1>3, <1>14
  <2>3. \A i \in 1 .. Len(x) : \A q \in 1 .. Len(c[x[i]]) : f[at[i - 1] + q] = c[x[i]][q]
    BY <1>3, <1>8, <1>9, <1>15
  <2> QED
    BY <2>1, <2>2, <2>3 DEF Joined
<1> QED
  BY <1>2, <1>9, <1>16

(* A sequence of one.                                                      *)
LEMMA OneIs ==
  ASSUME NEW S, NEW x \in Seq(S)
  PROVE  Len(x) = 1 => x[1] \in S /\ x = <<x[1]>>
<1>1. SUFFICES ASSUME Len(x) = 1 PROVE x[1] \in S /\ x = <<x[1]>>
  OBVIOUS
<1>2. 1 \in 1 .. Len(x)
  BY <1>1
<1>3. x[1] \in S
  BY <1>2, ElementOfSeq
<1>4. PICK b \in S : b = x[1]
  BY <1>3, Zenon
<1>5. <<b>> \in Seq(S)
  BY SeqDef
<1>6. Len(<<b>>) = 1 /\ <<b>>[1] = b
  OBVIOUS
<1>7. \A i \in 1 .. Len(x) : x[i] = <<b>>[i]
  BY <1>1, <1>4
<1>8. x = <<b>>
  BY <1>1, <1>5, <1>6, <1>7, SeqEqual
<1> QED
  BY <1>3, <1>4, <1>8

(* A call returns the root of the whole file.                              *)
LEMMA Returned ==
  ASSUME NEW bs, NEW c, NEW a, NEW n
  PROVE  /\ WellBuilt(bs, c) /\ a.made \subseteq bs /\ Adding(a, c) /\ a.pc = "tree" /\ Len(a.nodes) = 1
         /\ n = [ file |-> a.file, options |-> a.options, root |-> a.nodes[1], made |-> a.made ]
         => Stored(n, c) /\ n.made = a.made
<1>1. SUFFICES
        ASSUME WellBuilt(bs, c), a.made \subseteq bs, Adding(a, c), a.pc = "tree", Len(a.nodes) = 1,
               n = [ file |-> a.file, options |-> a.options, root |-> a.nodes[1], made |-> a.made ]
        PROVE  Stored(n, c) /\ n.made = a.made
  OBVIOUS
<1>2. /\ a \in AddRecord(a.made) /\ Closed(a.made) /\ Building(a, c)
      /\ a.file \in Files /\ a.options \in Options
  BY <1>1 DEF Adding
<1>3. PICK made : made = a.made
  OBVIOUS
<1>4. PICK nodes : nodes = a.nodes
  OBVIOUS
<1>5. nodes \in Seq(made) /\ Len(nodes) = 1
  BY <1>1, <1>2, <1>3, <1>4 DEF AddRecord
<1>6. PICK root \in made : root = nodes[1] /\ nodes = <<root>>
  BY <1>5, OneIs, Zenon
<1>7. PICK file : file = a.file
  OBVIOUS
<1>8. file \in Seq(Nat)
  BY <1>2, <1>7, FilesAre
<1>9. \A x \in made : c[x] \in Seq(Nat)
  <2>1. \A x \in bs : c[x] \in Seq(Nat)
    BY <1>1, Zenon DEF WellBuilt
  <2> QED
    BY <2>1, <1>1, <1>3
<1>10. Joined(nodes, c, file) /\ LevelOf(nodes, file, a.options.raw)
  BY <1>2, <1>4, <1>7, Zenon DEF Building
<1>11. Joined(nodes, c, c[root])
  BY <1>6, <1>9, JoinedOne
<1>12. c[root] = file
  <2>1. c[root] \in Seq(Nat)
    BY <1>9
  <2> QED
    BY <2>1, <1>5, <1>8, <1>9, <1>10, <1>11, JoinedUnique
<1>13. n = [ file |-> file, options |-> a.options, root |-> root, made |-> made ]
  BY <1>1, <1>3, <1>4, <1>6, <1>7
<1>14. n.file = file /\ n.options = a.options /\ n.root = root /\ n.made = made
  BY <1>13
<1>15. n = [ file |-> n.file, options |-> n.options, root |-> n.root, made |-> n.made ]
  BY <1>13, <1>14
<1>16. LevelOf(<<n.root>>, n.file, n.options.raw)
  BY <1>6, <1>10, <1>14
<1>17. n.file \in Files /\ n.options \in Options /\ n.root \in n.made /\ Closed(n.made)
  BY <1>2, <1>3, <1>7, <1>14
<1> QED
  BY <1>3, <1>12, <1>14, <1>15, <1>16, <1>17 DEF Stored

(* What was added stays so when contents are extended.                     *)
LEMMA StoredMore ==
  ASSUME NEW a, NEW bs, a.made \subseteq bs, NEW c, NEW d, \A x \in bs : d[x] = c[x]
  PROVE  Stored(a, c) => Stored(a, d)
BY DEF Stored

-----------------------------------------------------------------------------
(* The invariant.                                                          *)

Made == AddedBlocks \cup UNION {adds[w].made : w \in Writers}

Calls ==
  /\ adds = [w \in Writers |-> adds[w]]
  /\ reads = [r \in Readers |-> reads[r]]

(* c is the content of every block there is.                               *)
Content(c) ==
  /\ WellBuilt(Made, c)
  /\ \A w \in Writers : Adding(adds[w], c)
  /\ \A a \in added : Stored(a, c)
  /\ \A r \in Readers : Reading(reads[r], AddedBlocks, c)

Keeps(o, made) == o.pin /\ ~o.onlyHash => made \subseteq pins \cup unpinned

PinsKept ==
  /\ pins \subseteq blocks
  /\ \A a \in added : Keeps(a.options, a.made)
  /\ \A w \in Writers : adds[w].pc # "idle" => Keeps(adds[w].options, adds[w].made)

IInv == Calls /\ PinsKept /\ \E c : Content(c)

(* Whole trees together lead nowhere else.                                 *)
LEMMA ClosedUnion ==
  ASSUME NEW F, \A m \in F : Closed(m)
  PROVE  Closed(UNION F)
BY DEF Closed

(* No block leads to one that nobody made.                                 *)
LEMMA AllClosed ==
  ASSUME NEW c, Content(c)
  PROVE  Closed(AddedBlocks) /\ Closed(Made)
<1>1. \A w \in Writers : Closed(adds[w].made)
  BY DEF Content, Adding
<1>2. \A a \in added : Closed(a.made)
  BY DEF Content, Stored
<1>3. PICK F : F = {a.made : a \in added}
  OBVIOUS
<1>4. PICK G : G = {adds[w].made : w \in Writers}
  OBVIOUS
<1>5. AddedBlocks = UNION F /\ Made = UNION (F \cup G)
  BY <1>3, <1>4 DEF AddedBlocks, Made
<1>6. \A m \in F : Closed(m)
  BY <1>2, <1>3
<1>7. \A m \in F \cup G : Closed(m)
  BY <1>1, <1>4, <1>6
<1>8. Closed(UNION F)
  BY <1>6, ClosedUnion
<1>9. Closed(UNION (F \cup G))
  BY <1>7, ClosedUnion
<1> QED
  BY <1>5, <1>8, <1>9

(* One entry of a function changes.                                        *)
LEMMA Changed ==
  ASSUME NEW S, NEW f, f = [x \in S |-> f[x]], NEW w \in S, NEW n, NEW g, g = [f EXCEPT ![w] = n]
  PROVE  /\ g = [x \in S |-> g[x]] /\ g[w] = n
         /\ \A x \in S : x # w => g[x] = f[x]
OBVIOUS

(* What was added stays.                                                   *)
LEMMA AddedSame == added' = added => AddedBlocks' = AddedBlocks
BY DEF AddedBlocks

(* A call goes on, maybe with one more block.                              *)
LEMMA AddStep ==
  ASSUME NEW c, NEW d, NEW w \in Writers, NEW n, NEW more
  PROVE  /\ Calls /\ Content(c)
         /\ adds' = [adds EXCEPT ![w] = n] /\ added' = added /\ reads' = reads
         /\ n.made = adds[w].made \cup more
         /\ WellBuilt(Made \cup more, d) /\ (\A x \in Made : d[x] = c[x]) /\ Adding(n, d)
         => Calls' /\ Content(d)'
<1>1. SUFFICES
        ASSUME Calls, Content(c), adds' = [adds EXCEPT ![w] = n], added' = added, reads' = reads,
               n.made = adds[w].made \cup more,
               WellBuilt(Made \cup more, d), \A x \in Made : d[x] = c[x], Adding(n, d)
        PROVE  Calls' /\ Content(d)'
  OBVIOUS
<1>2. adds = [v \in Writers |-> adds[v]] /\ reads = [r \in Readers |-> reads[r]]
  BY <1>1 DEF Calls
<1>3. /\ adds' = [v \in Writers |-> adds'[v]] /\ adds'[w] = n
      /\ \A v \in Writers : v # w => adds'[v] = adds[v]
  BY <1>1, <1>2, Changed
<1>4. Calls'
  BY <1>1, <1>2, <1>3 DEF Calls
<1>5. AddedBlocks' = AddedBlocks
  BY <1>1, AddedSame
<1>6. Made' = Made \cup more
  <2>1. UNION {adds'[v].made : v \in Writers} = (UNION {adds[v].made : v \in Writers}) \cup more
    <3>1. PICK old : old = UNION {adds[v].made : v \in Writers}
      OBVIOUS
    <3>2. PICK new : new = UNION {adds'[v].made : v \in Writers}
      OBVIOUS
    <3>3. \A x : x \in old <=> \E v \in Writers : x \in adds[v].made
      BY <3>1
    <3>4. \A x : x \in new <=> \E v \in Writers : x \in adds'[v].made
      BY <3>2
    <3>5. adds'[w].made = adds[w].made \cup more
      BY <1>1, <1>3
    <3>6. ASSUME NEW x PROVE x \in new <=> x \in old \cup more
      <4>1. x \in adds'[w].made <=> x \in adds[w].made \/ x \in more
        BY <3>5
      <4>2. \A v \in Writers : v # w => adds'[v].made = adds[v].made
        BY <1>3
      <4>3. x \in old \cup more <=> x \in old \/ x \in more
        OBVIOUS
      <4> QED
        BY <3>3, <3>4, <4>1, <4>2, <4>3, Zenon
    <3>7. new = old \cup more
      BY <3>6
    <3> QED
      BY <3>1, <3>2, <3>7, Zenon
  <2>2. PICK old : old = UNION {adds[v].made : v \in Writers}
    OBVIOUS
  <2>3. PICK new : new = UNION {adds'[v].made : v \in Writers}
    OBVIOUS
  <2>4. Made = AddedBlocks \cup old
    BY <2>2 DEF Made
  <2>5. Made' = AddedBlocks' \cup new
    BY <2>3 DEF Made
  <2>6. new = old \cup more
    BY <2>1, <2>2, <2>3, Zenon
  <2> QED
    BY <2>4, <2>5, <2>6, <1>5
<1>7. AddedBlocks \subseteq Made /\ \A v \in Writers : adds[v].made \subseteq Made
  BY DEF Made
<1>8. WellBuilt(Made', d)
  BY <1>1, <1>6
<1>9. ASSUME NEW v \in Writers PROVE Adding(adds'[v], d)
  <2>1. CASE v = w
    BY <2>1, <1>1, <1>3
  <2>2. CASE v # w
    <3>1. Adding(adds[v], c)
      BY <1>1, Zenon DEF Content
    <3>2. PICK a : a = adds[v]
      OBVIOUS
    <3>3. a.made \subseteq Made /\ Adding(a, c)
      BY <3>1, <3>2, <1>7
    <3>4. \A x \in a.made : d[x] = c[x]
      BY <3>3, <1>1
    <3>5. Adding(a, d)
      BY <3>3, <3>4, AddingMore
    <3> QED
      BY <2>2, <3>2, <3>5, <1>3
  <2> QED
    BY <2>1, <2>2
<1>10. ASSUME NEW a \in added PROVE Stored(a, d)
  <2>1. Stored(a, c)
    BY <1>1, Zenon DEF Content
  <2>2. a.made \subseteq AddedBlocks
    BY DEF AddedBlocks
  <2>3. \A x \in a.made : d[x] = c[x]
    BY <2>2, <1>1, <1>7
  <2> QED
    BY <2>1, <2>3, StoredMore
<1>11. ASSUME NEW r \in Readers PROVE Reading(reads[r], AddedBlocks, d)
  <2>1. PICK bs : bs = AddedBlocks
    OBVIOUS
  <2>2. PICK s : s = reads[r]
    OBVIOUS
  <2>3. Reading(s, bs, c)
    BY <2>1, <2>2, <1>1, Zenon DEF Content
  <2>4. \A x \in bs : d[x] = c[x]
    BY <2>1, <1>1, <1>7
  <2>5. Reading(s, bs, d)
    BY <2>3, <2>4, ReadingMore
  <2> QED
    BY <2>1, <2>2, <2>5
<1>12. \A a \in added' : Stored(a, d)
  BY <1>1, <1>10
<1>13. \A r \in Readers : Reading(reads'[r], AddedBlocks', d)
  BY <1>1, <1>5, <1>11
<1>14. \A v \in Writers : Adding(adds'[v], d)
  BY <1>9
<1> QED
  BY <1>4, <1>8, <1>12, <1>13, <1>14, Zenon DEF Content

(* A call is over, and its file may have been added.                       *)
LEMMA AddOver ==
  ASSUME NEW c, NEW w \in Writers, NEW more
  PROVE  /\ Calls /\ Content(c)
         /\ adds' = [adds EXCEPT ![w] = NoAdd] /\ added' = added \cup more /\ reads' = reads
         /\ \A a \in more : Stored(a, c) /\ a.made = adds[w].made
         => Calls' /\ Content(c)'
<1>1. SUFFICES
        ASSUME Calls, Content(c), adds' = [adds EXCEPT ![w] = NoAdd], added' = added \cup more,
               reads' = reads, \A a \in more : Stored(a, c) /\ a.made = adds[w].made
        PROVE  Calls' /\ Content(c)'
  OBVIOUS
<1>2. adds = [v \in Writers |-> adds[v]] /\ reads = [r \in Readers |-> reads[r]]
  BY <1>1 DEF Calls
<1>3. /\ adds' = [v \in Writers |-> adds'[v]] /\ adds'[w] = NoAdd
      /\ \A v \in Writers : v # w => adds'[v] = adds[v]
  <2>1. PICK n : n = NoAdd
    OBVIOUS
  <2>2. adds' = [adds EXCEPT ![w] = n]
    BY <2>1, <1>1
  <2>3. /\ adds' = [v \in Writers |-> adds'[v]] /\ adds'[w] = n
        /\ \A v \in Writers : v # w => adds'[v] = adds[v]
    BY <2>2, <1>2, Changed
  <2> QED
    BY <2>1, <2>3
<1>4. Calls'
  BY <1>1, <1>2, <1>3 DEF Calls
<1>5. Adding(NoAdd, c) /\ NoAdd.made = {}
  BY AddingNothing
<1>6. ASSUME NEW v \in Writers PROVE Adding(adds'[v], c) /\ adds'[v].made \subseteq adds[v].made
  <2>1. CASE v = w
    BY <2>1, <1>3, <1>5
  <2>2. CASE v # w
    <3>1. Adding(adds[v], c)
      BY <1>1, Zenon DEF Content
    <3> QED
      BY <2>2, <3>1, <1>3
  <2> QED
    BY <2>1, <2>2
<1>7. \A a \in added' : Stored(a, c)
  <2>1. \A a \in added : Stored(a, c)
    BY <1>1, Zenon DEF Content
  <2> QED
    BY <2>1, <1>1
<1>8. AddedBlocks \subseteq AddedBlocks' /\ AddedBlocks' \subseteq Made
  <2>1. AddedBlocks \subseteq AddedBlocks'
    BY <1>1 DEF AddedBlocks
  <2>2. \A a \in added' : a.made \subseteq Made
    BY <1>1 DEF Made, AddedBlocks
  <2> QED
    BY <2>1, <2>2 DEF AddedBlocks
<1>9. Made' \subseteq Made
  <2>1. \A v \in Writers : adds'[v].made \subseteq Made
    BY <1>6 DEF Made
  <2> QED
    BY <2>1, <1>8 DEF Made
<1>10. Closed(Made')
  <2>1. PICK F : F = {a.made : a \in added'}
    OBVIOUS
  <2>2. PICK G : G = {adds'[v].made : v \in Writers}
    OBVIOUS
  <2>3. \A m \in F : Closed(m)
    BY <2>1, <1>7 DEF Stored
  <2>4. \A m \in G : Closed(m)
    BY <2>2, <1>6 DEF Adding
  <2>5. Closed(UNION (F \cup G))
    BY <2>3, <2>4, ClosedUnion
  <2>6. Made' = UNION (F \cup G)
    BY <2>1, <2>2 DEF Made, AddedBlocks
  <2> QED
    BY <2>5, <2>6
<1>11. WellBuilt(Made', c)
  <2>1. PICK bs : bs = Made
    OBVIOUS
  <2>2. PICK fewer : fewer = Made'
    OBVIOUS
  <2>3. WellBuilt(bs, c)
    BY <2>1, <1>1, Zenon DEF Content
  <2>4. fewer \subseteq bs /\ Closed(fewer)
    BY <2>1, <2>2, <1>9, <1>10
  <2>5. WellBuilt(fewer, c)
    BY <2>3, <2>4, WellBuiltFewer
  <2> QED
    BY <2>2, <2>5
<1>12. ASSUME NEW r \in Readers PROVE Reading(reads'[r], AddedBlocks', c)
  <2>1. PICK bs : bs = AddedBlocks
    OBVIOUS
  <2>2. PICK bigger : bigger = AddedBlocks'
    OBVIOUS
  <2>3. PICK s : s = reads[r]
    OBVIOUS
  <2>4. Reading(s, bs, c)
    BY <2>1, <2>3, <1>1, Zenon DEF Content
  <2>5. bs \subseteq bigger
    BY <2>1, <2>2, <1>8
  <2>6. Reading(s, bigger, c)
    BY <2>4, <2>5, ReadingMore
  <2> QED
    BY <2>2, <2>3, <2>6, <1>1
<1>13. \A v \in Writers : Adding(adds'[v], c)
  BY <1>6
<1>14. \A r \in Readers : Reading(reads'[r], AddedBlocks', c)
  BY <1>12
<1> QED
  BY <1>4, <1>7, <1>11, <1>13, <1>14, Zenon DEF Content

(* A stream goes on.                                                       *)
LEMMA ReadStep ==
  ASSUME NEW c, NEW r \in Readers, NEW z
  PROVE  /\ Calls /\ Content(c)
         /\ reads' = [reads EXCEPT ![r] = z] /\ adds' = adds /\ added' = added
         /\ Reading(z, AddedBlocks, c)
         => Calls' /\ Content(c)'
<1>1. SUFFICES ASSUME Calls, Content(c), reads' = [reads EXCEPT ![r] = z], adds' = adds,
                      added' = added, Reading(z, AddedBlocks, c)
               PROVE  Calls' /\ Content(c)'
  OBVIOUS
<1>2. adds = [v \in Writers |-> adds[v]] /\ reads = [x \in Readers |-> reads[x]]
  BY <1>1 DEF Calls
<1>3. /\ reads' = [x \in Readers |-> reads'[x]] /\ reads'[r] = z
      /\ \A x \in Readers : x # r => reads'[x] = reads[x]
  BY <1>1, <1>2, Changed
<1>4. Calls'
  BY <1>1, <1>2, <1>3 DEF Calls
<1>5. AddedBlocks' = AddedBlocks /\ Made' = Made
  BY <1>1 DEF AddedBlocks, Made
<1>6. \A x \in Readers : Reading(reads[x], AddedBlocks, c)
  BY <1>1, Zenon DEF Content
<1>7. \A x \in Readers : Reading(reads'[x], AddedBlocks', c)
  BY <1>1, <1>3, <1>5, <1>6, Zenon
<1>8. /\ WellBuilt(Made', c) /\ (\A v \in Writers : Adding(adds'[v], c))
      /\ \A a \in added' : Stored(a, c)
  BY <1>1, <1>5, Zenon DEF Content
<1> QED
  BY <1>4, <1>7, <1>8, Zenon DEF Content

(* Pins: a block that is put stays pinned or is known to have been put     *)
(* without a pin.                                                          *)
LEMMA KeepsOn ==
  ASSUME NEW o, NEW made
  PROVE  Keeps(o, made) /\ pins \cup unpinned \subseteq pins' \cup unpinned' => Keeps(o, made)'
BY DEF Keeps

(* A call changes its own record, and may be added; pins go only to what   *)
(* has been put without one.                                               *)
LEMMA PinsOn ==
  ASSUME NEW w \in Writers, NEW n, NEW more
  PROVE  /\ Calls /\ PinsKept /\ adds' = [adds EXCEPT ![w] = n] /\ added' = added \cup more
         /\ pins' \subseteq blocks' /\ pins \cup unpinned \subseteq pins' \cup unpinned'
         /\ \A a \in more : adds[w].pc # "idle" /\ a.options = adds[w].options /\ a.made = adds[w].made
         /\ n.pc # "idle" => Keeps(n.options, n.made)'
         => PinsKept'
<1>1. SUFFICES
        ASSUME Calls, PinsKept, adds' = [adds EXCEPT ![w] = n], added' = added \cup more,
               pins' \subseteq blocks', pins \cup unpinned \subseteq pins' \cup unpinned',
               \A a \in more : adds[w].pc # "idle" /\ a.options = adds[w].options /\ a.made = adds[w].made,
               n.pc # "idle" => Keeps(n.options, n.made)'
        PROVE  PinsKept'
  OBVIOUS
<1>2. adds = [v \in Writers |-> adds[v]]
  BY <1>1 DEF Calls
<1>3. /\ adds' = [v \in Writers |-> adds'[v]] /\ adds'[w] = n
      /\ \A v \in Writers : v # w => adds'[v] = adds[v]
  BY <1>1, <1>2, Changed
<1>4. /\ \A a \in added : Keeps(a.options, a.made)
      /\ \A v \in Writers : adds[v].pc # "idle" => Keeps(adds[v].options, adds[v].made)
  BY <1>1, Zenon DEF PinsKept
<1>5. \A o, made : Keeps(o, made) => Keeps(o, made)'
  BY <1>1, KeepsOn
<1>6. ASSUME NEW a \in added' PROVE Keeps(a.options, a.made)'
  <2>1. Keeps(a.options, a.made)
    <3>1. CASE a \in added
      BY <3>1, <1>4
    <3>2. CASE a \in more
      <4>1. Keeps(adds[w].options, adds[w].made)
        BY <3>2, <1>1, <1>4
      <4>2. a.options = adds[w].options /\ a.made = adds[w].made
        BY <3>2, <1>1
      <4> QED
        BY <4>1, <4>2
    <3> QED
      BY <3>1, <3>2, <1>1
  <2>2. PICK o : o = a.options
    OBVIOUS
  <2>3. PICK made : made = a.made
    OBVIOUS
  <2>4. Keeps(o, made)'
    BY <2>1, <2>2, <2>3, <1>5
  <2> QED
    BY <2>2, <2>3, <2>4
<1>7. ASSUME NEW v \in Writers, adds'[v].pc # "idle"
      PROVE  Keeps(adds[v].options, adds[v].made)'
  <2>1. PICK o : o = adds'[v].options
    OBVIOUS
  <2>2. PICK made : made = adds'[v].made
    OBVIOUS
  <2>3. CASE v = w
    BY <2>3, <1>1, <1>3, <1>7 DEF Keeps
  <2>4. CASE v # w
    <3>1. adds'[v] = adds[v]
      BY <2>4, <1>3
    <3>2. Keeps(o, made)
      BY <3>1, <2>1, <2>2, <1>4, <1>7
    <3>3. Keeps(o, made)'
      BY <3>2, <1>5
    <3> QED
      BY <3>3, <2>1, <2>2 DEF Keeps
  <2> QED
    BY <2>3, <2>4
<1> QED
  BY <1>1, <1>6, <1>7 DEF PinsKept, Keeps

(* Nothing is stored.                                                      *)
LEMMA StorePins ==
  ASSUME NEW w \in Writers, NEW n
  PROVE  /\ Calls /\ PinsKept /\ adds' = [adds EXCEPT ![w] = n] /\ added' = added /\ StoreUnchanged
         /\ \/ n.made = {} \/ n.pc = "idle"
            \/ adds[w].pc # "idle" /\ n.options = adds[w].options /\ n.made = adds[w].made
         => PinsKept'
<1>1. SUFFICES
        ASSUME Calls, PinsKept, adds' = [adds EXCEPT ![w] = n], added' = added, StoreUnchanged,
               \/ n.made = {} \/ n.pc = "idle"
               \/ adds[w].pc # "idle" /\ n.options = adds[w].options /\ n.made = adds[w].made
        PROVE  PinsKept'
  OBVIOUS
<1>2. blocks' = blocks /\ pins' = pins /\ unpinned' = unpinned
  BY <1>1 DEF StoreUnchanged
<1>3. pins' \subseteq blocks' /\ pins \cup unpinned \subseteq pins' \cup unpinned'
  BY <1>1, <1>2 DEF PinsKept
<1>4. n.pc # "idle" => Keeps(n.options, n.made)'
  <2>1. adds[w].pc # "idle" => Keeps(adds[w].options, adds[w].made)
    BY <1>1, Zenon DEF PinsKept
  <2>2. PICK a : a = adds[w]
    OBVIOUS
  <2>3. a.pc # "idle" => Keeps(a.options, a.made)
    BY <2>1, <2>2
  <2>4. n.made = {} \/ n.pc = "idle" \/ (a.pc # "idle" /\ n.options = a.options /\ n.made = a.made)
    BY <1>1, <2>2
  <2>5. n.pc # "idle" => Keeps(n.options, n.made)
    BY <2>3, <2>4 DEF Keeps
  <2> QED
    BY <2>5, <1>2 DEF Keeps
<1>5. PICK more : more = {}
  OBVIOUS
<1>6. added' = added \cup more
  BY <1>1, <1>5
<1>7. \A a \in more : adds[w].pc # "idle" /\ a.options = adds[w].options /\ a.made = adds[w].made
  BY <1>5
<1> QED
  BY <1>1, <1>3, <1>4, <1>6, <1>7, PinsOn, Zenon

(* A block is put: its call has it pinned, or did not ask for that.        *)
LEMMA PutPins ==
  ASSUME NEW w \in Writers, NEW n, NEW b, NEW o
  PROVE  /\ Calls /\ PinsKept /\ adds' = [adds EXCEPT ![w] = n] /\ added' = added /\ Put(b, o)
         /\ adds[w].pc # "idle" /\ o = adds[w].options /\ n.options = o /\ n.made = adds[w].made \cup {b}
         => PinsKept'
<1>1. SUFFICES
        ASSUME Calls, PinsKept, adds' = [adds EXCEPT ![w] = n], added' = added, Put(b, o),
               adds[w].pc # "idle", o = adds[w].options, n.options = o, n.made = adds[w].made \cup {b}
        PROVE  PinsKept'
  OBVIOUS
<1>2. PICK made : made = adds[w].made
  OBVIOUS
<1>3. Keeps(o, made)
  BY <1>1, <1>2, Zenon DEF PinsKept
<1>4. pins \subseteq blocks
  BY <1>1 DEF PinsKept
<1>5. /\ pins' \subseteq blocks' /\ pins \cup unpinned \subseteq pins' \cup unpinned'
      /\ o.pin /\ ~o.onlyHash => b \in pins'
  <2>1. CASE o.onlyHash
    BY <2>1, <1>1, <1>4 DEF Put, StoreUnchanged
  <2>2. CASE ~o.onlyHash
    <3>1. blocks' = blocks \cup {b} /\ pins' = Pinned(b, o)
          /\ unpinned' = IF o.pin THEN unpinned ELSE unpinned \cup {b}
      BY <2>2, <1>1 DEF Put
    <3>2. CASE o.pin
      BY <3>1, <3>2, <1>4 DEF Pinned
    <3>3. CASE ~o.pin
      BY <3>1, <3>3, <1>4 DEF Pinned
    <3> QED
      BY <3>2, <3>3
  <2> QED
    BY <2>1, <2>2
<1>6. Keeps(n.options, n.made)'
  BY <1>1, <1>2, <1>3, <1>5 DEF Keeps
<1>7. PICK more : more = {}
  OBVIOUS
<1>8. added' = added \cup more
  BY <1>1, <1>7
<1>9. \A a \in more : adds[w].pc # "idle" /\ a.options = adds[w].options /\ a.made = adds[w].made
  BY <1>7
<1> QED
  BY <1>1, <1>5, <1>6, <1>8, <1>9, PinsOn, Zenon

(* Readers do not touch pins, and the collector keeps what is pinned.      *)
LEMMA OtherPins ==
  /\ PinsKept /\ adds' = adds /\ added' = added /\ pins' = pins /\ unpinned' = unpinned
  /\ blocks' = blocks \/ blocks' = blocks \cap pins
  => PinsKept'
<1>1. SUFFICES ASSUME PinsKept, adds' = adds, added' = added, pins' = pins, unpinned' = unpinned,
                      blocks' = blocks \/ blocks' = blocks \cap pins
               PROVE  PinsKept'
  OBVIOUS
<1>2. pins' \subseteq blocks'
  BY <1>1 DEF PinsKept
<1>3. \A a \in added' : Keeps(a.options, a.made)'
  BY <1>1 DEF PinsKept, Keeps
<1>4. \A v \in Writers : adds'[v].pc # "idle" => Keeps(adds[v].options, adds[v].made)'
  BY <1>1 DEF PinsKept, Keeps
<1> QED
  BY <1>2, <1>3, <1>4 DEF PinsKept, Keeps

(* What is known of a call that is under way.                              *)
LEMMA CallIs ==
  ASSUME NEW c, NEW w \in Writers, NEW a, a = adds[w]
  PROVE  Content(c) =>
           /\ WellBuilt(Made, c) /\ a.made \subseteq Made /\ Adding(a, c)
           /\ a \in AddRecord(a.made) /\ \A x \in a.made : c[x] \in Seq(Nat)
<1>1. SUFFICES ASSUME Content(c)
      PROVE  /\ WellBuilt(Made, c) /\ a.made \subseteq Made /\ Adding(a, c)
             /\ a \in AddRecord(a.made) /\ \A x \in a.made : c[x] \in Seq(Nat)
  OBVIOUS
<1>2. WellBuilt(Made, c) /\ Adding(a, c)
  BY <1>1, Zenon DEF Content
<1>3. a.made \subseteq Made
  BY DEF Made
<1>4. a \in AddRecord(a.made)
  BY <1>2, Zenon DEF Adding
<1>5. \A x \in Made : c[x] \in Seq(Nat)
  BY <1>2, Zenon DEF WellBuilt
<1> QED
  BY <1>2, <1>3, <1>4, <1>5

-----------------------------------------------------------------------------
(* Writers step by step.                                                   *)

(* Every step of Next keeps the invariant. A call begins:                  *)
LEMMA AddDoes ==
  ASSUME NEW w \in Writers
  PROVE  IInv /\ Add(w) => IInv'
<1>1. SUFFICES ASSUME IInv, Add(w) PROVE IInv'
  OBVIOUS
<1>2. PICK c : Content(c)
  BY <1>1, Zenon DEF IInv
<1>3. Calls /\ PinsKept
  BY <1>1, Zenon DEF IInv
<1>4. PICK f \in Files, o \in Options :
        adds' = [adds EXCEPT ![w] = [NoAdd EXCEPT !.pc = "chunk", !.file = f, !.options = o]]
  BY <1>1, Zenon DEF Add
<1>5. /\ adds[w].pc = "idle" /\ added' = added /\ StoreUnchanged /\ reads' = reads
  BY <1>1 DEF Add, ReadersUnchanged
<1>6. PICK n : n = [NoAdd EXCEPT !.pc = "chunk", !.file = f, !.options = o]
  OBVIOUS
<1>7. adds' = [adds EXCEPT ![w] = n]
  BY <1>4, <1>6
<1>8. Adding(n, c) /\ n.made = {}
  BY <1>6, Begins
<1>9. PICK a : a = adds[w]
  OBVIOUS
<1>10. WellBuilt(Made, c) /\ Adding(a, c)
  BY <1>2, <1>9, CallIs, Zenon
<1>11. a.made = {}
  <2>1. a = NoAdd
    BY <1>5, <1>9, <1>10 DEF Adding
  <2> QED
    BY <2>1, AddingNothing
<1>12. PICK more : more = {}
  OBVIOUS
<1>13. n.made = adds[w].made \cup more /\ WellBuilt(Made \cup more, c)
  <2>1. Made \cup more = Made
    BY <1>12
  <2> QED
    BY <2>1, <1>8, <1>9, <1>10, <1>11, <1>12
<1>14. Calls' /\ Content(c)'
  BY <1>2, <1>3, <1>5, <1>7, <1>8, <1>13, AddStep, Zenon
<1>15. PinsKept'
  BY <1>3, <1>5, <1>7, <1>8, StorePins, Zenon
<1> QED
  BY <1>14, <1>15, Zenon DEF IInv

(* A step of a call that stores nothing.                                   *)
LEMMA NothingStored ==
  ASSUME NEW c, NEW w \in Writers, NEW a, NEW n
  PROVE  /\ Calls /\ PinsKept /\ Content(c) /\ a = adds[w] /\ a.pc # "idle"
         /\ adds' = [adds EXCEPT ![w] = n] /\ added' = added /\ reads' = reads /\ StoreUnchanged
         /\ Adding(n, c) /\ n.made = a.made /\ n.options = a.options
         => IInv'
<1>1. SUFFICES
        ASSUME Calls, PinsKept, Content(c), a = adds[w], a.pc # "idle",
               adds' = [adds EXCEPT ![w] = n], added' = added, reads' = reads, StoreUnchanged,
               Adding(n, c), n.made = a.made, n.options = a.options
        PROVE  IInv'
  OBVIOUS
<1>2. PICK more : more = {}
  OBVIOUS
<1>3. n.made = adds[w].made \cup more /\ WellBuilt(Made \cup more, c)
  <2>1. Made \cup more = Made
    BY <1>2
  <2>2. WellBuilt(Made, c)
    BY <1>1, Zenon DEF Content
  <2> QED
    BY <2>1, <2>2, <1>1, <1>2
<1>4. Calls' /\ Content(c)'
  BY <1>1, <1>3, AddStep, Zenon
<1>5. PinsKept'
  <2>1. adds[w].pc # "idle" /\ n.options = adds[w].options /\ n.made = adds[w].made
    BY <1>1
  <2> QED
    BY <2>1, <1>1, StorePins, Zenon
<1> QED
  BY <1>4, <1>5, Zenon DEF IInv

(* A step of a call that stores a block.                                   *)
LEMMA BlockStored ==
  ASSUME NEW c, NEW w \in Writers, NEW a, NEW n, NEW b, NEW d
  PROVE  /\ Calls /\ PinsKept /\ Content(c) /\ a = adds[w] /\ a.pc # "idle"
         /\ adds' = [adds EXCEPT ![w] = n] /\ added' = added /\ reads' = reads
         /\ Put(b, a.options)
         /\ WellBuilt(Made \cup {b}, d) /\ (\A x \in Made : d[x] = c[x]) /\ Adding(n, d)
         /\ n.made = a.made \cup {b} /\ n.options = a.options
         => IInv'
<1>1. SUFFICES
        ASSUME Calls, PinsKept, Content(c), a = adds[w], a.pc # "idle",
               adds' = [adds EXCEPT ![w] = n], added' = added, reads' = reads,
               Put(b, a.options),
               WellBuilt(Made \cup {b}, d), \A x \in Made : d[x] = c[x], Adding(n, d),
               n.made = a.made \cup {b}, n.options = a.options
        PROVE  IInv'
  OBVIOUS
<1>2. n.made = adds[w].made \cup {b}
  BY <1>1
<1>3. Calls' /\ Content(d)'
  BY <1>1, <1>2, AddStep, Zenon
<1>4. PinsKept'
  <2>1. PICK o : o = a.options
    OBVIOUS
  <2>2. Put(b, o) /\ adds[w].pc # "idle" /\ o = adds[w].options /\ n.options = o
    BY <2>1, <1>1
  <2> QED
    BY <2>2, <1>1, <1>2, PutPins, Zenon
<1> QED
  BY <1>3, <1>4, Zenon DEF IInv

(* A record of a call keeps what a step does not name.                     *)
LEMMA Updated ==
  ASSUME NEW S, NEW f, f = [x \in S |-> f[x]], NEW w \in S, NEW m, NEW l
  PROVE  /\ [f EXCEPT ![w].read = @ + m, ![w].length = @ + m]
            = [f EXCEPT ![w] = [f[w] EXCEPT !.read = @ + m, !.length = @ + m]]
         /\ [f EXCEPT ![w].pc = l] = [f EXCEPT ![w] = [f[w] EXCEPT !.pc = l]]
OBVIOUS

LEMMA ReadSourceDoes ==
  ASSUME NEW w \in Writers
  PROVE  IInv /\ ReadSource(w) => IInv'
<1>1. SUFFICES ASSUME IInv, ReadSource(w) PROVE IInv'
  OBVIOUS
<1>2. PICK c : Content(c)
  BY <1>1, Zenon DEF IInv
<1>3. Calls /\ PinsKept
  BY <1>1, Zenon DEF IInv
<1>4. PICK a : a = adds[w]
  OBVIOUS
<1>5. /\ a.pc = "chunk" /\ added' = added /\ StoreUnchanged /\ reads' = reads
      /\ \E m \in 1 .. ChunkSize - a.length :
           /\ a.read + m <= Len(a.file)
           /\ adds' = [adds EXCEPT ![w].read = @ + m, ![w].length = @ + m]
  BY <1>1, <1>4 DEF ReadSource, ReadersUnchanged
<1>6. PICK m \in 1 .. ChunkSize - a.length :
           /\ a.read + m <= Len(a.file)
           /\ adds' = [adds EXCEPT ![w].read = @ + m, ![w].length = @ + m]
  BY <1>5, Zenon
<1>7. Adding(a, c) /\ a \in AddRecord(a.made)
  BY <1>2, <1>4, CallIs, Zenon
<1>8. a.length \in Nat /\ ChunkSize \in Nat
  BY <1>7, UnixFSAssumption DEF AddRecord
<1>9. m \in Nat /\ a.length + m <= ChunkSize
  BY <1>6, <1>8
<1>10. PICK n : n = [a EXCEPT !.read = @ + m, !.length = @ + m]
  OBVIOUS
<1>11. adds' = [adds EXCEPT ![w] = n]
  <2>1. adds = [v \in Writers |-> adds[v]]
    BY <1>3 DEF Calls
  <2>2. [adds EXCEPT ![w].read = @ + m, ![w].length = @ + m]
        = [adds EXCEPT ![w] = [adds[w] EXCEPT !.read = @ + m, !.length = @ + m]]
    BY <2>1, Updated
  <2> QED
    BY <2>2, <1>4, <1>6, <1>10
<1>12. Adding(n, c) /\ n.made = a.made
  <2>1. Adding(a, c) /\ a.pc = "chunk" /\ a.length + m <= ChunkSize /\ a.read + m <= Len(a.file)
    BY <1>5, <1>6, <1>7, <1>9, Zenon
  <2>2. m \in Nat
    BY <1>9
  <2>3. /\ Adding(a, c) /\ a.pc = "chunk" /\ a.length + m <= ChunkSize /\ a.read + m <= Len(a.file)
        /\ n = [a EXCEPT !.read = @ + m, !.length = @ + m]
        => Adding(n, c) /\ n.made = a.made
    BY <2>2, ReadsOn
  <2> QED
    BY <2>1, <2>3, <1>10, Zenon
<1>13. n.options = a.options
  BY <1>7, <1>10 DEF AddRecord
<1>14. a.pc # "idle"
  BY <1>5
<1> QED
  BY <1>2, <1>3, <1>4, <1>5, <1>11, <1>12, <1>13, <1>14, NothingStored, Zenon

LEMMA SourceEndsDoes ==
  ASSUME NEW w \in Writers
  PROVE  IInv /\ SourceEnds(w) => IInv'
<1>1. SUFFICES ASSUME IInv, SourceEnds(w) PROVE IInv'
  OBVIOUS
<1>2. PICK c : Content(c)
  BY <1>1, Zenon DEF IInv
<1>3. Calls /\ PinsKept
  BY <1>1, Zenon DEF IInv
<1>4. PICK a : a = adds[w]
  OBVIOUS
<1>5. /\ a.pc = "chunk" /\ AtEnd(a) /\ a.length = 0 /\ a.nodes # <<>>
      /\ adds' = [adds EXCEPT ![w].pc = "tree"]
      /\ added' = added /\ StoreUnchanged /\ reads' = reads
  BY <1>1, <1>4 DEF SourceEnds, ReadersUnchanged
<1>6. Adding(a, c) /\ a \in AddRecord(a.made) /\ \A x \in a.made : c[x] \in Seq(Nat)
  BY <1>2, <1>4, CallIs, Zenon
<1>7. PICK n : n = [a EXCEPT !.pc = "tree"]
  OBVIOUS
<1>8. adds' = [adds EXCEPT ![w] = n]
  BY <1>3, <1>4, <1>5, <1>7 DEF Calls
<1>9. Adding(n, c) /\ n.made = a.made
  BY <1>5, <1>6, <1>7, SourceDone
<1>10. n.options = a.options
  BY <1>6, <1>7 DEF AddRecord
<1>11. a.pc # "idle"
  BY <1>5
<1> QED
  BY <1>2, <1>3, <1>4, <1>5, <1>8, <1>9, <1>10, <1>11, NothingStored, Zenon

LEMMA LevelEndsDoes ==
  ASSUME NEW w \in Writers
  PROVE  IInv /\ LevelEnds(w) => IInv'
<1>1. SUFFICES ASSUME IInv, LevelEnds(w) PROVE IInv'
  OBVIOUS
<1>2. PICK c : Content(c)
  BY <1>1, Zenon DEF IInv
<1>3. Calls /\ PinsKept
  BY <1>1, Zenon DEF IInv
<1>4. PICK a : a = adds[w]
  OBVIOUS
<1>5. /\ a.pc = "tree" /\ Len(a.nodes) > 1 /\ a.next = Len(a.nodes)
      /\ adds' = [adds EXCEPT ![w].nodes = a.tree, ![w].tree = <<>>, ![w].next = 0]
      /\ added' = added /\ StoreUnchanged /\ reads' = reads
  BY <1>1, <1>4 DEF LevelEnds, ReadersUnchanged
<1>6. Adding(a, c) /\ a \in AddRecord(a.made) /\ \A x \in a.made : c[x] \in Seq(Nat)
  BY <1>2, <1>4, CallIs, Zenon
<1>7. PICK n : n = [a EXCEPT !.nodes = a.tree, !.tree = <<>>, !.next = 0]
  OBVIOUS
<1>8. adds' = [adds EXCEPT ![w] = n]
  BY <1>3, <1>4, <1>5, <1>7 DEF Calls
<1>9. Adding(n, c) /\ n.made = a.made
  <2>1. /\ Adding(a, c) /\ a.pc = "tree" /\ Len(a.nodes) > 1 /\ a.next = Len(a.nodes)
        /\ n = [a EXCEPT !.nodes = a.tree, !.tree = <<>>, !.next = 0]
        => Adding(n, c) /\ n.made = a.made
    <3>1. \A x \in a.made : c[x] \in Seq(Nat)
      BY <1>6
    <3> QED
      BY <3>1, LevelDone
  <2>2. Adding(a, c) /\ a.pc = "tree" /\ Len(a.nodes) > 1 /\ a.next = Len(a.nodes)
    BY <1>5, <1>6, Zenon
  <2> QED
    BY <2>1, <2>2, <1>7, Zenon
<1>10. n.options = a.options
  BY <1>6, <1>7 DEF AddRecord
<1>11. a.pc # "idle"
  BY <1>5
<1> QED
  BY <1>2, <1>3, <1>4, <1>5, <1>8, <1>9, <1>10, <1>11, NothingStored, Zenon

LEMMA PutLeafDoes ==
  ASSUME NEW w \in Writers
  PROVE  IInv /\ PutLeaf(w) => IInv'
<1>1. SUFFICES ASSUME IInv, PutLeaf(w) PROVE IInv'
  OBVIOUS
<1>2. PICK c : Content(c)
  BY <1>1, Zenon DEF IInv
<1>3. Calls /\ PinsKept
  BY <1>1, Zenon DEF IInv
<1>4. PICK a : a = adds[w]
  OBVIOUS
<1>5. PICK chunk : chunk = Leaf(SubSeq(a.file, a.read - a.length + 1, a.read), a.options.raw)
  OBVIOUS
<1>6. /\ a.pc = "chunk" /\ (Full(a) \/ AtEnd(a)) /\ (a.length > 0 \/ a.nodes = <<>>)
      /\ Put(chunk, a.options)
      /\ adds' = [adds EXCEPT ![w].nodes = Append(@, chunk), ![w].length = 0,
                              ![w].made = @ \cup {chunk},
                              ![w].pc = IF Full(a) THEN "chunk" ELSE "tree"]
      /\ added' = added /\ reads' = reads
  BY <1>1, <1>4, <1>5 DEF PutLeaf, ReadersUnchanged
<1>7. PICK bs : bs = Made
  OBVIOUS
<1>8. WellBuilt(bs, c) /\ a.made \subseteq bs /\ Adding(a, c) /\ a \in AddRecord(a.made)
  BY <1>2, <1>4, <1>7, CallIs, Zenon
<1>9. PICK n : n = [a EXCEPT !.nodes = Append(@, chunk), !.length = 0, !.made = @ \cup {chunk},
                             !.pc = IF Full(a) THEN "chunk" ELSE "tree"]
  OBVIOUS
<1>10. adds' = [adds EXCEPT ![w] = n]
  <2>1. PICK pc : pc = IF Full(a) THEN "chunk" ELSE "tree"
    OBVIOUS
  <2>2. n = [a EXCEPT !.nodes = Append(@, chunk), !.length = 0, !.made = @ \cup {chunk}, !.pc = pc]
    BY <2>1, <1>9
  <2>3. adds' = [adds EXCEPT ![w].nodes = Append(@, chunk), ![w].length = 0,
                             ![w].made = @ \cup {chunk}, ![w].pc = pc]
    BY <2>1, <1>6
  <2> QED
    BY <2>2, <2>3, <1>3, <1>4 DEF Calls
<1>11. /\ n.made = a.made \cup {chunk}
       /\ GoesOn(bs, c, chunk, n)
  <2>1. /\ WellBuilt(bs, c) /\ a.made \subseteq bs /\ Adding(a, c) /\ a.pc = "chunk"
        /\ Full(a) \/ AtEnd(a)
        /\ a.length > 0 \/ a.nodes = <<>>
        /\ chunk = Leaf(SubSeq(a.file, a.read - a.length + 1, a.read), a.options.raw)
        /\ n = [a EXCEPT !.nodes = Append(@, chunk), !.length = 0, !.made = @ \cup {chunk},
                         !.pc = IF Full(a) THEN "chunk" ELSE "tree"]
        => /\ n.made = a.made \cup {chunk}
           /\ GoesOn(bs, c, chunk, n)
    BY LeafStored
  <2> QED
    BY <2>1, <1>5, <1>6, <1>8, <1>9, Zenon
<1>12. PICK d : WellBuilt(bs \cup {chunk}, d) /\ (\A x \in bs : d[x] = c[x]) /\ Adding(n, d)
  BY <1>11, Zenon DEF GoesOn
<1>13. WellBuilt(Made \cup {chunk}, d) /\ (\A x \in Made : d[x] = c[x])
  BY <1>7, <1>12
<1>14. n.options = a.options
  <2>1. PICK pc : pc = IF Full(a) THEN "chunk" ELSE "tree"
    OBVIOUS
  <2>2. n = [a EXCEPT !.nodes = Append(@, chunk), !.length = 0, !.made = @ \cup {chunk}, !.pc = pc]
    BY <2>1, <1>9
  <2> QED
    BY <2>2, <1>8 DEF AddRecord
<1>15. a.pc # "idle"
  BY <1>6
<1> QED
  BY <1>2, <1>3, <1>4, <1>6, <1>10, <1>11, <1>12, <1>13, <1>14, <1>15, BlockStored, Zenon

LEMMA BuildTreeNodeDoes ==
  ASSUME NEW w \in Writers
  PROVE  IInv /\ BuildTreeNode(w) => IInv'
<1>1. SUFFICES ASSUME IInv, BuildTreeNode(w) PROVE IInv'
  OBVIOUS
<1>2. PICK c : Content(c)
  BY <1>1, Zenon DEF IInv
<1>3. Calls /\ PinsKept
  BY <1>1, Zenon DEF IInv
<1>4. PICK a : a = adds[w]
  OBVIOUS
<1>5. PICK last : last = IF a.next + LinksPerBlock < Len(a.nodes) THEN a.next + LinksPerBlock
                         ELSE Len(a.nodes)
  OBVIOUS
<1>6. PICK node : node = Bundle(SubSeq(a.nodes, a.next + 1, last))
  OBVIOUS
<1>7. /\ a.pc = "tree" /\ Len(a.nodes) > 1 /\ a.next < Len(a.nodes)
      /\ Put(node, a.options)
      /\ adds' = [adds EXCEPT ![w].tree = Append(@, node), ![w].next = last,
                              ![w].made = @ \cup {node}]
      /\ added' = added /\ reads' = reads
  BY <1>1, <1>4, <1>5, <1>6 DEF BuildTreeNode, ReadersUnchanged
<1>8. PICK bs : bs = Made
  OBVIOUS
<1>9. WellBuilt(bs, c) /\ a.made \subseteq bs /\ Adding(a, c) /\ a \in AddRecord(a.made)
  BY <1>2, <1>4, <1>8, CallIs, Zenon
<1>10. PICK n : n = [a EXCEPT !.tree = Append(@, node), !.next = last, !.made = @ \cup {node}]
  OBVIOUS
<1>11. adds' = [adds EXCEPT ![w] = n]
  BY <1>3, <1>4, <1>7, <1>10 DEF Calls
<1>12. /\ n.made = a.made \cup {node}
       /\ GoesOn(bs, c, node, n)
  <2>1. /\ WellBuilt(bs, c) /\ a.made \subseteq bs /\ Adding(a, c) /\ a.pc = "tree"
        /\ Len(a.nodes) > 1 /\ a.next < Len(a.nodes)
        /\ last = IF a.next + LinksPerBlock < Len(a.nodes) THEN a.next + LinksPerBlock
                  ELSE Len(a.nodes)
        /\ node = Bundle(SubSeq(a.nodes, a.next + 1, last))
        /\ n = [a EXCEPT !.tree = Append(@, node), !.next = last, !.made = @ \cup {node}]
        => /\ n.made = a.made \cup {node}
           /\ GoesOn(bs, c, node, n)
    BY NodeStored
  <2> QED
    BY <2>1, <1>5, <1>6, <1>7, <1>9, <1>10, Zenon
<1>13. PICK d : WellBuilt(bs \cup {node}, d) /\ (\A x \in bs : d[x] = c[x]) /\ Adding(n, d)
  BY <1>12, Zenon DEF GoesOn
<1>14. WellBuilt(Made \cup {node}, d) /\ (\A x \in Made : d[x] = c[x])
  BY <1>8, <1>13
<1>15. n.options = a.options
  BY <1>9, <1>10 DEF AddRecord
<1>16. a.pc # "idle"
  BY <1>7
<1> QED
  BY <1>2, <1>3, <1>4, <1>7, <1>11, <1>12, <1>13, <1>14, <1>15, <1>16, BlockStored, Zenon

LEMMA ReturnDoes ==
  ASSUME NEW w \in Writers
  PROVE  IInv /\ Return(w) => IInv'
<1>1. SUFFICES ASSUME IInv, Return(w) PROVE IInv'
  OBVIOUS
<1>2. PICK c : Content(c)
  BY <1>1, Zenon DEF IInv
<1>3. Calls /\ PinsKept
  BY <1>1, Zenon DEF IInv
<1>4. PICK a : a = adds[w]
  OBVIOUS
<1>5. PICK n : n = [ file |-> a.file, options |-> a.options, root |-> a.nodes[1], made |-> a.made ]
  OBVIOUS
<1>6. /\ a.pc = "tree" /\ Len(a.nodes) = 1 /\ added' = added \cup {n}
      /\ adds' = [adds EXCEPT ![w] = NoAdd] /\ reads' = reads /\ StoreUnchanged
  BY <1>1, <1>4, <1>5 DEF Return, ReadersUnchanged
<1>7. PICK bs : bs = Made
  OBVIOUS
<1>8. WellBuilt(bs, c) /\ a.made \subseteq bs /\ Adding(a, c)
  BY <1>2, <1>4, <1>7, CallIs, Zenon
<1>9. Stored(n, c) /\ n.made = a.made
  <2>1. /\ WellBuilt(bs, c) /\ a.made \subseteq bs /\ Adding(a, c) /\ a.pc = "tree"
        /\ Len(a.nodes) = 1
        /\ n = [ file |-> a.file, options |-> a.options, root |-> a.nodes[1], made |-> a.made ]
        => Stored(n, c) /\ n.made = a.made
    BY Returned
  <2> QED
    BY <2>1, <1>5, <1>6, <1>8, Zenon
<1>10. n.options = a.options
  BY <1>5
<1>11. PICK more : more = {n}
  OBVIOUS
<1>12. added' = added \cup more /\ \A x \in more : Stored(x, c) /\ x.made = adds[w].made
  BY <1>4, <1>6, <1>9, <1>11
<1>13. Calls' /\ Content(c)'
  BY <1>2, <1>3, <1>6, <1>12, AddOver, Zenon
<1>14. PinsKept'
  <2>1. PICK idle : idle = NoAdd
    OBVIOUS
  <2>2. idle.pc = "idle"
    BY <2>1, AddingNothing
  <2>3. adds' = [adds EXCEPT ![w] = idle]
    BY <2>1, <1>6
  <2>4. pins' \subseteq blocks' /\ pins \cup unpinned \subseteq pins' \cup unpinned'
    BY <1>3, <1>6 DEF PinsKept, StoreUnchanged
  <2>5. \A x \in more : adds[w].pc # "idle" /\ x.options = adds[w].options /\ x.made = adds[w].made
    BY <1>4, <1>6, <1>9, <1>10, <1>11
  <2> QED
    BY <2>2, <2>3, <2>4, <2>5, <1>3, <1>12, PinsOn, Zenon
<1> QED
  BY <1>13, <1>14, Zenon DEF IInv

LEMMA AddFailsDoes ==
  ASSUME NEW w \in Writers
  PROVE  IInv /\ AddFails(w) => IInv'
<1>1. SUFFICES ASSUME IInv, AddFails(w) PROVE IInv'
  OBVIOUS
<1>2. PICK c : Content(c)
  BY <1>1, Zenon DEF IInv
<1>3. Calls /\ PinsKept
  BY <1>1, Zenon DEF IInv
<1>4. adds' = [adds EXCEPT ![w] = NoAdd] /\ added' = added /\ reads' = reads /\ StoreUnchanged
  BY <1>1 DEF AddFails, ReadersUnchanged
<1>5. PICK more : more = {}
  OBVIOUS
<1>6. added' = added \cup more /\ \A x \in more : Stored(x, c) /\ x.made = adds[w].made
  BY <1>4, <1>5
<1>7. Calls' /\ Content(c)'
  BY <1>2, <1>3, <1>4, <1>6, AddOver, Zenon
<1>8. PinsKept'
  <2>1. PICK idle : idle = NoAdd
    OBVIOUS
  <2>2. idle.pc = "idle" /\ adds' = [adds EXCEPT ![w] = idle]
    BY <2>1, <1>4, AddingNothing
  <2> QED
    BY <2>2, <1>3, <1>4, StorePins, Zenon
<1> QED
  BY <1>7, <1>8, Zenon DEF IInv

LEMMA RemoveGarbageDoes == IInv /\ RemoveGarbage => IInv'
<1>1. SUFFICES ASSUME IInv, RemoveGarbage PROVE IInv'
  OBVIOUS
<1>2. PICK c : Content(c)
  BY <1>1, Zenon DEF IInv
<1>3. Calls /\ PinsKept
  BY <1>1, Zenon DEF IInv
<1>4. /\ blocks' = blocks \cap pins /\ pins' = pins /\ unpinned' = unpinned
      /\ adds' = adds /\ added' = added /\ reads' = reads
  BY <1>1 DEF RemoveGarbage, WritersUnchanged, ReadersUnchanged
<1>5. PinsKept'
  BY <1>3, <1>4, OtherPins
<1>6. Calls'
  BY <1>3, <1>4 DEF Calls
<1>7. Made' = Made /\ AddedBlocks' = AddedBlocks
  BY <1>4 DEF Made, AddedBlocks
<1>8. Content(c)'
  BY <1>2, <1>4, <1>7 DEF Content
<1> QED
  BY <1>5, <1>6, <1>8, Zenon DEF IInv

-----------------------------------------------------------------------------
(* Readers step by step.                                                   *)

(* A reader's step changes its own stream.                                 *)
LEMMA StreamGoesOn ==
  ASSUME NEW c, NEW r \in Readers, NEW z
  PROVE  /\ Calls /\ PinsKept /\ Content(c)
         /\ reads' = [reads EXCEPT ![r] = z] /\ WritersUnchanged /\ StoreUnchanged
         /\ Reading(z, AddedBlocks, c)
         => IInv'
<1>1. SUFFICES
        ASSUME Calls, PinsKept, Content(c), reads' = [reads EXCEPT ![r] = z], WritersUnchanged,
               StoreUnchanged, Reading(z, AddedBlocks, c)
        PROVE  IInv'
  OBVIOUS
<1>2. /\ adds' = adds /\ added' = added
      /\ blocks' = blocks /\ pins' = pins /\ unpinned' = unpinned
  BY <1>1 DEF WritersUnchanged, StoreUnchanged
<1>3. Calls' /\ Content(c)'
  BY <1>1, <1>2, ReadStep, Zenon
<1>4. PinsKept'
  BY <1>1, <1>2, OtherPins
<1> QED
  BY <1>3, <1>4, Zenon DEF IInv

(* A reader stays within the blocks of the files that have been added.     *)
LEMMA StreamKnown ==
  ASSUME NEW c, NEW r \in Readers, NEW s, s = reads[r], NEW bs, bs = AddedBlocks
  PROVE  Content(c) => WellBuilt(bs, c) /\ Reading(s, bs, c) /\ s \in ReadRecord(bs)
<1>1. SUFFICES ASSUME Content(c)
               PROVE  WellBuilt(bs, c) /\ Reading(s, bs, c) /\ s \in ReadRecord(bs)
  OBVIOUS
<1>2. Reading(s, bs, c)
  BY <1>1, Zenon DEF Content
<1>3. PICK all : all = Made
  OBVIOUS
<1>4. WellBuilt(all, c)
  BY <1>1, <1>3, Zenon DEF Content
<1>5. bs \subseteq all /\ Closed(bs)
  BY <1>1, <1>3, AllClosed DEF Made
<1>6. WellBuilt(bs, c)
  BY <1>4, <1>5, WellBuiltFewer
<1>7. s \in ReadRecord(bs)
  BY <1>2, Zenon DEF Reading
<1> QED
  BY <1>2, <1>6, <1>7

LEMMA OpenDoes ==
  ASSUME NEW r \in Readers
  PROVE  IInv /\ Open(r) => IInv'
<1>1. SUFFICES ASSUME IInv, Open(r) PROVE IInv'
  OBVIOUS
<1>2. PICK c : Content(c)
  BY <1>1, Zenon DEF IInv
<1>3. Calls /\ PinsKept
  BY <1>1, Zenon DEF IInv
<1>4. PICK a \in {x \in added : x.root \in blocks}, slice \in Slices :
        reads' = [reads EXCEPT ![r] =
          [NoStream EXCEPT !.pc = "open", !.file = a.file, !.slice = slice,
                           !.end = LogicalEnd(slice, Size(a.root)),
                           !.stack = <<[Stream(a.root) EXCEPT !.pos = slice[1]]>>]]
  BY <1>1, Zenon DEF Open
<1>5. WritersUnchanged /\ StoreUnchanged
  BY <1>1, Zenon DEF Open
<1>6. PICK bs : bs = AddedBlocks
  OBVIOUS
<1>7. PICK root : root = a.root
  OBVIOUS
<1>8. PICK file : file = a.file
  OBVIOUS
<1>9. a \in added /\ Stored(a, c)
  <2>1. a \in added
    BY <1>4
  <2> QED
    BY <2>1, <1>2, Zenon DEF Content
<1>10. root \in bs /\ c[root] = file /\ file \in Seq(Nat)
  <2>1. a.root \in a.made /\ c[root] = file /\ a.file \in Files
    BY <1>7, <1>8, <1>9 DEF Stored
  <2>2. a.made \subseteq bs
    BY <1>6, <1>9 DEF AddedBlocks
  <2> QED
    BY <2>1, <2>2, <1>7, <1>8, FilesAre
<1>11. WellBuilt(bs, c)
  <2>1. PICK s : s = reads[r]
    OBVIOUS
  <2> QED
    BY <2>1, <1>2, <1>6, StreamKnown, Zenon
<1>12. Size(root) = Len(file)
  <2>1. Size(root) = Len(c[root])
    BY <1>10, <1>11, SizeIsLength
  <2> QED
    BY <2>1, <1>10
<1>13. slice \in Nat \X Nat
  BY UnixFSAssumption
<1>14. PICK z : z = [NoStream EXCEPT !.pc = "open", !.file = file, !.slice = slice,
                          !.end = LogicalEnd(slice, Size(root)),
                          !.stack = <<[Stream(root) EXCEPT !.pos = slice[1]]>>]
  OBVIOUS
<1>15. Reading(z, bs, c)
  <2>1. Reading([NoStream EXCEPT !.pc = "open", !.file = file, !.slice = slice,
                          !.end = LogicalEnd(slice, Size(root)),
                          !.stack = <<[Stream(root) EXCEPT !.pos = slice[1]]>>], bs, c)
    BY <1>10, <1>12, <1>13, OpenOK
  <2> QED
    BY <2>1, <1>14, Zenon
<1>16. reads' = [reads EXCEPT ![r] = z]
  BY <1>4, <1>7, <1>8, <1>14, Zenon
<1>17. Reading(z, AddedBlocks, c)
  BY <1>6, <1>15, Zenon
<1> QED
  BY <1>2, <1>3, <1>5, <1>16, <1>17, StreamGoesOn, Zenon

LEMMA ReadDoes ==
  ASSUME NEW r \in Readers
  PROVE  IInv /\ Read(r) => IInv'
<1>1. SUFFICES ASSUME IInv, Read(r) PROVE IInv'
  OBVIOUS
<1>2. PICK c : Content(c)
  BY <1>1, Zenon DEF IInv
<1>3. Calls /\ PinsKept
  BY <1>1, Zenon DEF IInv
<1>4. PICK s : s = reads[r]
  OBVIOUS
<1>5. PICK bs : bs = AddedBlocks
  OBVIOUS
<1>6. WellBuilt(bs, c) /\ Reading(s, bs, c) /\ s \in ReadRecord(bs)
  BY <1>2, <1>4, <1>5, StreamKnown, Zenon
<1>7. PICK pos : pos = s.stack[1].pos
  OBVIOUS
<1>8. /\ s.pc = "open" /\ WritersUnchanged /\ StoreUnchanged
      /\ \/ pos >= s.end /\ reads' = [reads EXCEPT ![r].pc = "ended"]
         \/ /\ pos < s.end
            /\ \E n \in Buffers :
                 reads' = [reads EXCEPT ![r].pc = "reading", ![r].want = Smaller(n, s.end - pos)]
  BY <1>1, <1>4, <1>7, Zenon DEF Read
<1>9. s.end \in Nat /\ pos \in Nat /\ s.want \in Nat
  <2>1. s.stack # <<>>
    BY <1>6, <1>8 DEF Reading
  <2>2. s.stack[1] \in Frames(bs)
    BY <2>1, <1>6, StackIs
  <2> QED
    BY <2>2, <1>6, <1>7 DEF ReadRecord, Frames
<1>10. \E z : reads' = [reads EXCEPT ![r] = z] /\ Reading(z, bs, c)
  <2>1. ASSUME pos >= s.end, reads' = [reads EXCEPT ![r].pc = "ended"]
        PROVE  \E z : reads' = [reads EXCEPT ![r] = z] /\ Reading(z, bs, c)
    <3>1. PICK want \in Nat : want = s.want
      BY <1>9, Zenon
    <3>2. PICK pc : pc = "ended"
      OBVIOUS
    <3>3. PICK z : z = [s EXCEPT !.pc = pc, !.want = want]
      OBVIOUS
    <3>4. z = [s EXCEPT !.pc = pc]
      BY <3>1, <3>3, <1>6 DEF ReadRecord
    <3>5. reads' = [reads EXCEPT ![r] = z]
      BY <2>1, <3>2, <3>4, <1>3, <1>4 DEF Calls
    <3>6. s.stack[1].pos >= s.end
      BY <2>1, <1>7, Zenon
    <3>7. want \in Nat
      OBVIOUS
    <3>8. Reading(z, bs, c)
      <4>1. \/ pc = "ended" /\ s.stack[1].pos >= s.end
            \/ pc = "reading" /\ want # 0 /\ s.stack[1].pos + want <= s.end
        BY <3>2, <3>6
      <4>2. Reading(s, bs, c) /\ s.pc = "open"
        BY <1>6, <1>8, Zenon
      <4> QED
        BY <4>1, <4>2, <3>3, <3>7, Turns, Zenon
    <3> QED
      BY <3>5, <3>8
  <2>2. ASSUME pos < s.end, NEW n \in Buffers,
               reads' = [reads EXCEPT ![r].pc = "reading", ![r].want = Smaller(n, s.end - pos)]
        PROVE  \E z : reads' = [reads EXCEPT ![r] = z] /\ Reading(z, bs, c)
    <3>1. n \in Nat \ {0}
      BY UnixFSAssumption
    <3>2. PICK end \in Nat : end = s.end
      BY <1>9, Zenon
    <3>3. PICK want : want = Smaller(n, end - pos)
      OBVIOUS
    <3>4. want \in Nat /\ want # 0 /\ pos + want <= end
      BY <2>2, <3>1, <3>2, <3>3, <1>9 DEF Smaller
    <3>5. PICK pc : pc = "reading"
      OBVIOUS
    <3>6. PICK z : z = [s EXCEPT !.pc = pc, !.want = want]
      OBVIOUS
    <3>7. reads' = [reads EXCEPT ![r].pc = pc, ![r].want = want]
      BY <2>2, <3>2, <3>3, <3>5
    <3>8. reads' = [reads EXCEPT ![r] = z]
      BY <3>6, <3>7, <1>3, <1>4 DEF Calls
    <3>9. want # 0 /\ s.stack[1].pos + want <= s.end
      BY <3>2, <3>4, <1>7
    <3>10. Reading(z, bs, c)
      BY <3>4, <3>5, <3>6, <3>9, <1>6, <1>8, Turns, Zenon
    <3> QED
      BY <3>8, <3>10
  <2> QED
    BY <2>1, <2>2, <1>8, Zenon
<1>11. PICK z : reads' = [reads EXCEPT ![r] = z] /\ Reading(z, bs, c)
  BY <1>10, Zenon
<1>12. Reading(z, AddedBlocks, c)
  BY <1>5, <1>11, Zenon
<1> QED
  BY <1>2, <1>3, <1>8, <1>11, <1>12, StreamGoesOn, Zenon

LEMMA CopyDoes ==
  ASSUME NEW r \in Readers
  PROVE  IInv /\ Copy(r) => IInv'
<1>1. SUFFICES ASSUME IInv, Copy(r) PROVE IInv'
  OBVIOUS
<1>2. PICK c : Content(c)
  BY <1>1, Zenon DEF IInv
<1>3. Calls /\ PinsKept
  BY <1>1, Zenon DEF IInv
<1>4. PICK s : s = reads[r]
  OBVIOUS
<1>5. PICK bs : bs = AddedBlocks
  OBVIOUS
<1>6. WellBuilt(bs, c) /\ Reading(s, bs, c)
  BY <1>2, <1>4, <1>5, StreamKnown, Zenon
<1>7. PICK top : top = Top(s)
  OBVIOUS
<1>8. /\ s.pc = "reading" /\ WritersUnchanged /\ StoreUnchanged
      /\ \/ /\ IsLeaf(top.node)
            /\ reads' = [reads EXCEPT ![r] = Deliver(s, top.node.data, top.pos)]
         \/ /\ ~IsLeaf(top.node) /\ top.pos < Size(top.node)
            /\ Need(top.node, top.pos) = top.cur
            /\ reads' = [reads EXCEPT ![r] =
                 Deliver(s, top.data, top.pos - Position(top.node, top.cur))]
  BY <1>1, <1>4, <1>7, Zenon DEF Copy
<1>9. \E z : reads' = [reads EXCEPT ![r] = z] /\ Reading(z, bs, c)
  <2>1. ASSUME IsLeaf(top.node),
               reads' = [reads EXCEPT ![r] = Deliver(s, top.node.data, top.pos)]
        PROVE  \E z : reads' = [reads EXCEPT ![r] = z] /\ Reading(z, bs, c)
    <3>1. Reading(Deliver(s, top.node.data, top.pos), bs, c)
      BY <2>1, <1>6, <1>7, <1>8, CopyLeaf, Zenon
    <3> QED
      BY <2>1, <3>1, Zenon
  <2>2. ASSUME ~IsLeaf(top.node), top.pos < Size(top.node), Need(top.node, top.pos) = top.cur,
               reads' = [reads EXCEPT ![r] =
                 Deliver(s, top.data, top.pos - Position(top.node, top.cur))]
        PROVE  \E z : reads' = [reads EXCEPT ![r] = z] /\ Reading(z, bs, c)
    <3>1. Reading(Deliver(s, top.data, top.pos - Position(top.node, top.cur)), bs, c)
      BY <2>2, <1>6, <1>7, <1>8, CopyChild, Zenon
    <3> QED
      BY <2>2, <3>1, Zenon
  <2> QED
    BY <2>1, <2>2, <1>8, Zenon
<1>10. PICK z : reads' = [reads EXCEPT ![r] = z] /\ Reading(z, bs, c)
  BY <1>9, Zenon
<1>11. Reading(z, AddedBlocks, c)
  BY <1>5, <1>10, Zenon
<1> QED
  BY <1>2, <1>3, <1>8, <1>10, <1>11, StreamGoesOn, Zenon

LEMMA FetchDoes ==
  ASSUME NEW r \in Readers
  PROVE  IInv /\ Fetch(r) => IInv'
<1>1. SUFFICES ASSUME IInv, Fetch(r) PROVE IInv'
  OBVIOUS
<1>2. PICK c : Content(c)
  BY <1>1, Zenon DEF IInv
<1>3. Calls /\ PinsKept
  BY <1>1, Zenon DEF IInv
<1>4. PICK s : s = reads[r]
  OBVIOUS
<1>5. PICK bs : bs = AddedBlocks
  OBVIOUS
<1>6. WellBuilt(bs, c) /\ Reading(s, bs, c)
  BY <1>2, <1>4, <1>5, StreamKnown, Zenon
<1>7. PICK k : k = Len(s.stack)
  OBVIOUS
<1>8. PICK need : need = Need(Top(s).node, Top(s).pos)
  OBVIOUS
<1>9. PICK child : child = Top(s).node.links[need]
  OBVIOUS
<1>10. PICK stack : stack = SubSeq(s.stack, 1, k - 1)
                            \o <<NewTop(Top(s), need, Size(child)), Stream(child)>>
  OBVIOUS
<1>11. /\ s.pc = "reading" /\ ~IsLeaf(Top(s).node)
  BY <1>1, <1>4, Zenon DEF Fetch, Fetching
<1>12. WritersUnchanged /\ StoreUnchanged
  BY <1>1, Zenon DEF Fetch
<1>13. reads' = [reads EXCEPT ![r].stack = stack]
  BY <1>1, <1>4, <1>7, <1>8, <1>9, <1>10, Zenon DEF Fetch, NewTop
<1>14. PICK z : z = [s EXCEPT !.stack = stack]
  OBVIOUS
<1>15. reads' = [reads EXCEPT ![r] = z]
  BY <1>3, <1>4, <1>13, <1>14 DEF Calls
<1>16. Reading(z, bs, c)
  <2>1. Reading([s EXCEPT !.stack = SubSeq(s.stack, 1, k - 1)
                   \o <<NewTop(Top(s), need, Size(child)), Stream(child)>>], bs, c)
    BY <1>6, <1>7, <1>8, <1>9, <1>11, FetchOK, Zenon
  <2> QED
    BY <2>1, <1>10, <1>14, Zenon
<1>17. Reading(z, AddedBlocks, c)
  BY <1>5, <1>16, Zenon
<1> QED
  BY <1>2, <1>3, <1>12, <1>15, <1>17, StreamGoesOn, Zenon

LEMMA FetchFailsDoes ==
  ASSUME NEW r \in Readers
  PROVE  IInv /\ FetchFails(r) => IInv'
<1>1. SUFFICES ASSUME IInv, FetchFails(r) PROVE IInv'
  OBVIOUS
<1>2. PICK c : Content(c)
  BY <1>1, Zenon DEF IInv
<1>3. Calls /\ PinsKept
  BY <1>1, Zenon DEF IInv
<1>4. PICK s : s = reads[r]
  OBVIOUS
<1>5. PICK bs : bs = AddedBlocks
  OBVIOUS
<1>6. Reading(s, bs, c)
  BY <1>2, <1>4, <1>5, StreamKnown, Zenon
<1>7. s.pc = "reading" /\ WritersUnchanged /\ StoreUnchanged
  BY <1>1, <1>4, Zenon DEF FetchFails, Fetching
<1>8. reads' = [reads EXCEPT ![r].pc = "open", ![r].stack = <<s.stack[1]>>,
                             ![r].broken = @ \/ Len(s.stack) > 1]
  BY <1>1, <1>4 DEF FetchFails, Unwound
<1>9. PICK z : z = [s EXCEPT !.pc = "open", !.stack = <<s.stack[1]>>, !.broken = @ \/ Len(s.stack) > 1]
  OBVIOUS
<1>10. reads' = [reads EXCEPT ![r] = z]
  BY <1>3, <1>4, <1>8, <1>9 DEF Calls
<1>11. Reading(z, bs, c)
  BY <1>6, <1>7, <1>9, UnwoundOK, Zenon
<1>12. Reading(z, AddedBlocks, c)
  BY <1>5, <1>11, Zenon
<1> QED
  BY <1>2, <1>3, <1>7, <1>10, <1>12, StreamGoesOn, Zenon

LEMMA DisposeDoes ==
  ASSUME NEW r \in Readers
  PROVE  IInv /\ Dispose(r) => IInv'
<1>1. SUFFICES ASSUME IInv, Dispose(r) PROVE IInv'
  OBVIOUS
<1>2. PICK c : Content(c)
  BY <1>1, Zenon DEF IInv
<1>3. Calls /\ PinsKept
  BY <1>1, Zenon DEF IInv
<1>4. WritersUnchanged /\ StoreUnchanged /\ reads' = [reads EXCEPT ![r] = NoStream]
  BY <1>1, Zenon DEF Dispose
<1>5. PICK z : z = NoStream
  OBVIOUS
<1>6. reads' = [reads EXCEPT ![r] = z]
  BY <1>4, <1>5
<1>7. Reading(z, AddedBlocks, c)
  <2>1. PICK bs : bs = AddedBlocks
    OBVIOUS
  <2>2. Reading(NoStream, bs, c)
    BY ReadingNothing
  <2> QED
    BY <2>1, <2>2, <1>5, Zenon
<1> QED
  BY <1>2, <1>3, <1>4, <1>6, <1>7, StreamGoesOn, Zenon

-----------------------------------------------------------------------------
(* The theorems.                                                           *)

(* The invariant holds in the beginning: there are no blocks to have       *)
(* contents.                                                               *)
LEMMA Starts == Init => IInv
<1>1. SUFFICES ASSUME Init PROVE IInv
  OBVIOUS
<1>2. /\ blocks = {} /\ pins = {} /\ added = {}
      /\ adds = [w \in Writers |-> NoAdd] /\ reads = [r \in Readers |-> NoStream]
  BY <1>1 DEF Init
<1>3. Calls
  BY <1>2 DEF Calls
<1>4. (\A w \in Writers : adds[w] = NoAdd) /\ \A r \in Readers : reads[r] = NoStream
  BY <1>2
<1>5. PICK c : c = <<>>
  OBVIOUS
<1>6. Adding(NoAdd, c) /\ NoAdd.made = {} /\ NoAdd.pc = "idle"
  BY AddingNothing
<1>7. AddedBlocks = {}
  BY <1>2 DEF AddedBlocks
<1>8. Made = {}
  <2>1. UNION {adds[w].made : w \in Writers} = {}
    BY <1>4, <1>6
  <2> QED
    BY <2>1, <1>7 DEF Made
<1>9. WellBuilt(Made, c)
  BY <1>8 DEF WellBuilt
<1>10. \A w \in Writers : Adding(adds[w], c)
  BY <1>4, <1>6
<1>11. \A a \in added : Stored(a, c)
  BY <1>2
<1>12. ASSUME NEW r \in Readers PROVE Reading(reads[r], AddedBlocks, c)
  <2>1. PICK bs : bs = AddedBlocks
    OBVIOUS
  <2>2. Reading(NoStream, bs, c)
    BY ReadingNothing
  <2> QED
    BY <2>1, <2>2, <1>4, Zenon
<1>13. Content(c)
  BY <1>9, <1>10, <1>11, <1>12, Zenon DEF Content
<1>14. PinsKept
  BY <1>2, <1>4, <1>6 DEF PinsKept
<1> QED
  BY <1>3, <1>13, <1>14, Zenon DEF IInv

(* Nothing happens.                                                        *)
LEMMA Stutters == IInv /\ UNCHANGED vars => IInv'
<1>1. SUFFICES ASSUME IInv, UNCHANGED vars PROVE IInv'
  OBVIOUS
<1>2. PICK c : Content(c)
  BY <1>1, Zenon DEF IInv
<1>3. Calls /\ PinsKept
  BY <1>1, Zenon DEF IInv
<1>4. /\ blocks' = blocks /\ pins' = pins /\ unpinned' = unpinned
      /\ adds' = adds /\ added' = added /\ reads' = reads
  BY <1>1 DEF vars
<1>5. PinsKept'
  BY <1>3, <1>4, OtherPins
<1>6. Calls'
  BY <1>3, <1>4 DEF Calls
<1>7. Made' = Made /\ AddedBlocks' = AddedBlocks
  BY <1>4 DEF Made, AddedBlocks
<1>8. Content(c)'
  BY <1>2, <1>4, <1>7 DEF Content
<1> QED
  BY <1>5, <1>6, <1>8, Zenon DEF IInv

(* Every step keeps it.                                                    *)
LEMMA Steps == IInv /\ [Next]_vars => IInv'
<1>1. SUFFICES ASSUME IInv, [Next]_vars PROVE IInv'
  OBVIOUS
<1>2. ASSUME NEW w \in Writers, Add(w) PROVE IInv'
  BY <1>1, <1>2, AddDoes
<1>3. ASSUME NEW w \in Writers, ReadSource(w) PROVE IInv'
  BY <1>1, <1>3, ReadSourceDoes
<1>4. ASSUME NEW w \in Writers, PutLeaf(w) PROVE IInv'
  BY <1>1, <1>4, PutLeafDoes
<1>5. ASSUME NEW w \in Writers, SourceEnds(w) PROVE IInv'
  BY <1>1, <1>5, SourceEndsDoes
<1>6. ASSUME NEW w \in Writers, BuildTreeNode(w) PROVE IInv'
  BY <1>1, <1>6, BuildTreeNodeDoes
<1>7. ASSUME NEW w \in Writers, LevelEnds(w) PROVE IInv'
  BY <1>1, <1>7, LevelEndsDoes
<1>8. ASSUME NEW w \in Writers, Return(w) PROVE IInv'
  BY <1>1, <1>8, ReturnDoes
<1>9. ASSUME NEW w \in Writers, AddFails(w) PROVE IInv'
  BY <1>1, <1>9, AddFailsDoes
<1>10. CASE RemoveGarbage
  BY <1>1, <1>10, RemoveGarbageDoes
<1>11. ASSUME NEW r \in Readers, Open(r) PROVE IInv'
  BY <1>1, <1>11, OpenDoes
<1>12. ASSUME NEW r \in Readers, Read(r) PROVE IInv'
  BY <1>1, <1>12, ReadDoes
<1>13. ASSUME NEW r \in Readers, Copy(r) PROVE IInv'
  BY <1>1, <1>13, CopyDoes
<1>14. ASSUME NEW r \in Readers, Fetch(r) PROVE IInv'
  BY <1>1, <1>14, FetchDoes
<1>15. ASSUME NEW r \in Readers, FetchFails(r) PROVE IInv'
  BY <1>1, <1>15, FetchFailsDoes
<1>16. ASSUME NEW r \in Readers, Dispose(r) PROVE IInv'
  BY <1>1, <1>16, DisposeDoes
<1>17. CASE UNCHANGED vars
  BY <1>1, <1>17, Stutters
<1> QED
  BY <1>1, <1>2, <1>3, <1>4, <1>5, <1>6, <1>7, <1>8, <1>9, <1>10, <1>11, <1>12, <1>13, <1>14,
     <1>15, <1>16, <1>17, Zenon DEF Next

(* The invariant: every block there is has a content that its links make   *)
(* up, every call holds the start of the one tree of its file, every       *)
(* reader's streams hold the bytes their children do, and pins are kept.   *)
THEOREM Inductive == Spec => []IInv
BY Starts, Steps, PTL DEF Spec

(* It implies that state is of its type,                                   *)
LEMMA TypeFollows == IInv => TypeOK
<1>1. SUFFICES ASSUME IInv PROVE TypeOK
  OBVIOUS
<1>2. PICK c : Content(c)
  BY <1>1, Zenon DEF IInv
<1>3. pins \subseteq blocks
  BY <1>1, Zenon DEF IInv, PinsKept
<1>4. ASSUME NEW w \in Writers, NEW a, a = adds[w]
      PROVE  /\ a.pc \in {"idle", "chunk", "tree"}
             /\ a.length <= ChunkSize /\ a.length <= a.read /\ a.read <= Len(a.file)
             /\ a.pc = "tree" => a.nodes # <<>> /\ a.next <= Len(a.nodes)
  <2>1. Adding(a, c)
    BY <1>2, <1>4, Zenon DEF Content
  <2>2. a.pc = "tree" => a.nodes # <<>> /\ a.next <= Len(a.nodes)
    BY <2>1, Zenon DEF Adding, Building
  <2>3. a.pc \in {"idle", "chunk", "tree"}
    <3>1. a \in AddRecord(a.made)
      BY <2>1, Zenon DEF Adding
    <3> QED
      BY <3>1 DEF AddRecord
  <2>4. a.length <= ChunkSize /\ a.length <= a.read /\ a.read <= Len(a.file)
    BY <2>1, Zenon DEF Adding
  <2> QED
    BY <2>2, <2>3, <2>4
<1>5. ASSUME NEW r \in Readers, NEW s, s = reads[r]
      PROVE  /\ s.pc \in {"closed", "open", "reading", "ended"}
             /\ s.pc = "closed" <=> s.stack = <<>>
             /\ s.pc \in {"open", "ended"} => Len(s.stack) = 1
             /\ \A i \in DOMAIN s.stack : s.stack[i].node \in AddedBlocks
  <2>1. PICK bs : bs = AddedBlocks
    OBVIOUS
  <2>2. Reading(s, bs, c)
    BY <2>1, <1>2, <1>5, Zenon DEF Content
  <2>3. /\ s \in ReadRecord(bs)
        /\ s.pc = "closed" <=> s.stack = <<>>
        /\ s.pc \in {"open", "ended"} => Len(s.stack) = 1
    BY <2>2, Zenon DEF Reading
  <2>4. s.pc \in {"closed", "open", "reading", "ended"}
    BY <2>3 DEF ReadRecord
  <2>5. /\ s.stack \in Seq(Frames(bs))
        /\ \A i \in 1 .. Len(s.stack) : s.stack[i] \in Frames(bs)
    BY <2>3, StackIs
  <2>6. DOMAIN s.stack = 1 .. Len(s.stack)
    BY <2>5, LenProperties
  <2>7. \A i \in DOMAIN s.stack : s.stack[i].node \in bs
    BY <2>5, <2>6 DEF Frames
  <2> QED
    BY <2>1, <2>3, <2>4, <2>7
<1>6. ASSUME NEW a \in added
      PROVE  a \in [file : Files, options : Options, root : AddedBlocks, made : SUBSET AddedBlocks]
  <2>1. /\ a = [file |-> a.file, options |-> a.options, root |-> a.root, made |-> a.made]
        /\ a.file \in Files /\ a.options \in Options /\ a.root \in a.made
    BY <1>2, <1>6, Zenon DEF Content, Stored
  <2>2. a.made \subseteq AddedBlocks
    BY DEF AddedBlocks
  <2>3. PICK bs : bs = AddedBlocks
    OBVIOUS
  <2>4. a.made \in SUBSET bs /\ a.root \in bs
    BY <2>1, <2>2, <2>3
  <2>5. PICK o \in Options : o = a.options
    BY <2>1, Zenon
  <2>6. PICK all : all = Options
    OBVIOUS
  <2>7. a \in [file : Files, options : all, root : bs, made : SUBSET bs]
    BY <2>1, <2>4, <2>6
  <2> QED
    BY <2>3, <2>6, <2>7
<1>7. \A w \in Writers : LET a == adds[w] IN
       /\ a.pc \in {"idle", "chunk", "tree"}
       /\ a.length <= ChunkSize /\ a.length <= a.read /\ a.read <= Len(a.file)
       /\ a.pc = "tree" => a.nodes # <<>> /\ a.next <= Len(a.nodes)
  BY <1>4, Zenon
<1>8. \A r \in Readers : LET s == reads[r] IN
       /\ s.pc \in {"closed", "open", "reading", "ended"}
       /\ s.pc = "closed" <=> s.stack = <<>>
       /\ s.pc \in {"open", "ended"} => Len(s.stack) = 1
       /\ \A i \in DOMAIN s.stack : s.stack[i].node \in AddedBlocks
  BY <1>5, Zenon
<1>9. added \subseteq [file : Files, options : Options, root : AddedBlocks, made : SUBSET AddedBlocks]
  BY <1>6
<1> QED
  BY <1>3, <1>7, <1>8, <1>9, Zenon DEF TypeOK

(* Calls and streams are at points of their code, a stream reads blocks of *)
(* files that were added, and what is pinned is stored.                    *)
THEOREM TypeCorrect == Spec => []TypeOK
BY Inductive, TypeFollows, PTL

(* that pinned files stay,                                                 *)
LEMMA PinnedFollows == IInv => PinnedFileStays
<1>1. SUFFICES ASSUME IInv, NEW a \in added, a.options.pin, ~a.options.onlyHash
               PROVE  a.root \in a.made /\ Closed(a.made) /\ a.made \ unpinned \subseteq blocks
  BY DEF PinnedFileStays
<1>2. PICK c : Content(c)
  BY <1>1, Zenon DEF IInv
<1>3. a.root \in a.made /\ Closed(a.made)
  BY <1>1, <1>2, Zenon DEF Content, Stored
<1>4. pins \subseteq blocks /\ Keeps(a.options, a.made)
  BY <1>1, Zenon DEF IInv, PinsKept
<1> QED
  BY <1>1, <1>3, <1>4 DEF Keeps

(* A file that was added with a pin keeps every block of its tree that     *)
(* nobody has put without one, whatever garbage is collected               *)
(* (FileSystemApi.AddAsync, BlockApi.PutAsync, RemoveGarbageAsync).        *)
THEOREM FilesStay == Spec => []PinnedFileStays
BY Inductive, PinnedFollows, PTL

(* that bytes and roots determine each other: the root's content is the    *)
(* file, and a file has one tower,                                         *)
LEMMA RootsFollow == IInv => SameBytesSameRoot
<1>1. SUFFICES ASSUME IInv, NEW a \in added, NEW b \in added, a.options.raw = b.options.raw
               PROVE  a.root = b.root <=> a.file = b.file
  BY DEF SameBytesSameRoot
<1>2. PICK c : Content(c)
  BY <1>1, Zenon DEF IInv
<1>3. /\ c[a.root] = a.file /\ LevelOf(<<a.root>>, a.file, a.options.raw)
      /\ c[b.root] = b.file /\ LevelOf(<<b.root>>, b.file, b.options.raw)
  BY <1>1, <1>2, Zenon DEF Content, Stored
<1>4. ASSUME a.root = b.root PROVE a.file = b.file
  BY <1>3, <1>4
<1>5. ASSUME a.file = b.file PROVE a.root = b.root
  <2>1. PICK x : x = <<a.root>>
    OBVIOUS
  <2>2. PICK y : y = <<b.root>>
    OBVIOUS
  <2>3. Len(x) = 1 /\ Len(y) = 1 /\ x[1] = a.root /\ y[1] = b.root
    BY <2>1, <2>2
  <2>4. LevelOf(x, a.file, a.options.raw) /\ LevelOf(y, a.file, a.options.raw)
    BY <2>1, <2>2, <1>1, <1>3, <1>5
  <2>5. x = y
    BY <2>3, <2>4, OneRoot
  <2> QED
    BY <2>3, <2>5
<1> QED
  BY <1>4, <1>5

(* The same bytes have the same root, however the source was read, and     *)
(* other bytes another (SizeChunker, BuildTreeAsync).                      *)
THEOREM Roots == Spec => []SameBytesSameRoot
BY Inductive, RootsFollow, PTL

(* Bytes that agree with the file from an offset on are the start of its   *)
(* slice, and all of it once they reach its end.                           *)
LEMMA ReadSoFar ==
  ASSUME NEW file \in Seq(Nat), NEW off \in Nat, NEW e \in Nat, NEW got \in Seq(Nat),
         NEW t
  PROVE  /\ e <= Len(file) /\ (\A i \in 1 .. Len(got) : got[i] = file[off + i])
         /\ Len(got) = 0 \/ off + Len(got) <= e
         /\ t = SubSeq(file, off + 1, e)
         => IsPrefix(got, t) /\ (off + Len(got) >= e => got = t)
<1>1. SUFFICES ASSUME e <= Len(file), \A i \in 1 .. Len(got) : got[i] = file[off + i],
                      Len(got) = 0 \/ off + Len(got) <= e, t = SubSeq(file, off + 1, e)
               PROVE  IsPrefix(got, t) /\ (off + Len(got) >= e => got = t)
  OBVIOUS
<1>2. PICK n \in Nat : n = Len(got)
  BY LenProperties, Zenon
<1>3. SubSeq(got, 1, n) = got
  BY <1>2, FileParts
<1>4. CASE off >= e
  <2>1. n = 0
    BY <1>1, <1>2, <1>4
  <2>2. e < off + 1
    BY <1>4
  <2>3. t = <<>>
    BY <1>1, <2>2, SubSeqEmpty
  <2>4. got = <<>>
    BY <1>2, <2>1, EmptySeq
  <2>5. Len(t) = 0
    BY <2>3
  <2>6. Len(got) <= Len(t)
    BY <1>2, <2>1, <2>5
  <2>7. SubSeq(got, 1, Len(got)) = SubSeq(t, 1, Len(got))
    BY <2>3, <2>4
  <2> QED
    BY <2>3, <2>4, <2>6, <2>7 DEF IsPrefix
<1>5. CASE off < e
  <2>1. PICK a \in Nat : a = off + 1
    OBVIOUS
  <2>2. 1 <= a /\ a <= e + 1 /\ e <= Len(file)
    BY <2>1, <1>1, <1>5
  <2>3. PICK m \in Nat : m = e - off
    BY <1>5
  <2>4. (e + 1) - a = m /\ a - 1 = off /\ off + n <= e /\ n <= m
    BY <2>1, <2>3, <1>1, <1>2, <1>5
  <2>5. /\ SubSeq(file, a, e) \in Seq(Nat) /\ Len(SubSeq(file, a, e)) = (e + 1) - a
        /\ \A i \in 1 .. (e + 1) - a : SubSeq(file, a, e)[i] = file[(a - 1) + i]
    BY <2>2, SubSeqIs
  <2>6. t = SubSeq(file, a, e)
    BY <1>1, <2>1
  <2>7. t \in Seq(Nat) /\ Len(t) = m /\ \A i \in 1 .. m : t[i] = file[off + i]
    BY <2>4, <2>5, <2>6
  <2>8. \A i \in 1 .. n : i \in 1 .. m /\ got[i] = file[off + i]
    BY <2>4, <1>1, <1>2
  <2>9. \A i \in 1 .. n : got[i] = t[i]
    BY <2>7, <2>8
  <2>10. PICK x : x = SubSeq(t, 1, n)
    OBVIOUS
  <2>11. x \in Seq(Nat) /\ Len(x) = n /\ \A i \in 1 .. n : x[i] = t[i]
    <3>1. 1 <= n + 1 /\ n <= Len(t) /\ 1 <= 1 /\ (n + 1) - 1 = n /\ 1 \in Nat
      BY <2>4, <2>7
    <3>2. /\ SubSeq(t, 1, n) \in Seq(Nat) /\ Len(SubSeq(t, 1, n)) = (n + 1) - 1
          /\ \A i \in 1 .. (n + 1) - 1 : SubSeq(t, 1, n)[i] = t[(1 - 1) + i]
      BY <3>1, <2>7, SubSeqIs
    <3>3. \A i \in 1 .. n : (1 - 1) + i = i
      OBVIOUS
    <3> QED
      BY <3>1, <3>2, <3>3, <2>10
  <2>12. x = got
    BY <2>9, <2>11, <1>2, SeqEqual
  <2>13. IsPrefix(got, t)
    <3>1. Len(got) <= Len(t)
      BY <2>4, <2>7, <1>2
    <3>2. SubSeq(got, 1, Len(got)) = SubSeq(t, 1, Len(got))
      BY <2>10, <2>12, <1>2, <1>3
    <3> QED
      BY <3>1, <3>2 DEF IsPrefix
  <2>14. ASSUME off + Len(got) >= e PROVE got = t
    <3>1. n = m
      <4>1. off + n >= e /\ n <= m
        BY <2>4, <2>14, <1>2
      <4> QED
        BY <4>1, <2>3
    <3> QED
      BY <3>1, <2>7, <2>9, <1>2, SeqEqual
  <2> QED
    BY <2>13, <2>14
<1> QED
  BY <1>4, <1>5

(* and that readers read what was added.                                   *)
LEMMA ReadsFollow == IInv => ReadsTheFile
<1>1. SUFFICES ASSUME IInv, NEW r \in Readers, reads[r].pc # "closed", ~reads[r].broken
      PROVE LET s == reads[r]
                slice == Slice(s.file, s.slice[1], s.slice[2])
            IN /\ Size(s.stack[1].node) = Len(s.file)
               /\ IsPrefix(s.got, slice)
               /\ s.pc = "ended" => s.got = slice
  BY Zenon DEF ReadsTheFile
<1>2. PICK c : Content(c)
  BY <1>1, Zenon DEF IInv
<1>3. PICK s : s = reads[r]
  OBVIOUS
<1>4. PICK bs : bs = AddedBlocks
  OBVIOUS
<1>5. WellBuilt(bs, c) /\ Reading(s, bs, c) /\ s \in ReadRecord(bs)
  BY <1>2, <1>3, <1>4, StreamKnown, Zenon
<1>6. s.pc # "closed" /\ ~s.broken
  BY <1>1, <1>3
<1>7. s.stack # <<>> /\ AtFile(s, c) /\ Exact(s, c)
  BY <1>5, <1>6, Zenon DEF Reading
<1>8. s.stack[1] \in Frames(bs)
  BY <1>5, <1>7, StackIs
<1>9. Size(s.stack[1].node) = Len(s.file)
  <2>1. s.stack[1].node \in bs /\ c[s.stack[1].node] = s.file
    BY <1>7, <1>8 DEF Frames, AtFile
  <2>2. PICK b \in bs : b = s.stack[1].node
    BY <2>1, Zenon
  <2>3. Size(b) = Len(c[b])
    BY <1>5, SizeIsLength
  <2> QED
    BY <2>1, <2>2, <2>3
<1>10. s.file \in Seq(Nat) /\ s.slice \in Nat \X Nat /\ s.got \in Seq(Nat)
  BY <1>5 DEF ReadRecord
<1>11. PICK file \in Seq(Nat) : file = s.file
  BY <1>10, Zenon
<1>12. PICK got \in Seq(Nat) : got = s.got
  BY <1>10, Zenon
<1>13. PICK off \in Nat : off = s.slice[1]
  BY <1>10
<1>14. PICK count \in Nat : count = s.slice[2]
  BY <1>10
<1>15. PICK len \in Nat : len = Len(file)
  BY LenProperties, Zenon
<1>16. PICK e : e = s.end
  OBVIOUS
<1>17. e = LogicalEnd(s.slice, Len(s.file))
  BY <1>7, <1>16 DEF AtFile
<1>18. e = IF count < 1 THEN len ELSE Smaller(len, off + count)
  BY <1>11, <1>13, <1>14, <1>15, <1>17 DEF LogicalEnd
<1>19. e \in Nat /\ e <= len /\ e = IF count = 0 THEN len ELSE Smaller(len, off + count)
  BY <1>18 DEF Smaller
<1>20. PICK slice : slice = SubSeq(file, off + 1, e)
  OBVIOUS
<1>21. Slice(s.file, s.slice[1], s.slice[2]) = slice
  BY <1>11, <1>13, <1>14, <1>15, <1>19, <1>20 DEF Slice
<1>22. \A i \in 1 .. Len(got) : got[i] = file[off + i]
  BY <1>7, <1>11, <1>12, <1>13 DEF Exact
<1>23. Len(got) = 0 \/ off + Len(got) <= e
  BY <1>7, <1>12, <1>13, <1>16 DEF AtFile
<1>24. e <= Len(file)
  BY <1>15, <1>19
<1>25. IsPrefix(got, slice) /\ (off + Len(got) >= e => got = slice)
  <2>1. e \in Nat
    BY <1>19
  <2>2. /\ e <= Len(file) /\ (\A i \in 1 .. Len(got) : got[i] = file[off + i])
        /\ Len(got) = 0 \/ off + Len(got) <= e
        /\ slice = SubSeq(file, off + 1, e)
        => IsPrefix(got, slice) /\ (off + Len(got) >= e => got = slice)
    BY <2>1, ReadSoFar
  <2> QED
    BY <2>2, <1>20, <1>22, <1>23, <1>24, Zenon
<1>26. s.pc = "ended" => off + Len(got) >= e
  BY <1>7, <1>12, <1>13, <1>16 DEF AtFile
<1> QED
  BY <1>3, <1>9, <1>12, <1>21, <1>25, <1>26, Zenon

(* Every stream is as long as its file and what is read of it is the start *)
(* of the slice, all of it when it ends: for any file, chunk size, width   *)
(* of the tree, slice and buffers, unless a read has failed below the      *)
(* first level (ChunkedStream, SlicedStream).                              *)
THEOREM Reads == Spec => []ReadsTheFile
BY Inductive, ReadsFollow, PTL
=============================================================================
