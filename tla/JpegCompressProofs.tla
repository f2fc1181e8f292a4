-------------------------- MODULE JpegCompressProofs --------------------------
(***************************************************************************)
(* The compression object: whoever reads its streams has the tables they   *)
(* were coded with, and the tables the statistics passes make have a code  *)
(* for all that is coded with them (TablesSuffice), for all images and     *)
(* scripts, any portions the rows come in, and MCUs refused at any point.  *)
(***************************************************************************)
EXTENDS JpegCompress, WellFoundedInduction, TLAPS

-----------------------------------------------------------------------------
(* Induction, with the numbers of which something is true as a set.          *)
LEMMA LeastNumber ==
  ASSUME NEW S \in SUBSET Nat, S # {}
  PROVE  \E l \in S : \A y \in S : l <= y
<1> DEFINE R == {ss \in Nat \X Nat : ss[1] < ss[2]}
<1>1. IsWellFoundedOn(R, Nat)
  BY NatLessThanWellFounded DEF OpToRel
<1>2. PICK l \in S : \A y \in S : <<y, l>> \notin R
  <2>. HIDE DEF R
  <2>. QED BY <1>1, WFMin
<1>3. ASSUME NEW y \in S PROVE l <= y
  <2>1. l \in Nat /\ y \in Nat OBVIOUS
  <2>2. ~(y < l) BY <1>2, <2>1, Zenon
  <2>. QED BY <2>1, <2>2
<1>. QED BY <1>3

LEMMA Induction ==
  ASSUME NEW k \in Nat, NEW P, 0 \in P, \A j \in 1..k : j - 1 \in P => j \in P
  PROVE  \A j \in 0..k : j \in P
<1> DEFINE Others == {j \in 0..k : j \notin P}
<1>1. SUFFICES ASSUME Others # {} PROVE FALSE OBVIOUS
<1>2. PICK l \in Others : \A j \in Others : l <= j
  <2>1. Others \in SUBSET Nat OBVIOUS
  <2>. HIDE DEF Others
  <2>. QED BY <1>1, <2>1, LeastNumber
<1>3. l \in 1..k /\ l - 1 \in 0..k /\ l - 1 \notin Others BY <1>2
<1>. QED BY <1>2, <1>3

(* A nonempty set of numbers up to n has a greatest one, and Max is it.      *)
LEMMA Greatest ==
  ASSUME NEW n \in Nat, NEW S \in SUBSET (1 .. n), S # {}
  PROVE  Max(S) \in S /\ \A y \in S : y <= Max(S)
<1> DEFINE T == {n - y : y \in S}
<1>1. T \in SUBSET Nat /\ T # {}
  <2>1. \A y \in S : n - y \in Nat OBVIOUS
  <2>. QED BY <2>1
<1>2. PICK l \in T : \A y \in T : l <= y
  <2>. HIDE DEF T
  <2>. QED BY <1>1, LeastNumber
<1>3. PICK x \in S : l = n - x BY <1>2
<1>4. \A y \in S : x >= y
  <2>1. ASSUME NEW y \in S PROVE x >= y
    <3>1. n - y \in T OBVIOUS
    <3>. QED BY <1>2, <1>3, <3>1
  <2>. QED BY <2>1
<1>5. (CHOOSE z \in S : \A y \in S : z >= y) \in S
      /\ \A y \in S : (CHOOSE z \in S : \A y2 \in S : z >= y2) >= y
  BY <1>3, <1>4
<1>. QED BY <1>5 DEF Max

-----------------------------------------------------------------------------
(* Sequences.                                                              *)
IsSeq(s) == s \in Seq(ToSet(s))

LEMMA OfRange ==
  ASSUME NEW S, NEW s \in Seq(S)
  PROVE  IsSeq(s) /\ ToSet(s) \subseteq S
<1>1. Len(s) \in Nat /\ DOMAIN s = 1 .. Len(s) /\ s = [i \in 1 .. Len(s) |-> s[i]]
      /\ \A i \in 1 .. Len(s) : s[i] \in S
  OBVIOUS
<1> DEFINE R == ToSet(s)
<1>2. \A i \in 1 .. Len(s) : s[i] \in R BY <1>1 DEF ToSet
<1>3. R \subseteq S BY <1>1 DEF ToSet
<1>. HIDE DEF R
<1>4. s \in Seq(R) BY <1>1, <1>2
<1>. QED BY <1>3, <1>4 DEF IsSeq, R

LEMMA Concatenated ==
  ASSUME NEW s, NEW t, IsSeq(s), IsSeq(t)
  PROVE  /\ IsSeq(s \o t) /\ Len(s \o t) = Len(s) + Len(t)
         /\ DOMAIN s = 1 .. Len(s) /\ Len(s) \in Nat
         /\ DOMAIN t = 1 .. Len(t) /\ Len(t) \in Nat
         /\ DOMAIN (s \o t) = 1 .. Len(s) + Len(t)
         /\ \A i \in 1 .. Len(s) : (s \o t)[i] = s[i]
         /\ \A i \in 1 .. Len(t) : (s \o t)[Len(s) + i] = t[i]
         /\ ToSet(s \o t) = ToSet(s) \cup ToSet(t)
<1> DEFINE S == ToSet(s) \cup ToSet(t)
<1>1. s \in Seq(S) /\ t \in Seq(S)
  <2>1. ToSet(s) \subseteq S /\ ToSet(t) \subseteq S OBVIOUS
  <2>2. s \in Seq(ToSet(s)) /\ t \in Seq(ToSet(t)) BY DEF IsSeq
  <2>. HIDE DEF S
  <2>. QED BY <2>1, <2>2
<1>2. s \o t \in Seq(S) /\ Len(s \o t) = Len(s) + Len(t)
      /\ Len(s) \in Nat /\ Len(t) \in Nat
      /\ DOMAIN s = 1 .. Len(s) /\ DOMAIN t = 1 .. Len(t) /\ DOMAIN (s \o t) = 1 .. Len(s) + Len(t)
  <2>. HIDE DEF S
  <2>. QED BY <1>1
<1>3. \A i \in 1 .. Len(s) : (s \o t)[i] = s[i]
  <2>. HIDE DEF S
  <2>. QED BY <1>1
<1>4. \A i \in 1 .. Len(t) : (s \o t)[Len(s) + i] = t[i]
  <2>. HIDE DEF S
  <2>. QED BY <1>1, <1>2
<1>5. ToSet(s \o t) = ToSet(s) \cup ToSet(t)
  <2>1. ASSUME NEW x \in ToSet(s \o t) PROVE x \in ToSet(s) \cup ToSet(t)
    <3>1. PICK i \in 1 .. Len(s) + Len(t) : x = (s \o t)[i] BY <1>2, <2>1 DEF ToSet
    <3>2. CASE i <= Len(s)
      <4>1. i \in 1 .. Len(s) BY <1>2, <3>1, <3>2
      <4>2. x = s[i] /\ i \in DOMAIN s BY <1>2, <1>3, <3>1, <4>1
      <4>. QED BY <4>2 DEF ToSet
    <3>3. CASE i > Len(s)
      <4>1. i - Len(s) \in 1 .. Len(t) /\ Len(s) + (i - Len(s)) = i BY <1>2, <3>1, <3>3
      <4>2. x = t[i - Len(s)] /\ i - Len(s) \in DOMAIN t BY <1>2, <1>4, <3>1, <4>1
      <4>. QED BY <4>2 DEF ToSet
    <3>. QED BY <1>2, <3>1, <3>2, <3>3
  <2>2. ASSUME NEW i \in DOMAIN s PROVE s[i] \in ToSet(s \o t)
    <3>1. i \in DOMAIN (s \o t) /\ (s \o t)[i] = s[i] BY <1>2, <1>3
    <3>. QED BY <3>1 DEF ToSet
  <2>3. ASSUME NEW i \in DOMAIN t PROVE t[i] \in ToSet(s \o t)
    <3>1. Len(s) + i \in DOMAIN (s \o t) /\ (s \o t)[Len(s) + i] = t[i] BY <1>2, <1>4
    <3>. QED BY <3>1 DEF ToSet
  <2>. QED BY <2>1, <2>2, <2>3 DEF ToSet
<1>6. IsSeq(s \o t)
  <2>. HIDE DEF S
  <2>. QED BY <1>2, OfRange
<1>. QED BY <1>2, <1>3, <1>4, <1>5, <1>6

LEMMA Short ==
  /\ IsSeq(<<>>) /\ Len(<<>>) = 0 /\ ToSet(<<>>) = {}
  /\ \A x : IsSeq(<<x>>) /\ Len(<<x>>) = 1 /\ ToSet(<<x>>) = {x} /\ <<x>>[1] = x
<1>1. <<>> \in Seq({}) OBVIOUS
<1>2. ASSUME NEW x PROVE <<x>> \in Seq({x}) OBVIOUS
<1>3. ASSUME NEW x PROVE ToSet(<<x>>) = {x} BY DEF ToSet
<1>4. ToSet(<<>>) = {} /\ Len(<<>>) = 0 BY DEF ToSet
<1>5. ASSUME NEW x PROVE IsSeq(<<x>>) /\ Len(<<x>>) = 1 /\ <<x>>[1] = x
  <2>1. IsSeq(<<x>>)  BY <1>2, <1>3 DEF IsSeq
  <2>. QED BY <2>1
<1>6. IsSeq(<<>>) BY <1>1, <1>4 DEF IsSeq
<1>. QED BY <1>3, <1>4, <1>5, <1>6

(* FlattenSeq: the elements of its parts, and no others.                     *)
IsFlattened(f, seqs, n) ==
  f = [i \in 1 .. n |-> IF i = 1 THEN seqs[i] ELSE f[i - 1] \o seqs[i]]
LEMMA FlattenExists ==
  ASSUME NEW S, NEW seqs \in Seq(Seq(S))
  PROVE  \E f : IsFlattened(f, seqs, Len(seqs))
<1> DEFINE n == Len(seqs)
           P == {m \in 0 .. n : \E f : IsFlattened(f, seqs, m)}
<1>0. n \in Nat OBVIOUS
<1>1. 0 \in P
  <2> DEFINE f == [i \in 1 .. 0 |-> 0]
  <2>1. IsFlattened(f, seqs, 0) BY DEF IsFlattened
  <2>. QED BY <2>1, <1>0
<1>2. ASSUME NEW j \in 1 .. n, j - 1 \in P PROVE j \in P
  <2>1. PICK f : IsFlattened(f, seqs, j - 1) BY <1>2
  <2> DEFINE g == [i \in 1 .. j |-> IF i = j THEN (IF j = 1 THEN seqs[1] ELSE f[j - 1] \o seqs[j]) ELSE f[i]]
  <2>2. ASSUME NEW i \in 1 .. j PROVE g[i] = IF i = 1 THEN seqs[i] ELSE g[i - 1] \o seqs[i]
    <3>1. CASE i = j
      <4>1. CASE j = 1 BY <3>1, <4>1
      <4>2. CASE j # 1
        <5>1. j - 1 \in 1 .. j /\ j - 1 # j BY <4>2, <1>0
        <5>2. g[j - 1] = f[j - 1] BY <5>1
        <5>. QED BY <3>1, <4>2, <5>2
      <4>. QED BY <4>1, <4>2
    <3>2. CASE i # j
      <4>1. i \in 1 .. j - 1 BY <3>2, <1>0
      <4>2. g[i] = f[i] BY <3>2
      <4>3. f[i] = IF i = 1 THEN seqs[i] ELSE f[i - 1] \o seqs[i] BY <2>1, <4>1, Zenon DEF IsFlattened
      <4>4. i # 1 => g[i - 1] = f[i - 1] BY <4>1, <1>0
      <4>. QED BY <4>2, <4>3, <4>4
    <3>. QED BY <3>1, <3>2
  <2>3. g = [i \in 1 .. j |-> IF i = 1 THEN seqs[i] ELSE g[i - 1] \o seqs[i]]
    <3> DEFINE h == [i \in 1 .. j |-> IF i = 1 THEN seqs[i] ELSE g[i - 1] \o seqs[i]]
    <3>1. DOMAIN g = 1 .. j /\ DOMAIN h = 1 .. j OBVIOUS
    <3>2. \A i \in 1 .. j : g[i] = h[i] BY <2>2
    <3>3. g = [i \in 1 .. j |-> g[i]] /\ h = [i \in 1 .. j |-> h[i]] OBVIOUS
    <3>. HIDE DEF g, h
    <3>4. g = h BY <3>2, <3>3
    <3>. QED BY <3>4 DEF h
  <2>. HIDE DEF g
  <2>4. IsFlattened(g, seqs, j) BY <2>3, Zenon DEF IsFlattened
  <2>5. j \in 0 .. n OBVIOUS
  <2>. QED BY <2>4, <2>5, Zenon
<1>3. n \in P
  <2>1. \A j \in 0 .. n : j \in P
    <3>. HIDE DEF P, n
    <3>. QED BY <1>0, <1>1, <1>2, Induction
  <2>. QED BY <2>1, <1>0
<1>. QED BY <1>3

LEMMA Flattened ==
  ASSUME NEW S, NEW seqs \in Seq(Seq(S))
  PROVE  /\ FlattenSeq(seqs) \in Seq(S)
         /\ \A x : x \in ToSet(FlattenSeq(seqs)) <=> \E i \in DOMAIN seqs : x \in ToSet(seqs[i])
<1> DEFINE n == Len(seqs)
<1>0. n \in Nat /\ DOMAIN seqs = 1 .. n /\ \A i \in 1 .. n : seqs[i] \in Seq(S) OBVIOUS
<1>1. CASE n = 0
  <2>1. FlattenSeq(seqs) = seqs BY <1>1 DEF FlattenSeq
  <2>2. seqs = <<>> BY <1>1
  <2>. QED BY <2>1, <2>2 DEF ToSet
<1>2. CASE n # 0
  <2> DEFINE f == CHOOSE h : IsFlattened(h, seqs, n)
  <2>1. IsFlattened(f, seqs, n) BY FlattenExists
  <2>2. FlattenSeq(seqs) = f[n] BY <1>2 DEF FlattenSeq, IsFlattened
  <2>. HIDE DEF f
  <2> DEFINE Q == {m \in 0 .. n : m = 0 \/ (/\ f[m] \in Seq(S)
                     /\ \A x : x \in ToSet(f[m]) <=> \E i \in 1 .. m : x \in ToSet(seqs[i]))}
  <2>3. 0 \in Q BY <1>0
  <2>4. ASSUME NEW j \in 1 .. n, j - 1 \in Q PROVE j \in Q
    <3>0. j \in 1 .. n /\ j \in 0 .. n BY <1>0
    <3>1. CASE j = 1
      <4>1. f[1] = seqs[1] BY <2>1, <3>0, <3>1, Zenon DEF IsFlattened
      <4>2. 1 .. j = {1} BY <3>1
      <4>3. \A x : x \in ToSet(f[1]) <=> \E i \in 1 .. j : x \in ToSet(seqs[i]) BY <4>1, <4>2
      <4>. QED BY <3>0, <3>1, <4>1, <4>3, <1>0
    <3>2. CASE j # 1
      <4>1. f[j] = f[j - 1] \o seqs[j] BY <2>1, <3>0, <3>2, Zenon DEF IsFlattened
      <4>2. /\ j - 1 # 0 /\ f[j - 1] \in Seq(S)
            /\ \A x : x \in ToSet(f[j - 1]) <=> \E i \in 1 .. j - 1 : x \in ToSet(seqs[i])
        BY <2>4, <3>2
      <4>3. seqs[j] \in Seq(S) BY <1>0
      <4> DEFINE a == f[j - 1]
                 b == seqs[j]
      <4>4. IsSeq(a) /\ IsSeq(b) BY <4>2, <4>3, OfRange
      <4>5. a \o b \in Seq(S) BY <4>2, <4>3
      <4>6. ToSet(a \o b) = ToSet(a) \cup ToSet(b)
        <5>. HIDE DEF a, b
        <5>. QED BY <4>4, Concatenated
      <4>7. \A i : i \in 1 .. j <=> i \in 1 .. j - 1 \/ i = j BY <3>0
      <4>8. ASSUME NEW x PROVE x \in ToSet(f[j]) <=> \E i \in 1 .. j : x \in ToSet(seqs[i])
        <5>1. x \in ToSet(f[j]) <=> x \in ToSet(f[j - 1]) \/ x \in ToSet(seqs[j]) BY <4>1, <4>6
        <5>. QED BY <4>2, <4>7, <5>1, Zenon
      <4>. QED BY <3>0, <4>1, <4>5, <4>8
    <3>. QED BY <3>1, <3>2
  <2>5. n \in Q
    <3>1. \A j \in 0 .. n : j \in Q
      <4>. HIDE DEF Q, n
      <4>. QED BY <1>0, <2>3, <2>4, Induction
    <3>2. n \in 0 .. n BY <1>0
    <3>. HIDE DEF Q, n
    <3>. QED BY <3>1, <3>2
  <2>. QED BY <1>0, <1>2, <2>2, <2>5
<1>. QED BY <1>1, <1>2

-----------------------------------------------------------------------------
(* Tables and what a decoder learns of them.                                 *)
IsTables(t) ==
  /\ t = [c \in Classes |-> t[c]]
  /\ \A c \in Classes : t[c] = [n \in Slots |-> t[c][n]]
  /\ \A c \in Classes, n \in Slots :
       /\ t[c][n] = [val |-> t[c][n].val, sent |-> t[c][n].sent]
       /\ t[c][n].sent \in BOOLEAN

LEMMA LearnTables ==
  ASSUME NEW k, NEW toks, IsTables(k)
  PROVE  /\ IsTables(Learn(k, toks))
         /\ \A c \in Classes, n \in Slots :
              LET D == {i \in DOMAIN toks : Defines(toks[i], c, n)}
              IN Learn(k, toks)[c][n].val = IF D = {} THEN k[c][n].val ELSE toks[Max(D)].val
<1> DEFINE D(c, n) == {i \in DOMAIN toks : Defines(toks[i], c, n)}
           L == Learn(k, toks)
<1>1. L = [c \in Classes |-> [n \in Slots |->
             IF D(c, n) = {} THEN k[c][n] ELSE [k[c][n] EXCEPT !.val = toks[Max(D(c, n))].val]]]
  BY DEF Learn
<1>. HIDE DEF D, L
<1>2. ASSUME NEW c \in Classes, NEW n \in Slots
      PROVE  /\ L[c][n] = [val |-> L[c][n].val, sent |-> k[c][n].sent]
             /\ L[c][n].val = IF D(c, n) = {} THEN k[c][n].val ELSE toks[Max(D(c, n))].val
  <2>1. L[c][n] = IF D(c, n) = {} THEN k[c][n] ELSE [k[c][n] EXCEPT !.val = toks[Max(D(c, n))].val]
    BY <1>1
  <2>2. k[c][n] = [val |-> k[c][n].val, sent |-> k[c][n].sent] BY DEF IsTables
  <2>. QED BY <2>1, <2>2
<1>3. L = [c \in Classes |-> L[c]] BY <1>1
<1>4. \A c \in Classes : L[c] = [n \in Slots |-> L[c][n]] BY <1>1
<1>5. \A c \in Classes, n \in Slots : k[c][n].sent \in BOOLEAN BY DEF IsTables
<1>6. \A c \in Classes, n \in Slots : L[c][n].sent = k[c][n].sent
  <2>1. ASSUME NEW c \in Classes, NEW n \in Slots PROVE L[c][n].sent = k[c][n].sent
    <3>1. L[c][n] = [val |-> L[c][n].val, sent |-> k[c][n].sent] BY <1>2
    <3>. QED BY <3>1
  <2>. QED BY <2>1
<1>7. IsTables(L) BY <1>2, <1>3, <1>4, <1>5, <1>6 DEF IsTables
<1>. QED BY <1>2, <1>7 DEF D, L

(* What does not define a slot leaves it; what defines it gives it its value. *)
LEMMA LearnMore ==
  ASSUME NEW k, IsTables(k), NEW s, IsSeq(s), NEW t, IsSeq(t), NEW c \in Classes, NEW n \in Slots
  PROVE  /\ (\A x \in ToSet(t) : ~Defines(x, c, n))
              => Learn(k, s \o t)[c][n].val = Learn(k, s)[c][n].val
         /\ (\E x \in ToSet(t) : Defines(x, c, n))
              => \E x \in ToSet(t) : Defines(x, c, n) /\ Learn(k, s \o t)[c][n].val = x.val
<1> DEFINE u == s \o t
           D(x) == {i \in DOMAIN x : Defines(x[i], c, n)}
           val(x) == Learn(k, x)[c][n].val
<1>1. /\ IsSeq(u) /\ Len(s) \in Nat /\ Len(t) \in Nat /\ DOMAIN s = 1 .. Len(s) /\ DOMAIN t = 1 .. Len(t)
      /\ DOMAIN u = 1 .. Len(s) + Len(t)
      /\ \A i \in 1 .. Len(s) : u[i] = s[i]
      /\ \A i \in 1 .. Len(t) : u[Len(s) + i] = t[i]
  BY Concatenated
<1>2. \A x : val(x) = IF D(x) = {} THEN k[c][n].val ELSE x[Max(D(x))].val BY LearnTables
<1>. HIDE DEF u, val
<1>3. ASSUME \A x \in ToSet(t) : ~Defines(x, c, n)
      PROVE  val(u) = val(s)
  <2>1. D(u) = D(s)
    <3>1. ASSUME NEW i \in DOMAIN u, Defines(u[i], c, n) PROVE i \in DOMAIN s
      <4>1. CASE i > Len(s)
        <5>1. i - Len(s) \in 1 .. Len(t) /\ Len(s) + (i - Len(s)) = i BY <1>1, <4>1
        <5>2. u[i] = t[i - Len(s)] BY <1>1, <5>1
        <5>3. t[i - Len(s)] \in ToSet(t) BY <1>1, <5>1 DEF ToSet
        <5>. QED BY <1>3, <3>1, <5>2, <5>3
      <4>. QED BY <1>1, <4>1
    <3>2. \A i \in DOMAIN s : i \in DOMAIN u /\ u[i] = s[i] BY <1>1
    <3>. QED BY <3>1, <3>2
  <2>2. D(s) # {} => Max(D(s)) \in D(s)
    <3>1. D(s) \in SUBSET (1 .. Len(s)) BY <1>1
    <3>. HIDE DEF D
    <3>. QED BY <1>1, <3>1, Greatest
  <2>3. D(s) # {} => u[Max(D(s))] = s[Max(D(s))] BY <1>1, <2>2
  <2>. HIDE DEF D
  <2>. QED BY <1>2, <2>1, <2>3
<1>4. ASSUME \E x \in ToSet(t) : Defines(x, c, n)
      PROVE  \E x \in ToSet(t) : Defines(x, c, n) /\ val(u) = x.val
  <2>1. PICK i \in 1 .. Len(t) : Defines(t[i], c, n) BY <1>1, <1>4 DEF ToSet
  <2>2. Len(s) + i \in D(u) BY <1>1, <2>1
  <2>3. Max(D(u)) \in D(u) /\ Len(s) + i <= Max(D(u))
    <3>1. D(u) \in SUBSET (1 .. Len(s) + Len(t)) BY <1>1
    <3>2. Len(s) + Len(t) \in Nat BY <1>1
    <3>. HIDE DEF D
    <3>. QED BY <2>2, <3>1, <3>2, Greatest
  <2> DEFINE m == Max(D(u))
  <2>4. m \in 1 .. Len(s) + Len(t) /\ Defines(u[m], c, n) /\ m > Len(s) BY <1>1, <2>1, <2>3
  <2>5. \E x \in ToSet(t) : Defines(x, c, n) /\ u[m] = x
    <3>. HIDE DEF m
    <3>1. m - Len(s) \in 1 .. Len(t) /\ Len(s) + (m - Len(s)) = m BY <1>1, <2>4
    <3>2. u[m] = t[m - Len(s)] BY <1>1, <3>1
    <3>3. t[m - Len(s)] \in ToSet(t) BY <1>1, <3>1 DEF ToSet
    <3>. QED BY <2>4, <3>2, <3>3
  <2>6. D(u) # {} BY <2>2
  <2>. HIDE DEF D
  <2>. QED BY <1>2, <2>5, <2>6 DEF m
<1>. QED BY <1>3, <1>4 DEF u, val

LEMMA LearnNothing ==
  ASSUME NEW k, IsTables(k), NEW c \in Classes, NEW n \in Slots
  PROVE  Learn(k, <<>>)[c][n].val = k[c][n].val
<1>1. {i \in DOMAIN <<>> : Defines(<<>>[i], c, n)} = {} OBVIOUS
<1>. QED BY <1>1, LearnTables

-----------------------------------------------------------------------------
(* What the marker writer emits.  Every table that comes out has the value of *)
(* its slot, and only what came out is marked as sent.                        *)
IsTable(tok) == tok.t \in {"DQT", "DHT"}
Emits(tabs, toks, tabs2) ==
  /\ IsTables(tabs) /\ IsSeq(toks) /\ IsTables(tabs2)
  /\ \A x \in ToSet(toks) : x.t # "MCU" /\ (IsTable(x) => /\ x.class \in Classes /\ x.n \in Slots
                                                        /\ x.val = tabs[x.class][x.n].val)
  /\ \A c \in Classes, n \in Slots :
       /\ tabs2[c][n].val = tabs[c][n].val
       /\ tabs[c][n].sent => tabs2[c][n].sent
       /\ tabs2[c][n].sent => tabs[c][n].sent \/ (tabs[c][n].val # NullTable
                                                /\ \E x \in ToSet(toks) : Defines(x, c, n))

(* What the receiver knows of the tables marked as sent.                      *)
Agree(tabs, k, toks) ==
  \A c \in Classes, n \in Slots : tabs[c][n].sent => Learn(k, toks)[c][n].val = tabs[c][n].val

LEMMA EmitsTwice ==
  ASSUME NEW a, NEW b, NEW c, NEW s, NEW t, Emits(a, s, b), Emits(b, t, c)
  PROVE  Emits(a, s \o t, c)
<1>1. IsSeq(s \o t) /\ ToSet(s \o t) = ToSet(s) \cup ToSet(t) BY Concatenated DEF Emits
<1>2. ASSUME NEW x \in ToSet(s \o t)
      PROVE  x.t # "MCU" /\ (IsTable(x) => /\ x.class \in Classes /\ x.n \in Slots
                                            /\ x.val = a[x.class][x.n].val)
  <2>1. CASE x \in ToSet(s) BY <2>1 DEF Emits
  <2>2. CASE x \in ToSet(t)
    <3>1. x.t # "MCU" /\ (IsTable(x) => /\ x.class \in Classes /\ x.n \in Slots
                                         /\ x.val = b[x.class][x.n].val) BY <2>2 DEF Emits
    <3>. QED BY <3>1 DEF Emits
  <2>. QED BY <1>1, <2>1, <2>2
<1>3. ASSUME NEW d \in Classes, NEW n \in Slots
      PROVE  /\ c[d][n].val = a[d][n].val
             /\ a[d][n].sent => c[d][n].sent
             /\ c[d][n].sent => a[d][n].sent \/ (a[d][n].val # NullTable
                                                /\ \E x \in ToSet(s \o t) : Defines(x, d, n))
  BY <1>1 DEF Emits
<1>. QED BY <1>1, <1>2, <1>3 DEF Emits

LEMMA AgreeMore ==
  ASSUME NEW k, IsTables(k), NEW s, IsSeq(s), NEW tabs, NEW tabs2, NEW t,
         Agree(tabs, k, s), Emits(tabs, t, tabs2)
  PROVE  Agree(tabs2, k, s \o t)
<1> SUFFICES ASSUME NEW c \in Classes, NEW n \in Slots, tabs2[c][n].sent
             PROVE  Learn(k, s \o t)[c][n].val = tabs2[c][n].val
  BY DEF Agree
<1>1. \A x \in ToSet(t) : Defines(x, c, n) => x.val = tabs[c][n].val BY DEF Emits, Defines, IsTable
<1>2. IsSeq(t) /\ tabs2[c][n].val = tabs[c][n].val BY DEF Emits
<1>3. CASE \E x \in ToSet(t) : Defines(x, c, n)
  <2>1. \E x \in ToSet(t) : Defines(x, c, n) /\ Learn(k, s \o t)[c][n].val = x.val
    BY <1>2, <1>3, LearnMore
  <2>. QED BY <1>1, <1>2, <2>1
<1>4. CASE ~\E x \in ToSet(t) : Defines(x, c, n)
  <2>1. tabs[c][n].sent BY <1>4 DEF Emits
  <2>2. Learn(k, s \o t)[c][n].val = Learn(k, s)[c][n].val BY <1>2, <1>4, LearnMore
  <2>. QED BY <1>2, <2>1, <2>2 DEF Agree
<1>. QED BY <1>3, <1>4

IsWriter(w) ==
  /\ w = [toks |-> w.toks, tables |-> w.tables, error |-> w.error]
  /\ IsSeq(w.toks) /\ IsTables(w.tables)
Wrote(w, v) ==
  /\ IsWriter(w) /\ IsWriter(v)
  /\ \E t : v.toks = w.toks \o t /\ Emits(w.tables, t, v.tables)

LEMMA WroteNothing == ASSUME NEW w, IsWriter(w) PROVE Wrote(w, w)
<1>1. w.toks = w.toks \o <<>> BY DEF IsWriter, IsSeq
<1>2. Emits(w.tables, <<>>, w.tables) BY Short DEF IsWriter, Emits
<1>. QED BY <1>1, <1>2 DEF Wrote

LEMMA WroteTwice == ASSUME NEW a, NEW b, NEW c, Wrote(a, b), Wrote(b, c) PROVE Wrote(a, c)
<1>1. PICK s : b.toks = a.toks \o s /\ Emits(a.tables, s, b.tables) BY DEF Wrote
<1>2. PICK t : c.toks = b.toks \o t /\ Emits(b.tables, t, c.tables) BY DEF Wrote
<1>3. Emits(a.tables, s \o t, c.tables) BY <1>1, <1>2, EmitsTwice
<1>4. c.toks = a.toks \o (s \o t)
  <2> DEFINE A == a.toks
             S == ToSet(A) \cup ToSet(s) \cup ToSet(t)
  <2>1. IsSeq(A) /\ IsSeq(s) /\ IsSeq(t) BY <1>1, <1>2 DEF Wrote, IsWriter, Emits
  <2>2. ToSet(A) \subseteq S /\ ToSet(s) \subseteq S /\ ToSet(t) \subseteq S OBVIOUS
  <2>3. A \in Seq(ToSet(A)) /\ s \in Seq(ToSet(s)) /\ t \in Seq(ToSet(t)) BY <2>1 DEF IsSeq
  <2>. HIDE DEF S, A
  <2>4. A \in Seq(S) /\ s \in Seq(S) /\ t \in Seq(S) BY <2>2, <2>3
  <2>5. (A \o s) \o t = A \o (s \o t) BY <2>4
  <2>. QED BY <1>1, <1>2, <2>5 DEF A
<1>. QED BY <1>3, <1>4 DEF Wrote

LEMMA Appended == ASSUME NEW s, IsSeq(s), NEW x PROVE Append(s, x) = s \o <<x>>
<1> DEFINE S == ToSet(s) \cup {x}
<1>1. s \in Seq(ToSet(s)) /\ ToSet(s) \subseteq S /\ x \in S BY DEF IsSeq
<1>. HIDE DEF S
<1>2. s \in Seq(S) /\ x \in S BY <1>1
<1>. QED BY <1>2

LEMMA MarkerWritten ==
  ASSUME NEW w, IsWriter(w), NEW tok, tok.t \notin {"MCU", "DQT", "DHT"}
  PROVE  /\ Wrote(w, emit_marker(w, tok))
         /\ emit_marker(w, tok).tables = w.tables /\ emit_marker(w, tok).error = w.error
<1> DEFINE v == emit_marker(w, tok)
<1>1. v = [toks |-> w.toks \o <<tok>>, tables |-> w.tables, error |-> w.error]
  <2>1. Append(w.toks, tok) = w.toks \o <<tok>> BY Appended DEF IsWriter
  <2>. QED BY <2>1, SMTT(30) DEF emit_marker, IsWriter
<1>2. IsSeq(<<tok>>) /\ ToSet(<<tok>>) = {tok} BY Short
<1>3. IsSeq(w.toks \o <<tok>>) BY <1>2, Concatenated DEF IsWriter
<1>4. Emits(w.tables, <<tok>>, w.tables) BY <1>2 DEF Emits, IsWriter, IsTable
<1>5. IsWriter(v) BY <1>1, <1>3 DEF IsWriter
<1>6. v.toks = w.toks \o <<tok>> /\ v.tables = w.tables /\ v.error = w.error BY <1>1
<1>. HIDE DEF v
<1>7. Wrote(w, v) BY <1>4, <1>5, <1>6 DEF Wrote
<1>. QED BY <1>6, <1>7 DEF v

Named == Classes \X Slots
LEMMA TablesWritten ==
  ASSUME NEW w, IsWriter(w), NEW list \in Seq(Named)
  PROVE  LET v == emit_tables(w, list)
         IN /\ Wrote(w, v)
            /\ v.error = NoError =>
                 w.error = NoError /\ \A e \in ToSet(list) : v.tables[e[1]][e[2]].sent
<1> DEFINE v == emit_tables(w, list)
           T(e) == w.tables[e[1]][e[2]]
           Missing == \E i \in DOMAIN list : T(list[i]).val = NullTable
<1>1. CASE Missing
  <2>1. v = [toks |-> w.toks, tables |-> w.tables, error |-> "NO_TABLE"]
    <3>1. v = [w EXCEPT !.error = "NO_TABLE"] BY <1>1 DEF emit_tables
    <3>. QED BY <3>1 DEF IsWriter
  <2>2. v.error # NoError BY <2>1 DEF NoError
  <2>3. v.toks = w.toks /\ v.tables = w.tables BY <2>1
  <2>4. IsWriter(v) BY <2>1 DEF IsWriter
  <2>5. Wrote(w, w) BY WroteNothing
  <2>. HIDE DEF v
  <2>6. Wrote(w, v) BY <2>3, <2>4, <2>5 DEF Wrote
  <2>. QED BY <2>2, <2>6 DEF v
<1>2. CASE ~Missing
  <2> DEFINE TableToken(e) == [t |-> IF e[1] = "q" THEN "DQT" ELSE "DHT", class |-> e[1], n |-> e[2], val |-> T(e).val]
             TT == {TableToken(e) : e \in Named}
             fresh == {i \in DOMAIN list : ~T(list[i]).sent /\ \A j \in 1 .. i - 1 : list[j] # list[i]}
             tokens == [i \in DOMAIN list |-> IF i \notin fresh THEN <<>> ELSE <<TableToken(list[i])>>]
             named == {list[i] : i \in DOMAIN list}
             t == FlattenSeq(tokens)
             tabs == [class \in Classes |-> [n \in Slots |->
                       IF <<class, n>> \in named THEN [w.tables[class][n] EXCEPT !.sent = TRUE]
                       ELSE w.tables[class][n]]]
  <2>0. Len(list) \in Nat /\ DOMAIN list = 1 .. Len(list) /\ \A i \in DOMAIN list : list[i] \in Named OBVIOUS
  <2>1. v = [toks |-> w.toks \o t, tables |-> tabs, error |-> w.error]
    <3>1. v = [w EXCEPT !.toks = w.toks \o t, !.tables = tabs] BY <1>2 DEF emit_tables
    <3>. QED BY <3>1 DEF IsWriter
  <2>2. tokens \in Seq(Seq(TT))
    <3>1. \A i \in 1 .. Len(list) : tokens[i] \in Seq(TT)
      <4>1. ASSUME NEW i \in 1 .. Len(list) PROVE tokens[i] \in Seq(TT)
        <5>1. TableToken(list[i]) \in TT BY <2>0
        <5>. HIDE DEF TT, TableToken, fresh
        <5>2. tokens[i] = IF i \notin fresh THEN <<>> ELSE <<TableToken(list[i])>> BY <2>0
        <5>3. <<>> \in Seq(TT) /\ <<TableToken(list[i])>> \in Seq(TT) BY <5>1
        <5>. QED BY <5>2, <5>3
      <4>. QED BY <4>1
    <3>2. tokens = [i \in 1 .. Len(list) |-> tokens[i]] BY <2>0
    <3>. HIDE DEF tokens, TT
    <3>. QED BY <2>0, <3>1, <3>2
  <2>3. IsSeq(t) /\ \A x : x \in ToSet(t) <=> \E i \in DOMAIN list : i \in fresh /\ x = TableToken(list[i])
    <3>1. t \in Seq(TT) /\ \A x : x \in ToSet(t) <=> \E i \in DOMAIN tokens : x \in ToSet(tokens[i])
      <4>. HIDE DEF tokens, TT
      <4>. QED BY <2>2, Flattened
    <3>2. DOMAIN tokens = DOMAIN list OBVIOUS
    <3>3. \A i \in DOMAIN list : ToSet(tokens[i]) = IF i \notin fresh THEN {} ELSE {TableToken(list[i])}
      <4>. HIDE DEF TableToken, fresh
      <4>. QED BY Short
    <3>4. IsSeq(t)
      <4>. HIDE DEF t, TT
      <4>. QED BY <3>1, OfRange
    <3>. HIDE DEF tokens, TT, t, TableToken, fresh
    <3>. QED BY <3>1, <3>2, <3>3, <3>4
  <2>4. ASSUME NEW i \in DOMAIN list, ~T(list[i]).sent
        PROVE  \E x \in ToSet(t) : x = TableToken(list[i])
    <3> DEFINE S == {j \in DOMAIN list : list[j] = list[i]}
    <3>1. S \in SUBSET Nat /\ i \in S BY <2>0
    <3>2. PICK j \in S : \A y \in S : j <= y
      <4>. HIDE DEF S
      <4>. QED BY <3>1, LeastNumber
    <3>3. j \in DOMAIN list /\ list[j] = list[i] OBVIOUS
    <3>4. \A h \in 1 .. j - 1 : list[h] # list[j]
      <4>1. ASSUME NEW h \in 1 .. j - 1, list[h] = list[j] PROVE FALSE
        <5>1. h \in DOMAIN list BY <2>0, <3>3
        <5>2. h \in S BY <5>1, <4>1, <3>3
        <5>3. j <= h /\ h \in Nat /\ j \in Nat BY <3>2, <5>2, <2>0
        <5>. QED BY <5>3
      <4>. QED BY <4>1
    <3>5. j \in fresh BY <2>4, <3>3, <3>4
    <3>. HIDE DEF fresh, TableToken, t, S
    <3>. QED BY <2>3, <3>3, <3>5
  <2>5. ASSUME NEW c \in Classes, NEW n \in Slots
        PROVE  /\ tabs[c][n] = [val |-> tabs[c][n].val, sent |-> tabs[c][n].sent]
               /\ tabs[c][n].val = w.tables[c][n].val
               /\ tabs[c][n].sent \in BOOLEAN
               /\ <<c, n>> \in named => tabs[c][n].sent
               /\ <<c, n>> \notin named => tabs[c][n].sent = w.tables[c][n].sent
    <3>1. w.tables[c][n] = [val |-> w.tables[c][n].val, sent |-> w.tables[c][n].sent] /\ w.tables[c][n].sent \in BOOLEAN
      BY DEF IsWriter, IsTables
    <3>2. tabs[c][n] = IF <<c, n>> \in named THEN [w.tables[c][n] EXCEPT !.sent = TRUE] ELSE w.tables[c][n]
      OBVIOUS
    <3>. HIDE DEF tabs, named
    <3>3. CASE <<c, n>> \in named BY <3>1, <3>2, <3>3
    <3>4. CASE <<c, n>> \notin named BY <3>1, <3>2, <3>4
    <3>. QED BY <3>3, <3>4
  <2>6. IsTables(tabs)
    <3>1. tabs = [c \in Classes |-> tabs[c]] /\ \A c \in Classes : tabs[c] = [n \in Slots |-> tabs[c][n]] OBVIOUS
    <3>. HIDE DEF tabs, named
    <3>. QED BY <2>5, <3>1 DEF IsTables
  <2>7. Emits(w.tables, t, tabs)
    <3>1. ASSUME NEW x \in ToSet(t)
          PROVE  x.t # "MCU" /\ x.class \in Classes /\ x.n \in Slots /\ x.val = w.tables[x.class][x.n].val
      <4>1. PICK i \in DOMAIN list : i \in fresh /\ x = TableToken(list[i])
        <5>. HIDE DEF TableToken, t, fresh
        <5>. QED BY <2>3
      <4>2. list[i] \in Named BY <2>0
      <4>. QED BY <4>1, <4>2 DEF Named
    <3>2. ASSUME NEW c \in Classes, NEW n \in Slots
          PROVE  /\ tabs[c][n].val = w.tables[c][n].val
                 /\ w.tables[c][n].sent => tabs[c][n].sent
                 /\ tabs[c][n].sent => w.tables[c][n].sent \/ (w.tables[c][n].val # NullTable
                                                        /\ \E x \in ToSet(t) : Defines(x, c, n))
      <4>1. /\ tabs[c][n].val = w.tables[c][n].val
            /\ <<c, n>> \in named => tabs[c][n].sent
            /\ <<c, n>> \notin named => tabs[c][n].sent = w.tables[c][n].sent
        <5>. HIDE DEF tabs, named
        <5>. QED BY <2>5
      <4>2. ASSUME <<c, n>> \in named, ~w.tables[c][n].sent
            PROVE  w.tables[c][n].val # NullTable /\ \E x \in ToSet(t) : Defines(x, c, n)
        <5>1. PICK i \in DOMAIN list : list[i] = <<c, n>> BY <4>2
        <5>2. T(list[i]) = w.tables[c][n] BY <5>1
        <5>3. w.tables[c][n].val # NullTable BY <1>2, <5>2
        <5>4. \E x \in ToSet(t) : x = TableToken(list[i]) 
          <6>. HIDE DEF t, TableToken
          <6>. QED BY <2>4, <4>2, <5>2
        <5>5. Defines(TableToken(list[i]), c, n) BY <5>1 DEF Defines
        <5>. HIDE DEF t, TableToken
        <5>. QED BY <5>3, <5>4, <5>5
      <4>. HIDE DEF tabs, named, t
      <4>. QED BY <4>1, <4>2, <2>5
    <3>3. IsTables(w.tables) BY DEF IsWriter
    <3>. HIDE DEF tabs, t
    <3>. QED BY <2>3, <2>6, <3>1, <3>2, <3>3 DEF Emits, IsTable
  <2>8. IsSeq(w.toks \o t)
    <3>. HIDE DEF t
    <3>. QED BY <2>3, Concatenated DEF IsWriter
  <2>9. \A e \in ToSet(list) : tabs[e[1]][e[2]].sent
    <3>1. ASSUME NEW i \in DOMAIN list PROVE tabs[list[i][1]][list[i][2]].sent
      <4>1. list[i] = <<list[i][1], list[i][2]>> /\ list[i][1] \in Classes /\ list[i][2] \in Slots
        BY <2>0 DEF Named
      <4> DEFINE c == list[i][1]
                 n == list[i][2]
      <4>2. <<c, n>> \in named BY <4>1
      <4>3. c \in Classes /\ n \in Slots BY <4>1
      <4>. HIDE DEF tabs, named, c, n
      <4>4. tabs[c][n].sent BY <2>5, <4>2, <4>3
      <4>. QED BY <4>4 DEF c, n
    <3>. QED BY <3>1 DEF ToSet
  <2>10. v.toks = w.toks \o t /\ v.tables = tabs /\ v.error = w.error
         /\ v = [toks |-> v.toks, tables |-> v.tables, error |-> v.error]
    <3>. HIDE DEF t, tabs
    <3>. QED BY <2>1
  <2>. HIDE DEF v, tabs, t, named
  <2>11. IsWriter(v) BY <2>6, <2>8, <2>10 DEF IsWriter
  <2>12. Wrote(w, v) BY <2>7, <2>10, <2>11 DEF Wrote
  <2>13. Wrote(w, v) /\ (v.error = NoError => w.error = NoError /\ \A e \in ToSet(list) : v.tables[e[1]][e[2]].sent)
    BY <2>9, <2>10, <2>12
  <2>. QED BY <2>13 DEF v
<1>. QED BY <1>1, <1>2

(* The marker routines.                                                      *)
LEMMA NewWriter ==
  ASSUME NEW tabs, IsTables(tabs)
  PROVE  IsWriter(Writer(tabs)) /\ Writer(tabs).toks = <<>> /\ Writer(tabs).tables = tabs
         /\ Writer(tabs).error = NoError
BY Short DEF Writer, IsWriter

(* What a writer that began with nothing has written.                        *)
LEMMA WrittenAll ==
  ASSUME NEW tabs, IsTables(tabs), NEW v, Wrote(Writer(tabs), v)
  PROVE  Emits(tabs, v.toks, v.tables) /\ IsSeq(v.toks) /\ IsTables(v.tables) /\ IsWriter(v)
<1>1. PICK t : v.toks = <<>> \o t /\ Emits(tabs, t, v.tables) BY NewWriter DEF Wrote
<1>2. <<>> \o t = t
  <2>1. IsSeq(t) BY <1>1 DEF Emits
  <2>. QED BY <2>1 DEF IsSeq
<1>. QED BY <1>1, <1>2 DEF Emits, Wrote

LEMMA FileHeaderWritten ==
  ASSUME NEW tabs, IsTables(tabs), NEW im
  PROVE  LET v == write_file_header(Writer(tabs), im)
         IN Wrote(Writer(tabs), v) /\ v.tables = tabs
<1> DEFINE w == Writer(tabs)
           soi == emit_marker(w, [t |-> "SOI"])
           jfif == IF im.jfif THEN emit_marker(soi, [t |-> "APP0"]) ELSE soi
           tr == CASE im.jpeg_color_space = "YCbCr" -> 1
                   [] im.jpeg_color_space = "YCCK" -> 2
                   [] OTHER -> 0
           tok == [t |-> "APP14", transform |-> tr]
           v == IF im.adobe THEN emit_marker(jfif, tok) ELSE jfif
<1>0. write_file_header(w, im) = v BY DEF write_file_header, emit_adobe_app14
<1>1. IsWriter(w) /\ w.tables = tabs BY NewWriter
<1>2. Wrote(w, soi) /\ soi.tables = tabs
  <2> DEFINE k == [t |-> "SOI"]
  <2>1. k.t \notin {"MCU", "DQT", "DHT"} OBVIOUS
  <2>. HIDE DEF k, w
  <2>2. Wrote(w, emit_marker(w, k)) /\ emit_marker(w, k).tables = w.tables BY <1>1, <2>1, MarkerWritten
  <2>. QED BY <1>1, <2>2 DEF k
<1>. HIDE DEF w, soi
<1>3. Wrote(soi, jfif) /\ jfif.tables = tabs
  <2> DEFINE k == [t |-> "APP0"]
  <2>1. k.t \notin {"MCU", "DQT", "DHT"} OBVIOUS
  <2>2. IsWriter(soi) BY <1>2 DEF Wrote
  <2>. HIDE DEF k
  <2>3. Wrote(soi, emit_marker(soi, k)) /\ emit_marker(soi, k).tables = soi.tables BY <2>1, <2>2, MarkerWritten
  <2>4. Wrote(soi, soi) BY <2>2, WroteNothing
  <2>. QED BY <1>2, <2>3, <2>4 DEF k
<1>. HIDE DEF jfif
<1>4. Wrote(jfif, v) /\ v.tables = tabs
  <2>1. tok.t \notin {"MCU", "DQT", "DHT"} OBVIOUS
  <2>2. IsWriter(jfif) BY <1>3 DEF Wrote
  <2>. HIDE DEF tok
  <2>3. Wrote(jfif, emit_marker(jfif, tok)) /\ emit_marker(jfif, tok).tables = jfif.tables BY <2>1, <2>2, MarkerWritten
  <2>4. Wrote(jfif, jfif) BY <2>2, WroteNothing
  <2>. QED BY <1>3, <2>3, <2>4
<1>. HIDE DEF v
<1>5. Wrote(w, v) BY <1>2, <1>3, <1>4, WroteTwice
<1>. QED BY <1>0, <1>4, <1>5 DEF w

LEMMA ComponentTables ==
  ASSUME NEW im, WellFormed(im)
  PROVE  /\ im.comp_info \in Seq([id : Nat, h : Int, v : Int, quant : Slots, dc : Slots, ac : Slots])
         /\ Len(im.comp_info) \in Nat /\ DOMAIN im.comp_info = 1 .. Len(im.comp_info)
         /\ \A c \in DOMAIN im.comp_info :
              /\ im.comp_info[c].quant \in Slots /\ im.comp_info[c].dc \in Slots /\ im.comp_info[c].ac \in Slots
              /\ im.comp_info[c].v \in Int /\ im.comp_info[c].h \in Int
<1> DEFINE R == [id : Nat, h : Int, v : Int, quant : Slots, dc : Slots, ac : Slots]
           s == im.comp_info
<1>1. s \in Seq(R) BY DEF WellFormed
<1>2. Len(s) \in Nat /\ DOMAIN s = 1 .. Len(s) /\ \A c \in DOMAIN s : s[c] \in R
  <2>. HIDE DEF s, R
  <2>. QED BY <1>1
<1>. QED BY <1>1, <1>2

LEMMA FrameHeaderWritten ==
  ASSUME NEW w, IsWriter(w), NEW im, WellFormed(im)
  PROVE  Wrote(w, write_frame_header(w, im))
<1> DEFINE list == [c \in DOMAIN im.comp_info |-> <<"q", im.comp_info[c].quant>>]
           v == emit_tables(w, list)
           tok == [t |-> "SOF", code |-> frame_code(im), height |-> im.image_height, width |-> im.image_width,
                  comps |-> [c \in DOMAIN im.comp_info |->
                    [id |-> im.comp_info[c].id, h |-> im.comp_info[c].h, v |-> im.comp_info[c].v,
                     quant |-> im.comp_info[c].quant]]]
<1>1. list \in Seq(Named)
  <2>1. \A c \in DOMAIN im.comp_info : <<"q", im.comp_info[c].quant>> \in Named
    BY ComponentTables DEF Named, Classes
  <2>2. Len(im.comp_info) \in Nat /\ DOMAIN im.comp_info = 1 .. Len(im.comp_info) BY ComponentTables
  <2>. QED BY <2>1, <2>2
<1>2. Wrote(w, v)
  <2>. HIDE DEF list
  <2>. QED BY <1>1, TablesWritten
<1>3. tok.t \notin {"MCU", "DQT", "DHT"} OBVIOUS
<1>4. write_frame_header(w, im) = emit_marker(v, tok) BY DEF write_frame_header, emit_sof
<1>. HIDE DEF v, tok
<1>5. Wrote(v, emit_marker(v, tok)) BY <1>2, <1>3, MarkerWritten DEF Wrote
<1>. QED BY <1>2, <1>4, <1>5, WroteTwice

(* The tables of a scan.                                                     *)
ScanOf(im, sc) ==
  /\ sc.comps \in Seq(DOMAIN im.comp_info)
CodingTable(im, e) ==
  /\ e = <<e[1], e[2]>> /\ e[1] \in {"dc", "ac"} /\ e[2] \in Slots
  /\ ~optimized(im) => e[2] \in {0, 1}
LEMMA TablesOfScan ==
  ASSUME NEW im, WellFormed(im), NEW sc, ScanOf(im, sc)
  PROVE  /\ ScanTables(im, sc) \in Seq(Named)
         /\ \A e \in ToSet(ScanTables(im, sc)) : CodingTable(im, e)
         /\ \A i \in DOMAIN sc.comps : sc.Ss = 0 /\ sc.Ah = 0 =>
              <<"dc", im.comp_info[sc.comps[i]].dc>> \in ToSet(ScanTables(im, sc))
<1> DEFINE Of(k) == IF ~progressive(im) THEN <<<<"dc", k.dc>>, <<"ac", k.ac>>>>
                    ELSE IF sc.Ss # 0 THEN <<<<"ac", k.ac>>>>
                    ELSE IF sc.Ah = 0 THEN <<<<"dc", k.dc>>>> ELSE <<>>
           K(i) == im.comp_info[sc.comps[i]]
           tokens == [i \in DOMAIN sc.comps |-> Of(K(i))]
           Used == {e \in Named : e[1] \in {"dc", "ac"} /\ (~optimized(im) => e[2] \in {0, 1})}
<1>0. Len(sc.comps) \in Nat /\ DOMAIN sc.comps = 1 .. Len(sc.comps)
      /\ \A i \in DOMAIN sc.comps : sc.comps[i] \in DOMAIN im.comp_info BY DEF ScanOf
<1>1. ASSUME NEW i \in DOMAIN sc.comps
      PROVE  <<"dc", K(i).dc>> \in Used /\ <<"ac", K(i).ac>> \in Used
  <2>1. K(i).dc \in Slots /\ K(i).ac \in Slots BY <1>0, ComponentTables
  <2>2. ~optimized(im) => K(i).dc \in {0, 1} /\ K(i).ac \in {0, 1} BY <1>0 DEF WellFormed
  <2>. QED BY <2>1, <2>2 DEF Named, Classes
<1>2. ScanTables(im, sc) = FlattenSeq(tokens) BY DEF ScanTables
<1>3. ASSUME NEW i \in DOMAIN sc.comps PROVE tokens[i] \in Seq(Used) /\ tokens[i] = Of(K(i))
  <2> DEFINE a == <<"dc", K(i).dc>>
             b == <<"ac", K(i).ac>>
  <2>1. a \in Used /\ b \in Used BY <1>1
  <2>2. tokens[i] = IF ~progressive(im) THEN <<a, b>> ELSE IF sc.Ss # 0 THEN <<b>>
                    ELSE IF sc.Ah = 0 THEN <<a>> ELSE <<>> OBVIOUS
  <2>. HIDE DEF a, b, Used
  <2>3. <<a, b>> \in Seq(Used) /\ <<b>> \in Seq(Used) /\ <<a>> \in Seq(Used) /\ <<>> \in Seq(Used) BY <2>1
  <2>4. tokens[i] = Of(K(i)) OBVIOUS
  <2>. HIDE DEF tokens, Of
  <2>. QED BY <2>2, <2>3, <2>4
<1>4. tokens \in Seq(Seq(Used))
  <2>1. tokens = [i \in 1 .. Len(sc.comps) |-> tokens[i]] BY <1>0
  <2>2. \A i \in 1 .. Len(sc.comps) : tokens[i] \in Seq(Used)
    <3>. HIDE DEF tokens, Used
    <3>. QED BY <1>0, <1>3
  <2>. HIDE DEF tokens, Used
  <2>. QED BY <1>0, <2>1, <2>2
<1>5. FlattenSeq(tokens) \in Seq(Used)
      /\ \A x : x \in ToSet(FlattenSeq(tokens)) <=> \E i \in DOMAIN tokens : x \in ToSet(tokens[i])
  <2>. HIDE DEF tokens, Used
  <2>. QED BY <1>4, Flattened
<1>6. ScanTables(im, sc) \in Seq(Used) /\ ToSet(ScanTables(im, sc)) \subseteq Used
  <2>. HIDE DEF Used
  <2>. QED BY <1>2, <1>5, OfRange
<1>7. ScanTables(im, sc) \in Seq(Named)
  <2>1. Used \subseteq Named OBVIOUS
  <2>. HIDE DEF Used
  <2>. QED BY <1>6, <2>1
<1>8. ASSUME sc.Ss = 0, sc.Ah = 0, NEW i \in DOMAIN sc.comps
      PROVE  <<"dc", K(i).dc>> \in ToSet(ScanTables(im, sc))
  <2>1. Of(K(i))[1] = <<"dc", K(i).dc>> /\ 1 \in DOMAIN Of(K(i)) BY <1>8
  <2>2. <<"dc", K(i).dc>> \in ToSet(tokens[i])
    <3>1. tokens[i] = Of(K(i)) OBVIOUS
    <3>. HIDE DEF tokens, Of
    <3>. QED BY <2>1, <3>1 DEF ToSet
  <2>3. i \in DOMAIN tokens OBVIOUS
  <2>. HIDE DEF tokens
  <2>. QED BY <1>2, <1>5, <2>2, <2>3
<1>9. \A e \in Used : CodingTable(im, e)
  BY DEF Named, CodingTable
<1>. HIDE DEF Used
<1>10. \A e \in ToSet(ScanTables(im, sc)) : CodingTable(im, e)
  BY <1>6, <1>9, Zenon
<1>11. ASSUME NEW i \in DOMAIN sc.comps, sc.Ss = 0 /\ sc.Ah = 0
       PROVE  <<"dc", im.comp_info[sc.comps[i]].dc>> \in ToSet(ScanTables(im, sc))
  BY <1>8, <1>11
<1>. HIDE DEF Of, K, tokens
<1>. QED BY <1>7, <1>10, <1>11

LEMMA ScanHeaderWritten ==
  ASSUME NEW w, IsWriter(w), NEW im, WellFormed(im), NEW sc, ScanOf(im, sc), NEW last
  PROVE  LET v == write_scan_header(w, im, sc, last)
         IN /\ Wrote(w, v)
            /\ v.error = NoError => \A e \in ToSet(ScanTables(im, sc)) : v.tables[e[1]][e[2]].sent
<1> DEFINE list == ScanTables(im, sc)
           a == emit_tables(w, list)
           dri == [t |-> "DRI", interval |-> sc.restart_interval]
           b == IF sc.restart_interval # last THEN emit_marker(a, dri) ELSE a
           tok == [t |-> "SOS", Ss |-> sc.Ss, Se |-> sc.Se, Ah |-> sc.Ah, Al |-> sc.Al,
                  comps |-> [i \in DOMAIN sc.comps |->
                    LET k == im.comp_info[sc.comps[i]]
                    IN [id |-> k.id,
                        dc |-> IF progressive(im) /\ (sc.Ss # 0 \/ sc.Ah # 0) THEN 0 ELSE k.dc,
                        ac |-> IF progressive(im) /\ sc.Ss = 0 THEN 0 ELSE k.ac]]]
           v == emit_marker(b, tok)
<1>0. write_scan_header(w, im, sc, last) = v BY DEF write_scan_header, emit_sos, emit_dri
<1>1. list \in Seq(Named) BY TablesOfScan
<1>2. Wrote(w, a) /\ (a.error = NoError => \A e \in ToSet(list) : a.tables[e[1]][e[2]].sent)
  <2>. HIDE DEF list
  <2>. QED BY <1>1, TablesWritten
<1>3. dri.t \notin {"MCU", "DQT", "DHT"} /\ tok.t \notin {"MCU", "DQT", "DHT"} OBVIOUS
<1>. HIDE DEF a, dri, tok, list
<1>4. Wrote(a, b) /\ b.tables = a.tables /\ b.error = a.error
  <2>1. IsWriter(a) BY <1>2 DEF Wrote
  <2>2. Wrote(a, a) BY <2>1, WroteNothing
  <2>3. Wrote(a, emit_marker(a, dri)) /\ emit_marker(a, dri).tables = a.tables /\ emit_marker(a, dri).error = a.error
    BY <1>3, <2>1, MarkerWritten
  <2>. QED BY <2>2, <2>3
<1>. HIDE DEF b
<1>5. Wrote(b, v) /\ v.tables = b.tables /\ v.error = b.error BY <1>3, <1>4, MarkerWritten DEF Wrote
<1>. HIDE DEF v
<1>6. Wrote(w, v) BY <1>2, <1>4, <1>5, WroteTwice
<1>. QED BY <1>0, <1>2, <1>4, <1>5, <1>6 DEF list

LEMMA TrailerWritten ==
  ASSUME NEW tabs, IsTables(tabs)
  PROVE  LET v == write_file_trailer(Writer(tabs)) IN Wrote(Writer(tabs), v) /\ v.tables = tabs
<1> DEFINE k == [t |-> "EOI"]
           w == Writer(tabs)
<1>1. k.t \notin {"MCU", "DQT", "DHT"} OBVIOUS
<1>2. write_file_trailer(w) = emit_marker(w, k) BY DEF write_file_trailer
<1>3. IsWriter(w) /\ w.tables = tabs BY NewWriter
<1>. HIDE DEF k, w
<1>4. Wrote(w, emit_marker(w, k)) /\ emit_marker(w, k).tables = w.tables BY <1>1, <1>3, MarkerWritten
<1>. QED BY <1>2, <1>3, <1>4 DEF w

LEMMA TablesOnlyWritten ==
  ASSUME NEW tabs, IsTables(tabs)
  PROVE  Wrote(Writer(tabs), write_tables_only(Writer(tabs)))
<1> DEFINE w == Writer(tabs)
           soi == [t |-> "SOI"]
           eoi == [t |-> "EOI"]
           Existing(class, n) == IF w.tables[class][n].val = NullTable THEN <<>> ELSE <<<<class, n>>>>
           qs == [i \in 1 .. NUM_TBLS |-> Existing("q", i - 1)]
           hs == [i \in 1 .. NUM_TBLS |-> Existing("dc", i - 1) \o Existing("ac", i - 1)]
           list == FlattenSeq(qs) \o FlattenSeq(hs)
           a == emit_marker(w, soi)
           b == emit_tables(a, list)
<1>0. write_tables_only(w) = emit_marker(b, eoi) BY DEF write_tables_only
<1>1. soi.t \notin {"MCU", "DQT", "DHT"} /\ eoi.t \notin {"MCU", "DQT", "DHT"} OBVIOUS
<1>2. ASSUME NEW i \in 1 .. NUM_TBLS, NEW class \in Classes PROVE Existing(class, i - 1) \in Seq(Named)
  <2>1. <<class, i - 1>> \in Named BY DEF Named, Slots, NUM_TBLS
  <2>2. <<<<class, i - 1>>>> \in Seq(Named) /\ <<>> \in Seq(Named) BY <2>1
  <2>. HIDE DEF w
  <2>. QED BY <2>2
<1>3. IsWriter(w) BY NewWriter
<1>. HIDE DEF Existing, w
<1>4. qs \in Seq(Seq(Named)) /\ hs \in Seq(Seq(Named))
  <2>1. \A i \in 1 .. NUM_TBLS : qs[i] \in Seq(Named) /\ hs[i] \in Seq(Named) BY <1>2 DEF Classes
  <2>. QED BY <2>1 DEF NUM_TBLS
<1>5. list \in Seq(Named)
  <2>1. FlattenSeq(qs) \in Seq(Named) /\ FlattenSeq(hs) \in Seq(Named)
    <3>. HIDE DEF qs, hs
    <3>. QED BY <1>4, Flattened
  <2>. HIDE DEF qs, hs
  <2>. QED BY <2>1
<1>. HIDE DEF soi, eoi, list
<1>6. Wrote(w, a) BY <1>1, <1>3, MarkerWritten
<1>. HIDE DEF a
<1>7. Wrote(a, b) BY <1>5, <1>6, TablesWritten DEF Wrote
<1>. HIDE DEF b
<1>8. Wrote(b, emit_marker(b, eoi)) BY <1>1, <1>7, MarkerWritten DEF Wrote
<1>9. Wrote(w, emit_marker(b, eoi)) BY <1>6, <1>7, <1>8, WroteTwice
<1>. QED BY <1>0, <1>9 DEF w
-----------------------------------------------------------------------------
(* The inductive invariant, first part: the call in progress, the passes and *)
(* the tables.  While an image is being written without an error, a pass is  *)
(* in progress unless the coefficients have just been handed over or the     *)
(* next pass is being prepared.                                              *)
Running == global_state # "START" /\ failed = NoError
InPass == Running /\ call.pc # "next_pass" /\ ~(call.pc = "app" /\ global_state = "WRCOEFS")

Calls ==
  /\ call = [pc |-> call.pc, rows |-> call.rows, ctr |-> call.ctr,
             row |-> call.row, col |-> call.col, data |-> call.data]
  /\ call.pc \in {"app", "main", "coef", "crank", "finish_pass", "next_pass"}
  /\ global_state \in {"START", "SCANNING", "RAW_OK", "WRCOEFS"}
  /\ call.pc # "app" => Running
  /\ call.pc = "main" => global_state = "SCANNING"
  /\ call.pc = "coef" => global_state \in {"SCANNING", "RAW_OK"}

Begun ==
  /\ cinfo # NoImage => cinfo \in Images
  /\ global_state # "START" =>
       /\ cinfo \in Images
       /\ global_state = "WRCOEFS" <=> cinfo.transcode
       /\ global_state = "RAW_OK" => cinfo.raw_data_in
       /\ global_state = "SCANNING" => ~cinfo.raw_data_in
  /\ Running =>
       /\ initial_setup_error(cinfo) = NoError
       /\ cinfo.scan_info # <<>> => validate_script_error(cinfo) = NoError
       /\ geom = initial_setup(cinfo)

SomeScan(im, g, sc) ==
  \E k \in 0 .. num_scans(im) - 1 : sc = per_scan_setup(im, g, select_scan_parameters(im, k))

Passes ==
  Running =>
    /\ master = [pass_type |-> master.pass_type, scan_number |-> master.scan_number,
                 pass_number |-> master.pass_number, call_pass_startup |-> master.call_pass_startup,
                 is_last_pass |-> master.is_last_pass, total_passes |-> master.total_passes]
    /\ master.pass_type \in {"main_pass", "huff_opt_pass", "output_pass"}
    /\ master.scan_number \in Nat /\ master.pass_number \in Nat
    /\ master.call_pass_startup \in BOOLEAN /\ master.is_last_pass \in BOOLEAN
    /\ optimized(cinfo) =>
         /\ master.total_passes = 2 * num_scans(cinfo)
         /\ master.pass_number = 2 * master.scan_number + (IF master.pass_type = "output_pass" THEN 1 ELSE 0)
    /\ ~optimized(cinfo) =>
         /\ master.total_passes = num_scans(cinfo)
         /\ master.pass_number = master.scan_number /\ master.pass_type # "huff_opt_pass"
    /\ (call.pc = "app" /\ global_state # "WRCOEFS") \/ call.pc \in {"main", "coef"}
         => master.pass_type = "main_pass"
    /\ ~InPass \/ call.pc = "crank" => master.pass_type # "main_pass"
    /\ master.pass_type = "main_pass" => master.pass_number = 0
    /\ InPass => /\ master.pass_number < master.total_passes
                 /\ master.is_last_pass <=> IsLast(master.pass_number)
    /\ ~InPass => /\ master.pass_number <= master.total_passes
                  /\ master.is_last_pass <=> master.pass_number = master.total_passes
    /\ InPass \/ master.pass_number > 0 => SomeScan(cinfo, geom, scan)

(* Outside the statistics passes the coder has the tables of the slots, and   *)
(* they are in the stream once the pass has begun to write.                   *)
Coder ==
  InPass =>
    /\ entropy = [gather |-> entropy.gather, last_dc |-> entropy.last_dc, counts |-> entropy.counts,
                  derived |-> entropy.derived, restarts_to_go |-> entropy.restarts_to_go,
                  next_restart_num |-> entropy.next_restart_num]
    /\ entropy.gather \in BOOLEAN
    /\ entropy.gather <=> optimized(cinfo) /\ master.pass_type # "output_pass"
    /\ DOMAIN entropy.counts = CodingTables(cinfo, scan)
    /\ DOMAIN entropy.derived = CodingTables(cinfo, scan)
    /\ ~entropy.gather => \A e \in CodingTables(cinfo, scan) : entropy.derived[e] = tables[e[1]][e[2]].val
    /\ ~entropy.gather /\ (call.pc \in {"main", "coef", "crank"}
                           \/ (call.pc = "app" /\ ~master.call_pass_startup))
         => \A e \in CodingTables(cinfo, scan) : tables[e[1]][e[2]].sent

(* The receiver has every table marked as sent, unless an image was given up. *)
SentExist == \A c \in Classes, n \in Slots : tables[c][n].sent => tables[c][n].val # NullTable
TablesAgree ==
  /\ IsTables(tables) /\ IsTables(known) /\ IsSeq(out) /\ synced \in BOOLEAN
  /\ SentExist
  /\ synced /\ failed = NoError => Agree(tables, known, IF global_state = "START" THEN <<>> ELSE out)

(* The first two slots of an image that brings no tables of its own.          *)
Standard ==
  cinfo # NoImage /\ ~optimized(cinfo) =>
    \A c \in {"dc", "ac"}, n \in {0, 1} : tables[c][n].val = StdTable

TablesInv == Calls /\ Begun /\ Passes /\ Coder /\ TablesAgree /\ Standard /\ DecoderHasTables

-----------------------------------------------------------------------------
(* The call in progress.                                                     *)
IsCall(c) ==
  /\ c = [pc |-> c.pc, rows |-> c.rows, ctr |-> c.ctr, row |-> c.row, col |-> c.col, data |-> c.data]
LEMMA CallShapes ==
  /\ IsCall(NoCall) /\ NoCall.pc = "app" /\ NoCall.rows = 0 /\ NoCall.ctr = 0 /\ NoCall.row = 0 /\ NoCall.col = 0
  /\ \A p : LET c == [NoCall EXCEPT !.pc = p]
            IN IsCall(c) /\ c.pc = p /\ c.rows = 0 /\ c.ctr = 0 /\ c.row = 0 /\ c.col = 0
BY DEF NoCall, IsCall
(* A call that began to write has gone on, or ended with an error.           *)
LEMMA OutputStarted ==
  ASSUME NEW next, StartOutput(next), failed = NoError
  PROVE  \/ call' = next /\ failed' = NoError
         \/ call' = NoCall /\ failed' # NoError
BY DEF StartOutput, Fail

(* The steps inside the writing of one image.                                *)
Within ==
  \/ \E n \in 1 .. 3 : jpeg_write_scanlines(n)
  \/ jpeg_write_raw_data \/ jpeg_write_marker \/ jpeg_finish_compress
  \/ PreProcess \/ PassRow \/ ReturnRows \/ FinishRow \/ RefuseMCU
  \/ finish_pass_master \/ PrepareStatistics \/ PrepareOutput \/ EncodeMCU

LEMMA StepWithin ==
  ASSUME Calls, Within
  PROVE  Running /\ UNCHANGED <<cinfo, global_state, geom, known, synced>>
<1>1. ASSUME NEW n \in 1 .. 3, jpeg_write_scanlines(n) PROVE Running /\ UNCHANGED <<cinfo, global_state, geom, known, synced>>
  BY <1>1 DEF jpeg_write_scanlines, Idle, Running, history
<1>2. CASE jpeg_write_raw_data BY <1>2 DEF jpeg_write_raw_data, Idle, Running, history
<1>3. CASE jpeg_write_marker BY <1>3 DEF jpeg_write_marker, Idle, Running, history
<1>4. CASE jpeg_finish_compress BY <1>4 DEF jpeg_finish_compress, Idle, Running, history
<1>5. CASE PreProcess BY <1>5 DEF PreProcess, Calls, Running, history
<1>6. CASE PassRow BY <1>6 DEF PassRow, Calls, Running, history
<1>7. CASE ReturnRows BY <1>7 DEF ReturnRows, Calls, Running, history
<1>8. CASE FinishRow BY <1>8 DEF FinishRow, Coding, Calls, Running, history
<1>9. CASE RefuseMCU BY <1>9 DEF RefuseMCU, Coding, Calls, Running, history
<1>10. CASE finish_pass_master BY <1>10 DEF finish_pass_master, Calls, Running, history
<1>11. CASE PrepareStatistics BY <1>11 DEF PrepareStatistics, Calls, Running, history
<1>12. CASE PrepareOutput BY <1>12 DEF PrepareOutput, Calls, Running, history
<1>13. CASE EncodeMCU BY <1>13 DEF EncodeMCU, Coding, Calls, Running, history
<1>. QED BY <1>1, <1>2, <1>3, <1>4, <1>5, <1>6, <1>7, <1>8, <1>9, <1>10, <1>11, <1>12, <1>13 DEF Within

(* What the call is after each of them.                                      *)
LEMMA CallWithin ==
  ASSUME Calls, Begun, Within
  PROVE  /\ IsCall(call')
         /\ \/ call' = NoCall
            \/ failed' = NoError /\ call'.pc \in {"app", "main", "coef", "crank", "finish_pass", "next_pass"}
               /\ (call'.pc = "main" => global_state = "SCANNING")
               /\ (call'.pc = "coef" => global_state \in {"SCANNING", "RAW_OK"})
<1> DEFINE Good == /\ IsCall(call')
                   /\ \/ call' = NoCall
                      \/ failed' = NoError /\ call'.pc \in {"app", "main", "coef", "crank", "finish_pass", "next_pass"}
                         /\ (call'.pc = "main" => global_state = "SCANNING")
                         /\ (call'.pc = "coef" => global_state \in {"SCANNING", "RAW_OK"})
<1>0. Running /\ failed = NoError BY StepWithin DEF Running
<1>1. ASSUME NEW n \in 1 .. 3, jpeg_write_scanlines(n) PROVE Good
  <2> DEFINE next == [NoCall EXCEPT !.pc = "main", !.rows = AtMost(n, cinfo.image_height - next_scanline)]
  <2>1. next = [NoCall EXCEPT !.pc = "main", !.rows = AtMost(n, cinfo.image_height - next_scanline)] OBVIOUS
  <2>2. StartOutput(next) /\ global_state = "SCANNING" BY <1>1 DEF jpeg_write_scanlines
  <2>. HIDE DEF next
  <2>3. IsCall(next) /\ next.pc = "main" BY <2>1 DEF NoCall, IsCall
  <2>. QED BY <1>0, <2>2, <2>3, OutputStarted, CallShapes
<1>2. CASE jpeg_write_raw_data
  <2> DEFINE next == [NoCall EXCEPT !.pc = "coef", !.data = RawRows,
                                    !.row = coef.MCU_vert_offset, !.col = coef.mcu_ctr]
  <2>1. next = [NoCall EXCEPT !.pc = "coef", !.data = RawRows,
                              !.row = coef.MCU_vert_offset, !.col = coef.mcu_ctr] OBVIOUS
  <2>2. StartOutput(next) /\ global_state = "RAW_OK" BY <1>2 DEF jpeg_write_raw_data
  <2>. HIDE DEF next
  <2>3. IsCall(next) /\ next.pc = "coef" BY <2>1 DEF NoCall, IsCall
  <2>. QED BY <1>0, <2>2, <2>3, OutputStarted, CallShapes
<1>3. CASE jpeg_write_marker BY <1>3, <1>0 DEF jpeg_write_marker, Calls, Idle, IsCall
<1>4. CASE jpeg_finish_compress BY <1>4, <1>0, CallShapes DEF jpeg_finish_compress, Fail
<1>5. CASE PreProcess
  <2>1. call.pc = "main" /\ failed' = failed BY <1>5 DEF PreProcess
  <2>2. call' = call \/ \E k : call' = [call EXCEPT !.ctr = k]
    BY <1>5 DEF PreProcess, pre_process_data, pre_process_context
  <2>. QED BY <1>0, <2>1, <2>2 DEF Calls, IsCall
<1>6. CASE PassRow BY <1>6, <1>0 DEF PassRow, Calls, IsCall
<1>7. CASE ReturnRows BY <1>7, <1>0, CallShapes DEF ReturnRows, Returns
<1>8. CASE FinishRow
  <2>1. failed' = NoError BY <1>8, <1>0 DEF FinishRow
  <2>2. \/ call.pc = "crank" /\ call' = [NoCall EXCEPT !.pc = "finish_pass"]
        \/ call.pc = "crank" /\ call' = [call EXCEPT !.row = 0, !.col = 0]
        \/ call' = NoCall
        \/ /\ call.pc = "coef" /\ ~cinfo.raw_data_in
           /\ \E k : call' = [call EXCEPT !.pc = "main", !.data = <<>>, !.ctr = k]
    BY <1>8 DEF FinishRow, Coding
  <2>3. call.pc = "coef" /\ ~cinfo.raw_data_in => global_state = "SCANNING" BY <1>0 DEF Calls, Begun
  <2>. QED BY <2>1, <2>2, <2>3, CallShapes DEF Calls, IsCall
<1>9. CASE RefuseMCU BY <1>9, <1>0, CallShapes DEF RefuseMCU, Fail
<1>10. CASE finish_pass_master BY <1>10, <1>0 DEF finish_pass_master, Calls, IsCall
<1>11. CASE PrepareStatistics
  <2>1. call' = NoCall \/ (failed' = failed /\ call' = [NoCall EXCEPT !.pc = "crank"])
    BY <1>11, Zenon DEF PrepareStatistics, Crank, Fail
  <2>. QED BY <2>1, <1>0, CallShapes
<1>12. CASE PrepareOutput
  <2>1. call' = NoCall \/ (failed' = failed /\ call' = [NoCall EXCEPT !.pc = "crank"])
    BY <1>12, Zenon DEF PrepareOutput, Crank, Fail
  <2>. QED BY <2>1, <1>0, CallShapes
<1>13. CASE EncodeMCU
  <2>1. (call' = NoCall /\ failed' # NoError) \/ failed' = NoError
    BY <1>13, <1>0 DEF EncodeMCU, encode_mcu_gather, encode_mcu_huff, Fail
  <2>2. failed' = NoError => NextMCU BY <1>13 DEF EncodeMCU
  <2>3. NextMCU => \E x, y : call' = [call EXCEPT !.col = x] \/ call' = [call EXCEPT !.col = x, !.row = y]
    BY DEF NextMCU
  <2>4. ASSUME NEW x, NEW y, call' = [call EXCEPT !.col = x] \/ call' = [call EXCEPT !.col = x, !.row = y]
        PROVE  IsCall(call') /\ call'.pc = call.pc
    BY <2>4 DEF Calls, IsCall
  <2>5. CASE failed' = NoError
    <3>1. PICK x, y : call' = [call EXCEPT !.col = x] \/ call' = [call EXCEPT !.col = x, !.row = y]
      BY <2>2, <2>3, <2>5
    <3>2. IsCall(call') /\ call'.pc = call.pc BY <2>4, <3>1
    <3>. QED BY <2>5, <3>2 DEF Calls
  <2>. QED BY <2>1, <2>5, CallShapes
<1>. QED BY <1>1, <1>2, <1>3, <1>4, <1>5, <1>6, <1>7, <1>8, <1>9, <1>10, <1>11, <1>12, <1>13 DEF Within

LEMMA StartChecked ==
  ASSUME NEW im, NEW transcode_only, start_error(im, transcode_only) = NoError
  PROVE  initial_setup_error(im) = NoError /\ (im.scan_info # <<>> => validate_script_error(im) = NoError)
<1> DEFINE a == initial_setup_error(im)
           b == validate_script_error(im)
           e == per_scan_setup_error(im, select_scan_parameters(im, 0))
           f == ~transcode_only /\ ~im.raw_data_in /\ (\E c \in DOMAIN im.comp_info : ~SamplingHandled(im, c))
           h == ~transcode_only /\ e # NoError
           s == im.scan_info # <<>> /\ b # NoError
<1>1. NoError = IF a # NoError THEN a ELSE IF s THEN b ELSE IF f THEN "FRACT_SAMPLE_NOTIMPL"
                ELSE IF h THEN e ELSE NoError
  BY DEF start_error
<1>2. f \in BOOLEAN /\ h \in BOOLEAN /\ s \in BOOLEAN /\ (s => b # NoError) /\ (h => e # NoError) OBVIOUS
<1>3. a = NoError /\ ~s
  <2>. HIDE DEF a, b, e, f, h, s
  <2>. QED BY <1>1, <1>2 DEF NoError
<1>. QED BY <1>3

LEMMA Steps ==
  ASSUME Next
  PROVE  \/ Within \/ \E im \in Images : SetParameters(im)
         \/ \E all \in BOOLEAN : jpeg_start_compress(all)
         \/ jpeg_write_coefficients \/ jpeg_abort_compress \/ jpeg_write_tables \/ FinishImage
BY Zenon DEF Next, Application, Library, Within

LEMMA CallsStep == ASSUME Calls, Begun, [Next]_vars PROVE Calls'
<1>1. CASE Within
  <2>1. UNCHANGED global_state /\ Running BY <1>1, StepWithin
  <2>2. IsCall(call') BY <1>1, CallWithin
  <2>3. \/ call' = NoCall
        \/ failed' = NoError /\ call'.pc \in {"app", "main", "coef", "crank", "finish_pass", "next_pass"}
           /\ (call'.pc = "main" => global_state = "SCANNING")
           /\ (call'.pc = "coef" => global_state \in {"SCANNING", "RAW_OK"})
    BY <1>1, CallWithin
  <2>. QED BY <2>1, <2>2, <2>3, CallShapes DEF Calls, Running, IsCall
<1>2. ASSUME NEW im \in Images, SetParameters(im) PROVE Calls'
  BY <1>2 DEF SetParameters, MayBegin, Idle, Calls, Running
<1>3. ASSUME NEW all \in BOOLEAN, jpeg_start_compress(all) PROVE Calls'
  <2>1. call.pc = "app" /\ (call' = call \/ call' = NoCall) /\ global_state' \in {global_state, "SCANNING", "RAW_OK"}
    BY <1>3 DEF jpeg_start_compress, MayBegin, Idle, Fail
  <2>. QED BY <2>1, CallShapes DEF Calls, Running, IsCall
<1>4. CASE jpeg_write_coefficients
  <2>1. call.pc = "app" /\ (call' = call \/ call' = NoCall) /\ global_state' \in {global_state, "WRCOEFS"}
    BY <1>4 DEF jpeg_write_coefficients, MayBegin, Idle, Fail
  <2>. QED BY <2>1, CallShapes DEF Calls, Running, IsCall
<1>5. CASE jpeg_abort_compress BY <1>5 DEF jpeg_abort_compress, Calls, Running
<1>6. CASE jpeg_write_tables BY <1>6 DEF jpeg_write_tables, MayBegin, Idle, Calls, Running
<1>7. CASE FinishImage BY <1>7, CallShapes DEF FinishImage, Calls, Running, IsCall
<1>8. CASE UNCHANGED vars BY <1>8 DEF vars, Calls, Running
<1>. QED BY <1>1, <1>2, <1>3, <1>4, <1>5, <1>6, <1>7, <1>8, Steps

LEMMA BegunStep == ASSUME Calls, Begun, [Next]_vars PROVE Begun'
<1>1. CASE Within
  <2>1. Running /\ UNCHANGED <<cinfo, global_state, geom>> BY <1>1, StepWithin
  <2>. QED BY <2>1 DEF Begun, Running
<1>2. ASSUME NEW im \in Images, SetParameters(im) PROVE Begun'
  BY <1>2 DEF SetParameters, MayBegin, Begun, Running
<1>3. ASSUME NEW all \in BOOLEAN, jpeg_start_compress(all) PROVE Begun'
  <2>1. cinfo # NoImage /\ ~cinfo.transcode /\ cinfo' = cinfo /\ global_state = "START"
    BY <1>3 DEF jpeg_start_compress, MayBegin
  <2>2. \/ global_state' = "START"
        \/ /\ start_error(cinfo, FALSE) = NoError /\ geom' = initial_setup(cinfo)
           /\ global_state' = IF cinfo.raw_data_in THEN "RAW_OK" ELSE "SCANNING"
    BY <1>3, <2>1 DEF jpeg_start_compress
  <2>3. cinfo \in Images BY <2>1 DEF Begun
  <2>. QED BY <2>1, <2>2, <2>3, StartChecked DEF Begun, Running
<1>4. CASE jpeg_write_coefficients
  <2>1. cinfo # NoImage /\ cinfo.transcode /\ cinfo' = cinfo /\ global_state = "START"
    BY <1>4 DEF jpeg_write_coefficients, MayBegin
  <2>2. \/ global_state' = "START"
        \/ start_error(cinfo, TRUE) = NoError /\ geom' = initial_setup(cinfo) /\ global_state' = "WRCOEFS"
    BY <1>4, <2>1 DEF jpeg_write_coefficients
  <2>3. cinfo \in Images BY <2>1 DEF Begun
  <2>. QED BY <2>1, <2>2, <2>3, StartChecked DEF Begun, Running
<1>5. CASE jpeg_abort_compress BY <1>5 DEF jpeg_abort_compress, Begun, Running
<1>6. CASE jpeg_write_tables BY <1>6 DEF jpeg_write_tables, MayBegin, Begun, Running
<1>7. CASE FinishImage BY <1>7 DEF FinishImage, Begun, Running
<1>8. CASE UNCHANGED vars BY <1>8 DEF vars, Begun, Running
<1>. QED BY <1>1, <1>2, <1>3, <1>4, <1>5, <1>6, <1>7, <1>8, Steps

-----------------------------------------------------------------------------
(* The passes.                                                               *)
LEMMA SomeScans ==
  ASSUME NEW im \in Images
  PROVE  num_scans(im) \in Nat \ {0}
<1>1. im.scan_info \in Seq([comps : Seq(Int), Ss : Int, Se : Int, Ah : Int, Al : Int])
  BY ImagesAssumption DEF WellFormed
<1> DEFINE R == [comps : Seq(Int), Ss : Int, Se : Int, Ah : Int, Al : Int]
           s == im.scan_info
<1>2. s \in Seq(R) BY <1>1
<1>3. Len(s) \in Nat /\ (s # <<>> => Len(s) > 0)
  <2>. HIDE DEF R, s
  <2>. QED BY <1>2
<1>. QED BY <1>3 DEF num_scans

(* The scan the master control asks for is one of the image.                 *)
LEMMA ThisScanIsOne ==
  ASSUME Calls, Begun, Passes, call.pc = "next_pass", ~master.is_last_pass
  PROVE  /\ SomeScan(cinfo, geom, ThisScan)
         /\ master.pass_number < master.total_passes
         /\ optimized(cinfo) /\ master.pass_type = "huff_opt_pass" =>
              master.pass_number + 1 < master.total_passes
<1>1. Running /\ ~InPass BY DEF Calls, InPass
<1>2. cinfo \in Images BY <1>1 DEF Begun, Running
<1>3. num_scans(cinfo) \in Nat /\ num_scans(cinfo) > 0 BY <1>2, SomeScans
<1>4. /\ master.scan_number \in Nat /\ master.pass_number \in Nat
      /\ master.pass_number <= master.total_passes /\ master.pass_number # master.total_passes
      /\ optimized(cinfo) =>
         /\ master.total_passes = 2 * num_scans(cinfo)
         /\ master.pass_number = 2 * master.scan_number + (IF master.pass_type = "output_pass" THEN 1 ELSE 0)
      /\ ~optimized(cinfo) =>
         master.total_passes = num_scans(cinfo) /\ master.pass_number = master.scan_number
  BY <1>1 DEF Passes
<1>5. master.scan_number \in 0 .. num_scans(cinfo) - 1 /\ master.pass_number < master.total_passes
      /\ (optimized(cinfo) /\ master.pass_type = "huff_opt_pass" =>
              master.pass_number + 1 < master.total_passes)
  BY <1>3, <1>4
<1>. QED BY <1>5 DEF SomeScan, ThisScan

(* A step that only goes on with the pass.                                   *)
LEMMA SamePass ==
  ASSUME Calls, Begun, Passes, Within, UNCHANGED scan,
         master' = master \/ master' = [master EXCEPT !.call_pass_startup = FALSE],
         failed' = NoError => InPass' = InPass,
         failed' = NoError /\ call'.pc \in {"main", "coef"} => master.pass_type = "main_pass",
         failed' = NoError /\ call'.pc = "crank" => master.pass_type # "main_pass",
         failed' = NoError /\ call'.pc = "app" => call.pc \in {"app", "main", "coef"}
  PROVE  Passes'
<1>1. Running /\ UNCHANGED <<cinfo, global_state, geom>> BY StepWithin
<1>2. SUFFICES ASSUME failed' = NoError PROVE Passes' BY DEF Passes, Running
<1>3. InPass' = InPass BY <1>2
<1>4. /\ master' = [pass_type |-> master'.pass_type, scan_number |-> master'.scan_number,
                 pass_number |-> master'.pass_number, call_pass_startup |-> master'.call_pass_startup,
                 is_last_pass |-> master'.is_last_pass, total_passes |-> master'.total_passes]
      /\ master'.pass_type = master.pass_type /\ master'.scan_number = master.scan_number
      /\ master'.pass_number = master.pass_number /\ master'.is_last_pass = master.is_last_pass
      /\ master'.total_passes = master.total_passes
      /\ master'.call_pass_startup \in BOOLEAN
  BY <1>1 DEF Passes
<1>5. Passes BY DEF Passes
<1>. HIDE DEF InPass
<1>. QED BY <1>1, <1>2, <1>3, <1>4 DEF Passes, IsLast, Running

LEMMA PassesStep == ASSUME Calls, Begun, Passes, [Next]_vars PROVE Passes'
<1>1. CASE Within
  <2>0. Running /\ UNCHANGED <<cinfo, global_state, geom>> BY <1>1, StepWithin
  <2>1. ASSUME NEW n \in 1 .. 3, jpeg_write_scanlines(n) PROVE Passes'
    <3> DEFINE next == [NoCall EXCEPT !.pc = "main", !.rows = AtMost(n, cinfo.image_height - next_scanline)]
    <3>1. StartOutput(next) /\ UNCHANGED scan /\ global_state = "SCANNING" /\ call.pc = "app"
      BY <2>1 DEF jpeg_write_scanlines, Idle
    <3>2. next.pc = "main" BY DEF NoCall
    <3>. HIDE DEF next
    <3>3. master' = master \/ master' = [master EXCEPT !.call_pass_startup = FALSE] BY <3>1 DEF StartOutput
    <3>4. failed' = NoError => call' = next BY <2>0, <3>1, OutputStarted DEF Running
    <3>. QED BY <1>1, <2>0, <3>1, <3>2, <3>3, <3>4, SamePass DEF InPass, Running, Passes
  <2>2. CASE jpeg_write_raw_data
    <3> DEFINE next == [NoCall EXCEPT !.pc = "coef", !.data = RawRows,
                                      !.row = coef.MCU_vert_offset, !.col = coef.mcu_ctr]
    <3>1. StartOutput(next) /\ UNCHANGED scan /\ global_state = "RAW_OK" /\ call.pc = "app"
      BY <2>2 DEF jpeg_write_raw_data, Idle
    <3>2. next.pc = "coef" BY DEF NoCall
    <3>. HIDE DEF next
    <3>3. master' = master \/ master' = [master EXCEPT !.call_pass_startup = FALSE] BY <3>1 DEF StartOutput
    <3>4. failed' = NoError => call' = next BY <2>0, <3>1, OutputStarted DEF Running
    <3>. QED BY <1>1, <2>0, <3>1, <3>2, <3>3, <3>4, SamePass DEF InPass, Running, Passes
  <2>3. CASE jpeg_write_marker
    <3>1. UNCHANGED <<scan, master, call>> /\ call.pc = "app" BY <2>3 DEF jpeg_write_marker, control, Idle
    <3>. QED BY <1>1, <2>0, <3>1, SamePass DEF InPass, Running, Passes
  <2>4. CASE jpeg_finish_compress
    <3>1. UNCHANGED <<scan, master>> /\ call.pc = "app" BY <2>4 DEF jpeg_finish_compress, control, Idle
    <3>2. failed' = NoError => call'.pc = IF global_state = "WRCOEFS" THEN "next_pass" ELSE "finish_pass"
      BY <2>4, CallShapes DEF jpeg_finish_compress, Fail, NoError
    <3>. QED BY <1>1, <2>0, <3>1, <3>2, SamePass DEF InPass, Running, Passes
  <2>5. CASE PreProcess \/ PassRow \/ ReturnRows \/ FinishRow \/ RefuseMCU \/ EncodeMCU
    <3>1. UNCHANGED <<scan, master>> /\ call.pc \in {"main", "coef", "crank"}
      BY <2>5 DEF PreProcess, PassRow, ReturnRows, FinishRow, RefuseMCU, EncodeMCU, control, Coding
    <3>2. failed' = NoError =>
            \/ call'.pc = "finish_pass" /\ call.pc = "crank"
            \/ call'.pc \in {"app", "main", "coef"} /\ call.pc \in {"main", "coef"}
            \/ call'.pc = "crank" /\ call.pc = "crank"
      <4>1. CASE PreProcess
        <5>1. call.pc = "main" BY <4>1 DEF PreProcess
        <5>2. call' = call \/ \E k : call' = [call EXCEPT !.ctr = k]
          BY <4>1 DEF PreProcess, pre_process_data, pre_process_context
        <5>. QED BY <5>1, <5>2 DEF Calls
      <4>2. CASE PassRow BY <4>2 DEF PassRow, Calls
      <4>3. CASE ReturnRows BY <4>3, CallShapes DEF ReturnRows, Returns
      <4>4. CASE FinishRow BY <4>4, CallShapes DEF FinishRow, Calls, Coding
      <4>5. CASE RefuseMCU BY <4>5, CallShapes DEF RefuseMCU, Coding, Fail, NoError
      <4>6. CASE EncodeMCU
        <5>1. Coding /\ (failed' = NoError => NextMCU) BY <4>6 DEF EncodeMCU
        <5>2. NextMCU => call'.pc = call.pc BY DEF NextMCU, Calls
        <5>. QED BY <5>1, <5>2 DEF Coding
      <4>. QED BY <2>5, <4>1, <4>2, <4>3, <4>4, <4>5, <4>6
    <3>. QED BY <1>1, <2>0, <3>1, <3>2, SamePass DEF InPass, Running, Passes, Calls
  <2>6. CASE finish_pass_master
    <3> DEFINE number == master.pass_number + 1
               type == IF master.pass_type = "output_pass" /\ optimized(cinfo) THEN "huff_opt_pass" ELSE "output_pass"
               next == IF \/ master.pass_type = "output_pass"
                          \/ master.pass_type = "main_pass" /\ ~optimized(cinfo)
                       THEN master.scan_number + 1 ELSE master.scan_number
    <3>1. /\ call.pc = "finish_pass" /\ UNCHANGED <<scan, failed>> /\ call'.pc = "next_pass"
          /\ master' = [master EXCEPT !.pass_number = number, !.pass_type = type, !.scan_number = next]
      BY <2>6 DEF finish_pass_master, Calls
    <3>2. InPass /\ ~InPass' BY <3>1, <2>0 DEF InPass, Running
    <3>3. /\ master' = [pass_type |-> master'.pass_type, scan_number |-> master'.scan_number,
                 pass_number |-> master'.pass_number, call_pass_startup |-> master'.call_pass_startup,
                 is_last_pass |-> master'.is_last_pass, total_passes |-> master'.total_passes]
          /\ master'.pass_number = number /\ master'.is_last_pass = master.is_last_pass
          /\ master'.total_passes = master.total_passes /\ master'.call_pass_startup = master.call_pass_startup
          /\ master'.pass_type = type /\ master'.scan_number = next
      <4>. HIDE DEF number, type, next
      <4>. QED BY <2>0, <3>1 DEF Passes
    <3>4. num_scans(cinfo) \in Nat BY <2>0, SomeScans DEF Begun, Running
    <3>. HIDE DEF InPass
    <3>. QED BY <2>0, <3>1, <3>2, <3>3, <3>4 DEF Passes, IsLast, Running
  <2>7. CASE PrepareStatistics
    <3>1. call.pc = "next_pass" /\ ~master.is_last_pass /\ master.pass_type = "huff_opt_pass"
          /\ (failed' = NoError =>
               /\ scan' = ThisScan /\ call'.pc = "crank"
               /\ master' = [master EXCEPT !.is_last_pass = IsLast(master.pass_number)])
      BY <2>7, CallShapes DEF PrepareStatistics, Crank, Fail, NoError
    <3>2. SomeScan(cinfo, geom, ThisScan) /\ master.pass_number < master.total_passes BY <3>1, ThisScanIsOne
    <3>. SUFFICES ASSUME failed' = NoError PROVE Passes' BY DEF Passes, Running
    <3>3. ~InPass /\ InPass' BY <3>1, <2>0 DEF InPass, Running
    <3>4. IsLast(master.pass_number) \in BOOLEAN BY DEF IsLast
    <3>5. /\ master' = [pass_type |-> master'.pass_type, scan_number |-> master'.scan_number,
                 pass_number |-> master'.pass_number, call_pass_startup |-> master'.call_pass_startup,
                 is_last_pass |-> master'.is_last_pass, total_passes |-> master'.total_passes]
          /\ master'.pass_type = master.pass_type /\ master'.scan_number = master.scan_number
          /\ master'.pass_number = master.pass_number /\ master'.is_last_pass = IsLast(master.pass_number)
          /\ master'.total_passes = master.total_passes /\ master'.call_pass_startup = master.call_pass_startup
      BY <2>0, <3>1 DEF Passes
    <3>. HIDE DEF InPass
    <3>. QED BY <2>0, <3>1, <3>2, <3>3, <3>4, <3>5 DEF Passes, IsLast, Running
  <2>8. CASE PrepareOutput
    <3> DEFINE skipped == master.pass_type = "huff_opt_pass"
               number == IF skipped THEN master.pass_number + 1 ELSE master.pass_number
               sc == IF skipped \/ ~optimized(cinfo) THEN ThisScan ELSE scan
    <3>1. call.pc = "next_pass" /\ ~master.is_last_pass /\ master.pass_type \in {"output_pass", "huff_opt_pass"}
          /\ (failed' = NoError =>
               /\ scan' = sc /\ call'.pc = "crank"
               /\ master' = [master EXCEPT !.pass_type = "output_pass", !.pass_number = number,
                                           !.is_last_pass = IsLast(number)])
      BY <2>8, CallShapes DEF PrepareOutput, Crank, Fail, NoError
    <3>2. SomeScan(cinfo, geom, ThisScan) /\ master.pass_number < master.total_passes
          /\ (optimized(cinfo) /\ skipped => master.pass_number + 1 < master.total_passes)
      BY <3>1, ThisScanIsOne
    <3>. SUFFICES ASSUME failed' = NoError PROVE Passes' BY DEF Passes, Running
    <3>3. ~InPass /\ InPass' BY <3>1, <2>0 DEF InPass, Running
    <3>4. IsLast(number) \in BOOLEAN /\ (IsLast(number) <=> number = master.total_passes - 1) BY DEF IsLast
    <3>5. SomeScan(cinfo, geom, sc)
      <4>1. CASE skipped \/ ~optimized(cinfo) BY <3>2, <4>1
      <4>2. CASE ~(skipped \/ ~optimized(cinfo))
        <5>1. master.pass_type = "output_pass" BY <3>1, <4>2
        <5>2. master.pass_number > 0 BY <2>0, <4>2, <5>1 DEF Passes
        <5>. QED BY <2>0, <4>2, <5>2 DEF Passes
      <4>. QED BY <4>1, <4>2
    <3>6. number \in Nat /\ number < master.total_passes
          /\ (optimized(cinfo) => number = 2 * master.scan_number + 1)
          /\ (~optimized(cinfo) => number = master.scan_number)
      BY <2>0, <3>1, <3>2 DEF Passes
    <3>. HIDE DEF number, sc, skipped, InPass
    <3>7. /\ master' = [pass_type |-> master'.pass_type, scan_number |-> master'.scan_number,
                 pass_number |-> master'.pass_number, call_pass_startup |-> master'.call_pass_startup,
                 is_last_pass |-> master'.is_last_pass, total_passes |-> master'.total_passes]
          /\ master'.pass_type = "output_pass" /\ master'.scan_number = master.scan_number
          /\ master'.pass_number = number /\ master'.is_last_pass = IsLast(number)
          /\ master'.total_passes = master.total_passes /\ master'.call_pass_startup = master.call_pass_startup
      BY <2>0, <3>1 DEF Passes
    <3>8. master'.pass_number = number /\ (IsLast(number)' <=> number' = master'.total_passes - 1) BY <3>7 DEF IsLast
    <3>. QED BY <2>0, <3>1, <3>3, <3>4, <3>5, <3>6, <3>7 DEF Passes, IsLast, Running
  <2>. QED BY <1>1, <2>1, <2>2, <2>3, <2>4, <2>5, <2>6, <2>7, <2>8 DEF Within
<1>2. ASSUME NEW im \in Images, SetParameters(im) PROVE Passes'
  BY <1>2 DEF SetParameters, MayBegin, Passes, Running
<1>3. ASSUME NEW all \in BOOLEAN, jpeg_start_compress(all) PROVE Passes'
  <2>1. cinfo # NoImage /\ cinfo' = cinfo /\ global_state = "START" /\ call.pc = "app"
    BY <1>3 DEF jpeg_start_compress, MayBegin, Idle
  <2> DEFINE m == master_control(cinfo, FALSE)
             sc == per_scan_setup(cinfo, initial_setup(cinfo), select_scan_parameters(cinfo, 0))
  <2>2. \/ global_state' = "START"
        \/ /\ global_state' \in {"RAW_OK", "SCANNING"} /\ call' = call
           /\ geom' = initial_setup(cinfo) /\ scan' = sc
           /\ master' = [m EXCEPT !.call_pass_startup = ~optimized(cinfo), !.is_last_pass = m.total_passes = 1]
    BY <1>3, <2>1 DEF jpeg_start_compress
  <2>. SUFFICES ASSUME global_state' # "START", failed' = NoError PROVE Passes' BY DEF Passes, Running
  <2>3. cinfo \in Images BY <2>1 DEF Begun
  <2>4. num_scans(cinfo) \in Nat /\ num_scans(cinfo) > 0 BY <2>3, SomeScans
  <2>5. SomeScan(cinfo, geom', scan') BY <2>2, <2>4 DEF SomeScan
  <2>6. InPass' BY <2>1, <2>2 DEF InPass, Running
  <2>7. m = [pass_type |-> "main_pass", scan_number |-> 0, pass_number |-> 0, call_pass_startup |-> FALSE,
             is_last_pass |-> FALSE,
             total_passes |-> IF optimized(cinfo) THEN num_scans(cinfo) * 2 ELSE num_scans(cinfo)]
    BY DEF master_control
  <2> DEFINE a == ~optimized(cinfo)
             b == m.total_passes = 1
  <2>8. a \in BOOLEAN /\ b \in BOOLEAN OBVIOUS
  <2>9. master' = [m EXCEPT !.call_pass_startup = a, !.is_last_pass = b] BY <2>2
  <2>. HIDE DEF a, b, m
  <2>10. master' = [pass_type |-> "main_pass", scan_number |-> 0, pass_number |-> 0, call_pass_startup |-> a,
                    is_last_pass |-> b,
                    total_passes |-> IF optimized(cinfo) THEN num_scans(cinfo) * 2 ELSE num_scans(cinfo)]
    BY <2>7, <2>9
  <2>11. b <=> master'.total_passes = 1 BY <2>7, <2>10 DEF b
  <2>. HIDE DEF InPass
  <2>. QED BY <2>1, <2>2, <2>4, <2>5, <2>6, <2>8, <2>10, <2>11 DEF Passes, IsLast, Calls
<1>4. CASE jpeg_write_coefficients
  <2>1. cinfo # NoImage /\ cinfo' = cinfo /\ global_state = "START" /\ call.pc = "app"
    BY <1>4 DEF jpeg_write_coefficients, MayBegin, Idle
  <2>2. global_state' = "START" \/ (global_state' = "WRCOEFS" /\ call' = call
                                    /\ master' = master_control(cinfo, TRUE))
    BY <1>4, <2>1 DEF jpeg_write_coefficients
  <2>. SUFFICES ASSUME global_state' # "START", failed' = NoError PROVE Passes' BY DEF Passes, Running
  <2>3. cinfo \in Images BY <2>1 DEF Begun
  <2>4. num_scans(cinfo) \in Nat /\ num_scans(cinfo) > 0 BY <2>3, SomeScans
  <2>6. ~InPass' BY <2>1, <2>2 DEF InPass, Running
  <2> DEFINE type == IF optimized(cinfo) THEN "huff_opt_pass" ELSE "output_pass"
             total == IF optimized(cinfo) THEN num_scans(cinfo) * 2 ELSE num_scans(cinfo)
  <2>7. master' = [pass_type |-> type,
                   scan_number |-> 0, pass_number |-> 0, call_pass_startup |-> FALSE, is_last_pass |-> FALSE,
                   total_passes |-> total]
    BY <2>2 DEF master_control
  <2>8. /\ master'.pass_type = type /\ master'.scan_number = 0 /\ master'.pass_number = 0
        /\ master'.call_pass_startup = FALSE /\ master'.is_last_pass = FALSE /\ master'.total_passes = total
    BY <2>7
  <2>9. master' = [pass_type |-> master'.pass_type, scan_number |-> master'.scan_number,
                   pass_number |-> master'.pass_number, call_pass_startup |-> master'.call_pass_startup,
                   is_last_pass |-> master'.is_last_pass, total_passes |-> master'.total_passes]
    <3>. HIDE DEF type, total
    <3>. QED BY <2>7
  <2>10. /\ type \in {"huff_opt_pass", "output_pass"}
         /\ optimized(cinfo) => type = "huff_opt_pass" /\ total = 2 * num_scans(cinfo)
         /\ ~optimized(cinfo) => type = "output_pass" /\ total = num_scans(cinfo)
         /\ total \in Nat /\ total > 0
    BY <2>4
  <2>11. /\ master'.pass_type \in {"huff_opt_pass", "output_pass"}
         /\ master'.scan_number = 0 /\ master'.pass_number = 0
         /\ master'.call_pass_startup \in BOOLEAN /\ master'.is_last_pass \in BOOLEAN
         /\ ~master'.is_last_pass /\ master'.total_passes \in Nat /\ master'.total_passes > 0
         /\ optimized(cinfo)' => master'.pass_type = "huff_opt_pass" /\ master'.total_passes = 2 * num_scans(cinfo)'
         /\ ~optimized(cinfo)' => master'.pass_type = "output_pass" /\ master'.total_passes = num_scans(cinfo)'
    BY <2>1, <2>8, <2>10
  <2>12. call'.pc = "app" /\ global_state' = "WRCOEFS" BY <2>1, <2>2
  <2>. HIDE DEF InPass
  <2>. QED BY <2>6, <2>9, <2>11, <2>12 DEF Passes, IsLast
<1>5. CASE jpeg_abort_compress BY <1>5 DEF jpeg_abort_compress, Passes, Running
<1>6. CASE jpeg_write_tables BY <1>6 DEF jpeg_write_tables, MayBegin, Passes, Running
<1>7. CASE FinishImage BY <1>7 DEF FinishImage, Passes, Running
<1>8. CASE UNCHANGED vars BY <1>8 DEF vars, control, Passes, InPass, Running, IsLast
<1>. QED BY <1>1, <1>2, <1>3, <1>4, <1>5, <1>6, <1>7, <1>8, Steps

-----------------------------------------------------------------------------
(* The scans of an image that was checked name components it has.            *)
LEMMA ScanSetUp ==
  ASSUME NEW im, NEW g, NEW k, NEW sc, sc = per_scan_setup(im, g, k)
  PROVE  sc.comps = k.comps /\ sc.Ss = k.Ss /\ sc.Ah = k.Ah
<1> DEFINE lone == Len(k.comps) = 1
           first == g.comps[k.comps[1]]
           across == IF lone THEN first.width_in_blocks ELSE jdiv_round_up(im.image_width, g.max_h * DCTSIZE)
           rows == IF lone THEN first.height_in_blocks ELSE jdiv_round_up(im.image_height, g.max_v * DCTSIZE)
           cur == [i \in DOMAIN k.comps |->
        LET c == g.comps[k.comps[i]]
        IN IF lone
           THEN [MCU_width |-> 1, MCU_height |-> 1, last_col_width |-> 1,
                 last_row_height |-> remainder(c.height_in_blocks, c.v)]
           ELSE [MCU_width |-> c.h, MCU_height |-> c.v,
                 last_col_width |-> remainder(c.width_in_blocks, c.h),
                 last_row_height |-> remainder(c.height_in_blocks, c.v)]]
           interval == IF im.restart_in_rows > 0 THEN AtMost(im.restart_in_rows * across, 65535)
                       ELSE im.restart_interval
<1> DEFINE r == [comps |-> k.comps, Ss |-> k.Ss, Se |-> k.Se, Ah |-> k.Ah, Al |-> k.Al,
                 MCUs_per_row |-> across, MCU_rows_in_scan |-> rows, cur |-> cur, restart_interval |-> interval]
<1>1. per_scan_setup(im, g, k) = r BY DEF per_scan_setup
<1>2. r.comps = k.comps /\ r.Ss = k.Ss /\ r.Ah = k.Ah
  <2>. HIDE DEF across, rows, cur, interval
  <2>. QED OBVIOUS
<1>. HIDE DEF r
<1>. QED BY <1>1, <1>2

LEMMA ScansAreChecked ==
  ASSUME NEW im \in Images, NEW g, NEW sc, SomeScan(im, g, sc),
         im.scan_info # <<>> => validate_script_error(im) = NoError
  PROVE  ScanOf(im, sc)
<1>1. PICK n \in 0 .. num_scans(im) - 1 : sc = per_scan_setup(im, g, select_scan_parameters(im, n))
  BY DEF SomeScan
<1> DEFINE k == select_scan_parameters(im, n)
           C == DOMAIN im.comp_info
           R == [comps : Seq(Int), Ss : Int, Se : Int, Ah : Int, Al : Int]
<1>2. sc.comps = k.comps
  <2>1. sc = per_scan_setup(im, g, k) BY <1>1
  <2>. HIDE DEF k
  <2>. QED BY <2>1, ScanSetUp
<1>3. WellFormed(im) BY ImagesAssumption
<1>4. Len(im.comp_info) \in Nat /\ C = 1 .. Len(im.comp_info) BY <1>3, ComponentTables
<1>5. CASE im.scan_info = <<>>
  <2>1. k.comps = [c \in C |-> c] BY <1>5 DEF select_scan_parameters
  <2>2. k.comps \in Seq(C)
    <3>. HIDE DEF k, C
    <3>. QED BY <2>1, <1>4
  <2>. QED BY <1>2, <2>2 DEF ScanOf
<1>6. CASE im.scan_info # <<>>
  <2>1. k = im.scan_info[n + 1] BY <1>6 DEF select_scan_parameters
  <2>2. im.scan_info \in Seq(R) BY <1>3 DEF WellFormed
  <2>3. n + 1 \in DOMAIN im.scan_info /\ k \in R
    <3> DEFINE s == im.scan_info
    <3>1. num_scans(im) = Len(s) BY <1>6 DEF num_scans
    <3>2. s \in Seq(R) /\ s # <<>> BY <2>2, <1>6
    <3>. HIDE DEF R, s
    <3>3. Len(s) \in Nat /\ n + 1 \in 1 .. Len(s) /\ DOMAIN s = 1 .. Len(s) BY <3>1, <3>2
    <3>4. s[n + 1] \in R BY <3>2, <3>3
    <3>. QED BY <2>1, <3>3, <3>4 DEF s
  <2>4. GoodComponents(im.scan_info[n + 1], Len(im.comp_info))
    <3> DEFINE bad == {m \in DOMAIN im.scan_info :
                \/ ~GoodComponents(im.scan_info[m], Len(im.comp_info))
                \/ progressive(im) /\ ~GoodProgressiveScan(im.scan_info, m)
                \/ ~progressive(im) /\ ~GoodSequentialScan(im.scan_info, m)}
    <3>1. bad = {} BY <1>6 DEF validate_script_error, NoError
    <3>. QED BY <2>3, <3>1
  <2>5. k.comps \in Seq(Int) /\ \A i \in DOMAIN k.comps : k.comps[i] \in C
    BY <1>4, <2>1, <2>3, <2>4 DEF GoodComponents
  <2>6. k.comps \in Seq(C)
    <3> DEFINE s == k.comps
    <3>1. s \in Seq(Int) /\ \A i \in DOMAIN s : s[i] \in C BY <2>5
    <3>. HIDE DEF s, C
    <3>2. Len(s) \in Nat /\ DOMAIN s = 1 .. Len(s) /\ s = [i \in 1 .. Len(s) |-> s[i]] BY <3>1
    <3>3. \A i \in 1 .. Len(s) : s[i] \in C BY <3>1, <3>2
    <3>4. [i \in 1 .. Len(s) |-> s[i]] \in Seq(C) BY <3>2, <3>3
    <3>5. s \in Seq(C) BY <3>2, <3>4, Zenon
    <3>. QED BY <3>5 DEF s, C
  <2>. QED BY <1>2, <2>6 DEF ScanOf
<1>. QED BY <1>5, <1>6

LEMMA ThisScanOf ==
  ASSUME Begun, Running, NEW sc, SomeScan(cinfo, geom, sc)
  PROVE  cinfo \in Images /\ WellFormed(cinfo) /\ ScanOf(cinfo, sc)
<1>1. cinfo \in Images /\ (cinfo.scan_info # <<>> => validate_script_error(cinfo) = NoError) BY DEF Begun, Running
<1>. QED BY <1>1, ScansAreChecked, ImagesAssumption

(* The headers of a scan, behind those of the frame or not.                  *)
LEMMA HeadersWritten ==
  ASSUME NEW im, WellFormed(im), NEW sc, ScanOf(im, sc), NEW tabs, IsTables(tabs), NEW last,
         NEW frame, frame = Writer(tabs) \/ frame = write_frame_header(Writer(tabs), im)
  PROVE  LET w == write_scan_header(frame, im, sc, last)
         IN /\ Emits(tabs, w.toks, w.tables)
            /\ w.error = NoError => \A e \in CodingTables(im, sc) : w.tables[e[1]][e[2]].sent
<1> DEFINE w == write_scan_header(frame, im, sc, last)
<1>1. IsWriter(Writer(tabs)) BY NewWriter
<1>2. Wrote(Writer(tabs), frame) BY <1>1, WroteNothing, FrameHeaderWritten
<1>3. IsWriter(frame) BY <1>2 DEF Wrote
<1>4. Wrote(frame, w) /\ (w.error = NoError => \A e \in ToSet(ScanTables(im, sc)) : w.tables[e[1]][e[2]].sent)
  BY <1>3, ScanHeaderWritten
<1>. HIDE DEF w
<1>5. Wrote(Writer(tabs), w) BY <1>2, <1>4, WroteTwice
<1>6. Emits(tabs, w.toks, w.tables) BY <1>5, WrittenAll
<1>7. (w.error = NoError => \A e \in CodingTables(im, sc) : w.tables[e[1]][e[2]].sent) BY <1>4 DEF CodingTables
<1>. QED BY <1>6, <1>7 DEF w

LEMMA StartupWritten ==
  ASSUME Begun, Running, SomeScan(cinfo, geom, scan), IsTables(tables), NEW next, StartOutput(next)
  PROVE  \/ ~master.call_pass_startup /\ UNCHANGED <<master, out, tables>>
         \/ /\ \E t : out' = out \o t /\ Emits(tables, t, tables')
            /\ failed' = NoError => \A e \in CodingTables(cinfo, scan) : tables'[e[1]][e[2]].sent
<1> DEFINE frame == write_frame_header(Writer(tables), cinfo)
           w == write_scan_header(frame, cinfo, scan, last_restart_interval)
<1>1. pass_startup(Writer(tables)) = w BY DEF pass_startup
<1>2. cinfo \in Images /\ WellFormed(cinfo) /\ ScanOf(cinfo, scan) BY ThisScanOf
<1>3. Emits(tables, w.toks, w.tables)
      /\ (w.error = NoError => \A e \in CodingTables(cinfo, scan) : w.tables[e[1]][e[2]].sent)
  BY <1>2, HeadersWritten
<1>. HIDE DEF w
<1>4. CASE ~master.call_pass_startup BY <1>4 DEF StartOutput
<1>5. CASE master.call_pass_startup
  <2>1. out' = out \o w.toks /\ tables' = w.tables /\ (failed' = NoError => w.error = NoError)
    BY <1>1, <1>5 DEF StartOutput, Fail
  <2>. QED BY <1>3, <2>1
<1>. QED BY <1>4, <1>5

-----------------------------------------------------------------------------
(* What a decoder that has a part of a stream knows at its MCUs.             *)
HasTables(k, toks) ==
  \A i \in DOMAIN toks : toks[i].t = "MCU" =>
    \A u \in toks[i].used : Learn(k, SubSeq(toks, 1, i))[u[1]][u[2]].val = u[3]

LEMMA BeginningOf ==
  ASSUME NEW s, NEW t, IsSeq(s), IsSeq(t), NEW i \in 1 .. Len(s)
  PROVE  SubSeq(s \o t, 1, i) = SubSeq(s, 1, i)
<1> DEFINE u == s \o t
<1>1. Len(s) \in Nat /\ \A j \in 1 .. Len(s) : u[j] = s[j] BY Concatenated
<1>2. i \in Nat /\ 1 + i - 1 = i /\ \A j \in 1 .. i : j + 1 - 1 = j /\ j \in 1 .. Len(s) BY <1>1
<1>. HIDE DEF u
<1>3. SubSeq(u, 1, i) = [j \in 1 .. i |-> u[j]] BY <1>2
<1>4. SubSeq(s, 1, i) = [j \in 1 .. i |-> s[j]] BY <1>2
<1>. QED BY <1>1, <1>2, <1>3, <1>4 DEF u

LEMMA HasMore ==
  ASSUME NEW k, NEW s, NEW t, IsSeq(s), IsSeq(t), HasTables(k, s), \A x \in ToSet(t) : x.t # "MCU"
  PROVE  HasTables(k, s \o t)
<1> DEFINE u == s \o t
<1>1. /\ DOMAIN s = 1 .. Len(s) /\ Len(s) \in Nat /\ DOMAIN t = 1 .. Len(t) /\ Len(t) \in Nat
      /\ DOMAIN u = 1 .. Len(s) + Len(t)
      /\ \A i \in 1 .. Len(s) : u[i] = s[i]
      /\ \A i \in 1 .. Len(t) : u[Len(s) + i] = t[i]
  BY Concatenated
<1>2. ASSUME NEW i \in DOMAIN u, u[i].t = "MCU", NEW x \in u[i].used
      PROVE  Learn(k, SubSeq(u, 1, i))[x[1]][x[2]].val = x[3]
  <2>1. CASE i \in 1 .. Len(s)
    <3>1. u[i] = s[i] /\ i \in DOMAIN s BY <1>1, <2>1
    <3>2. SubSeq(u, 1, i) = SubSeq(s, 1, i) BY <2>1, BeginningOf
    <3>. HIDE DEF u
    <3>. QED BY <1>2, <3>1, <3>2 DEF HasTables
  <2>2. CASE i \notin 1 .. Len(s)
    <3>. HIDE DEF u
    <3>1. i - Len(s) \in 1 .. Len(t) /\ Len(s) + (i - Len(s)) = i BY <1>1, <2>2
    <3>2. u[i] = t[i - Len(s)] /\ i - Len(s) \in DOMAIN t BY <1>1, <3>1
    <3>. QED BY <1>2, <3>2 DEF ToSet
  <2>. QED BY <2>1, <2>2
<1>. HIDE DEF u
<1>3. HasTables(k, u) BY <1>2 DEF HasTables
<1>. QED BY <1>3 DEF u

LEMMA HasMCU ==
  ASSUME NEW k, IsTables(k), NEW s, IsSeq(s), HasTables(k, s), NEW x, x.t = "MCU",
         \A e \in x.used : e[1] \in Classes /\ e[2] \in Slots /\ Learn(k, s)[e[1]][e[2]].val = e[3]
  PROVE  HasTables(k, s \o <<x>>)
<1> DEFINE t == <<x>>
           u == s \o t
<1>0. IsSeq(t) /\ Len(t) = 1 /\ ToSet(t) = {x} /\ t[1] = x BY Short
<1>. HIDE DEF t
<1>1. /\ DOMAIN s = 1 .. Len(s) /\ Len(s) \in Nat /\ DOMAIN u = 1 .. Len(s) + 1
      /\ \A i \in 1 .. Len(s) : u[i] = s[i]
      /\ u[Len(s) + 1] = x /\ IsSeq(u) /\ Len(u) = Len(s) + 1
  <2>1. /\ DOMAIN u = 1 .. Len(s) + Len(t) /\ DOMAIN s = 1 .. Len(s) /\ Len(s) \in Nat
        /\ \A i \in 1 .. Len(s) : u[i] = s[i]
        /\ \A i \in 1 .. Len(t) : u[Len(s) + i] = t[i]
        /\ IsSeq(u) /\ Len(u) = Len(s) + Len(t)
    BY <1>0, Concatenated
  <2>2. 1 \in 1 .. Len(t) BY <1>0
  <2>. HIDE DEF u
  <2>. QED BY <1>0, <2>1, <2>2
<1>2. ASSUME NEW i \in DOMAIN u, u[i].t = "MCU", NEW e \in u[i].used
      PROVE  Learn(k, SubSeq(u, 1, i))[e[1]][e[2]].val = e[3]
  <2>1. CASE i \in 1 .. Len(s)
    <3>1. u[i] = s[i] /\ i \in DOMAIN s BY <1>1, <2>1
    <3>2. SubSeq(u, 1, i) = SubSeq(s, 1, i) BY <1>0, <2>1, BeginningOf
    <3>. HIDE DEF u
    <3>. QED BY <1>2, <3>1, <3>2 DEF HasTables
  <2>2. CASE i \notin 1 .. Len(s)
    <3>1. i = Len(s) + 1 /\ u[i] = x
      <4>. HIDE DEF u
      <4>. QED BY <1>1, <2>2
    <3>2. SubSeq(u, 1, i) = u
      <4>. HIDE DEF u
      <4>1. u \in Seq(ToSet(u)) /\ i = Len(u) BY <1>1, <3>1 DEF IsSeq
      <4>. QED BY <4>1
    <3>3. e[1] \in Classes /\ e[2] \in Slots /\ Learn(k, s)[e[1]][e[2]].val = e[3]
      <4>. HIDE DEF u
      <4>. QED BY <1>2, <3>1
    <3> DEFINE c == e[1]
               n == e[2]
    <3>4. \A y \in ToSet(t) : ~Defines(y, c, n) BY <1>0 DEF Defines
    <3>5. Learn(k, s \o t)[c][n].val = Learn(k, s)[c][n].val
      <4>1. c \in Classes /\ n \in Slots BY <3>3
      <4>. HIDE DEF c, n
      <4>. QED BY <1>0, <3>4, <4>1, LearnMore
    <3>. QED BY <3>2, <3>3, <3>5
  <2>. QED BY <2>1, <2>2
<1>. HIDE DEF u
<1>3. HasTables(k, u) BY <1>2 DEF HasTables
<1>. QED BY <1>3 DEF u, t

(* Tokens that define no tables change nothing of what the decoder knows.    *)
LEMMA AgreeStill ==
  ASSUME NEW tabs, NEW k, IsTables(k), NEW s, IsSeq(s), NEW t, IsSeq(t),
         \A x \in ToSet(t) : x.t \notin {"DQT", "DHT"}
  PROVE  Agree(tabs, k, s \o t) <=> Agree(tabs, k, s)
<1>1. ASSUME NEW c \in Classes, NEW n \in Slots PROVE Learn(k, s \o t)[c][n].val = Learn(k, s)[c][n].val
  <2>1. \A x \in ToSet(t) : ~Defines(x, c, n) BY DEF Defines
  <2>. QED BY <2>1, LearnMore
<1>. QED BY <1>1 DEF Agree

LEMMA EmptyBegins == ASSUME NEW t, IsSeq(t) PROVE <<>> \o t = t /\ t \o <<>> = t
BY DEF IsSeq

-----------------------------------------------------------------------------
(* The table slots.                                                          *)
LEMMA WithTables ==
  ASSUME NEW t, IsTables(t), NEW c \in Classes, NEW n \in Slots, NEW val, NEW u, u = WithTable(t, c, n, val)
  PROVE  /\ IsTables(u)
         /\ \A d \in Classes, m \in Slots :
              u[d][m] = IF d = c /\ m = n THEN [val |-> val, sent |-> FALSE] ELSE t[d][m]
<1> DEFINE r == [val |-> val, sent |-> FALSE]
<1>1. u = [t EXCEPT ![c][n] = r] BY DEF WithTable
<1>2. r = [val |-> r.val, sent |-> r.sent] /\ r.sent \in BOOLEAN OBVIOUS
<1>. HIDE DEF r
<1>3. \A d \in Classes, m \in Slots : u[d][m] = IF d = c /\ m = n THEN r ELSE t[d][m]
  BY <1>1, SMTT(30) DEF IsTables
<1>4. u = [d \in Classes |-> u[d]] /\ \A d \in Classes : u[d] = [m \in Slots |-> u[d][m]]
  BY <1>1 DEF IsTables
<1>5. ASSUME NEW d \in Classes, NEW m \in Slots
      PROVE  u[d][m] = [val |-> u[d][m].val, sent |-> u[d][m].sent] /\ u[d][m].sent \in BOOLEAN
  <2>1. t[d][m] = [val |-> t[d][m].val, sent |-> t[d][m].sent] /\ t[d][m].sent \in BOOLEAN BY DEF IsTables
  <2>2. u[d][m] = r \/ u[d][m] = t[d][m] BY <1>3
  <2>. QED BY <1>2, <2>1, <2>2
<1>6. IsTables(u) BY <1>4, <1>5 DEF IsTables
<1>. QED BY <1>3, <1>6 DEF r

StandardIn(u, t) ==
  \A d \in Classes, m \in Slots :
    u[d][m] = IF d \in {"dc", "ac"} /\ m < 2 THEN [val |-> StdTable, sent |-> FALSE] ELSE t[d][m]
LEMMA StandardTables ==
  ASSUME NEW t, IsTables(t), NEW u, u = std_huff_tables(t)
  PROVE  IsTables(u) /\ StandardIn(u, t)
<1> DEFINE r == [val |-> StdTable, sent |-> FALSE]
           F(d) == [n \in Slots |-> IF n < 2 THEN r ELSE t[d][n]]
           f == F("dc")
           g == F("ac")
<1>1. u = [t EXCEPT !["dc"] = f, !["ac"] = g]
  <2>1. t = [c \in Classes |-> t[c]] BY DEF IsTables
  <2>. QED BY <2>1 DEF std_huff_tables, Classes
<1>2. r = [val |-> r.val, sent |-> r.sent] /\ r.sent \in BOOLEAN OBVIOUS
<1>. HIDE DEF r
<1>3. /\ f = [n \in Slots |-> f[n]] /\ \A n \in Slots : f[n] = IF n < 2 THEN r ELSE t["dc"][n]
      /\ g = [n \in Slots |-> g[n]] /\ \A n \in Slots : g[n] = IF n < 2 THEN r ELSE t["ac"][n]
  OBVIOUS
<1>. HIDE DEF f, g
<1>4. u = [d \in Classes |-> u[d]] /\ u["dc"] = f /\ u["ac"] = g /\ u["q"] = t["q"]
  BY <1>1 DEF IsTables, Classes
<1>5. \A d \in Classes : d \in {"dc", "ac", "q"} BY DEF Classes
<1>6. ASSUME NEW d \in Classes, NEW m \in Slots
      PROVE  u[d][m] = IF d \in {"dc", "ac"} /\ m < 2 THEN r ELSE t[d][m]
  BY <1>3, <1>4, <1>5
<1>7. ASSUME NEW d \in Classes PROVE u[d] = [m \in Slots |-> u[d][m]]
  <2>1. t["q"] = [m \in Slots |-> t["q"][m]] BY DEF IsTables, Classes
  <2>. QED BY <1>3, <1>4, <1>5, <2>1
<1>8. ASSUME NEW d \in Classes, NEW m \in Slots
      PROVE  u[d][m] = [val |-> u[d][m].val, sent |-> u[d][m].sent] /\ u[d][m].sent \in BOOLEAN
  <2>1. t[d][m] = [val |-> t[d][m].val, sent |-> t[d][m].sent] /\ t[d][m].sent \in BOOLEAN BY DEF IsTables
  <2>2. u[d][m] = r \/ u[d][m] = t[d][m] BY <1>6
  <2>. QED BY <1>2, <2>1, <2>2
<1>9. IsTables(u) BY <1>4, <1>7, <1>8 DEF IsTables
<1>. QED BY <1>6, <1>9 DEF r, StandardIn

(* What jpeg_set_defaults makes: tables that were not sent.                  *)
LEMMA DefaultTables ==
  ASSUME NEW t, IsTables(t), NEW quality, NEW u, u = std_huff_tables(jpeg_set_quality(t, quality))
  PROVE  /\ IsTables(u)
         /\ \A d \in Classes, m \in Slots : u[d][m] = t[d][m] \/ ~u[d][m].sent
         /\ \A d \in {"dc", "ac"}, m \in {0, 1} : u[d][m].val = StdTable
<1> DEFINE v == QualityTable(quality)
           a == WithTable(t, "q", 0, v)
           b == WithTable(a, "q", 1, v)
<1>1. u = std_huff_tables(b) BY DEF jpeg_set_quality
<1>0. "q" \in Classes /\ 0 \in Slots /\ 1 \in Slots BY DEF Classes, Slots, NUM_TBLS
<1>. HIDE DEF v
<1>2. a = WithTable(t, "q", 0, v) OBVIOUS
<1>. HIDE DEF a
<1>3. b = WithTable(a, "q", 1, v) OBVIOUS
<1>. HIDE DEF b
<1>4. /\ IsTables(a) /\ \A d \in Classes, m \in Slots :
              a[d][m] = IF d = "q" /\ m = 0 THEN [val |-> v, sent |-> FALSE] ELSE t[d][m]
  BY <1>0, <1>2, WithTables
<1>5. /\ IsTables(b) /\ \A d \in Classes, m \in Slots :
              b[d][m] = IF d = "q" /\ m = 1 THEN [val |-> v, sent |-> FALSE] ELSE a[d][m]
  BY <1>0, <1>3, <1>4, WithTables
<1>6. IsTables(u) /\ StandardIn(u, b) BY <1>1, <1>5, StandardTables
<1>7. ASSUME NEW d \in Classes, NEW m \in Slots PROVE u[d][m] = t[d][m] \/ ~u[d][m].sent
  BY <1>4, <1>5, <1>6 DEF StandardIn
<1>8. ASSUME NEW d \in {"dc", "ac"}, NEW m \in {0, 1} PROVE u[d][m].val = StdTable
  <2>1. d \in Classes /\ m \in Slots BY DEF Classes, Slots, NUM_TBLS
  <2>2. m < 2 OBVIOUS
  <2>3. u[d][m] = [val |-> StdTable, sent |-> FALSE] BY <1>6, <2>1, <2>2 DEF StandardIn
  <2>. QED BY <2>3
<1>. QED BY <1>6, <1>7, <1>8

Unsent(u, t) ==
  \A d \in Classes, m \in Slots :
    u[d][m].val = t[d][m].val /\ (t[d][m].val # NullTable => ~u[d][m].sent)
    /\ (t[d][m].val = NullTable => u[d][m] = t[d][m])
LEMMA SuppressedTables ==
  ASSUME NEW t, IsTables(t), NEW u, u = jpeg_suppress_tables(t, FALSE)
  PROVE  IsTables(u) /\ Unsent(u, t)
<1> DEFINE S(d, m) == IF t[d][m].val = NullTable THEN t[d][m] ELSE [t[d][m] EXCEPT !.sent = FALSE]
<1>1. u = [class \in Classes |-> [n \in Slots |-> S(class, n)]] BY DEF jpeg_suppress_tables
<1>. HIDE DEF S
<1>2. ASSUME NEW d \in Classes, NEW m \in Slots
      PROVE  /\ u[d][m] = [val |-> u[d][m].val, sent |-> u[d][m].sent] /\ u[d][m].sent \in BOOLEAN
             /\ u[d][m].val = t[d][m].val /\ (t[d][m].val # NullTable => ~u[d][m].sent)
             /\ (t[d][m].val = NullTable => u[d][m] = t[d][m])
  <2>1. t[d][m] = [val |-> t[d][m].val, sent |-> t[d][m].sent] /\ t[d][m].sent \in BOOLEAN BY DEF IsTables
  <2>2. u[d] = [n \in Slots |-> S(d, n)] BY <1>1
  <2>3. u[d][m] = S(d, m) BY <2>2
  <2>. QED BY <2>1, <2>3 DEF S
<1>3. u = [d \in Classes |-> u[d]] /\ \A d \in Classes : u[d] = [m \in Slots |-> u[d][m]] BY <1>1
<1>4. IsTables(u) BY <1>2, <1>3 DEF IsTables
<1>. QED BY <1>2, <1>4 DEF Unsent

LEMMA GatheredAre ==
  ASSUME IsTables(tables), NEW u, u = GatheredTables
  PROVE  /\ IsTables(u)
         /\ \A d \in Classes, m \in Slots :
              IF <<d, m>> \in DOMAIN entropy.counts
              THEN u[d][m].val = OptimalTable(entropy.counts[<<d, m>>]) /\ ~u[d][m].sent
              ELSE u[d][m] = tables[d][m]
<1> DEFINE T(d, m) == OptimalTable(entropy.counts[<<d, m>>])
           In(d, m) == <<d, m>> \in DOMAIN entropy.counts
<1>1. u = [class \in Classes |-> [n \in Slots |->
             IF In(class, n) THEN [val |-> T(class, n), sent |-> FALSE] ELSE tables[class][n]]]
  BY DEF GatheredTables
<1>. HIDE DEF T, In
<1>2. ASSUME NEW d \in Classes, NEW m \in Slots
      PROVE  /\ u[d][m] = [val |-> u[d][m].val, sent |-> u[d][m].sent] /\ u[d][m].sent \in BOOLEAN
             /\ IF In(d, m) THEN u[d][m].val = T(d, m) /\ ~u[d][m].sent ELSE u[d][m] = tables[d][m]
  <2>1. tables[d][m] = [val |-> tables[d][m].val, sent |-> tables[d][m].sent] /\ tables[d][m].sent \in BOOLEAN
    BY DEF IsTables
  <2>2. u[d][m] = IF In(d, m) THEN [val |-> T(d, m), sent |-> FALSE] ELSE tables[d][m] BY <1>1
  <2>3. CASE In(d, m) BY <2>2, <2>3
  <2>4. CASE ~In(d, m) BY <2>1, <2>2, <2>4
  <2>. QED BY <2>3, <2>4
<1>3. u = [d \in Classes |-> u[d]] /\ \A d \in Classes : u[d] = [m \in Slots |-> u[d][m]] BY <1>1
<1>4. IsTables(u) BY <1>2, <1>3 DEF IsTables
<1>. QED BY <1>2, <1>4 DEF T, In

-----------------------------------------------------------------------------
(* What a step inside an image adds to the stream.                           *)
LEMMA NothingWritten ==
  ASSUME IsTables(tables), IsSeq(out), UNCHANGED <<out, tables>>
  PROVE  \E t : out' = out \o t /\ Emits(tables, t, tables')
<1>1. out' = out \o <<>> BY EmptyBegins
<1>2. Emits(tables, <<>>, tables') BY Short DEF Emits
<1>. QED BY <1>1, <1>2

LEMMA PrepareWritten ==
  ASSUME Calls, Begun, Passes, IsTables(tables), IsSeq(out), PrepareOutput
  PROVE  /\ \E t : out' = out \o t /\ Emits(tables, t, tables')
         /\ failed' = NoError =>
              /\ entropy' = start_pass_entropy(cinfo, scan', tables, FALSE)
              /\ \A e \in CodingTables(cinfo, scan') : tables'[e[1]][e[2]].sent
              /\ master'.pass_type = "output_pass"
              /\ entropy_error(cinfo, scan', tables, FALSE) = NoError
<1> DEFINE skipped == master.pass_type = "huff_opt_pass"
           number == IF skipped THEN master.pass_number + 1 ELSE master.pass_number
           sc == IF skipped \/ ~optimized(cinfo) THEN ThisScan ELSE scan
           eerror == entropy_error(cinfo, sc, tables, FALSE)
           error == IF ThisError # NoError THEN ThisError ELSE eerror
           frame == IF master.scan_number = 0 THEN write_frame_header(Writer(tables), cinfo) ELSE Writer(tables)
           w == write_scan_header(frame, cinfo, sc, last_restart_interval)
<1>1. /\ call.pc = "next_pass" /\ ~master.is_last_pass /\ master.pass_type \in {"output_pass", "huff_opt_pass"}
      /\ IF error # NoError
         THEN failed' = error /\ UNCHANGED <<out, tables>>
         ELSE /\ scan' = sc
              /\ entropy' = start_pass_entropy(cinfo, sc, tables, FALSE)
              /\ master' = [master EXCEPT !.pass_type = "output_pass", !.pass_number = number,
                                          !.is_last_pass = IsLast(number)]
              /\ out' = out \o w.toks /\ tables' = w.tables
              /\ failed' = NoError => w.error = NoError
  BY DEF PrepareOutput, Fail
<1>2. Running /\ ~InPass BY <1>1 DEF Calls, InPass
<1>3. SomeScan(cinfo, geom, sc)
  <2>1. CASE skipped \/ ~optimized(cinfo) BY <1>1, <2>1, ThisScanIsOne
  <2>2. CASE ~(skipped \/ ~optimized(cinfo))
    <3>1. master.pass_type = "output_pass" BY <1>1, <2>2
    <3>2. master.pass_number > 0 BY <1>2, <2>2, <3>1 DEF Passes
    <3>. QED BY <1>2, <2>2, <3>2 DEF Passes
  <2>. QED BY <2>1, <2>2
<1>. HIDE DEF sc
<1>4. WellFormed(cinfo) /\ ScanOf(cinfo, sc) BY <1>2, <1>3, ThisScanOf
<1>5. frame = Writer(tables) \/ frame = write_frame_header(Writer(tables), cinfo) OBVIOUS
<1>. HIDE DEF frame, number
<1>6. Emits(tables, w.toks, w.tables)
      /\ (w.error = NoError => \A e \in CodingTables(cinfo, sc) : w.tables[e[1]][e[2]].sent)
  BY <1>4, <1>5, HeadersWritten
<1>7. error = NoError => eerror = NoError OBVIOUS
<1>. HIDE DEF w, error, eerror
<1>8. CASE error # NoError
  <2>1. failed' # NoError /\ UNCHANGED <<out, tables>> BY <1>1, <1>8
  <2>. QED BY <2>1, NothingWritten
<1>9. CASE error = NoError
  <2>1. master'.pass_type = "output_pass" BY <1>1, <1>2, <1>9 DEF Passes
  <2>. QED BY <1>1, <1>6, <1>7, <1>9, <2>1 DEF eerror
<1>. QED BY <1>8, <1>9

LEMMA OutWithin ==
  ASSUME Calls, Begun, Passes, TablesAgree, Within
  PROVE  \/ \E t : out' = out \o t /\ Emits(tables, t, tables')
         \/ finish_pass_master /\ entropy.gather /\ out' = out
         \/ EncodeMCU /\ ~entropy.gather
<1>0. IsTables(tables) /\ IsSeq(out) /\ Running BY StepWithin DEF TablesAgree
<1>1. CASE UNCHANGED <<out, tables>> BY <1>0, <1>1, NothingWritten
<1>2. ASSUME NEW next, StartOutput(next), call.pc = "app", global_state \in {"SCANNING", "RAW_OK"}
      PROVE  \E t : out' = out \o t /\ Emits(tables, t, tables')
  <2>1. SomeScan(cinfo, geom, scan)
    <3>1. InPass BY <1>0, <1>2 DEF InPass
    <3>. QED BY <1>0, <3>1 DEF Passes
  <2>. QED BY <1>0, <1>1, <1>2, <2>1, StartupWritten, NothingWritten
<1>3. ASSUME NEW n \in 1 .. 3, jpeg_write_scanlines(n) PROVE \E t : out' = out \o t /\ Emits(tables, t, tables')
  <2> DEFINE next == [NoCall EXCEPT !.pc = "main", !.rows = AtMost(n, cinfo.image_height - next_scanline)]
  <2>1. StartOutput(next) /\ global_state = "SCANNING" /\ call.pc = "app" BY <1>3 DEF jpeg_write_scanlines, Idle
  <2>. HIDE DEF next
  <2>. QED BY <1>2, <2>1
<1>4. CASE jpeg_write_raw_data
  <2> DEFINE next == [NoCall EXCEPT !.pc = "coef", !.data = RawRows,
                                    !.row = coef.MCU_vert_offset, !.col = coef.mcu_ctr]
  <2>1. StartOutput(next) /\ global_state = "RAW_OK" /\ call.pc = "app" BY <1>4 DEF jpeg_write_raw_data, Idle
  <2>. HIDE DEF next
  <2>. QED BY <1>2, <2>1
<1>5. CASE jpeg_write_marker
  <2> DEFINE k == [t |-> "COM"]
  <2>1. UNCHANGED tables /\ out' = Append(out, k) BY <1>5 DEF jpeg_write_marker
  <2>2. k.t = "COM" OBVIOUS
  <2>. HIDE DEF k
  <2>3. out' = out \o <<k>> BY <1>0, <2>1, Appended
  <2>4. Emits(tables, <<k>>, tables') BY <1>0, <2>1, <2>2, Short DEF Emits, IsTable
  <2>. QED BY <2>3, <2>4
<1>6. CASE finish_pass_master
  <2>1. UNCHANGED out /\ (entropy.gather \/ UNCHANGED tables) BY <1>6 DEF finish_pass_master
  <2>. QED BY <1>1, <1>6, <2>1
<1>7. CASE EncodeMCU
  <2>1. UNCHANGED tables /\ (~entropy.gather \/ UNCHANGED out) BY <1>7 DEF EncodeMCU, encode_mcu_gather
  <2>. QED BY <1>1, <1>7, <2>1
<1>8. CASE PrepareOutput BY <1>0, <1>8, PrepareWritten
<1>9. CASE jpeg_finish_compress \/ PreProcess \/ PassRow \/ ReturnRows \/ FinishRow \/ RefuseMCU \/ PrepareStatistics
  <2>1. UNCHANGED <<out, tables>>
    BY <1>9 DEF jpeg_finish_compress, PreProcess, PassRow, ReturnRows, FinishRow, RefuseMCU, PrepareStatistics
  <2>. QED BY <1>1, <2>1
<1>. QED BY <1>3, <1>4, <1>5, <1>6, <1>7, <1>8, <1>9 DEF Within

-----------------------------------------------------------------------------
(* The entropy coder.                                                        *)
IsCoder(e) ==
  e = [gather |-> e.gather, last_dc |-> e.last_dc, counts |-> e.counts, derived |-> e.derived,
       restarts_to_go |-> e.restarts_to_go, next_restart_num |-> e.next_restart_num]

Started(e, im, sc, tabs, gather) ==
  /\ IsCoder(e) /\ e.gather = gather
  /\ e.last_dc = [i \in DOMAIN sc.comps |-> <<>>] /\ e.restarts_to_go = sc.restart_interval
  /\ DOMAIN e.counts = CodingTables(im, sc) /\ DOMAIN e.derived = CodingTables(im, sc)
  /\ \A t \in CodingTables(im, sc) : e.counts[t] = {}
  /\ ~gather => \A t \in CodingTables(im, sc) : e.derived[t] = tabs[t[1]][t[2]].val
LEMMA StartedCoder ==
  ASSUME NEW im, NEW sc, NEW tabs, NEW gather \in BOOLEAN, NEW e, e = start_pass_entropy(im, sc, tabs, gather)
  PROVE  Started(e, im, sc, tabs, gather)
<1> DEFINE T == CodingTables(im, sc)
           C == [t \in T |-> {}]
           D == [t \in T |-> IF gather THEN NullTable ELSE tabs[t[1]][t[2]].val]
           L == [i \in DOMAIN sc.comps |-> <<>>]
           k == sc.restart_interval
<1>1. e = [gather |-> gather, last_dc |-> L, counts |-> C, derived |-> D,
           restarts_to_go |-> k, next_restart_num |-> 0]
  BY DEF start_pass_entropy
<1>2. DOMAIN C = T /\ DOMAIN D = T /\ (\A t \in T : C[t] = {})
      /\ (~gather => \A t \in T : D[t] = tabs[t[1]][t[2]].val)
  <2>. HIDE DEF T
  <2>. QED OBVIOUS
<1>. HIDE DEF T, C, D, L, k
<1>3. IsCoder(e) BY <1>1 DEF IsCoder
<1>4. e.gather = gather /\ e.counts = C /\ e.derived = D /\ e.last_dc = L /\ e.restarts_to_go = k BY <1>1
<1>. QED BY <1>2, <1>3, <1>4 DEF Started, T, L, k

LEMMA CoderAfterMCU ==
  ASSUME EncodeMCU, failed = NoError, IsCoder(entropy)
  PROVE  /\ IsCoder(entropy')
         /\ entropy'.gather = entropy.gather /\ entropy'.derived = entropy.derived
         /\ DOMAIN entropy'.counts = DOMAIN entropy.counts
         /\ failed' = NoError =>
              /\ entropy'.last_dc = LastValues(CurrentMCU, BaseDC)
              /\ entropy'.restarts_to_go = CountDown
              /\ IF entropy.gather
                 THEN \A e \in DOMAIN entropy.counts : entropy'.counts[e] =
                        entropy.counts[e] \cup {d \in Differences(CurrentMCU, BaseDC) : e = <<"dc", d[1]>>}
                 ELSE entropy'.counts = entropy.counts
<1>1. CASE entropy.gather
  <2> DEFINE diffs == Differences(CurrentMCU, BaseDC)
             L == LastValues(CurrentMCU, BaseDC)
             N == CountDown
             C == [e \in DOMAIN entropy.counts |-> entropy.counts[e] \cup {d \in diffs : e = <<"dc", d[1]>>}]
  <2>1. entropy' = [entropy EXCEPT !.last_dc = L, !.restarts_to_go = N, !.counts = C]
    BY <1>1 DEF EncodeMCU, encode_mcu_gather
  <2>2. DOMAIN C = DOMAIN entropy.counts
        /\ \A e \in DOMAIN entropy.counts : C[e] = entropy.counts[e] \cup {d \in diffs : e = <<"dc", d[1]>>}
    <3>. HIDE DEF diffs
    <3>. QED OBVIOUS
  <2>. HIDE DEF L, N, C, diffs
  <2>3. entropy' = [gather |-> entropy.gather, last_dc |-> L, counts |-> C, derived |-> entropy.derived,
                    restarts_to_go |-> N, next_restart_num |-> entropy.next_restart_num]
    BY <2>1 DEF IsCoder
  <2>4. IsCoder(entropy') BY <2>3 DEF IsCoder
  <2>5. /\ entropy'.gather = entropy.gather /\ entropy'.derived = entropy.derived /\ entropy'.counts = C
        /\ entropy'.last_dc = L /\ entropy'.restarts_to_go = N
    BY <2>3
  <2>. QED BY <1>1, <2>2, <2>4, <2>5 DEF L, N, diffs
<1>2. CASE ~entropy.gather /\ failed' # NoError
  <2>1. UNCHANGED entropy BY <1>2 DEF EncodeMCU, encode_mcu_huff
  <2>. QED BY <1>2, <2>1 DEF IsCoder
<1>3. CASE ~entropy.gather /\ failed' = NoError
  <2> DEFINE L == LastValues(CurrentMCU, BaseDC)
             N == CountDown
             R == IF Restarting THEN (entropy.next_restart_num + 1) % 8 ELSE entropy.next_restart_num
  <2>1. entropy' = [entropy EXCEPT !.last_dc = L, !.restarts_to_go = N, !.next_restart_num = R]
    BY <1>3 DEF EncodeMCU, encode_mcu_huff, Fail, NoError
  <2>. HIDE DEF L, N, R
  <2>3. entropy' = [gather |-> entropy.gather, last_dc |-> L, counts |-> entropy.counts, derived |-> entropy.derived,
                    restarts_to_go |-> N, next_restart_num |-> R]
    BY <2>1 DEF IsCoder
  <2>4. IsCoder(entropy') BY <2>3 DEF IsCoder
  <2>5. /\ entropy'.gather = entropy.gather /\ entropy'.derived = entropy.derived /\ entropy'.counts = entropy.counts
        /\ entropy'.last_dc = L /\ entropy'.restarts_to_go = N
    BY <2>3
  <2>. QED BY <1>3, <2>4, <2>5 DEF L, N
<1>. QED BY <1>1, <1>2, <1>3

LEMMA MCUWritten ==
  ASSUME EncodeMCU, ~entropy.gather, IsSeq(out)
  PROVE  \/ UNCHANGED <<out, tables>> /\ failed' # NoError
         \/ /\ UNCHANGED tables
            /\ \E rst, k : /\ out' = out \o rst \o <<k>> /\ IsSeq(rst) /\ k.t = "MCU"
                           /\ k.used = {<<e[1], e[2], entropy.derived[e]>> : e \in DOMAIN entropy.derived}
                           /\ \A x \in ToSet(rst) : x.t \notin {"MCU", "DQT", "DHT"}
<1> DEFINE r == [t |-> "RST", n |-> entropy.next_restart_num]
           rst == IF Restarting THEN <<r>> ELSE <<>>
           k == [t |-> "MCU", blocks |-> CurrentMCU, used |-> UsedTables]
<1>1. UNCHANGED tables /\ \/ UNCHANGED out /\ failed' # NoError
                          \/ out' = out \o rst \o <<k>>
  BY DEF EncodeMCU, encode_mcu_huff, Fail, NoError
<1>2. k.t = "MCU" /\ k.used = UsedTables /\ r.t = "RST" OBVIOUS
<1>. HIDE DEF k, r
<1>3. IsSeq(rst) /\ \A x \in ToSet(rst) : x.t \notin {"MCU", "DQT", "DHT"}
  <2>1. rst = <<r>> \/ rst = <<>> OBVIOUS
  <2>. HIDE DEF rst
  <2>. QED BY <1>2, <2>1, Short
<1>. HIDE DEF rst
<1>. QED BY <1>1, <1>2, <1>3 DEF UsedTables

(* A step that leaves the coder and what decides its tables alone.           *)
LEMMA SameCoder ==
  ASSUME Calls, Coder, Within, UNCHANGED <<entropy, scan>>, IsTables(tables),
         \A c \in Classes, n \in Slots : tables'[c][n].val = tables[c][n].val /\ (tables[c][n].sent => tables'[c][n].sent),
         cinfo \in Images, InPass => SomeScan(cinfo, geom, scan), Begun,
         InPass' => InPass,
         InPass' => master'.pass_type = master.pass_type,
         InPass' /\ ~entropy.gather /\ (call'.pc \in {"main", "coef", "crank"}
                           \/ (call'.pc = "app" /\ ~master'.call_pass_startup)) =>
           \/ call.pc \in {"main", "coef", "crank"} \/ (call.pc = "app" /\ ~master.call_pass_startup)
           \/ \A e \in CodingTables(cinfo, scan) : tables'[e[1]][e[2]].sent
  PROVE  Coder'
<1>1. Running /\ UNCHANGED <<cinfo, global_state, geom>> BY StepWithin
<1>2. SUFFICES ASSUME InPass' PROVE Coder' BY DEF Coder
<1>3. InPass BY <1>2
<1>4. WellFormed(cinfo) /\ ScanOf(cinfo, scan) BY <1>1, <1>3, ThisScanOf
<1>5. ASSUME NEW e \in CodingTables(cinfo, scan) PROVE e[1] \in Classes /\ e[2] \in Slots
  <2>1. CodingTable(cinfo, e) BY <1>4, TablesOfScan DEF CodingTables
  <2>. QED BY <2>1 DEF CodingTable, Classes
<1>6. ~entropy.gather => \A e \in CodingTables(cinfo, scan) : entropy.derived[e] = tables'[e[1]][e[2]].val
  BY <1>3, <1>5 DEF Coder
<1> DEFINE T == CodingTables(cinfo, scan)
<1>7. T' = T /\ optimized(cinfo)' = optimized(cinfo) BY <1>1
<1>8. ~entropy.gather /\ (call'.pc \in {"main", "coef", "crank"}
                           \/ (call'.pc = "app" /\ ~master'.call_pass_startup))
         => \A e \in T : tables'[e[1]][e[2]].sent
  BY <1>2, <1>3, <1>5 DEF Coder
<1>. HIDE DEF T
<1>9. /\ entropy = [gather |-> entropy.gather, last_dc |-> entropy.last_dc, counts |-> entropy.counts,
                  derived |-> entropy.derived, restarts_to_go |-> entropy.restarts_to_go,
                  next_restart_num |-> entropy.next_restart_num]
      /\ entropy.gather \in BOOLEAN
      /\ entropy.gather <=> optimized(cinfo) /\ master.pass_type # "output_pass"
      /\ DOMAIN entropy.counts = T /\ DOMAIN entropy.derived = T
  BY <1>3 DEF Coder, T
<1>10. entropy' = entropy /\ master'.pass_type = master.pass_type BY <1>2
<1>11. ~entropy.gather => \A e \in T : entropy.derived[e] = tables'[e[1]][e[2]].val BY <1>6 DEF T
<1>12. CodingTables(cinfo, scan)' = T BY <1>7 DEF T
<1>. HIDE DEF InPass
<1>. QED BY <1>7, <1>8, <1>9, <1>10, <1>11, <1>12 DEF Coder

LEMMA CoderStep == ASSUME Calls, Begun, Passes, Coder, TablesAgree, [Next]_vars PROVE Coder'
<1>1. CASE Within
  <2>0. Running /\ UNCHANGED <<cinfo, global_state, geom>> BY <1>1, StepWithin
  <2>1. cinfo \in Images /\ (InPass => SomeScan(cinfo, geom, scan)) /\ IsTables(tables) /\ IsSeq(out)
    BY <2>0 DEF Begun, Passes, TablesAgree, Running
  <2>2. ASSUME UNCHANGED tables
        PROVE  \A c \in Classes, n \in Slots : tables'[c][n].val = tables[c][n].val /\ (tables[c][n].sent => tables'[c][n].sent)
    BY <2>2
  <2>3. ASSUME NEW next, StartOutput(next), UNCHANGED <<entropy, scan>>, next.pc \in {"main", "coef"},
               call.pc = "app", global_state \in {"SCANNING", "RAW_OK"}
        PROVE  Coder'
    <3>1. InPass BY <2>0, <2>3 DEF InPass
    <3>2. master'.pass_type = master.pass_type
      <4>1. master' = master \/ master' = [master EXCEPT !.call_pass_startup = FALSE] BY <2>3 DEF StartOutput
      <4>. QED BY <2>0, <4>1 DEF Passes
    <3>3. SomeScan(cinfo, geom, scan) BY <2>1, <3>1
    <3>4. CASE ~master.call_pass_startup /\ UNCHANGED <<master, out, tables>>
      BY <1>1, <2>1, <2>2, <2>3, <3>1, <3>2, <3>4, SameCoder
    <3>5. CASE /\ \E t : out' = out \o t /\ Emits(tables, t, tables')
               /\ failed' = NoError => \A e \in CodingTables(cinfo, scan) : tables'[e[1]][e[2]].sent
      <4>1. \A c \in Classes, n \in Slots : tables'[c][n].val = tables[c][n].val /\ (tables[c][n].sent => tables'[c][n].sent)
        BY <3>5 DEF Emits
      <4>2. InPass' => \A e \in CodingTables(cinfo, scan) : tables'[e[1]][e[2]].sent
        BY <3>5 DEF InPass, Running
      <4>. QED BY <1>1, <2>1, <2>3, <3>1, <3>2, <4>1, <4>2, SameCoder
    <3>. QED BY <2>0, <2>1, <2>3, <3>3, <3>4, <3>5, StartupWritten
  <2>4. ASSUME NEW n \in 1 .. 3, jpeg_write_scanlines(n) PROVE Coder'
    <3> DEFINE next == [NoCall EXCEPT !.pc = "main", !.rows = AtMost(n, cinfo.image_height - next_scanline)]
    <3>1. StartOutput(next) /\ UNCHANGED <<entropy, scan>> /\ global_state = "SCANNING" /\ call.pc = "app"
      BY <2>4 DEF jpeg_write_scanlines, Idle
    <3>2. next.pc = "main" BY DEF NoCall
    <3>. HIDE DEF next
    <3>. QED BY <2>3, <3>1, <3>2
  <2>5. CASE jpeg_write_raw_data
    <3> DEFINE next == [NoCall EXCEPT !.pc = "coef", !.data = RawRows,
                                      !.row = coef.MCU_vert_offset, !.col = coef.mcu_ctr]
    <3>1. StartOutput(next) /\ UNCHANGED <<entropy, scan>> /\ global_state = "RAW_OK" /\ call.pc = "app"
      BY <2>5 DEF jpeg_write_raw_data, Idle
    <3>2. next.pc = "coef" BY DEF NoCall
    <3>. HIDE DEF next
    <3>. QED BY <2>3, <3>1, <3>2
  <2>6. CASE jpeg_write_marker
    <3>1. UNCHANGED <<entropy, scan, tables, master, call>> /\ call.pc = "app"
      BY <2>6 DEF jpeg_write_marker, control, Idle
    <3>2. InPass' => InPass BY <2>0, <3>1 DEF InPass, Running
    <3>. QED BY <1>1, <2>1, <2>2, <3>1, <3>2, SameCoder
  <2>7. CASE jpeg_finish_compress
    <3>1. UNCHANGED <<entropy, scan, tables, master>> /\ call.pc = "app" BY <2>7 DEF jpeg_finish_compress, control, Idle
    <3>2. failed' = NoError => call'.pc = IF global_state = "WRCOEFS" THEN "next_pass" ELSE "finish_pass"
      BY <2>7, CallShapes DEF jpeg_finish_compress, Fail, NoError
    <3>3. InPass' => InPass /\ call'.pc = "finish_pass" BY <2>0, <3>1, <3>2 DEF InPass, Running
    <3>. QED BY <1>1, <2>1, <2>2, <3>1, <3>3, SameCoder
  <2>8. CASE PreProcess \/ PassRow \/ ReturnRows \/ FinishRow \/ RefuseMCU
    <3>1. UNCHANGED <<entropy, scan, tables, master>> /\ call.pc \in {"main", "coef", "crank"}
      BY <2>8 DEF PreProcess, PassRow, ReturnRows, FinishRow, RefuseMCU, control, Coding
    <3>2. InPass BY <2>0, <3>1 DEF InPass
    <3>. QED BY <1>1, <2>1, <2>2, <3>1, <3>2, SameCoder
  <2>9. CASE EncodeMCU
    <3>1. UNCHANGED <<scan, tables, master>> /\ call.pc \in {"coef", "crank"} BY <2>9 DEF EncodeMCU, Coding
    <3>2. InPass /\ failed = NoError BY <2>0, <3>1 DEF InPass, Running
    <3>3. IsCoder(entropy) BY <3>2 DEF Coder, IsCoder
    <3>4. /\ IsCoder(entropy')
          /\ entropy'.gather = entropy.gather /\ entropy'.derived = entropy.derived
          /\ DOMAIN entropy'.counts = DOMAIN entropy.counts
      BY <2>9, <3>2, <3>3, CoderAfterMCU
    <3> DEFINE T == CodingTables(cinfo, scan)
    <3>5. T' = T /\ optimized(cinfo)' = optimized(cinfo) BY <2>0, <3>1
    <3>6. /\ entropy.gather \in BOOLEAN
          /\ entropy.gather <=> optimized(cinfo) /\ master.pass_type # "output_pass"
          /\ DOMAIN entropy.counts = T /\ DOMAIN entropy.derived = T
          /\ ~entropy.gather => \A e \in T : entropy.derived[e] = tables[e[1]][e[2]].val /\ tables[e[1]][e[2]].sent
      BY <3>1, <3>2 DEF Coder
    <3>. HIDE DEF T, InPass
    <3>7. CodingTables(cinfo, scan)' = T BY <3>5 DEF T
    <3>. QED BY <3>1, <3>4, <3>5, <3>6, <3>7 DEF Coder, IsCoder
  <2>10. CASE finish_pass_master
    <3>1. call'.pc = "next_pass" BY <2>10 DEF finish_pass_master, Calls
    <3>. QED BY <3>1 DEF Coder, InPass
  <2>11. CASE PrepareStatistics
    <3>. SUFFICES ASSUME failed' = NoError PROVE Coder' BY DEF Coder, InPass, Running
    <3>1. call.pc = "next_pass" /\ master.pass_type = "huff_opt_pass"
          /\ scan' = ThisScan /\ entropy' = start_pass_entropy(cinfo, ThisScan, tables, TRUE)
          /\ master' = [master EXCEPT !.is_last_pass = IsLast(master.pass_number)]
      BY <2>11 DEF PrepareStatistics, Fail
    <3>2. optimized(cinfo) /\ master'.pass_type = "huff_opt_pass" BY <2>0, <3>1 DEF Passes
    <3>3. entropy' = start_pass_entropy(cinfo, scan', tables, TRUE) BY <3>1
    <3>4. IsCoder(entropy') /\ entropy'.gather = TRUE
          /\ DOMAIN entropy'.counts = CodingTables(cinfo, scan') /\ DOMAIN entropy'.derived = CodingTables(cinfo, scan')
      <4>1. TRUE \in BOOLEAN OBVIOUS
      <4>2. Started(entropy', cinfo, scan', tables, TRUE) BY <3>3, <4>1, StartedCoder, Zenon
      <4>. QED BY <4>2 DEF Started
    <3>. HIDE DEF InPass
    <3>. QED BY <2>0, <3>2, <3>4 DEF Coder, IsCoder
  <2>12. CASE PrepareOutput
    <3>. SUFFICES ASSUME failed' = NoError PROVE Coder' BY DEF Coder, InPass, Running
    <3>1. /\ \E t : out' = out \o t /\ Emits(tables, t, tables')
          /\ entropy' = start_pass_entropy(cinfo, scan', tables, FALSE)
          /\ \A e \in CodingTables(cinfo, scan') : tables'[e[1]][e[2]].sent
          /\ master'.pass_type = "output_pass"
      BY <2>1, <2>12, PrepareWritten
    <3> DEFINE T == CodingTables(cinfo, scan')
    <3>2. \A c \in Classes, n \in Slots : tables'[c][n].val = tables[c][n].val BY <3>1 DEF Emits
    <3>3. IsCoder(entropy') /\ entropy'.gather = FALSE
          /\ DOMAIN entropy'.counts = T /\ DOMAIN entropy'.derived = T
          /\ \A e \in T : entropy'.derived[e] = tables[e[1]][e[2]].val
      <4>1. FALSE \in BOOLEAN OBVIOUS
      <4>2. Started(entropy', cinfo, scan', tables, FALSE) BY <3>1, <4>1, StartedCoder, Zenon
      <4>. QED BY <4>2 DEF Started
    <3>4. SomeScan(cinfo, geom, scan')
      <4>1. InPass'
        <5>1. call'.pc = "crank" BY <2>12, CallShapes DEF PrepareOutput, Crank, Fail, NoError
        <5>. QED BY <2>0, <5>1 DEF InPass, Running
      <4>. QED BY <1>1, <2>0, <4>1, PassesStep DEF Passes, InPass
    <3>5. ASSUME NEW e \in T PROVE e[1] \in Classes /\ e[2] \in Slots
      <4>1. WellFormed(cinfo) /\ ScanOf(cinfo, scan') BY <2>0, <3>4, ThisScanOf
      <4>2. CodingTable(cinfo, e) BY <4>1, TablesOfScan DEF CodingTables
      <4>. QED BY <4>2 DEF CodingTable, Classes
    <3>6. \A e \in T : entropy'.derived[e] = tables'[e[1]][e[2]].val BY <3>2, <3>3, <3>5
    <3>7. CodingTables(cinfo, scan)' = T BY <2>0
    <3>8. \A e \in T : tables'[e[1]][e[2]].sent BY <3>1
    <3>. HIDE DEF InPass, T
    <3>. QED BY <3>1, <3>3, <3>6, <3>7, <3>8 DEF Coder, IsCoder
  <2>. QED BY <1>1, <2>4, <2>5, <2>6, <2>7, <2>8, <2>9, <2>10, <2>11, <2>12 DEF Within
<1>2. ASSUME NEW im \in Images, SetParameters(im) PROVE Coder'
  BY <1>2 DEF SetParameters, MayBegin, Coder, InPass, Running
<1>3. ASSUME NEW all \in BOOLEAN, jpeg_start_compress(all) PROVE Coder'
  <2>1. cinfo' = cinfo /\ global_state = "START" /\ call.pc = "app"
    BY <1>3 DEF jpeg_start_compress, MayBegin, Idle
  <2> DEFINE m == master_control(cinfo, FALSE)
             sc == per_scan_setup(cinfo, initial_setup(cinfo), select_scan_parameters(cinfo, 0))
             o == optimized(cinfo)
             tabs == IF all THEN jpeg_suppress_tables(tables, FALSE) ELSE tables
  <2>2. \/ global_state' = "START"
        \/ /\ scan' = sc /\ tables' = tabs /\ call' = call
           /\ master' = [m EXCEPT !.call_pass_startup = ~o, !.is_last_pass = m.total_passes = 1]
           /\ entropy' = start_pass_entropy(cinfo, sc, tabs, o)
    BY <1>3, <2>1 DEF jpeg_start_compress
  <2>. SUFFICES ASSUME global_state' # "START" PROVE Coder' BY DEF Coder, InPass, Running
  <2>3. o \in BOOLEAN /\ scan' = sc /\ tables' = tabs /\ call' = call
        /\ entropy' = start_pass_entropy(cinfo, scan', tables', o)
    <3>1. o \in BOOLEAN BY DEF optimized
    <3>. HIDE DEF sc, tabs, o
    <3>. QED BY <2>2, <3>1
  <2>4. master'.pass_type = "main_pass" /\ (~o => master'.call_pass_startup)
    <3> DEFINE a == ~o
               b == m.total_passes = 1
               k == IF o THEN num_scans(cinfo) * 2 ELSE num_scans(cinfo)
    <3>1. m = [pass_type |-> "main_pass", scan_number |-> 0, pass_number |-> 0, call_pass_startup |-> FALSE,
               is_last_pass |-> FALSE, total_passes |-> k]
      BY DEF master_control
    <3>2. master' = [m EXCEPT !.call_pass_startup = a, !.is_last_pass = b] BY <2>2
    <3>3. a \in BOOLEAN /\ (~o => a) OBVIOUS
    <3>. HIDE DEF a, b, k, m
    <3>. QED BY <3>1, <3>2, <3>3
  <2>. HIDE DEF sc, tabs, m, o
  <2> DEFINE T == CodingTables(cinfo, scan')
  <2>5. IsCoder(entropy') /\ entropy'.gather = o
        /\ DOMAIN entropy'.counts = T /\ DOMAIN entropy'.derived = T
        /\ (~o => \A e \in T : entropy'.derived[e] = tables'[e[1]][e[2]].val)
    <3>1. Started(entropy', cinfo, scan', tables', o) BY <2>3, StartedCoder, Zenon
    <3>. QED BY <3>1 DEF Started
  <2>6. CodingTables(cinfo, scan)' = T /\ (optimized(cinfo)' <=> o) BY <2>1 DEF o
  <2>7. call'.pc = "app" BY <2>1, <2>3
  <2>. HIDE DEF InPass, T
  <2>. QED BY <2>3, <2>4, <2>5, <2>6, <2>7 DEF Coder, IsCoder
<1>4. CASE jpeg_write_coefficients
  <2>1. global_state = "START" /\ call.pc = "app" BY <1>4 DEF jpeg_write_coefficients, MayBegin, Idle
  <2>2. global_state' = "START" \/ (global_state' = "WRCOEFS" /\ call' = call)
    BY <1>4, <2>1 DEF jpeg_write_coefficients
  <2>. QED BY <2>1, <2>2 DEF Coder, InPass, Running
<1>5. CASE jpeg_abort_compress BY <1>5 DEF jpeg_abort_compress, Coder, InPass, Running
<1>6. CASE jpeg_write_tables BY <1>6 DEF jpeg_write_tables, MayBegin, Coder, InPass, Running
<1>7. CASE FinishImage BY <1>7 DEF FinishImage, Coder, InPass, Running
<1>8. CASE UNCHANGED vars BY <1>8 DEF vars, control, Coder, InPass, Running
<1>. QED BY <1>1, <1>2, <1>3, <1>4, <1>5, <1>6, <1>7, <1>8, Steps

-----------------------------------------------------------------------------
LEMMA AgreeAtFirst ==
  ASSUME NEW k, IsTables(k), NEW tabs, NEW tabs2, NEW t, Agree(tabs, k, <<>>), Emits(tabs, t, tabs2)
  PROVE  Agree(tabs2, k, t)
<1> DEFINE e == <<>>
<1>1. IsSeq(e) /\ Agree(tabs, k, e) BY Short
<1>2. e \o t = t BY EmptyBegins DEF Emits
<1>. HIDE DEF e
<1>3. Agree(tabs2, k, e \o t) BY <1>1, AgreeMore
<1>. QED BY <1>2, <1>3

(* The tables of the object and of the receiver.                             *)
LEMMA TablesAgreeStep == ASSUME Calls, Begun, Passes, Coder, TablesAgree, [Next]_vars PROVE TablesAgree'
<1>0. /\ IsTables(tables) /\ IsTables(known) /\ IsSeq(out) /\ synced \in BOOLEAN /\ SentExist
      /\ synced /\ failed = NoError => Agree(tables, known, IF global_state = "START" THEN <<>> ELSE out)
  BY DEF TablesAgree
<1>1. CASE Within
  <2>0. failed = NoError /\ global_state # "START" /\ UNCHANGED <<known, synced, global_state>>
    BY <1>1, StepWithin DEF Running
  <2>1. synced => Agree(tables, known, out) BY <1>0, <2>0
  <2>2. ASSUME IsTables(tables'), IsSeq(out'), SentExist', synced => Agree(tables', known, out')
        PROVE  TablesAgree'
    BY <1>0, <2>0, <2>2 DEF TablesAgree
  <2>3. ASSUME NEW t, out' = out \o t, Emits(tables, t, tables') PROVE TablesAgree'
    <3>1. IsTables(tables') /\ IsSeq(t) BY <2>3 DEF Emits
    <3>2. IsSeq(out') BY <1>0, <2>3, <3>1, Concatenated
    <3>3. SentExist' BY <1>0, <2>3 DEF Emits, SentExist
    <3>4. synced => Agree(tables', known, out') BY <1>0, <2>1, <2>3, AgreeMore
    <3>. QED BY <2>2, <3>1, <3>2, <3>3, <3>4
  <2>4. CASE finish_pass_master /\ entropy.gather /\ out' = out
    <3>1. tables' = GatheredTables BY <2>4 DEF finish_pass_master
    <3>2. /\ IsTables(tables')
          /\ \A d \in Classes, m \in Slots : tables'[d][m] = tables[d][m] \/ ~tables'[d][m].sent
      BY <1>0, <3>1, GatheredAre
    <3>3. SentExist' BY <1>0, <3>2 DEF SentExist
    <3>4. synced => Agree(tables', known, out') BY <2>1, <2>4, <3>2 DEF Agree
    <3>. QED BY <1>0, <2>2, <2>4, <3>2, <3>3, <3>4
  <2>5. CASE EncodeMCU /\ ~entropy.gather
    <3>1. CASE UNCHANGED <<out, tables>> BY <1>0, <2>1, <2>2, <3>1 DEF SentExist
    <3>2. CASE ~UNCHANGED <<out, tables>>
      <4>1. PICK rst, k : /\ out' = out \o rst \o <<k>> /\ IsSeq(rst) /\ k.t = "MCU" /\ UNCHANGED tables
                          /\ \A x \in ToSet(rst) : x.t \notin {"MCU", "DQT", "DHT"}
        BY <1>0, <2>5, <3>2, MCUWritten
      <4> DEFINE s == out \o rst
                 l == <<k>>
      <4>2. IsSeq(l) /\ \A x \in ToSet(l) : x.t \notin {"DQT", "DHT"} BY <4>1, Short
      <4>3. IsSeq(s) /\ (Agree(tables, known, s) <=> Agree(tables, known, out)) BY <1>0, <4>1, Concatenated, AgreeStill
      <4>4. out' = s \o l BY <4>1
      <4>. HIDE DEF s, l
      <4>5. IsSeq(out') /\ (Agree(tables, known, out') <=> Agree(tables, known, s))
        BY <1>0, <4>2, <4>3, <4>4, Concatenated, AgreeStill
      <4>. QED BY <1>0, <2>1, <2>2, <4>1, <4>3, <4>5 DEF SentExist
    <3>. QED BY <3>1, <3>2
  <2>. QED BY <1>1, <2>3, <2>4, <2>5, OutWithin
<1>2. ASSUME NEW im \in Images, SetParameters(im) PROVE TablesAgree'
  <2>1. /\ UNCHANGED <<known, out, synced, failed, global_state>> /\ failed = NoError /\ global_state = "START"
        /\ tables' = std_huff_tables(jpeg_set_quality(tables, im.quality))
    BY <1>2 DEF SetParameters, MayBegin, Idle, history
  <2>2. /\ IsTables(tables')
        /\ \A d \in Classes, m \in Slots : tables'[d][m] = tables[d][m] \/ ~tables'[d][m].sent
    <3> DEFINE q == im.quality
    <3>1. tables' = std_huff_tables(jpeg_set_quality(tables, q)) BY <2>1
    <3>. HIDE DEF q
    <3>. QED BY <1>0, <3>1, DefaultTables
  <2>3. SentExist' BY <1>0, <2>2 DEF SentExist
  <2>4. synced => Agree(tables', known, <<>>) BY <1>0, <2>1, <2>2 DEF Agree
  <2>. QED BY <1>0, <2>1, <2>2, <2>3, <2>4 DEF TablesAgree
<1>3. ASSUME NEW tabs, NEW header, Idle, global_state = "START", tables' = tabs, UNCHANGED known, synced' = TRUE,
             \/ failed' # NoError /\ UNCHANGED out
             \/ out' = header.toks /\ global_state' # "START",
             IsTables(tabs), \A d \in Classes, m \in Slots : tabs[d][m].sent => tabs[d][m].val # NullTable,
             Agree(tabs, known, <<>>), Emits(tabs, header.toks, tabs)
      PROVE  TablesAgree'
  <2>1. IsTables(tables') /\ IsTables(known') /\ synced' \in BOOLEAN /\ SentExist' BY <1>0, <1>3 DEF SentExist
  <2>2. IsSeq(header.toks) /\ <<>> \o header.toks = header.toks BY <1>3, EmptyBegins DEF Emits
  <2>3. IsSeq(out') BY <1>0, <1>3, <2>2
  <2>4. Agree(tabs, known, header.toks) BY <1>0, <1>3, AgreeAtFirst
  <2>. QED BY <1>3, <2>1, <2>3, <2>4 DEF TablesAgree
<1>4. /\ IsTables(jpeg_suppress_tables(tables, FALSE))
      /\ \A d \in Classes, m \in Slots : ~jpeg_suppress_tables(tables, FALSE)[d][m].sent
  <2> DEFINE u == jpeg_suppress_tables(tables, FALSE)
  <2>1. u = jpeg_suppress_tables(tables, FALSE) OBVIOUS
  <2>. HIDE DEF u
  <2>2. IsTables(u) /\ Unsent(u, tables) BY <1>0, <2>1, SuppressedTables
  <2>3. \A d \in Classes, m \in Slots : ~u[d][m].sent BY <1>0, <2>2 DEF SentExist, Unsent
  <2>. QED BY <2>2, <2>3 DEF u
<1>5. ASSUME NEW tabs, IsTables(tabs), NEW im
      PROVE  Emits(tabs, write_file_header(Writer(tabs), im).toks, tabs)
  <2> DEFINE h == write_file_header(Writer(tabs), im)
  <2>1. Wrote(Writer(tabs), h) /\ h.tables = tabs BY <1>5, FileHeaderWritten
  <2>. HIDE DEF h
  <2>2. Emits(tabs, h.toks, h.tables) BY <1>5, <2>1, WrittenAll
  <2>. QED BY <2>1, <2>2 DEF h
<1>6. ASSUME NEW all \in BOOLEAN, jpeg_start_compress(all) PROVE TablesAgree'
  <2> DEFINE tabs == IF all THEN jpeg_suppress_tables(tables, FALSE) ELSE tables
             header == write_file_header(Writer(tabs), cinfo)
  <2>1. /\ Idle /\ global_state = "START" /\ (all \/ synced) /\ tables' = tabs /\ UNCHANGED known /\ synced' = TRUE
        /\ \/ failed' # NoError /\ UNCHANGED out
           \/ out' = header.toks /\ global_state' # "START"
    BY <1>6 DEF jpeg_start_compress, MayBegin, Fail
  <2>2. IsTables(tabs) BY <1>0, <1>4
  <2>3. \A d \in Classes, m \in Slots : tabs[d][m].sent => tabs[d][m].val # NullTable BY <1>0, <1>4 DEF SentExist
  <2>4. Agree(tabs, known, <<>>)
    <3>1. CASE all BY <1>4, <3>1 DEF Agree
    <3>2. CASE ~all BY <1>0, <2>1, <3>2 DEF Idle
    <3>. QED BY <3>1, <3>2
  <2>. HIDE DEF tabs
  <2>5. Emits(tabs, header.toks, tabs) BY <1>5, <2>2
  <2>. HIDE DEF header
  <2>. QED BY <1>3, <2>1, <2>2, <2>3, <2>4, <2>5
<1>7. CASE jpeg_write_coefficients
  <2> DEFINE tabs == jpeg_suppress_tables(tables, FALSE)
             header == write_file_header(Writer(tabs), cinfo)
  <2>1. /\ Idle /\ global_state = "START" /\ tables' = tabs /\ UNCHANGED known /\ synced' = TRUE
        /\ \/ failed' # NoError /\ UNCHANGED out
           \/ out' = header.toks /\ global_state' # "START"
    BY <1>7 DEF jpeg_write_coefficients, MayBegin, Fail
  <2>2. IsTables(tabs) /\ \A d \in Classes, m \in Slots : ~tabs[d][m].sent BY <1>4
  <2>3. Agree(tabs, known, <<>>) BY <2>2 DEF Agree
  <2>. HIDE DEF tabs
  <2>4. Emits(tabs, header.toks, tabs) BY <1>5, <2>2
  <2>. HIDE DEF header
  <2>. QED BY <1>3, <2>1, <2>2, <2>3, <2>4
<1>8. CASE jpeg_abort_compress
  <2>1. UNCHANGED <<tables, known, out>> /\ synced' = FALSE BY <1>8 DEF jpeg_abort_compress
  <2>. QED BY <1>0, <2>1 DEF TablesAgree, SentExist
<1>9. CASE jpeg_write_tables
  <2> DEFINE w == write_tables_only(Writer(tables))
             h == Learn(known, w.toks)
  <2>1. /\ tables' = w.tables /\ known' = h /\ UNCHANGED <<out, failed, synced, global_state>>
        /\ global_state = "START" /\ failed = NoError
    BY <1>9 DEF jpeg_write_tables, MayBegin, Idle
  <2>2. Emits(tables, w.toks, w.tables)
    <3>1. Wrote(Writer(tables), w) BY <1>0, TablesOnlyWritten
    <3>. HIDE DEF w
    <3>. QED BY <1>0, <3>1, WrittenAll
  <2>. HIDE DEF w
  <2>3. IsTables(w.tables) /\ IsSeq(w.toks) /\ <<>> \o w.toks = w.toks BY <2>2, EmptyBegins DEF Emits
  <2>4. SentExist' BY <1>0, <2>1, <2>2 DEF Emits, SentExist
  <2>5. IsTables(h) BY <1>0, LearnTables
  <2>6. synced => Agree(w.tables, known, w.toks) BY <1>0, <2>1, <2>2, AgreeAtFirst
  <2>. HIDE DEF h
  <2>7. synced => Agree(w.tables, h, <<>>)
    <3>1. \A c \in Classes, n \in Slots : Learn(h, <<>>)[c][n].val = h[c][n].val BY <2>5, LearnNothing
    <3>. QED BY <2>6, <3>1 DEF Agree, h
  <2>. QED BY <1>0, <2>1, <2>3, <2>4, <2>5, <2>7 DEF TablesAgree
<1>10. CASE FinishImage
  <2> DEFINE w == write_file_trailer(Writer(tables))
             stream == out \o w.toks
             h == Learn(known, stream)
  <2>1. /\ out' = stream /\ known' = h /\ global_state' = "START" /\ UNCHANGED <<tables, failed, synced>>
        /\ global_state # "START"
    BY <1>10 DEF FinishImage, Calls, Running
  <2>2. Emits(tables, w.toks, tables)
    <3>1. Wrote(Writer(tables), w) /\ w.tables = tables BY <1>0, TrailerWritten
    <3>. HIDE DEF w
    <3>2. Emits(tables, w.toks, w.tables) BY <1>0, <3>1, WrittenAll
    <3>. QED BY <3>1, <3>2
  <2>. HIDE DEF w
  <2>3. IsSeq(w.toks) BY <2>2 DEF Emits
  <2>4. IsSeq(stream) BY <1>0, <2>3, Concatenated
  <2>5. IsTables(h) BY <1>0, LearnTables
  <2>6. synced /\ failed = NoError => Agree(tables, known, stream) BY <1>0, <2>1, <2>2, AgreeMore
  <2>. HIDE DEF h, stream
  <2>7. synced /\ failed = NoError => Agree(tables, h, <<>>)
    <3>1. \A c \in Classes, n \in Slots : Learn(h, <<>>)[c][n].val = h[c][n].val BY <2>5, LearnNothing
    <3>. QED BY <2>6, <3>1 DEF Agree, h
  <2>. QED BY <1>0, <2>1, <2>4, <2>5, <2>7 DEF TablesAgree, SentExist
<1>11. CASE UNCHANGED vars BY <1>0, <1>11 DEF vars, TablesAgree, SentExist
<1>. QED BY <1>1, <1>2, <1>6, <1>7, <1>8, <1>9, <1>10, <1>11, Steps

LEMMA StandardStep == ASSUME Calls, Begun, Passes, Coder, TablesAgree, Standard, [Next]_vars PROVE Standard'
<1>0. IsTables(tables) BY DEF TablesAgree
<1>1. ASSUME UNCHANGED cinfo, \A c \in {"dc", "ac"}, n \in {0, 1} : tables'[c][n].val = tables[c][n].val
      PROVE  Standard'
  BY <1>1 DEF Standard
<1>2. \A c \in {"dc", "ac"}, n \in {0, 1} : c \in Classes /\ n \in Slots BY DEF Classes, Slots, NUM_TBLS
<1>3. ASSUME NEW t, Emits(tables, t, tables'), UNCHANGED cinfo PROVE Standard'
  <2>1. \A c \in Classes, n \in Slots : tables'[c][n].val = tables[c][n].val BY <1>3 DEF Emits
  <2>. QED BY <1>1, <1>2, <1>3, <2>1
<1>4. ASSUME UNCHANGED <<cinfo, tables>> PROVE Standard' BY <1>1, <1>4
<1>5. CASE Within
  <2>0. UNCHANGED cinfo /\ failed = NoError /\ Running BY <1>5, StepWithin DEF Running
  <2>1. ASSUME NEW t, out' = out \o t, Emits(tables, t, tables') PROVE Standard' BY <1>3, <2>0, <2>1
  <2>2. CASE finish_pass_master /\ entropy.gather /\ out' = out
    <3>1. InPass BY <2>0, <2>2 DEF finish_pass_master, InPass
    <3>2. optimized(cinfo)' BY <2>0, <2>2, <3>1 DEF Coder
    <3>. QED BY <3>2 DEF Standard
  <2>3. CASE EncodeMCU /\ ~entropy.gather
    <3>1. UNCHANGED tables BY <2>3 DEF EncodeMCU
    <3>. QED BY <1>4, <2>0, <3>1
  <2>. QED BY <1>5, <2>1, <2>2, <2>3, OutWithin
<1>6. ASSUME NEW im \in Images, SetParameters(im) PROVE Standard'
  <2> DEFINE q == im.quality
  <2>1. tables' = std_huff_tables(jpeg_set_quality(tables, q)) BY <1>6 DEF SetParameters
  <2>. HIDE DEF q
  <2>2. \A d \in {"dc", "ac"}, m \in {0, 1} : tables'[d][m].val = StdTable BY <1>0, <2>1, DefaultTables
  <2>. QED BY <2>2 DEF Standard
<1>7. ASSUME UNCHANGED cinfo, tables' = tables \/ tables' = jpeg_suppress_tables(tables, FALSE) PROVE Standard'
  <2>1. CASE tables' = jpeg_suppress_tables(tables, FALSE)
    <3>1. Unsent(tables', tables) BY <1>0, <2>1, SuppressedTables
    <3>2. \A c \in {"dc", "ac"}, n \in {0, 1} : tables'[c][n].val = tables[c][n].val BY <1>2, <3>1 DEF Unsent
    <3>. QED BY <1>1, <1>7, <3>2
  <2>. QED BY <1>4, <1>7, <2>1
<1>8. ASSUME NEW all \in BOOLEAN, jpeg_start_compress(all) PROVE Standard'
  <2>1. UNCHANGED cinfo /\ (tables' = tables \/ tables' = jpeg_suppress_tables(tables, FALSE))
    BY <1>8 DEF jpeg_start_compress
  <2>. QED BY <1>7, <2>1
<1>9. CASE jpeg_write_coefficients BY <1>7, <1>9 DEF jpeg_write_coefficients
<1>10. CASE jpeg_abort_compress \/ FinishImage \/ UNCHANGED vars
  BY <1>4, <1>10 DEF jpeg_abort_compress, FinishImage, vars
<1>11. CASE jpeg_write_tables
  <2> DEFINE w == write_tables_only(Writer(tables))
  <2>1. tables' = w.tables /\ UNCHANGED cinfo BY <1>11 DEF jpeg_write_tables
  <2>2. Wrote(Writer(tables), w) BY <1>0, TablesOnlyWritten
  <2>. HIDE DEF w
  <2>3. Emits(tables, w.toks, w.tables) BY <1>0, <2>2, WrittenAll
  <2>. QED BY <1>3, <2>1, <2>3
<1>. QED BY <1>5, <1>6, <1>8, <1>9, <1>10, <1>11, Steps

-----------------------------------------------------------------------------
(* The receiver has, at every MCU, the tables it was coded with.             *)
LEMMA HasTablesIs ==
  DecoderHasTables <=> (global_state # "START" /\ failed = NoError /\ synced => HasTables(known, out))
BY DEF DecoderHasTables, HasTables

LEMMA HasTablesIsThen ==
  DecoderHasTables' <=> (global_state' # "START" /\ failed' = NoError /\ synced' => HasTables(known', out'))
BY DEF DecoderHasTables, HasTables

LEMMA DecoderHasTablesStep ==
  ASSUME Calls, Begun, Passes, Coder, TablesAgree, DecoderHasTables, [Next]_vars
  PROVE  DecoderHasTables'
<1>0. IsTables(tables) /\ IsTables(known) /\ IsSeq(out) BY DEF TablesAgree
<1>1. CASE Within
  <2>0. failed = NoError /\ global_state # "START" /\ UNCHANGED <<cinfo, geom, known, synced, global_state>>
    BY <1>1, StepWithin DEF Running
  <2>1. SUFFICES ASSUME synced PROVE HasTables(known, out') BY <2>0, HasTablesIsThen
  <2>2. HasTables(known, out) BY <2>0, <2>1, HasTablesIs
  <2>3. ASSUME NEW t, out' = out \o t, Emits(tables, t, tables') PROVE HasTables(known, out')
    <3>1. IsSeq(t) /\ \A x \in ToSet(t) : x.t # "MCU" BY <2>3 DEF Emits
    <3>. QED BY <1>0, <2>2, <2>3, <3>1, HasMore
  <2>4. CASE EncodeMCU /\ ~entropy.gather
    <3>1. CASE UNCHANGED <<out, tables>> BY <2>2, <3>1
    <3>2. CASE ~UNCHANGED <<out, tables>>
      <4>1. PICK rst, k : /\ out' = out \o rst \o <<k>> /\ IsSeq(rst) /\ k.t = "MCU"
                          /\ k.used = {<<e[1], e[2], entropy.derived[e]>> : e \in DOMAIN entropy.derived}
                          /\ \A x \in ToSet(rst) : x.t \notin {"MCU", "DQT", "DHT"}
        BY <1>0, <2>4, <3>2, MCUWritten
      <4> DEFINE s == out \o rst
                 T == CodingTables(cinfo, scan)
      <4>2. call.pc \in {"coef", "crank"} /\ InPass BY <2>0, <2>4 DEF EncodeMCU, Coding, InPass, Running
      <4>3. DOMAIN entropy.derived = T
            /\ \A e \in T : entropy.derived[e] = tables[e[1]][e[2]].val /\ tables[e[1]][e[2]].sent
        BY <2>4, <4>2 DEF Coder
      <4>4. IsSeq(s) /\ HasTables(known, s) BY <1>0, <2>2, <4>1, Concatenated, HasMore
      <4>5. Agree(tables, known, s)
        <5>1. Agree(tables, known, out) BY <2>0, <2>1 DEF TablesAgree
        <5>. QED BY <1>0, <4>1, <5>1, AgreeStill
      <4>6. WellFormed(cinfo) /\ ScanOf(cinfo, scan)
        <5>1. Running /\ SomeScan(cinfo, geom, scan) BY <4>2 DEF Passes, InPass
        <5>. QED BY <5>1, ThisScanOf
      <4>7. ASSUME NEW e \in T PROVE e[1] \in Classes /\ e[2] \in Slots
        <5>1. CodingTable(cinfo, e) BY <4>6, TablesOfScan DEF CodingTables
        <5>. QED BY <5>1 DEF CodingTable, Classes
      <4>. HIDE DEF s, T
      <4>8. ASSUME NEW u \in k.used
            PROVE  u[1] \in Classes /\ u[2] \in Slots /\ Learn(known, s)[u[1]][u[2]].val = u[3]
        <5>1. PICK e \in T : u = <<e[1], e[2], entropy.derived[e]>> BY <4>1, <4>3
        <5>2. e[1] \in Classes /\ e[2] \in Slots BY <4>7
        <5>3. Learn(known, s)[e[1]][e[2]].val = entropy.derived[e] BY <4>3, <4>5, <5>2 DEF Agree
        <5>. QED BY <5>1, <5>2, <5>3
      <4>9. HasTables(known, s \o <<k>>) BY <1>0, <4>1, <4>4, <4>8, HasMCU
      <4>. QED BY <4>1, <4>9 DEF s
    <3>. QED BY <3>1, <3>2
  <2>. QED BY <1>1, <2>2, <2>3, <2>4, OutWithin
<1>2. ASSUME NEW tabs, NEW im, IsTables(tabs), out' = write_file_header(Writer(tabs), im).toks
      PROVE  HasTables(known', out')
  <2> DEFINE h == write_file_header(Writer(tabs), im)
  <2>1. Wrote(Writer(tabs), h) BY <1>2, FileHeaderWritten
  <2>. HIDE DEF h
  <2>2. Emits(tabs, h.toks, h.tables) BY <1>2, <2>1, WrittenAll
  <2>3. \A x \in ToSet(h.toks) : x.t # "MCU" BY <2>2 DEF Emits
  <2>4. out' = h.toks BY <1>2 DEF h
  <2>5. \A i \in DOMAIN out' : out'[i].t # "MCU" BY <2>3, <2>4 DEF ToSet
  <2>. QED BY <2>5 DEF HasTables
<1>3. IsTables(jpeg_suppress_tables(tables, FALSE)) BY <1>0, SuppressedTables
<1>4. ASSUME NEW all \in BOOLEAN, jpeg_start_compress(all) PROVE DecoderHasTables'
  <2> DEFINE tabs == IF all THEN jpeg_suppress_tables(tables, FALSE) ELSE tables
  <2>1. global_state' = "START" \/ out' = write_file_header(Writer(tabs), cinfo).toks
    BY <1>4 DEF jpeg_start_compress, MayBegin
  <2>2. IsTables(tabs) BY <1>0, <1>3
  <2>. HIDE DEF tabs
  <2>. QED BY <1>2, <2>1, <2>2, HasTablesIsThen
<1>5. CASE jpeg_write_coefficients
  <2> DEFINE tabs == jpeg_suppress_tables(tables, FALSE)
  <2>1. global_state' = "START" \/ out' = write_file_header(Writer(tabs), cinfo).toks
    BY <1>5 DEF jpeg_write_coefficients, MayBegin
  <2>2. IsTables(tabs) BY <1>3
  <2>. HIDE DEF tabs
  <2>. QED BY <1>2, <2>1, <2>2, HasTablesIsThen
<1>6. ASSUME NEW im \in Images, SetParameters(im) PROVE DecoderHasTables'
  BY <1>6, HasTablesIsThen DEF SetParameters, MayBegin
<1>7. CASE jpeg_abort_compress BY <1>7, HasTablesIsThen DEF jpeg_abort_compress
<1>8. CASE jpeg_write_tables BY <1>8, HasTablesIsThen DEF jpeg_write_tables, MayBegin
<1>9. CASE FinishImage BY <1>9, HasTablesIsThen DEF FinishImage
<1>10. CASE UNCHANGED vars BY <1>10, HasTablesIs, HasTablesIsThen DEF vars
<1>. QED BY <1>1, <1>4, <1>5, <1>6, <1>7, <1>8, <1>9, <1>10, Steps

-----------------------------------------------------------------------------
LEMMA TablesAtFirst == ASSUME Init PROVE TablesInv
<1>1. jpeg_alloc_tables = [class \in Classes |-> [n \in Slots |-> [val |-> NullTable, sent |-> FALSE]]]
  BY DEF jpeg_alloc_tables
<1> DEFINE r == [val |-> NullTable, sent |-> FALSE]
<1>2. r = [val |-> r.val, sent |-> r.sent] /\ r.sent = FALSE OBVIOUS
<1>. HIDE DEF r
<1>3. IsTables(jpeg_alloc_tables) /\ \A c \in Classes, n \in Slots : jpeg_alloc_tables[c][n] = r
  <2> DEFINE j == jpeg_alloc_tables
  <2>1. j = [class \in Classes |-> [n \in Slots |-> r]] BY <1>1 DEF r
  <2>. HIDE DEF j
  <2>2. \A c \in Classes : j[c] = [n \in Slots |-> r] BY <2>1
  <2>3. \A c \in Classes, n \in Slots : j[c][n] = r BY <2>2
  <2>4. j = [c \in Classes |-> j[c]] /\ \A c \in Classes : j[c] = [n \in Slots |-> j[c][n]] BY <2>1, <2>2, <2>3
  <2>5. IsTables(j) BY <1>2, <2>3, <2>4 DEF IsTables
  <2>. QED BY <2>3, <2>5 DEF j
<1>4. tables = jpeg_alloc_tables /\ known = jpeg_alloc_tables /\ out = <<>> /\ synced = FALSE /\ failed = NoError
      /\ global_state = "START" /\ call = NoCall /\ cinfo = NoImage
  BY DEF Init
<1>5. Calls BY <1>4, CallShapes DEF Calls, IsCall
<1>6. Begun BY <1>4 DEF Begun, Running
<1>7. Passes /\ Coder BY <1>4 DEF Passes, Coder, InPass, Running
<1>8. SentExist BY <1>2, <1>3, <1>4 DEF SentExist
<1>9. TablesAgree BY <1>3, <1>4, <1>8, Short DEF TablesAgree
<1>10. Standard BY <1>4 DEF Standard
<1>11. DecoderHasTables BY <1>4, HasTablesIs
<1>. QED BY <1>5, <1>6, <1>7, <1>9, <1>10, <1>11 DEF TablesInv

LEMMA TablesKept == ASSUME TablesInv, [Next]_vars PROVE TablesInv'
BY CallsStep, BegunStep, PassesStep, CoderStep, TablesAgreeStep, StandardStep, DecoderHasTablesStep DEF TablesInv

(* Whoever reads the finished streams in order has, at every MCU, the tables *)
(* it was coded with, although tables already sent are left out.             *)
THEOREM ReceiverHasTables == Spec => []DecoderHasTables
<1>1. Init => TablesInv BY TablesAtFirst
<1>2. TablesInv /\ [Next]_vars => TablesInv' BY TablesKept
<1>3. TablesInv => DecoderHasTables BY DEF TablesInv
<1>. QED BY <1>1, <1>2, <1>3, PTL DEF Spec

-----------------------------------------------------------------------------
(* The second part: the statistics pass counts whatever the output pass      *)
(* codes.  Both passes go over the same positions: the row of iMCUs, the row *)
(* and column in it, the last DC values and the MCUs to the next restart     *)
(* decide the next position and the differences coded on the way to it.      *)
MembershipOf(sc) ==
  FlattenSeq([i \in DOMAIN sc.comps |->
    [n \in 1 .. sc.cur[i].MCU_width * sc.cur[i].MCU_height |-> i]])
BeforeOf(sc, mcu, n, last_dc) ==
  LET of == MembershipOf(sc)
      earlier == {m \in 1 .. n - 1 : of[m] = of[n]}
  IN IF earlier = {} THEN last_dc[of[n]] ELSE Value(mcu[Max(earlier)])
DifferencesOf(im, sc, mcu, last_dc) ==
  LET of == MembershipOf(sc)
  IN IF ~(sc.Ss = 0 /\ sc.Ah = 0) THEN {}
     ELSE {<<im.comp_info[sc.comps[of[n]]].dc, BeforeOf(sc, mcu, n, last_dc), Value(mcu[n])>> : n \in DOMAIN of}
LastValuesOf(sc, mcu, last_dc) ==
  LET of == MembershipOf(sc)
  IN [i \in DOMAIN last_dc |-> Value(mcu[Max({n \in DOMAIN of : of[n] = i})])]

(* The MCU of a position, out of the stored rows or of another file's arrays. *)
LinesOf(sc, g, whole, r, row, col, i) ==
  [n \in 1 .. sc.cur[i].MCU_width * sc.cur[i].MCU_height |->
     whole[sc.comps[i]][r * g.comps[sc.comps[i]].v + row + ((n - 1) \div sc.cur[i].MCU_width) + 1]
                       [col * sc.cur[i].MCU_width + ((n - 1) % sc.cur[i].MCU_width) + 1]]
StoredMCU(sc, g, whole, r, row, col) ==
  FlattenSeq([i \in DOMAIN sc.comps |-> LinesOf(sc, g, whole, r, row, col, i)])
PlacesOf(sc) ==
  FlattenSeq([i \in DOMAIN sc.comps |->
    [n \in 1 .. sc.cur[i].MCU_width * sc.cur[i].MCU_height |->
       <<i, (n - 1) \div sc.cur[i].MCU_width, (n - 1) % sc.cur[i].MCU_width>>]])
RealPlacesOf(sc, g, r, row, col) ==
  {p \in ToSet(PlacesOf(sc)) :
     LET cur == sc.cur[p[1]]
     IN /\ p[3] < IF col < sc.MCUs_per_row - 1 THEN cur.MCU_width ELSE cur.last_col_width
        /\ r < g.total_iMCU_rows - 1 \/ row + p[2] < cur.last_row_height}
FilledOf(sc, real) ==
  LET MCU_buffer[n \in DOMAIN PlacesOf(sc)] ==
        IF PlacesOf(sc)[n] \in DOMAIN real THEN real[PlacesOf(sc)[n]] ELSE Dummy(MCU_buffer[n - 1])
  IN [n \in DOMAIN PlacesOf(sc) |-> MCU_buffer[n]]
SourceMCU(sc, g, whole, r, row, col) ==
  FilledOf(sc, [p \in RealPlacesOf(sc, g, r, row, col) |->
    LET c == sc.comps[p[1]]
    IN whole[c][r * g.comps[c].v + row + p[2] + 1]
                    [col * sc.cur[p[1]].MCU_width + p[3] + 1]])
MCUAt(sc, g, source, whole, s) ==
  IF source THEN SourceMCU(sc, g, whole, s.r, s.row, s.col) ELSE StoredMCU(sc, g, whole, s.r, s.row, s.col)

IsPosition(s) ==
  s = [r |-> s.r, row |-> s.row, col |-> s.col, dc |-> s.dc, togo |-> s.togo]
  /\ s.r \in Nat /\ s.row \in Nat /\ s.col \in Nat
RestartsAt(sc, s) == sc.restart_interval > 0 /\ s.togo = 0
BaseAt(sc, s) == IF RestartsAt(sc, s) THEN [i \in DOMAIN sc.comps |-> <<>>] ELSE s.dc
CountAt(sc, s) ==
  IF sc.restart_interval = 0 THEN s.togo
  ELSE IF RestartsAt(sc, s) THEN sc.restart_interval - 1 ELSE s.togo - 1
InRow(sc, g, s) == s.row < rows_per_iMCU_row(sc, g, s.r)
CodedAt(im, sc, g, source, whole, s) ==
  IF InRow(sc, g, s)
  THEN DifferencesOf(im, sc, MCUAt(sc, g, source, whole, s), BaseAt(sc, s)) ELSE {}
After(sc, g, source, whole, s) ==
  IF InRow(sc, g, s)
  THEN [r |-> s.r, row |-> IF s.col + 1 < sc.MCUs_per_row THEN s.row ELSE s.row + 1,
        col |-> IF s.col + 1 < sc.MCUs_per_row THEN s.col + 1 ELSE 0,
        dc |-> LastValuesOf(sc, MCUAt(sc, g, source, whole, s), BaseAt(sc, s)), togo |-> CountAt(sc, s)]
  ELSE [r |-> s.r + 1, row |-> 0, col |-> 0, dc |-> s.dc, togo |-> s.togo]
StartOf(sc) ==
  [r |-> 0, row |-> 0, col |-> 0, dc |-> [i \in DOMAIN sc.comps |-> <<>>], togo |-> sc.restart_interval]
Position ==
  [r |-> coef.iMCU_row_num, row |-> IF Coding THEN call.row ELSE 0, col |-> IF Coding THEN call.col ELSE 0,
   dc |-> entropy.last_dc, togo |-> entropy.restarts_to_go]

(* A set of positions that a pass goes through, with codes for all of it.    *)
CodesOf(counts) == [n \in Slots |-> IF <<"dc", n>> \in DOMAIN counts THEN counts[<<"dc", n>>] ELSE {}]
SymbolsOf(tabs) == [n \in Slots |-> tabs["dc"][n].val.syms]
Follows(im, sc, g, source, whole, codes, S, s) ==
  /\ After(sc, g, source, whole, s) \in S
  /\ \A d \in CodedAt(im, sc, g, source, whole, s) : d[1] \in Slots /\ d \in codes[d[1]]

Controller ==
  Running =>
    /\ coef = [mode |-> coef.mode, iMCU_row_num |-> coef.iMCU_row_num, mcu_ctr |-> coef.mcu_ctr,
               MCU_vert_offset |-> coef.MCU_vert_offset,
               MCU_rows_per_iMCU_row |-> coef.MCU_rows_per_iMCU_row, whole |-> coef.whole]
    /\ coef.iMCU_row_num \in Nat
    /\ coef.mode = "TRANSCODE" <=> cinfo.transcode
    /\ coef.mode = "PASS_THRU" => ~optimized(cinfo)
    /\ InPass => coef.MCU_rows_per_iMCU_row = rows_per_iMCU_row(scan, geom, coef.iMCU_row_num)
    /\ call.pc = "crank" => coef.iMCU_row_num < geom.total_iMCU_rows
    /\ call.pc = "finish_pass" /\ entropy.gather => coef.iMCU_row_num >= geom.total_iMCU_rows
    /\ InPass /\ entropy.gather /\ master.pass_type = "main_pass" =>
         /\ coef.mcu_ctr = 0 /\ coef.MCU_vert_offset = 0
         /\ coef.mode = "SAVE_AND_PASS"
         /\ coef.whole = [c \in DOMAIN geom.comps |-> coef.whole[c]]
         /\ \A c \in DOMAIN geom.comps :
              IsSeq(coef.whole[c])
              /\ Len(coef.whole[c]) = (coef.iMCU_row_num + (IF call.pc = "coef" THEN 1 ELSE 0)) * geom.comps[c].v

Gathers(im, sc, g, source, whole, codes, position, coding, S) ==
  /\ StartOf(sc) \in S /\ position \in S
  /\ \A s \in S : /\ IsPosition(s) /\ s.r <= position.r
                  /\ s # position => /\ coding \/ s.r < position.r
                                     /\ Follows(im, sc, g, source, whole, codes, S, s)
Gathered ==
  InPass /\ entropy.gather =>
    \E S : Gathers(cinfo, scan, geom, cinfo.transcode, coef.whole, CodesOf(entropy.counts), Position, Coding, S)
HasAll(im, sc, g, source, whole, codes, S) ==
  StartOf(sc) \in S /\ \A s \in S : IsPosition(s) /\ (s.r >= g.total_iMCU_rows \/ Follows(im, sc, g, source, whole, codes, S, s))
Complete ==
  Running /\ optimized(cinfo) /\ master.pass_type = "output_pass" /\ (call.pc = "crank" \/ ~InPass)
  /\ (call.pc = "crank" => scan.Ss = 0 /\ scan.Ah = 0) =>
    \E S : /\ HasAll(cinfo, scan, geom, cinfo.transcode, coef.whole, SymbolsOf(tables), S)
           /\ call.pc = "crank" => Position \in S

(* The rows the application gave, in a pass that gathers statistics of them. *)
IsMain(m) ==
  m = [cur_iMCU_row |-> m.cur_iMCU_row, rowgroup_ctr |-> m.rowgroup_ctr, suspended |-> m.suspended, buffer |-> m.buffer]
IsPrep(p) ==
  p = [rows_to_go |-> p.rows_to_go, next_buf_row |-> p.next_buf_row, this_row_group |-> p.this_row_group,
       next_buf_stop |-> p.next_buf_stop, color_buf |-> p.color_buf]
RowsCounted(im, g, next, pc, ctr, rows, p, m) ==
  /\ m.suspended = FALSE /\ m.cur_iMCU_row \in Nat /\ m.rowgroup_ctr \in 0 .. DCTSIZE
  /\ p.rows_to_go \in Nat /\ p.next_buf_row \in Nat
  /\ next \in Nat /\ ctr \in Nat /\ rows \in Nat /\ ctr <= rows
  /\ pc = "app" => ctr = 0
  /\ next + ctr + p.rows_to_go = im.image_height
  /\ next + rows <= im.image_height
  /\ need_context_rows(im) =>
       /\ p.next_buf_stop \in Nat /\ p.next_buf_row <= p.next_buf_stop
       /\ pc = "app" /\ p.rows_to_go = 0 => m.cur_iMCU_row = g.total_iMCU_rows
  /\ ~need_context_rows(im) =>
       /\ pc = "coef" => m.rowgroup_ctr = DCTSIZE
       /\ pc = "app" => m.rowgroup_ctr < DCTSIZE \/ m.cur_iMCU_row = g.total_iMCU_rows
       /\ p.next_buf_row < g.max_v
       /\ p.rows_to_go > 0 =>
            (m.cur_iMCU_row * DCTSIZE + m.rowgroup_ctr) * g.max_v + p.next_buf_row = im.image_height - p.rows_to_go
       /\ p.rows_to_go = 0 =>
            /\ m.rowgroup_ctr \in {0, DCTSIZE}
            /\ (m.cur_iMCU_row * DCTSIZE + m.rowgroup_ctr) * g.max_v >= im.image_height
RowsGathered ==
  InPass /\ call.pc \in {"app", "main", "coef"} /\ entropy.gather =>
    /\ next_scanline \in Nat
    /\ global_state = "RAW_OK" => next_scanline = coef.iMCU_row_num * (geom.max_v * DCTSIZE)
    /\ global_state = "SCANNING" =>
         /\ IsMain(main) /\ IsPrep(prep) /\ main.cur_iMCU_row = coef.iMCU_row_num
         /\ RowsCounted(cinfo, geom, next_scanline, call.pc, call.ctr, call.rows, prep, main)

(* An application that waits has no call in progress.                        *)
Waits == call.pc = "app" => call = NoCall

CodesInv == TablesInv /\ Waits /\ Controller /\ Gathered /\ Complete /\ RowsGathered /\ NoMissingCode

-----------------------------------------------------------------------------
(* What the coder does at a position.                                        *)
LEMMA SameMembership == MCU_membership = MembershipOf(scan) /\ Places = PlacesOf(scan)
BY DEF MCU_membership, MembershipOf, Places, PlacesOf

LEMMA SameDifferences ==
  \A mcu, dc : Differences(mcu, dc) = DifferencesOf(cinfo, scan, mcu, dc)
               /\ LastValues(mcu, dc) = LastValuesOf(scan, mcu, dc)
<1>1. ASSUME NEW mcu, NEW dc PROVE \A n : Before(mcu, n, dc) = BeforeOf(scan, mcu, n, dc)
  BY SameMembership DEF Before, BeforeOf
<1>2. ASSUME NEW mcu, NEW dc PROVE Differences(mcu, dc) = DifferencesOf(cinfo, scan, mcu, dc)
  BY <1>1, SameMembership DEF Differences, DifferencesOf, CodesDifferences
<1>3. ASSUME NEW mcu, NEW dc PROVE LastValues(mcu, dc) = LastValuesOf(scan, mcu, dc)
  BY SameMembership DEF LastValues, LastValuesOf
<1>. QED BY <1>2, <1>3

LEMMA SameStored == \A row, col : compress_output(row, col) = StoredMCU(scan, geom, coef.whole, coef.iMCU_row_num, row, col)
BY DEF compress_output, StoredMCU, LinesOf

LEMMA SameSource == \A row, col : trans_compress_output(row, col) = SourceMCU(scan, geom, coef.whole, coef.iMCU_row_num, row, col)
<1>1. \A real : Filled(real) = FilledOf(scan, real) BY SameMembership DEF Filled, FilledOf
<1>2. \A row, col : RealPlaces(row, col) = RealPlacesOf(scan, geom, coef.iMCU_row_num, row, col)
  BY SameMembership DEF RealPlaces, RealPlacesOf
<1>. QED BY <1>1, <1>2 DEF trans_compress_output, SourceMCU

LEMMA AtPosition ==
  ASSUME Coding
  PROVE  /\ Position.r = coef.iMCU_row_num /\ Position.row = call.row /\ Position.col = call.col
         /\ Position.dc = entropy.last_dc /\ Position.togo = entropy.restarts_to_go
         /\ BaseDC = BaseAt(scan, Position) /\ CountDown = CountAt(scan, Position)
<1>1. /\ Position.r = coef.iMCU_row_num /\ Position.row = call.row /\ Position.col = call.col
      /\ Position.dc = entropy.last_dc /\ Position.togo = entropy.restarts_to_go
  BY DEF Position
<1>. HIDE DEF Position
<1>. QED BY <1>1 DEF BaseDC, BaseAt, CountDown, CountAt, Restarting, RestartsAt, ZeroDC

LEMMA SameMCU ==
  ASSUME Coding, coef.mode = "TRANSCODE" <=> cinfo.transcode, coef.mode # "PASS_THRU"
  PROVE  CurrentMCU = MCUAt(scan, geom, cinfo.transcode, coef.whole, Position)
<1>1. Position.r = coef.iMCU_row_num /\ Position.row = call.row /\ Position.col = call.col BY AtPosition
<1>. HIDE DEF Position
<1>2. CASE coef.mode = "TRANSCODE"
  <2>1. CurrentMCU = trans_compress_output(call.row, call.col) BY <1>2 DEF CurrentMCU
  <2>2. trans_compress_output(call.row, call.col)
          = SourceMCU(scan, geom, coef.whole, coef.iMCU_row_num, call.row, call.col) BY SameSource
  <2>. QED BY <1>1, <1>2, <2>1, <2>2 DEF MCUAt
<1>3. CASE coef.mode # "TRANSCODE"
  <2>1. CurrentMCU = compress_output(call.row, call.col) BY <1>3 DEF CurrentMCU
  <2>2. compress_output(call.row, call.col)
          = StoredMCU(scan, geom, coef.whole, coef.iMCU_row_num, call.row, call.col) BY SameStored
  <2>. QED BY <1>1, <1>3, <2>1, <2>2 DEF MCUAt
<1>. QED BY <1>2, <1>3

(* The controller's record, and what moves it.                               *)
IsCoef(c) ==
  c = [mode |-> c.mode, iMCU_row_num |-> c.iMCU_row_num, mcu_ctr |-> c.mcu_ctr,
       MCU_vert_offset |-> c.MCU_vert_offset,
       MCU_rows_per_iMCU_row |-> c.MCU_rows_per_iMCU_row, whole |-> c.whole]
AtRow(c, d, sc, g, n, mode) ==
  /\ IsCoef(c) /\ c.mode = mode /\ c.iMCU_row_num = n /\ c.mcu_ctr = 0 /\ c.MCU_vert_offset = 0
  /\ c.MCU_rows_per_iMCU_row = rows_per_iMCU_row(sc, g, n) /\ c.whole = d.whole
LEMMA RowStarted ==
  ASSUME NEW d, IsCoef(d), NEW sc, NEW g, NEW n, NEW c, c = start_iMCU_row(d, sc, g, n)
  PROVE  AtRow(c, d, sc, g, n, d.mode)
<1> DEFINE k == rows_per_iMCU_row(sc, g, n)
<1>1. c = [d EXCEPT !.iMCU_row_num = n, !.mcu_ctr = 0, !.MCU_vert_offset = 0, !.MCU_rows_per_iMCU_row = k]
  BY DEF start_iMCU_row
<1>. HIDE DEF k
<1>2. c = [mode |-> d.mode, iMCU_row_num |-> n, mcu_ctr |-> 0, MCU_vert_offset |-> 0,
           MCU_rows_per_iMCU_row |-> k, whole |-> d.whole]
  BY <1>1 DEF IsCoef
<1>3. IsCoef(c) BY <1>2 DEF IsCoef
<1>4. c.mode = d.mode /\ c.iMCU_row_num = n /\ c.mcu_ctr = 0 /\ c.MCU_vert_offset = 0
      /\ c.MCU_rows_per_iMCU_row = k /\ c.whole = d.whole
  BY <1>2
<1>. QED BY <1>3, <1>4 DEF AtRow, k

LEMMA PassStarted ==
  ASSUME NEW d, IsCoef(d), NEW sc, NEW g, NEW mode, NEW c, c = start_pass_coef(d, sc, g, mode)
  PROVE  AtRow(c, d, sc, g, 0, mode)
<1> DEFINE b == start_iMCU_row(d, sc, g, 0)
<1>1. c = [b EXCEPT !.mode = mode] BY DEF start_pass_coef
<1>2. b = start_iMCU_row(d, sc, g, 0) OBVIOUS
<1>. HIDE DEF b
<1>3. AtRow(b, d, sc, g, 0, d.mode) BY <1>2, RowStarted
<1>4. c = [mode |-> mode, iMCU_row_num |-> b.iMCU_row_num, mcu_ctr |-> b.mcu_ctr,
           MCU_vert_offset |-> b.MCU_vert_offset,
           MCU_rows_per_iMCU_row |-> b.MCU_rows_per_iMCU_row, whole |-> b.whole]
  BY <1>1, <1>3 DEF AtRow, IsCoef
<1>5. IsCoef(c) BY <1>4 DEF IsCoef
<1>6. c.mode = mode /\ c.iMCU_row_num = b.iMCU_row_num /\ c.mcu_ctr = b.mcu_ctr
      /\ c.MCU_vert_offset = b.MCU_vert_offset
      /\ c.MCU_rows_per_iMCU_row = b.MCU_rows_per_iMCU_row /\ c.whole = b.whole
  BY <1>4
<1>. QED BY <1>3, <1>5, <1>6 DEF AtRow

(* The two steps that move the position.                                     *)
LEMMA MCUMoves ==
  ASSUME Calls, IsCoef(coef), IsCoder(entropy), IsPosition(Position), failed = NoError,
         coef.mode = "TRANSCODE" <=> cinfo.transcode, coef.mode # "PASS_THRU",
         coef.MCU_rows_per_iMCU_row = rows_per_iMCU_row(scan, geom, coef.iMCU_row_num),
         EncodeMCU, failed' = NoError
  PROVE  /\ InRow(scan, geom, Position)
         /\ Position' = After(scan, geom, cinfo.transcode, coef.whole, Position)
         /\ CodedAt(cinfo, scan, geom, cinfo.transcode, coef.whole, Position) = Differences(CurrentMCU, BaseDC)
         /\ IsCoef(coef') /\ coef'.mode = coef.mode /\ coef'.whole = coef.whole
         /\ coef'.iMCU_row_num = coef.iMCU_row_num /\ coef'.MCU_vert_offset = coef.MCU_vert_offset
         /\ coef'.mcu_ctr \in {0, coef.mcu_ctr}
         /\ coef'.MCU_rows_per_iMCU_row = coef.MCU_rows_per_iMCU_row
         /\ call'.pc = call.pc /\ Position'.r = Position.r
<1>1. Coding /\ call.row < coef.MCU_rows_per_iMCU_row /\ NextMCU BY DEF EncodeMCU
<1> DEFINE P == Position
           M == MCUAt(scan, geom, cinfo.transcode, coef.whole, P)
<1>2. /\ P.r = coef.iMCU_row_num /\ P.row = call.row /\ P.col = call.col
      /\ BaseDC = BaseAt(scan, P) /\ CountDown = CountAt(scan, P)
  BY <1>1, AtPosition
<1>3. P.r \in Nat /\ P.row \in Nat /\ P.col \in Nat BY DEF IsPosition
<1>4. CurrentMCU = M BY <1>1, SameMCU
<1>5. InRow(scan, geom, P)
  <2>. HIDE DEF P
  <2>. QED BY <1>1, <1>2 DEF InRow
<1>6. /\ entropy'.last_dc = LastValues(CurrentMCU, BaseDC) /\ entropy'.restarts_to_go = CountDown
  BY CoderAfterMCU
<1>7. entropy'.last_dc = LastValuesOf(scan, M, BaseAt(scan, P)) /\ entropy'.restarts_to_go = CountAt(scan, P)
      /\ Differences(CurrentMCU, BaseDC) = DifferencesOf(cinfo, scan, M, BaseAt(scan, P))
  <2>. HIDE DEF P, M
  <2>. QED BY <1>2, <1>4, <1>6, SameDifferences
<1>8. /\ IsCoef(coef') /\ coef'.mode = coef.mode /\ coef'.whole = coef.whole
      /\ coef'.iMCU_row_num = coef.iMCU_row_num /\ coef'.MCU_vert_offset = coef.MCU_vert_offset
      /\ coef'.mcu_ctr \in {0, coef.mcu_ctr}
      /\ coef'.MCU_rows_per_iMCU_row = coef.MCU_rows_per_iMCU_row
  BY <1>1 DEF NextMCU, IsCoef
<1>9. /\ call'.pc = call.pc
      /\ call'.row = IF call.col + 1 < scan.MCUs_per_row THEN call.row ELSE call.row + 1
      /\ call'.col = IF call.col + 1 < scan.MCUs_per_row THEN call.col + 1 ELSE 0
  BY <1>1 DEF NextMCU, Calls
<1>10. Coding' BY <1>1, <1>9 DEF Coding
<1>11. Position' = [r |-> coef'.iMCU_row_num, row |-> call'.row, col |-> call'.col,
                    dc |-> entropy'.last_dc, togo |-> entropy'.restarts_to_go]
  BY <1>10 DEF Position
<1>. HIDE DEF P, M
<1>12. Position' = After(scan, geom, cinfo.transcode, coef.whole, P)
  BY <1>2, <1>5, <1>7, <1>8, <1>9, <1>11 DEF After, M, P
<1>13. CodedAt(cinfo, scan, geom, cinfo.transcode, coef.whole, P) = Differences(CurrentMCU, BaseDC)
  BY <1>5, <1>7 DEF CodedAt, M
<1>14. Position'.r = coef.iMCU_row_num BY <1>8, <1>11
<1>. QED BY <1>2, <1>5, <1>8, <1>9, <1>12, <1>13, <1>14 DEF P

LEMMA RowMoves ==
  ASSUME Calls, IsCoef(coef), IsPosition(Position), FinishRow,
         coef.MCU_rows_per_iMCU_row = rows_per_iMCU_row(scan, geom, coef.iMCU_row_num)
  PROVE  /\ ~InRow(scan, geom, Position)
         /\ \A source, whole : Position' = After(scan, geom, source, whole, Position)
         /\ \A source, whole : CodedAt(cinfo, scan, geom, source, whole, Position) = {}
         /\ AtRow(coef', coef, scan, geom, coef.iMCU_row_num + 1, coef.mode)
         /\ Position.r = coef.iMCU_row_num
         /\ call.pc = "crank" =>
              call'.pc = IF coef.iMCU_row_num + 1 = geom.total_iMCU_rows THEN "finish_pass" ELSE "crank"
         /\ call.pc # "crank" => call'.pc \in {"app", "main"}
<1>1. Coding /\ call.row = coef.MCU_rows_per_iMCU_row
      /\ coef' = start_iMCU_row(coef, scan, geom, coef.iMCU_row_num + 1)
      /\ UNCHANGED entropy
  BY DEF FinishRow
<1>2. /\ Position.r = coef.iMCU_row_num /\ Position.row = call.row
      /\ Position.dc = entropy.last_dc /\ Position.togo = entropy.restarts_to_go
  BY <1>1, AtPosition
<1>3. AtRow(coef', coef, scan, geom, coef.iMCU_row_num + 1, coef.mode) BY <1>1, RowStarted
<1>4. \/ /\ call.pc = "crank" /\ coef.iMCU_row_num + 1 = geom.total_iMCU_rows
         /\ call' = [NoCall EXCEPT !.pc = "finish_pass"]
      \/ /\ call.pc = "crank" /\ coef.iMCU_row_num + 1 # geom.total_iMCU_rows
         /\ call' = [call EXCEPT !.row = 0, !.col = 0]
      \/ call.pc = "coef" /\ call' = NoCall
      \/ call.pc = "coef" /\ \E k : call' = [call EXCEPT !.pc = "main", !.data = <<>>, !.ctr = k]
  BY DEF FinishRow, Coding
<1>5. /\ call.pc = "crank" =>
           call'.pc = IF coef.iMCU_row_num + 1 = geom.total_iMCU_rows THEN "finish_pass" ELSE "crank"
      /\ call.pc # "crank" => call'.pc \in {"app", "main"}
      /\ Coding' => call'.row = 0 /\ call'.col = 0
  BY <1>4, CallShapes DEF Calls, Coding
<1>6. Position' = [r |-> coef.iMCU_row_num + 1, row |-> 0, col |-> 0,
                   dc |-> entropy.last_dc, togo |-> entropy.restarts_to_go]
  <2>1. Position' = [r |-> coef'.iMCU_row_num, row |-> 0, col |-> 0,
                     dc |-> entropy'.last_dc, togo |-> entropy'.restarts_to_go]
    BY <1>5 DEF Position
  <2>. QED BY <1>1, <1>3, <2>1 DEF AtRow
<1> DEFINE P == Position
<1>7. P.row \in Nat BY DEF IsPosition
<1>8. ~InRow(scan, geom, P)
  <2>. HIDE DEF P
  <2>1. P.row = rows_per_iMCU_row(scan, geom, P.r) BY <1>1, <1>2 DEF P
  <2>. QED BY <1>7, <2>1 DEF InRow
<1>. HIDE DEF P
<1>9. ASSUME NEW source, NEW whole PROVE Position' = After(scan, geom, source, whole, P)
  BY <1>2, <1>6, <1>8 DEF After, P
<1>10. ASSUME NEW source, NEW whole PROVE CodedAt(cinfo, scan, geom, source, whole, P) = {}
  BY <1>8 DEF CodedAt
<1>. QED BY <1>2, <1>3, <1>5, <1>8, <1>9, <1>10 DEF P

-----------------------------------------------------------------------------
(* The geometry of an image that was checked.                                *)
LEMMA Products ==
  ASSUME NEW a \in Int, NEW b \in Int, NEW m \in Nat
  PROVE  /\ a * m \in Int /\ (a + b) * m = a * m + b * m
         /\ a <= b => a * m <= b * m
<1>1. a * m \in Int /\ b * m \in Int /\ (a + b) * m = a * m + b * m OBVIOUS
<1>2. ASSUME a <= b PROVE a * m <= b * m
  <2>1. b - a \in Nat /\ (b - a) * m \in Nat /\ (b - a) * m = b * m - a * m BY <1>2
  <2>. QED BY <1>1, <2>1
<1>. QED BY <1>1, <1>2

LEMMA RoundedUp ==
  ASSUME NEW a \in Nat, NEW b \in Nat, b > 0
  PROVE  /\ jdiv_round_up(a, b) \in Nat
         /\ jdiv_round_up(a, b) * b >= a
         /\ \A r \in Int : r * b >= a => r >= jdiv_round_up(a, b)
<1> DEFINE t == (a + b - 1) \div b
<1>1. t \in Int /\ t * b <= a + b - 1 /\ a + b - 1 < (t + 1) * b OBVIOUS
<1>2. jdiv_round_up(a, b) = t BY DEF jdiv_round_up
<1>. HIDE DEF t
<1>3. t * b \in Int /\ (t + 1) * b = t * b + b BY <1>1
<1>4. t * b >= a BY <1>1, <1>3
<1>5. t >= 0
  <2>1. SUFFICES ASSUME t <= -1 PROVE FALSE BY <1>1
  <2>2. (t + 1) * b <= 0 * b BY <1>1, <2>1, Products
  <2>. QED BY <1>1, <2>2
<1>6. ASSUME NEW r \in Int, r * b >= a PROVE r >= t
  <2>1. SUFFICES ASSUME r + 1 <= t PROVE FALSE BY <1>1
  <2>2. (r + 1) * b <= t * b BY <1>1, <2>1, Products
  <2>3. (r + 1) * b = r * b + b /\ r * b \in Int OBVIOUS
  <2>. QED BY <1>1, <1>3, <1>6, <2>2, <2>3
<1>. QED BY <1>1, <1>2, <1>4, <1>5, <1>6

LEMMA Remainders ==
  ASSUME NEW n \in Int, NEW d \in Nat, d > 0
  PROVE  remainder(n, d) \in 1 .. d
BY DEF remainder

LEMMA Checked ==
  ASSUME NEW im, initial_setup_error(im) = NoError, NEW C, C = im.comp_info
  PROVE  /\ ~(im.image_height <= 0) /\ C # <<>>
         /\ \A c \in DOMAIN C : C[c].v \in 1 .. 4 /\ C[c].h \in 1 .. 4
<1>1. /\ ~(im.image_height <= 0 \/ im.image_width <= 0 \/ C = <<>>)
      /\ ~(\E c \in DOMAIN C : {C[c].h, C[c].v} \ (1 .. MAX_SAMP_FACTOR) # {})
  BY DEF initial_setup_error, NoError
<1>2. \A c \in DOMAIN C : C[c].v \in 1 .. 4 /\ C[c].h \in 1 .. 4 BY <1>1 DEF MAX_SAMP_FACTOR
<1>. QED BY <1>1, <1>2

GeometryIs(im, g) ==
  /\ im.image_height \in Nat /\ im.image_height > 0
  /\ g.max_v \in Nat /\ g.max_v > 0 /\ g.max_v * DCTSIZE \in Nat /\ g.max_v * DCTSIZE > 0
  /\ g.total_iMCU_rows = jdiv_round_up(im.image_height, g.max_v * DCTSIZE)
  /\ g.total_iMCU_rows \in Nat /\ g.total_iMCU_rows > 0
  /\ \A r \in Int : r * (g.max_v * DCTSIZE) >= im.image_height => r >= g.total_iMCU_rows
  /\ DOMAIN g.comps = DOMAIN im.comp_info
  /\ \A c \in DOMAIN im.comp_info :
       g.comps[c].v \in 1 .. 4 /\ g.comps[c].h \in 1 .. 4 /\ g.comps[c].height_in_blocks \in Int
LEMMA Geometry ==
  ASSUME NEW im, WellFormed(im), initial_setup_error(im) = NoError, NEW g, g = initial_setup(im)
  PROVE  GeometryIs(im, g)
<1> DEFINE C == im.comp_info
           mh == max_h(im)
           mv == max_v(im)
           total == jdiv_round_up(im.image_height, mv * DCTSIZE)
           Of(k) == [h |-> k.h, v |-> k.v,
                width_in_blocks |-> jdiv_round_up(im.image_width * k.h, mh * DCTSIZE),
                height_in_blocks |-> jdiv_round_up(im.image_height * k.v, mv * DCTSIZE),
                downsampled_width |-> jdiv_round_up(im.image_width * k.h, mh),
                downsampled_height |-> jdiv_round_up(im.image_height * k.v, mv)]
           comps == [c \in DOMAIN C |-> Of(C[c])]
<1>1. /\ ~(im.image_height <= 0) /\ C # <<>>
      /\ \A c \in DOMAIN C : C[c].v \in 1 .. 4 /\ C[c].h \in 1 .. 4
  BY Checked
<1>2. im.image_height \in Nat /\ im.image_height > 0 BY <1>1 DEF WellFormed
<1>3. mv \in 1 .. 4
  <2> DEFINE S == {C[c].v : c \in DOMAIN C}
  <2>1. S \in SUBSET (1 .. 4) BY <1>1
  <2>2. S # {}
    <3>1. 1 \in DOMAIN C
      <4>1. Len(C) \in Nat /\ DOMAIN C = 1 .. Len(C) BY ComponentTables
      <4>2. Len(C) # 0
        <5>1. C \in Seq([id : Nat, h : Int, v : Int, quant : Slots, dc : Slots, ac : Slots]) BY ComponentTables
        <5> DEFINE R == [id : Nat, h : Int, v : Int, quant : Slots, dc : Slots, ac : Slots]
        <5>2. C \in Seq(R) BY <5>1
        <5>. HIDE DEF C, R
        <5>3. Len(C) = 0 => C = <<>> BY <5>2
        <5>. QED BY <1>1, <5>3
      <4>. QED BY <4>1, <4>2
    <3>. QED BY <3>1
  <2>. HIDE DEF S
  <2>3. Max(S) \in S BY <2>1, <2>2, Greatest
  <2>. QED BY <2>1, <2>3 DEF max_v, S
<1>4. mv * DCTSIZE \in Nat /\ mv * DCTSIZE > 0 BY <1>3, BlockAssumption
<1>5. g = [max_h |-> mh, max_v |-> mv, total_iMCU_rows |-> total, comps |-> comps] BY DEF initial_setup
<1>6. DOMAIN comps = DOMAIN C /\ \A c \in DOMAIN C : comps[c] = Of(C[c])
  <2>. HIDE DEF Of, C
  <2>. QED OBVIOUS
<1>7. ASSUME NEW c \in DOMAIN C
      PROVE  /\ Of(C[c]).v = C[c].v /\ Of(C[c]).h = C[c].h
             /\ Of(C[c]).height_in_blocks = jdiv_round_up(im.image_height * C[c].v, mv * DCTSIZE)
  <2>. HIDE DEF C, mv, mh
  <2>. QED OBVIOUS
<1>. HIDE DEF mh, mv, total, comps, Of
<1>8. g.max_v = mv /\ g.total_iMCU_rows = total /\ g.comps = comps BY <1>5
<1>9. ASSUME NEW c \in DOMAIN C
      PROVE  g.comps[c].v \in 1 .. 4 /\ g.comps[c].h \in 1 .. 4 /\ g.comps[c].height_in_blocks \in Int
  <2>1. g.comps[c] = Of(C[c]) BY <1>6, <1>8
  <2>2. im.image_height * C[c].v \in Nat BY <1>1, <1>2
  <2>3. jdiv_round_up(im.image_height * C[c].v, mv * DCTSIZE) \in Nat
    <3> DEFINE a == im.image_height * C[c].v
               b == mv * DCTSIZE
    <3>1. a \in Nat /\ b \in Nat /\ b > 0 BY <1>4, <2>2
    <3>. HIDE DEF a, b
    <3>2. jdiv_round_up(a, b) \in Nat BY <3>1, RoundedUp
    <3>. QED BY <3>2 DEF a, b
  <2>. QED BY <1>1, <1>7, <2>1, <2>3
<1>10. total \in Nat /\ total * (mv * DCTSIZE) >= im.image_height
       /\ \A r \in Int : r * (mv * DCTSIZE) >= im.image_height => r >= total
  <2> DEFINE b == mv * DCTSIZE
             a == im.image_height
  <2>1. b \in Nat /\ b > 0 /\ a \in Nat BY <1>2, <1>4
  <2>. HIDE DEF b, a
  <2>2. /\ jdiv_round_up(a, b) \in Nat
        /\ jdiv_round_up(a, b) * b >= a
        /\ \A r \in Int : r * b >= a => r >= jdiv_round_up(a, b)
    BY <2>1, RoundedUp
  <2>. QED BY <2>2 DEF total, b, a
<1>11. total > 0 BY <1>1, <1>2, <1>4, <1>10
<1>12. DOMAIN g.comps = DOMAIN C BY <1>6, <1>8
<1>13. /\ g.max_v \in Nat /\ g.max_v > 0 /\ g.max_v * DCTSIZE \in Nat /\ g.max_v * DCTSIZE > 0
       /\ g.total_iMCU_rows = jdiv_round_up(im.image_height, g.max_v * DCTSIZE)
  BY <1>3, <1>4, <1>8 DEF total
<1>14. /\ g.total_iMCU_rows \in Nat /\ g.total_iMCU_rows > 0
       /\ \A r \in Int : r * (g.max_v * DCTSIZE) >= im.image_height => r >= g.total_iMCU_rows
  BY <1>8, <1>10, <1>11
<1>. HIDE DEF C
<1>. QED BY <1>1, <1>2, <1>9, <1>12, <1>13, <1>14 DEF GeometryIs, C

-----------------------------------------------------------------------------
(* The rows stored before a row of iMCUs stay as they are when it is stored. *)
LayoutOf(sc, g, i) ==
  LET c == sc.comps[i]
      v == g.comps[c].v
  IN IF Len(sc.comps) = 1
     THEN sc.cur[i].MCU_width = 1 /\ sc.cur[i].MCU_height = 1
          /\ sc.cur[i].last_row_height = remainder(g.comps[c].height_in_blocks, v)
     ELSE sc.cur[i].MCU_width = g.comps[c].h /\ sc.cur[i].MCU_height = v
LEMMA ScanLayout ==
  ASSUME NEW im, NEW g, NEW k, NEW sc, sc = per_scan_setup(im, g, k)
  PROVE  \A i \in DOMAIN sc.comps : LayoutOf(sc, g, i)
<1> DEFINE lone == Len(k.comps) = 1
           first == g.comps[k.comps[1]]
           across == IF lone THEN first.width_in_blocks ELSE jdiv_round_up(im.image_width, g.max_h * DCTSIZE)
           rows == IF lone THEN first.height_in_blocks ELSE jdiv_round_up(im.image_height, g.max_v * DCTSIZE)
           K(i) == g.comps[k.comps[i]]
           Cur(i) == IF lone
             THEN [MCU_width |-> 1, MCU_height |-> 1, last_col_width |-> 1,
                   last_row_height |-> remainder(K(i).height_in_blocks, K(i).v)]
             ELSE [MCU_width |-> K(i).h, MCU_height |-> K(i).v,
                   last_col_width |-> remainder(K(i).width_in_blocks, K(i).h),
                   last_row_height |-> remainder(K(i).height_in_blocks, K(i).v)]
           cur == [i \in DOMAIN k.comps |-> Cur(i)]
           interval == IF im.restart_in_rows > 0 THEN AtMost(im.restart_in_rows * across, 65535)
                       ELSE im.restart_interval
<1> DEFINE r == [comps |-> k.comps, Ss |-> k.Ss, Se |-> k.Se, Ah |-> k.Ah, Al |-> k.Al,
                 MCUs_per_row |-> across, MCU_rows_in_scan |-> rows, cur |-> cur, restart_interval |-> interval]
<1>1. per_scan_setup(im, g, k) = r BY DEF per_scan_setup
<1>2. r.comps = k.comps /\ r.cur = cur
  <2>. HIDE DEF across, rows, cur, interval
  <2>. QED OBVIOUS
<1>3. \A i \in DOMAIN k.comps : cur[i] = Cur(i)
  <2>. HIDE DEF Cur
  <2>. QED OBVIOUS
<1>. HIDE DEF r, cur
<1>4. sc.comps = k.comps /\ sc.cur = cur BY <1>1, <1>2
<1>5. ASSUME NEW i \in DOMAIN k.comps PROVE LayoutOf(sc, g, i)
  <2> DEFINE a == remainder(K(i).height_in_blocks, K(i).v)
             b == remainder(K(i).width_in_blocks, K(i).h)
  <2>1. Cur(i) = IF lone
             THEN [MCU_width |-> 1, MCU_height |-> 1, last_col_width |-> 1, last_row_height |-> a]
             ELSE [MCU_width |-> K(i).h, MCU_height |-> K(i).v, last_col_width |-> b, last_row_height |-> a]
    OBVIOUS
  <2>. HIDE DEF a, b, Cur, K
  <2>2. IF lone THEN Cur(i).MCU_width = 1 /\ Cur(i).MCU_height = 1 /\ Cur(i).last_row_height = a
        ELSE Cur(i).MCU_width = K(i).h /\ Cur(i).MCU_height = K(i).v
    BY <2>1
  <2>3. sc.cur[i] = Cur(i) /\ sc.comps[i] = k.comps[i] BY <1>3, <1>4
  <2>. QED BY <1>4, <2>2, <2>3 DEF LayoutOf, a, K
<1>. QED BY <1>4, <1>5

Agrees(C, g, whole, whole2, r) == \A c \in C : \A j \in 1 .. r * g.comps[c].v : whole2[c][j] = whole[c][j]
LEMMA StoredKept ==
  ASSUME NEW im, NEW g, GeometryIs(im, g), NEW sc, SomeScan(im, g, sc), ScanOf(im, sc),
         NEW whole, NEW whole2, NEW r \in Nat,
         Agrees(DOMAIN im.comp_info, g, whole, whole2, r),
         NEW s, IsPosition(s), s.r < r, InRow(sc, g, s)
  PROVE  StoredMCU(sc, g, whole2, s.r, s.row, s.col) = StoredMCU(sc, g, whole, s.r, s.row, s.col)
<1>1. \A i \in DOMAIN sc.comps : LayoutOf(sc, g, i)
  <2>1. PICK k \in 0 .. num_scans(im) - 1 : sc = per_scan_setup(im, g, select_scan_parameters(im, k))
    BY DEF SomeScan
  <2> DEFINE p == select_scan_parameters(im, k)
  <2>2. sc = per_scan_setup(im, g, p) BY <2>1
  <2>. HIDE DEF p
  <2>. QED BY <2>2, ScanLayout
<1>2. Len(sc.comps) \in Nat /\ DOMAIN sc.comps = 1 .. Len(sc.comps)
      /\ \A i \in DOMAIN sc.comps : sc.comps[i] \in DOMAIN im.comp_info
  BY DEF ScanOf
<1>3. s.r \in Nat /\ s.row \in Nat /\ s.row < rows_per_iMCU_row(sc, g, s.r) BY DEF IsPosition, InRow
<1>4. ASSUME NEW i \in DOMAIN sc.comps
      PROVE  LinesOf(sc, g, whole2, s.r, s.row, s.col, i) = LinesOf(sc, g, whole, s.r, s.row, s.col, i)
  <2> DEFINE c == sc.comps[i]
             v == g.comps[c].v
             W == sc.cur[i].MCU_width
             H == sc.cur[i].MCU_height
             Line(n) == s.r * v + s.row + ((n - 1) \div W) + 1
  <2>1. c \in DOMAIN im.comp_info BY <1>2
  <2>2. v \in 1 .. 4 /\ g.comps[c].h \in 1 .. 4 /\ g.comps[c].height_in_blocks \in Int BY <2>1 DEF GeometryIs
  <2>3. W \in 1 .. 4 /\ H \in 1 .. 4 /\ \A n \in 1 .. W * H : s.row + ((n - 1) \div W) < v /\ ((n - 1) \div W) \in Nat
    <3>1. CASE Len(sc.comps) = 1
      <4>1. i = 1 BY <1>2, <3>1
      <4>2. W = 1 /\ H = 1 /\ sc.cur[1].last_row_height = remainder(g.comps[c].height_in_blocks, v)
        BY <1>1, <3>1, <4>1 DEF LayoutOf
      <4>3. remainder(g.comps[c].height_in_blocks, v) \in 1 .. v
        <5> DEFINE x == g.comps[c].height_in_blocks
        <5>1. x \in Int /\ v \in Nat /\ v > 0 BY <2>2
        <5>. HIDE DEF x, v
        <5>. QED BY <5>1, Remainders DEF x
      <4>4. rows_per_iMCU_row(sc, g, s.r) \in {v, sc.cur[1].last_row_height}
        BY <3>1, <4>1 DEF rows_per_iMCU_row
      <4>5. s.row < v BY <1>3, <2>2, <4>2, <4>3, <4>4
      <4>6. \A n \in 1 .. W * H : (n - 1) \div W = 0 BY <4>2
      <4>. HIDE DEF v, W, H
      <4>. QED BY <1>3, <2>2, <4>2, <4>5, <4>6
    <3>2. CASE Len(sc.comps) # 1
      <4>1. W = g.comps[c].h /\ H = v BY <1>1, <3>2 DEF LayoutOf
      <4>2. Len(sc.comps) > 1
        <5> DEFINE m == Len(sc.comps)
        <5>1. m \in Nat /\ i \in 1 .. m /\ m # 1 BY <1>2, <3>2
        <5>. HIDE DEF m
        <5>2. m > 1 BY <5>1
        <5>. QED BY <5>2 DEF m
      <4>3. rows_per_iMCU_row(sc, g, s.r) = 1 BY <4>2 DEF rows_per_iMCU_row
      <4>4. s.row = 0 BY <1>3, <4>3
      <4>5. W \in {1, 2, 3, 4} /\ v \in {1, 2, 3, 4} BY <2>2, <4>1
      <4>. HIDE DEF v, W, H, c
      <4>6. \A n \in 1 .. W * v : ((n - 1) \div W) < v /\ ((n - 1) \div W) \in Nat
        <5>1. CASE W = 1 BY <4>5, <5>1
        <5>2. CASE W = 2 BY <4>5, <5>2
        <5>3. CASE W = 3 BY <4>5, <5>3
        <5>4. CASE W = 4 BY <4>5, <5>4
        <5>. QED BY <4>5, <5>1, <5>2, <5>3, <5>4
      <4>. QED BY <4>1, <4>4, <4>5, <4>6
    <3>. QED BY <3>1, <3>2
  <2>4. s.r * v \in Nat /\ (s.r + 1) * v = s.r * v + v /\ (s.r + 1) * v <= r * v
    <3>1. v \in Nat /\ s.r + 1 <= r BY <1>3, <2>2
    <3>. HIDE DEF v
    <3>. QED BY <1>3, <3>1, Products
  <2>5. ASSUME NEW n \in 1 .. W * H PROVE Line(n) \in 1 .. r * v
    <3>1. s.row + ((n - 1) \div W) < v /\ ((n - 1) \div W) \in Nat BY <2>3
    <3>2. r * v \in Nat BY <2>2
    <3>. HIDE DEF v, W, H
    <3>. QED BY <1>3, <2>2, <2>4, <3>1, <3>2
  <2>6. \A n \in 1 .. W * H : whole2[c][Line(n)] = whole[c][Line(n)]
    <3>. HIDE DEF Line
    <3>. QED BY <2>1, <2>5 DEF Agrees
  <2>. QED BY <2>6, Zenon DEF LinesOf
<1>5. [i \in DOMAIN sc.comps |-> LinesOf(sc, g, whole2, s.r, s.row, s.col, i)]
        = [i \in DOMAIN sc.comps |-> LinesOf(sc, g, whole, s.r, s.row, s.col, i)]
  BY <1>4
<1>. QED BY <1>5, Zenon DEF StoredMCU

\* The same for every place before the row: an MCU filled from either copy of the coefficients.
StoredAlike(sc, g, whole, whole2, s) ==
  StoredMCU(sc, g, whole2, s.r, s.row, s.col) = StoredMCU(sc, g, whole, s.r, s.row, s.col)
LEMMA AllStoredKept ==
  ASSUME NEW im, NEW g, GeometryIs(im, g), NEW sc, SomeScan(im, g, sc), ScanOf(im, sc),
         NEW whole, NEW whole2, NEW r \in Nat, Agrees(DOMAIN im.comp_info, g, whole, whole2, r)
  PROVE  \A s : IsPosition(s) /\ s.r < r /\ InRow(sc, g, s) => StoredAlike(sc, g, whole, whole2, s)
<1>. SUFFICES ASSUME NEW s, IsPosition(s), s.r < r, InRow(sc, g, s) PROVE StoredAlike(sc, g, whole, whole2, s)
  OBVIOUS
<1>1. StoredMCU(sc, g, whole2, s.r, s.row, s.col) = StoredMCU(sc, g, whole, s.r, s.row, s.col)
  BY StoredKept
<1>. QED BY <1>1, Zenon DEF StoredAlike

(* Storing a row of iMCUs.                                                   *)
SameBut(c, d) ==
  /\ IsCoef(c) /\ c.mode = d.mode /\ c.iMCU_row_num = d.iMCU_row_num /\ c.mcu_ctr = d.mcu_ctr
  /\ c.MCU_vert_offset = d.MCU_vert_offset /\ c.MCU_rows_per_iMCU_row = d.MCU_rows_per_iMCU_row
HasRows(d, g, n) ==
  \A e \in DOMAIN g.comps : g.comps[e].v \in Nat /\ IsSeq(d.whole[e]) /\ Len(d.whole[e]) = n * g.comps[e].v
GrownBehind(c, d, g, n) ==
  /\ c.whole = [e \in DOMAIN g.comps |-> c.whole[e]]
  /\ HasRows(c, g, n + 1) /\ Agrees(DOMAIN g.comps, g, d.whole, c.whole, n)
LEMMA StoredRows ==
  ASSUME IsCoef(coef), NEW data, NEW c, c = Stored(data)
  PROVE  /\ SameBut(c, coef)
         /\ coef.iMCU_row_num \in Nat /\ HasRows(coef, geom, coef.iMCU_row_num)
              => GrownBehind(c, coef, geom, coef.iMCU_row_num)
<1> DEFINE block_rows(k) == IF coef.iMCU_row_num < geom.total_iMCU_rows - 1 THEN k.v
                            ELSE remainder(k.height_in_blocks, k.v)
           across(k) == jround_up(k.width_in_blocks, k.h)
           Line(d, b) ==
             [x \in 1 .. across(geom.comps[d]) |->
                LET real == Block(d, AtMost(x, geom.comps[d].width_in_blocks) - 1,
                                  SubSeq(data[d], (b - 1) * DCTSIZE + 1, b * DCTSIZE))
                IN IF x <= geom.comps[d].width_in_blocks THEN real ELSE Dummy(real)]
           Lines(d) ==
             LET k == geom.comps[d]
                 line[b \in 1 .. k.v] ==
                   IF b <= block_rows(k) THEN Line(d, b)
                   ELSE [x \in 1 .. across(k) |-> Dummy(line[b - 1][((x - 1) \div k.h) * k.h + k.h])]
             IN [b \in 1 .. k.v |-> line[b]]
           R(d) == SubSeq(coef.whole[d], 1, coef.iMCU_row_num * geom.comps[d].v) \o Lines(d)
           w == [d \in DOMAIN geom.comps |-> R(d)]
<1>1. c = [coef EXCEPT !.whole = w] BY DEF Stored
<1>2. \A d \in DOMAIN geom.comps : \E f : Lines(d) = [b \in 1 .. geom.comps[d].v |-> f[b]]
  <2>1. ASSUME NEW d \in DOMAIN geom.comps PROVE \E f : Lines(d) = [b \in 1 .. geom.comps[d].v |-> f[b]]
    <3> DEFINE k == geom.comps[d]
               line == CHOOSE f : f = [b \in 1 .. k.v |->
                   IF b <= block_rows(k) THEN Line(d, b)
                   ELSE [x \in 1 .. across(k) |-> Dummy(f[b - 1][((x - 1) \div k.h) * k.h + k.h])]]
    <3>1. Lines(d) = [b \in 1 .. k.v |-> line[b]] OBVIOUS
    <3>. HIDE DEF line, Lines
    <3>. QED BY <3>1
  <2>. HIDE DEF Lines
  <2>. QED BY <2>1
<1>. HIDE DEF Lines, block_rows, across, Line
<1>3. DOMAIN w = DOMAIN geom.comps /\ \A d \in DOMAIN geom.comps : w[d] = R(d)
  <2>. HIDE DEF R
  <2>. QED OBVIOUS
<1>4. w = [d \in DOMAIN geom.comps |-> w[d]]
  <2>. HIDE DEF R
  <2>. QED OBVIOUS
<1>. HIDE DEF w
<1>5. c = [mode |-> coef.mode, iMCU_row_num |-> coef.iMCU_row_num, mcu_ctr |-> coef.mcu_ctr,
           MCU_vert_offset |-> coef.MCU_vert_offset,
           MCU_rows_per_iMCU_row |-> coef.MCU_rows_per_iMCU_row, whole |-> w]
  BY <1>1 DEF IsCoef
<1>6. /\ c.mode = coef.mode /\ c.iMCU_row_num = coef.iMCU_row_num /\ c.mcu_ctr = coef.mcu_ctr
      /\ c.MCU_vert_offset = coef.MCU_vert_offset /\ c.MCU_rows_per_iMCU_row = coef.MCU_rows_per_iMCU_row
      /\ c.whole = w
  BY <1>5
<1>7. IsCoef(c) BY <1>5, <1>6 DEF IsCoef
<1>8. ASSUME NEW n \in Nat, n = coef.iMCU_row_num, NEW d \in DOMAIN geom.comps,
             geom.comps[d].v \in Nat, IsSeq(coef.whole[d]), Len(coef.whole[d]) = n * geom.comps[d].v
      PROVE  /\ IsSeq(w[d]) /\ Len(w[d]) = (n + 1) * geom.comps[d].v
             /\ \A j \in 1 .. n * geom.comps[d].v : w[d][j] = coef.whole[d][j]
  <2> DEFINE s == coef.whole[d]
             v == geom.comps[d].v
             m == n * v
             t == Lines(d)
  <2>1. w[d] = SubSeq(s, 1, m) \o t BY <1>3, <1>8
  <2>2. SubSeq(s, 1, m) = s
    <3>1. s \in Seq(ToSet(s)) /\ Len(s) = m BY <1>8 DEF IsSeq
    <3>. HIDE DEF s, m
    <3>. QED BY <3>1
  <2>3. IsSeq(t) /\ Len(t) = v
    <3>1. PICK f : t = [b \in 1 .. v |-> f[b]] BY <1>2
    <3> DEFINE S == {f[b] : b \in 1 .. v}
    <3>2. v \in Nat BY <1>8
    <3>. HIDE DEF t, v
    <3>3. \A b \in 1 .. v : f[b] \in S OBVIOUS
    <3>. HIDE DEF S
    <3>4. t \in Seq(S) /\ Len(t) = v BY <3>1, <3>2, <3>3
    <3>. QED BY <3>4, OfRange
  <2>4. v \in Nat /\ m \in Nat /\ (n + 1) * v = m + v BY <1>8
  <2>5. IsSeq(s) /\ Len(s) = m BY <1>8
  <2>. HIDE DEF s, t, m, v
  <2>6. IsSeq(s \o t) /\ Len(s \o t) = m + v /\ \A j \in 1 .. m : (s \o t)[j] = s[j]
    BY <2>3, <2>5, Concatenated
  <2>7. w[d] = s \o t BY <2>1, <2>2
  <2>8. IsSeq(w[d]) /\ Len(w[d]) = (n + 1) * v /\ \A j \in 1 .. m : w[d][j] = s[j] BY <2>4, <2>6, <2>7
  <2>. QED BY <2>8 DEF s, m, v
<1>9. SameBut(c, coef) BY <1>6, <1>7 DEF SameBut
<1> DEFINE n == coef.iMCU_row_num
<1>10. ASSUME n \in Nat, HasRows(coef, geom, n) PROVE GrownBehind(c, coef, geom, n)
  <2>1. \A d \in DOMAIN geom.comps :
          /\ geom.comps[d].v \in Nat
          /\ IsSeq(w[d]) /\ Len(w[d]) = (n + 1) * geom.comps[d].v
          /\ \A j \in 1 .. n * geom.comps[d].v : w[d][j] = coef.whole[d][j]
    BY <1>8, <1>10 DEF HasRows
  <2>. HIDE DEF n
  <2>. QED BY <1>4, <1>6, <2>1 DEF HasRows, Agrees, GrownBehind
<1>. QED BY <1>9, <1>10

-----------------------------------------------------------------------------
(* When the application has given all its rows, all rows of iMCUs are stored. *)
LEMMA RunningGeometry == ASSUME Begun, Running PROVE WellFormed(cinfo) /\ GeometryIs(cinfo, geom)
<1>1. cinfo \in Images /\ initial_setup_error(cinfo) = NoError /\ geom = initial_setup(cinfo)
  BY DEF Begun, Running
<1>2. WellFormed(cinfo) BY <1>1, ImagesAssumption
<1>. QED BY <1>1, <1>2, Geometry

LEMMA AllRows ==
  ASSUME Calls, Begun, Controller, RowsGathered, Running, call.pc = "app", global_state # "WRCOEFS", entropy.gather,
         ~(next_scanline < cinfo.image_height)
  PROVE  coef.iMCU_row_num >= geom.total_iMCU_rows
<1>1. GeometryIs(cinfo, geom) BY RunningGeometry
<1> DEFINE h == cinfo.image_height
           r == coef.iMCU_row_num
           L == geom.max_v * DCTSIZE
           T == geom.total_iMCU_rows
<1>2. h \in Nat /\ h > 0 /\ r \in Nat /\ L \in Nat /\ T \in Nat /\ geom.max_v \in Nat
      /\ \A k \in Int : k * L >= h => k >= T
  BY <1>1 DEF GeometryIs, Controller
<1>3. InPass BY DEF InPass
<1>4. global_state \in {"RAW_OK", "SCANNING"} BY DEF Calls, Running
<1>5. CASE global_state = "RAW_OK"
  <2>1. next_scanline = r * L BY <1>3, <1>5 DEF RowsGathered
  <2>. HIDE DEF h, r, L, T
  <2>2. ~(r * L < h) BY <2>1 DEF h
  <2>3. r * L \in Int BY <1>2
  <2>4. r >= T BY <1>2, <2>2, <2>3
  <2>. QED BY <2>4 DEF r, T
<1>6. CASE global_state = "SCANNING"
  <2>1. /\ next_scanline \in Nat /\ prep.rows_to_go \in Nat /\ call.ctr = 0
        /\ next_scanline + call.ctr + prep.rows_to_go = h
        /\ main.cur_iMCU_row = r
    BY <1>3, <1>6 DEF RowsGathered, RowsCounted
  <2>2. prep.rows_to_go = 0
    <3> DEFINE s == next_scanline
               k == prep.rows_to_go
    <3>1. ~(s < h) /\ s \in Nat /\ k \in Nat /\ h \in Nat /\ s + 0 + k = h BY <1>2, <2>1
    <3>. HIDE DEF h, s, k
    <3>2. k = 0 BY <3>1
    <3>. QED BY <3>2 DEF k
  <2>3. CASE need_context_rows(cinfo)
    <3>1. main.cur_iMCU_row = T BY <1>3, <1>6, <2>2, <2>3 DEF RowsGathered, RowsCounted
    <3>. QED BY <1>2, <2>1, <3>1
  <2>4. CASE ~need_context_rows(cinfo)
    <3> DEFINE q == main.rowgroup_ctr
    <3>1. /\ q < DCTSIZE \/ r = T
          /\ q \in {0, DCTSIZE}
          /\ (r * DCTSIZE + q) * geom.max_v >= h
      BY <1>3, <1>6, <2>1, <2>2, <2>4 DEF RowsGathered, RowsCounted
    <3>2. CASE r = T BY <1>2, <3>2
    <3>3. CASE q = 0
      <4>1. (r * DCTSIZE + 0) * geom.max_v = r * L BY <1>2, BlockAssumption
      <4>2. r * L >= h
        <5>. HIDE DEF h, r, L
        <5>. QED BY <3>1, <3>3, <4>1
      <4>. HIDE DEF h, r, L, T
      <4>. QED BY <1>2, <4>2 DEF r, T
    <3>. QED BY <3>1, <3>2, <3>3, BlockAssumption
  <2>. QED BY <2>3, <2>4
<1>. QED BY <1>4, <1>5, <1>6

-----------------------------------------------------------------------------
(* The controller keeps to its rows.                                         *)
LEMMA SameController ==
  ASSUME Calls, Controller, Within, UNCHANGED <<coef, scan, entropy>>,
         InPass' => /\ InPass /\ master'.pass_type = master.pass_type
                    /\ call'.pc = "coef" <=> call.pc = "coef",
         Running' /\ call'.pc = "crank" => call.pc = "crank",
         Running' /\ call'.pc = "finish_pass" /\ entropy.gather => coef.iMCU_row_num >= geom.total_iMCU_rows
  PROVE  Controller'
<1>1. Running /\ UNCHANGED <<cinfo, global_state, geom>> BY StepWithin
<1>2. optimized(cinfo)' = optimized(cinfo) BY <1>1
<1>. HIDE DEF InPass, Running
<1>. QED BY <1>1, <1>2 DEF Controller

(* A row of iMCUs is handed to the controller.                               *)
LEMMA RowHandedOver ==
  ASSUME Calls, Begun, Controller, Within, InPass, call.pc # "coef", NEW data,
         coef' = IF coef.mode = "SAVE_AND_PASS" THEN Stored(data) ELSE coef,
         UNCHANGED <<scan, entropy>>, master'.pass_type = master.pass_type,
         failed' = NoError, call'.pc = "coef"
  PROVE  Controller'
<1>1. Running /\ UNCHANGED <<cinfo, global_state, geom>> BY StepWithin
<1>2. InPass' BY <1>1 DEF InPass, Running
<1>3. optimized(cinfo)' = optimized(cinfo) BY <1>1
<1>4. IsCoef(coef) BY <1>1 DEF Controller, IsCoef
<1> DEFINE stores == coef.mode = "SAVE_AND_PASS"
<1>5. IsCoef(coef') /\ SameBut(coef', coef)
  <2>1. CASE stores BY <1>4, <2>1, StoredRows DEF SameBut
  <2>2. CASE ~stores BY <1>4, <2>2 DEF SameBut
  <2>. QED BY <2>1, <2>2
<1>6. ASSUME entropy.gather, master.pass_type = "main_pass"
      PROVE  /\ coef'.whole = [c \in DOMAIN geom.comps |-> coef'.whole[c]]
             /\ \A c \in DOMAIN geom.comps :
                  IsSeq(coef'.whole[c]) /\ Len(coef'.whole[c]) = (coef.iMCU_row_num + 1) * geom.comps[c].v
  <2>1. /\ stores /\ coef.iMCU_row_num \in Nat
        /\ \A c \in DOMAIN geom.comps :
             IsSeq(coef.whole[c]) /\ Len(coef.whole[c]) = (coef.iMCU_row_num + 0) * geom.comps[c].v
    BY <1>1, <1>6 DEF Controller
  <2>2. \A c \in DOMAIN geom.comps : geom.comps[c].v \in Nat BY <1>1, RunningGeometry DEF GeometryIs
  <2> DEFINE n == coef.iMCU_row_num
  <2>3. n \in Nat /\ n + 0 = n BY <2>1
  <2>4. HasRows(coef, geom, n) BY <2>1, <2>2, <2>3 DEF HasRows
  <2> DEFINE c == coef'
  <2>5. c = Stored(data) BY <2>1
  <2>. HIDE DEF c
  <2>6. GrownBehind(c, coef, geom, n) BY <1>4, <2>3, <2>4, <2>5, StoredRows
  <2>. QED BY <2>6 DEF GrownBehind, HasRows, c
<1>7. coef'.iMCU_row_num = coef.iMCU_row_num /\ coef'.mode = coef.mode /\ coef'.mcu_ctr = coef.mcu_ctr
      /\ coef'.MCU_vert_offset = coef.MCU_vert_offset
      /\ coef'.MCU_rows_per_iMCU_row = coef.MCU_rows_per_iMCU_row
  BY <1>5 DEF SameBut
<1>8. entropy'.gather = entropy.gather /\ rows_per_iMCU_row(scan', geom', coef'.iMCU_row_num)
                                         = rows_per_iMCU_row(scan, geom, coef.iMCU_row_num)
  BY <1>1, <1>7
<1>. HIDE DEF InPass, stores
<1>. QED BY <1>1, <1>2, <1>3, <1>5, <1>6, <1>7, <1>8 DEF Controller, IsCoef

(* A pass over the stored image begins.                                      *)
LEMMA CrankStarts ==
  ASSUME Calls, Begun, Controller, Within, NEW sc, Crank(sc), scan' = sc, master'.pass_type # "main_pass"
  PROVE  /\ Controller'
         /\ coef'.iMCU_row_num = 0 /\ coef'.whole = coef.whole
         /\ call'.pc = "crank" /\ call'.row = 0 /\ call'.col = 0
<1>1. Running /\ UNCHANGED <<cinfo, global_state, geom>> BY StepWithin
<1>2. optimized(cinfo)' = optimized(cinfo) BY <1>1
<1> DEFINE mode == IF coef.mode = "TRANSCODE" THEN coef.mode ELSE "CRANK_DEST"
<1>3. IsCoef(coef) BY <1>1 DEF Controller, IsCoef
<1>4. AtRow(coef', coef, sc, geom, 0, mode) BY <1>3, PassStarted DEF Crank
<1>5. call'.pc = "crank" /\ call'.row = 0 /\ call'.col = 0 BY CallShapes DEF Crank
<1>6. 0 < geom.total_iMCU_rows BY <1>1, RunningGeometry DEF GeometryIs
<1>7. /\ IsCoef(coef') /\ coef'.mode = mode /\ coef'.iMCU_row_num = 0 /\ coef'.whole = coef.whole
      /\ coef'.MCU_rows_per_iMCU_row = rows_per_iMCU_row(scan', geom', coef'.iMCU_row_num)
  BY <1>1, <1>4 DEF AtRow
<1>8. (coef'.mode = "TRANSCODE" <=> cinfo.transcode) /\ (coef'.mode # "PASS_THRU")
  BY <1>1, <1>7 DEF Controller
<1>. HIDE DEF InPass, mode
<1>9. Controller' BY <1>1, <1>2, <1>5, <1>6, <1>7, <1>8 DEF Controller, IsCoef
<1>. QED BY <1>5, <1>7, <1>9

LEMMA ControllerStep ==
  ASSUME Calls, Begun, Passes, Coder, Controller, RowsGathered, [Next]_vars PROVE Controller'
<1>1. CASE Within
  <2>0. Running /\ UNCHANGED <<cinfo, global_state, geom>> BY <1>1, StepWithin
  <2>. SUFFICES ASSUME Running' PROVE Controller' BY DEF Controller
  <2>1. failed' = NoError /\ (optimized(cinfo)' = optimized(cinfo)) BY <2>0 DEF Running
  <2>2. /\ IsCoef(coef) /\ coef.iMCU_row_num \in Nat
        /\ coef.mode = "TRANSCODE" <=> cinfo.transcode
        /\ coef.mode = "PASS_THRU" => ~optimized(cinfo)
    BY <2>0 DEF Controller, IsCoef
  <2>3. ASSUME NEW next, StartOutput(next)
        PROVE  call' = next /\ master'.pass_type = master.pass_type
    <3>1. master' = master \/ master' = [master EXCEPT !.call_pass_startup = FALSE] BY <2>3 DEF StartOutput
    <3>2. failed = NoError BY <2>0 DEF Running
    <3>3. master'.pass_type = master.pass_type BY <2>0, <3>1 DEF Passes
    <3>. QED BY <2>1, <2>3, <3>2, <3>3, OutputStarted
  <2>4. ASSUME NEW n \in 1 .. 3, jpeg_write_scanlines(n) PROVE Controller'
    <3> DEFINE next == [NoCall EXCEPT !.pc = "main", !.rows = AtMost(n, cinfo.image_height - next_scanline)]
    <3>1. StartOutput(next) /\ UNCHANGED <<coef, entropy, scan>> /\ global_state = "SCANNING" /\ call.pc = "app"
      BY <2>4 DEF jpeg_write_scanlines, Idle
    <3>2. next.pc = "main" BY DEF NoCall
    <3>3. InPass BY <2>0, <3>1 DEF InPass
    <3>. HIDE DEF next, InPass
    <3>4. call'.pc = "main" /\ master'.pass_type = master.pass_type BY <2>3, <3>1, <3>2
    <3>. QED BY <1>1, <3>1, <3>3, <3>4, SameController
  <2>5. CASE jpeg_write_raw_data
    <3> DEFINE next == [NoCall EXCEPT !.pc = "coef", !.data = RawRows,
                                      !.row = coef.MCU_vert_offset, !.col = coef.mcu_ctr]
    <3>1. StartOutput(next) /\ UNCHANGED <<entropy, scan>> /\ global_state = "RAW_OK" /\ call.pc = "app"
          /\ coef' = IF coef.mode = "SAVE_AND_PASS" THEN Stored(RawRows) ELSE coef
      BY <2>5 DEF jpeg_write_raw_data, Idle
    <3>2. next.pc = "coef" BY DEF NoCall
    <3>3. InPass BY <2>0, <3>1 DEF InPass
    <3> DEFINE data == RawRows
    <3>4. coef' = IF coef.mode = "SAVE_AND_PASS" THEN Stored(data) ELSE coef BY <3>1
    <3>. HIDE DEF next, InPass, data
    <3>5. call'.pc = "coef" /\ master'.pass_type = master.pass_type BY <2>3, <3>1, <3>2
    <3>6. call.pc # "coef" BY <3>1
    <3>. QED BY <1>1, <2>1, <3>1, <3>3, <3>4, <3>5, <3>6, RowHandedOver
  <2>6. CASE jpeg_write_marker
    <3>1. UNCHANGED <<entropy, scan, coef, master, call>> /\ call.pc = "app"
      BY <2>6 DEF jpeg_write_marker, control, Idle
    <3>2. InPass' => InPass BY <2>0, <3>1 DEF InPass, Running
    <3>. HIDE DEF InPass
    <3>. QED BY <1>1, <3>1, <3>2, SameController
  <2>7. CASE jpeg_finish_compress
    <3>1. UNCHANGED <<entropy, scan, coef, master>> /\ call.pc = "app" BY <2>7 DEF jpeg_finish_compress, control, Idle
    <3>2. /\ call'.pc = IF global_state = "WRCOEFS" THEN "next_pass" ELSE "finish_pass"
          /\ global_state # "WRCOEFS" => ~(next_scanline < cinfo.image_height)
      BY <2>1, <2>7, CallShapes DEF jpeg_finish_compress, Fail, NoError
    <3>3. InPass' => InPass /\ call'.pc = "finish_pass" BY <2>0, <3>1, <3>2 DEF InPass, Running
    <3>4. call'.pc = "finish_pass" /\ entropy.gather => coef.iMCU_row_num >= geom.total_iMCU_rows
      BY <2>0, <3>1, <3>2, AllRows
    <3>. HIDE DEF InPass
    <3>. QED BY <1>1, <3>1, <3>2, <3>3, <3>4, SameController
  <2>8. CASE PreProcess \/ ReturnRows
    <3>1. UNCHANGED <<entropy, scan, coef, master>> /\ call.pc = "main"
      BY <2>8 DEF PreProcess, ReturnRows, control
    <3>2. call'.pc \in {"app", "main"}
      BY <2>8, CallShapes DEF PreProcess, pre_process_data, pre_process_context, ReturnRows, Returns, Calls
    <3>3. InPass BY <2>0, <3>1 DEF InPass
    <3>. HIDE DEF InPass
    <3>. QED BY <1>1, <3>1, <3>2, <3>3, SameController
  <2>9. CASE PassRow
    <3> DEFINE data == main.buffer
    <3>1. UNCHANGED <<entropy, scan, master>> /\ call.pc = "main" /\ call'.pc = "coef"
          /\ coef' = IF coef.mode = "SAVE_AND_PASS" THEN Stored(data) ELSE coef
      BY <2>9 DEF PassRow, Calls
    <3>2. InPass BY <2>0, <3>1 DEF InPass
    <3>3. call.pc # "coef" /\ master'.pass_type = master.pass_type BY <3>1
    <3>. HIDE DEF InPass, data
    <3>. QED BY <1>1, <2>1, <3>1, <3>2, <3>3, RowHandedOver
  <2>10. CASE FinishRow
    <3>1. UNCHANGED <<entropy, scan, master>> /\ call.pc \in {"coef", "crank"}
          /\ coef' = start_iMCU_row(coef, scan, geom, coef.iMCU_row_num + 1)
      BY <2>10 DEF FinishRow, Coding
    <3> DEFINE n == coef.iMCU_row_num + 1
    <3>2. AtRow(coef', coef, scan, geom, n, coef.mode) BY <2>2, <3>1, RowStarted
    <3>3. /\ call.pc = "crank" => call'.pc = IF n = geom.total_iMCU_rows THEN "finish_pass" ELSE "crank"
          /\ call.pc = "coef" => call'.pc \in {"app", "main"}
      BY <2>10, CallShapes DEF FinishRow, Calls, Coding
    <3>4. InPass /\ geom.total_iMCU_rows \in Nat
      BY <2>0, <3>1, RunningGeometry DEF InPass, GeometryIs
    <3>5. /\ call.pc = "crank" => coef.iMCU_row_num < geom.total_iMCU_rows
          /\ InPass /\ entropy.gather /\ master.pass_type = "main_pass" =>
               /\ coef.mode = "SAVE_AND_PASS"
               /\ coef.whole = [c \in DOMAIN geom.comps |-> coef.whole[c]]
               /\ \A c \in DOMAIN geom.comps :
                    IsSeq(coef.whole[c])
                    /\ Len(coef.whole[c]) = (coef.iMCU_row_num + (IF call.pc = "coef" THEN 1 ELSE 0)) * geom.comps[c].v
      BY <2>0 DEF Controller
    <3>6. call.pc = "crank" => master.pass_type # "main_pass" BY <2>0 DEF Passes
    <3>7. ASSUME entropy.gather, master.pass_type = "main_pass"
          PROVE  /\ coef.mode = "SAVE_AND_PASS"
                 /\ coef'.whole = [c \in DOMAIN geom.comps |-> coef'.whole[c]]
                 /\ \A c \in DOMAIN geom.comps :
                      IsSeq(coef'.whole[c])
                      /\ Len(coef'.whole[c]) = (coef'.iMCU_row_num + (IF call'.pc = "coef" THEN 1 ELSE 0)) * geom.comps[c].v
      <4>1. call.pc = "coef" /\ call'.pc # "coef" BY <3>1, <3>3, <3>6, <3>7
      <4>2. coef'.whole = coef.whole /\ coef'.iMCU_row_num = n /\ n \in Nat /\ n + 0 = n BY <2>2, <3>2 DEF AtRow
      <4>3. \A c \in DOMAIN geom.comps : IsSeq(coef.whole[c]) /\ Len(coef.whole[c]) = n * geom.comps[c].v
        BY <3>4, <3>5, <3>7, <4>1
      <4>. HIDE DEF n
      <4>. QED BY <3>4, <3>5, <3>7, <4>1, <4>2, <4>3
    <3>8. n \in Nat /\ (call'.pc = "crank" => n < geom.total_iMCU_rows)
          /\ (call'.pc = "finish_pass" => n >= geom.total_iMCU_rows)
      <4>1. call'.pc \in {"crank", "finish_pass"} => call.pc = "crank" BY <3>1, <3>3
      <4>. QED BY <2>2, <3>3, <3>4, <3>5, <4>1
    <3>9. IsCoef(coef') /\ coef'.mode = coef.mode /\ coef'.iMCU_row_num = n /\ coef'.mcu_ctr = 0
          /\ coef'.MCU_vert_offset = 0
          /\ coef'.MCU_rows_per_iMCU_row = rows_per_iMCU_row(scan', geom', coef'.iMCU_row_num)
      BY <2>0, <3>1, <3>2 DEF AtRow
    <3>. HIDE DEF InPass, n, Running
    <3>. QED BY <2>0, <2>1, <2>2, <3>1, <3>7, <3>8, <3>9 DEF Controller, IsCoef
  <2>11. CASE RefuseMCU
    <3>1. UNCHANGED <<entropy, scan, master>> /\ call.pc = "coef" /\ ~entropy.gather /\ call'.pc = "app"
          /\ coef' = [coef EXCEPT !.MCU_vert_offset = call.row, !.mcu_ctr = call.col]
      BY <2>1, <2>11, CallShapes DEF RefuseMCU, Coding, Fail, NoError
    <3>2. IsCoef(coef') /\ coef'.mode = coef.mode /\ coef'.iMCU_row_num = coef.iMCU_row_num
          /\ coef'.MCU_rows_per_iMCU_row = coef.MCU_rows_per_iMCU_row
      BY <2>2, <3>1 DEF IsCoef
    <3>3. InPass /\ ~entropy'.gather BY <2>0, <3>1 DEF InPass
    <3>4. coef'.MCU_rows_per_iMCU_row = rows_per_iMCU_row(scan', geom', coef'.iMCU_row_num)
      <4>1. coef.MCU_rows_per_iMCU_row = rows_per_iMCU_row(scan, geom, coef.iMCU_row_num)
        BY <2>0, <3>3 DEF Controller
      <4>. QED BY <2>0, <3>1, <3>2, <4>1
    <3>. HIDE DEF InPass, Running
    <3>. QED BY <2>0, <2>1, <2>2, <3>1, <3>2, <3>3, <3>4 DEF Controller, IsCoef
  <2>12. CASE finish_pass_master
    <3>1. UNCHANGED <<entropy, scan, coef>> /\ call'.pc = "next_pass" BY <2>12 DEF finish_pass_master, Calls
    <3>2. ~InPass' BY <3>1 DEF InPass
    <3>. HIDE DEF InPass
    <3>. QED BY <1>1, <3>1, <3>2, SameController
  <2>13. CASE PrepareStatistics
    <3>1. /\ Crank(ThisScan) /\ scan' = ThisScan /\ master.pass_type = "huff_opt_pass"
          /\ master' = [master EXCEPT !.is_last_pass = IsLast(master.pass_number)]
      BY <2>1, <2>13 DEF PrepareStatistics, Fail, NoError
    <3>2. master'.pass_type = "huff_opt_pass" BY <2>0, <3>1 DEF Passes
    <3> DEFINE sc == ThisScan
    <3>3. Crank(sc) /\ scan' = sc BY <3>1
    <3>. HIDE DEF sc
    <3>. QED BY <1>1, <3>2, <3>3, CrankStarts
  <2>14. CASE PrepareOutput
    <3>1. Crank(scan')
      <4> DEFINE sc == IF master.pass_type = "huff_opt_pass" \/ ~optimized(cinfo) THEN ThisScan ELSE scan
      <4>1. scan' = sc /\ Crank(sc) BY <2>1, <2>14 DEF PrepareOutput, Fail, NoError
      <4>. HIDE DEF sc
      <4>. QED BY <4>1
    <3>2. master'.pass_type = "output_pass"
      <4>. QED BY <2>0, <2>1, <2>14 DEF PrepareOutput, Fail, NoError, Passes
    <3> DEFINE sc == scan'
    <3>3. Crank(sc) /\ scan' = sc BY <3>1
    <3>. HIDE DEF sc
    <3>. QED BY <1>1, <3>2, <3>3, CrankStarts
  <2>15. CASE EncodeMCU
    <3>1. UNCHANGED <<scan, master>> /\ call.pc \in {"coef", "crank"} /\ NextMCU
      BY <2>1, <2>15 DEF EncodeMCU, Coding
    <3>2. InPass /\ failed = NoError BY <2>0, <3>1 DEF InPass, Running
    <3>3. IsCoder(entropy) BY <3>2 DEF Coder, IsCoder
    <3>4. entropy'.gather = entropy.gather BY <2>15, <3>2, <3>3, CoderAfterMCU
    <3>5. call'.pc = call.pc BY <3>1 DEF NextMCU, Calls
    <3>6. coef' = coef \/ coef' = [coef EXCEPT !.mcu_ctr = 0] BY <3>1 DEF NextMCU
    <3>7. /\ IsCoef(coef') /\ coef'.mode = coef.mode /\ coef'.iMCU_row_num = coef.iMCU_row_num
          /\ coef'.MCU_rows_per_iMCU_row = coef.MCU_rows_per_iMCU_row /\ coef'.mcu_ctr \in {0, coef.mcu_ctr}
          /\ coef'.MCU_vert_offset = coef.MCU_vert_offset /\ coef'.whole = coef.whole
      <4>1. CASE coef' = coef BY <2>2, <4>1
      <4>2. CASE coef' = [coef EXCEPT !.mcu_ctr = 0] BY <2>2, <4>2 DEF IsCoef
      <4>. QED BY <3>6, <4>1, <4>2
    <3>8. coef'.MCU_rows_per_iMCU_row = rows_per_iMCU_row(scan', geom', coef'.iMCU_row_num)
      <4>1. coef.MCU_rows_per_iMCU_row = rows_per_iMCU_row(scan, geom, coef.iMCU_row_num)
        BY <2>0, <3>2 DEF Controller
      <4>. QED BY <2>0, <3>1, <3>7, <4>1
    <3>. HIDE DEF InPass
    <3>. QED BY <2>0, <2>1, <2>2, <3>1, <3>2, <3>4, <3>5, <3>7, <3>8 DEF Controller, IsCoef
  <2>. QED BY <1>1, <2>4, <2>5, <2>6, <2>7, <2>8, <2>9, <2>10, <2>11, <2>12, <2>13, <2>14, <2>15 DEF Within
<1>2. ASSUME NEW im \in Images, SetParameters(im) PROVE Controller'
  BY <1>2 DEF SetParameters, MayBegin, Controller, Running
<1>3. ASSUME NEW all \in BOOLEAN, jpeg_start_compress(all) PROVE Controller'
  <2> DEFINE g == initial_setup(cinfo)
             sc == per_scan_setup(cinfo, g, select_scan_parameters(cinfo, 0))
             m == master_control(cinfo, FALSE)
             tabs == IF all THEN jpeg_suppress_tables(tables, FALSE) ELSE tables
             rows == [c \in DOMAIN cinfo.comp_info |-> <<>>]
             first == [mode |-> "", iMCU_row_num |-> 0, mcu_ctr |-> 0, MCU_vert_offset |-> 0,
                       MCU_rows_per_iMCU_row |-> 0, whole |-> rows]
             mode == IF m.total_passes > 1 THEN "SAVE_AND_PASS" ELSE "PASS_THRU"
             e == start_error(cinfo, FALSE)
  <2>1. cinfo' = cinfo /\ global_state = "START" /\ call.pc = "app" /\ ~cinfo.transcode /\ cinfo # NoImage
    BY <1>3 DEF jpeg_start_compress, MayBegin, Idle
  <2>2. \/ global_state' = "START"
        \/ /\ e = NoError /\ scan' = sc /\ geom' = g /\ call' = call
           /\ entropy' = start_pass_entropy(cinfo, sc, tabs, optimized(cinfo))
           /\ coef' = start_pass_coef(first, sc, g, mode)
    BY <1>3, <2>1 DEF jpeg_start_compress
  <2>. SUFFICES ASSUME global_state' # "START" PROVE Controller' BY DEF Controller, Running
  <2>3. IsCoef(first) /\ first.whole = rows BY DEF IsCoef
  <2>. HIDE DEF first
  <2>4. AtRow(coef', first, sc, g, 0, mode) BY <2>2, <2>3, PassStarted
  <2>5. cinfo \in Images /\ WellFormed(cinfo) BY <2>1, ImagesAssumption DEF Begun
  <2>6. GeometryIs(cinfo, g) BY <2>2, <2>5, StartChecked, Geometry
  <2>7. mode \in {"SAVE_AND_PASS", "PASS_THRU"} /\ (mode = "PASS_THRU" => ~optimized(cinfo))
    <3>1. m.total_passes = IF optimized(cinfo) THEN num_scans(cinfo) * 2 ELSE num_scans(cinfo)
      BY DEF master_control
    <3>2. num_scans(cinfo) \in Nat \ {0} BY <2>5, SomeScans
    <3>. HIDE DEF m
    <3>. QED BY <3>1, <3>2
  <2>8. entropy'.gather <=> optimized(cinfo)
    <3> DEFINE o == optimized(cinfo)
    <3>1. o \in BOOLEAN BY DEF optimized
    <3>. HIDE DEF sc, tabs, o
    <3>2. entropy' = start_pass_entropy(cinfo, sc, tabs, o) BY <2>2 DEF o
    <3>3. Started(entropy', cinfo, sc, tabs, o) BY <3>1, <3>2, StartedCoder, Zenon
    <3>. QED BY <3>3 DEF Started, o
  <2>9. /\ IsCoef(coef') /\ coef'.mode = mode /\ coef'.iMCU_row_num = 0 /\ coef'.whole = rows
        /\ coef'.mcu_ctr = 0 /\ coef'.MCU_vert_offset = 0
        /\ coef'.MCU_rows_per_iMCU_row = rows_per_iMCU_row(scan', geom', coef'.iMCU_row_num)
    BY <2>2, <2>3, <2>4 DEF AtRow
  <2>10. /\ DOMAIN geom'.comps = DOMAIN cinfo.comp_info /\ \A c \in DOMAIN geom'.comps : geom'.comps[c].v \in Nat
    <3>. HIDE DEF g, sc, tabs, mode
    <3>1. geom' = g BY <2>2
    <3>2. DOMAIN g.comps = DOMAIN cinfo.comp_info /\ \A c \in DOMAIN g.comps : g.comps[c].v \in 1 .. 4
      BY <2>6 DEF GeometryIs
    <3>. QED BY <3>1, <3>2
  <2>11. call'.pc = "app" BY <2>1, <2>2
  <2>12. rows = [c \in DOMAIN geom'.comps |-> rows[c]] /\ \A c \in DOMAIN geom'.comps : rows[c] = <<>>
    BY <2>10
  <2>. HIDE DEF rows, InPass, mode
  <2>13. \A c \in DOMAIN geom'.comps :
           IsSeq(coef'.whole[c])
           /\ Len(coef'.whole[c]) = (coef'.iMCU_row_num + (IF call'.pc = "coef" THEN 1 ELSE 0)) * geom'.comps[c].v
    <3>1. ASSUME NEW c \in DOMAIN geom'.comps
          PROVE  IsSeq(coef'.whole[c])
                 /\ Len(coef'.whole[c]) = (coef'.iMCU_row_num + (IF call'.pc = "coef" THEN 1 ELSE 0)) * geom'.comps[c].v
      <4> DEFINE v == geom'.comps[c].v
      <4>1. coef'.whole[c] = <<>> BY <2>9, <2>12, <3>1
      <4>2. v \in Nat BY <2>10, <3>1
      <4>. HIDE DEF v
      <4>3. Len(coef'.whole[c]) = 0 * v BY <4>1, <4>2, Short
      <4>4. coef'.iMCU_row_num + (IF call'.pc = "coef" THEN 1 ELSE 0) = 0 BY <2>9, <2>11
      <4>5. IsSeq(coef'.whole[c]) BY <4>1, Short
      <4>. QED BY <4>3, <4>4, <4>5 DEF v
    <3>. QED BY <3>1
  <2>14. entropy'.gather => mode = "SAVE_AND_PASS" BY <2>7, <2>8
  <2>15. optimized(cinfo)' = optimized(cinfo) BY <2>1
  <2>. QED BY <2>1, <2>7, <2>9, <2>11, <2>12, <2>13, <2>14, <2>15, SMTT(30) DEF Controller, IsCoef
<1>4. CASE jpeg_write_coefficients
  <2> DEFINE rows == SourceArrays(cinfo, initial_setup(cinfo))
  <2>1. global_state = "START" /\ call.pc = "app" /\ cinfo' = cinfo /\ cinfo.transcode
    BY <1>4 DEF jpeg_write_coefficients, MayBegin, Idle
  <2>2. \/ global_state' = "START"
        \/ /\ global_state' = "WRCOEFS" /\ call' = call
           /\ coef' = [mode |-> "TRANSCODE", iMCU_row_num |-> 0, mcu_ctr |-> 0, MCU_vert_offset |-> 0,
                       MCU_rows_per_iMCU_row |-> 0, whole |-> rows]
    BY <1>4, <2>1 DEF jpeg_write_coefficients
  <2>. SUFFICES ASSUME global_state' # "START" PROVE Controller' BY DEF Controller, Running
  <2>. HIDE DEF rows
  <2>3. IsCoef(coef') /\ coef'.mode = "TRANSCODE" /\ coef'.iMCU_row_num = 0 BY <2>2 DEF IsCoef
  <2>4. ~InPass' /\ call'.pc = "app" BY <2>1, <2>2 DEF InPass
  <2>. HIDE DEF InPass
  <2>. QED BY <2>1, <2>3, <2>4 DEF Controller, IsCoef
<1>5. CASE jpeg_abort_compress BY <1>5 DEF jpeg_abort_compress, Controller, Running
<1>6. CASE jpeg_write_tables BY <1>6 DEF jpeg_write_tables, MayBegin, Controller, Running
<1>7. CASE FinishImage BY <1>7 DEF FinishImage, Controller, Running
<1>8. CASE UNCHANGED vars
  <2>1. UNCHANGED <<cinfo, global_state, failed, call, coef, entropy, scan, geom, master>> BY <1>8 DEF vars, control
  <2>2. optimized(cinfo)' = optimized(cinfo) BY <2>1
  <2>. QED BY <2>1, <2>2 DEF Controller, InPass, Running
<1>. QED BY <1>1, <1>2, <1>3, <1>4, <1>5, <1>6, <1>7, <1>8, Steps

-----------------------------------------------------------------------------
(* The codes of the differences.  Each is coded with the table of a component *)
(* of the scan, and the coder has counters for it.                           *)
LEMMA Layouts ==
  ASSUME NEW im, NEW g, NEW sc, SomeScan(im, g, sc)
  PROVE  \A i \in DOMAIN sc.comps : LayoutOf(sc, g, i)
<1>1. PICK k \in 0 .. num_scans(im) - 1 : sc = per_scan_setup(im, g, select_scan_parameters(im, k))
  BY DEF SomeScan
<1> DEFINE p == select_scan_parameters(im, k)
<1>2. sc = per_scan_setup(im, g, p) BY <1>1
<1>. HIDE DEF p
<1>. QED BY <1>2, ScanLayout

LEMMA Members ==
  ASSUME NEW im, NEW g, GeometryIs(im, g), NEW sc, SomeScan(im, g, sc), ScanOf(im, sc)
  PROVE  \A n \in DOMAIN MembershipOf(sc) : MembershipOf(sc)[n] \in DOMAIN sc.comps
<1> DEFINE C == DOMAIN sc.comps
           P(i) == sc.cur[i].MCU_width * sc.cur[i].MCU_height
           Of(i) == [n \in 1 .. P(i) |-> i]
           parts == [i \in C |-> Of(i)]
<1>1. Len(sc.comps) \in Nat /\ C = 1 .. Len(sc.comps) /\ \A i \in C : sc.comps[i] \in DOMAIN im.comp_info
  BY DEF ScanOf
<1>2. ASSUME NEW i \in C PROVE Of(i) \in Seq(C)
  <2>1. LayoutOf(sc, g, i) BY Layouts
  <2>2. g.comps[sc.comps[i]].v \in 1 .. 4 /\ g.comps[sc.comps[i]].h \in 1 .. 4 BY <1>1 DEF GeometryIs
  <2>3. P(i) \in Nat
    <3> DEFINE W == sc.cur[i].MCU_width
               H == sc.cur[i].MCU_height
    <3>1. W \in Nat /\ H \in Nat BY <2>1, <2>2 DEF LayoutOf
    <3>. HIDE DEF W, H
    <3>2. W * H \in Nat BY <3>1
    <3>. QED BY <3>2 DEF W, H
  <2>. HIDE DEF C, P
  <2>. QED BY <2>3
<1>3. parts \in Seq(Seq(C))
  <2>. HIDE DEF Of
  <2> DEFINE m == Len(sc.comps)
             Z == Seq(C)
  <2>1. m \in Nat /\ \A i \in 1 .. m : parts[i] \in Z BY <1>1, <1>2
  <2>2. parts = [i \in 1 .. m |-> parts[i]] BY <1>1
  <2>. HIDE DEF parts, C, m, Z
  <2>3. parts \in Seq(Z) BY <2>1, <2>2
  <2>. QED BY <2>3 DEF Z
<1>4. MembershipOf(sc) = FlattenSeq(parts) BY DEF MembershipOf
<1>. HIDE DEF parts, C
<1>5. MembershipOf(sc) \in Seq(C) BY <1>3, <1>4, Flattened
<1>. QED BY <1>5 DEF C

LEMMA CodedWith ==
  ASSUME NEW im, WellFormed(im), NEW g, GeometryIs(im, g), NEW sc, SomeScan(im, g, sc), ScanOf(im, sc),
         NEW mcu, NEW last_dc, NEW d \in DifferencesOf(im, sc, mcu, last_dc)
  PROVE  d[1] \in Slots /\ <<"dc", d[1]>> \in CodingTables(im, sc) /\ sc.Ss = 0 /\ sc.Ah = 0
<1>1. sc.Ss = 0 /\ sc.Ah = 0 BY DEF DifferencesOf
<1>2. PICK n \in DOMAIN MembershipOf(sc) :
        d = <<im.comp_info[sc.comps[MembershipOf(sc)[n]]].dc,
              BeforeOf(sc, mcu, n, last_dc), Value(mcu[n])>>
  BY <1>1, Zenon DEF DifferencesOf
<1> DEFINE i == MembershipOf(sc)[n]
           k == im.comp_info[sc.comps[i]].dc
           b == BeforeOf(sc, mcu, n, last_dc)
           x == Value(mcu[n])
<1>3. i \in DOMAIN sc.comps BY Members
<1>4. d = <<k, b, x>> BY <1>2
<1>5. <<"dc", k>> \in ToSet(ScanTables(im, sc)) BY <1>1, <1>3, TablesOfScan
<1>6. CodingTable(im, <<"dc", k>>) BY <1>5, TablesOfScan, Zenon
<1>. HIDE DEF k, b, x
<1>7. d[1] = k BY <1>4
<1>8. k \in Slots BY <1>6 DEF CodingTable
<1>. QED BY <1>1, <1>5, <1>7, <1>8 DEF CodingTables

-----------------------------------------------------------------------------
(* Moving through the positions of a pass.                                   *)
LEMMA AfterIsPosition ==
  ASSUME NEW sc, NEW g, NEW source, NEW whole, NEW s, IsPosition(s)
  PROVE  LET q == After(sc, g, source, whole, s)
         IN /\ IsPosition(q) /\ s.r <= q.r /\ (~InRow(sc, g, s) => q.r = s.r + 1) /\ (InRow(sc, g, s) => q.r = s.r)
<1> DEFINE q == After(sc, g, source, whole, s)
           dc == LastValuesOf(sc, MCUAt(sc, g, source, whole, s), BaseAt(sc, s))
           togo == CountAt(sc, s)
           row == IF s.col + 1 < sc.MCUs_per_row THEN s.row ELSE s.row + 1
           col == IF s.col + 1 < sc.MCUs_per_row THEN s.col + 1 ELSE 0
<1>1. s.r \in Nat /\ s.row \in Nat /\ s.col \in Nat BY DEF IsPosition
<1>2. row \in Nat /\ col \in Nat BY <1>1
<1>3. CASE InRow(sc, g, s)
  <2>1. q = [r |-> s.r, row |-> row, col |-> col, dc |-> dc, togo |-> togo] BY <1>3 DEF After
  <2>. HIDE DEF q, row, col, dc, togo
  <2>2. q.r = s.r /\ q.row = row /\ q.col = col /\ q = [r |-> q.r, row |-> q.row, col |-> q.col, dc |-> q.dc, togo |-> q.togo]
    BY <2>1
  <2>3. IsPosition(q) BY <1>1, <1>2, <2>2 DEF IsPosition
  <2>4. s.r <= q.r BY <1>1, <2>2
  <2>. QED BY <1>3, <2>2, <2>3, <2>4 DEF q
<1>4. CASE ~InRow(sc, g, s)
  <2>1. q = [r |-> s.r + 1, row |-> 0, col |-> 0, dc |-> s.dc, togo |-> s.togo] BY <1>4 DEF After
  <2>. HIDE DEF q
  <2>2. q.r = s.r + 1 /\ q.row = 0 /\ q.col = 0 /\ q = [r |-> q.r, row |-> q.row, col |-> q.col, dc |-> q.dc, togo |-> q.togo]
    BY <2>1
  <2>3. IsPosition(q) BY <1>1, <2>2 DEF IsPosition
  <2>4. s.r <= q.r BY <1>1, <2>2
  <2>. QED BY <1>4, <2>2, <2>3, <2>4 DEF q
<1>. QED BY <1>3, <1>4

LEMMA FollowsStill ==
  ASSUME NEW im, NEW sc, NEW g, NEW source, NEW whole, NEW whole2, NEW codes, NEW codes2, NEW S, NEW S2, NEW s,
         Follows(im, sc, g, source, whole, codes, S, s), S \subseteq S2,
         \A n \in Slots : codes[n] \subseteq codes2[n],
         InRow(sc, g, s) => MCUAt(sc, g, source, whole2, s) = MCUAt(sc, g, source, whole, s)
  PROVE  Follows(im, sc, g, source, whole2, codes2, S2, s)
<1>1. CodedAt(im, sc, g, source, whole2, s) = CodedAt(im, sc, g, source, whole, s) BY DEF CodedAt
<1>2. After(sc, g, source, whole2, s) = After(sc, g, source, whole, s) BY DEF After
<1>. QED BY <1>1, <1>2 DEF Follows

LEMMA GathersOn ==
  ASSUME NEW im, NEW sc, NEW g, NEW source, NEW whole, NEW codes, NEW codes2, NEW S, NEW P, NEW Q,
         NEW coding2 \in BOOLEAN,
         Gathers(im, sc, g, source, whole, codes, P, TRUE, S), Q = After(sc, g, source, whole, P),
         \A n \in Slots : codes[n] \subseteq codes2[n],
         \A d \in CodedAt(im, sc, g, source, whole, P) : d[1] \in Slots /\ d \in codes2[d[1]],
         coding2 \/ P.r < Q.r
  PROVE  Gathers(im, sc, g, source, whole, codes2, Q, coding2, S \cup {Q})
<1>1. /\ StartOf(sc) \in S /\ P \in S
      /\ \A s \in S : /\ IsPosition(s) /\ s.r <= P.r
                      /\ s # P => Follows(im, sc, g, source, whole, codes, S, s)
  BY DEF Gathers
<1>2. IsPosition(P) /\ IsPosition(Q) /\ P.r <= Q.r BY <1>1, AfterIsPosition
<1>3. ASSUME NEW s \in S \cup {Q}
      PROVE  /\ IsPosition(s) /\ s.r <= Q.r
             /\ s # Q => /\ coding2 \/ s.r < Q.r
                         /\ Follows(im, sc, g, source, whole, codes2, S \cup {Q}, s)
  <2>1. CASE s = Q BY <1>2, <2>1 DEF IsPosition
  <2>2. CASE s # Q
    <3>1. s \in S /\ IsPosition(s) /\ s.r <= P.r BY <1>1, <2>2
    <3>2. s.r \in Nat /\ P.r \in Nat /\ Q.r \in Nat BY <1>2, <3>1 DEF IsPosition
    <3>3. s.r <= Q.r /\ (coding2 \/ s.r < Q.r) BY <1>2, <3>1, <3>2
    <3>4. Follows(im, sc, g, source, whole, codes2, S \cup {Q}, s)
      <4>1. CASE s = P BY <4>1 DEF Follows
      <4>2. CASE s # P
        <5>1. Follows(im, sc, g, source, whole, codes, S, s) BY <1>1, <3>1, <4>2
        <5>. QED BY <5>1, FollowsStill, Zenon
      <4>. QED BY <4>1, <4>2
    <3>. QED BY <3>1, <3>3, <3>4
  <2>. QED BY <2>1, <2>2
<1>. QED BY <1>1, <1>3, Zenon DEF Gathers

LEMMA GatheringStarts ==
  ASSUME NEW im, NEW sc, NEW g, NEW source, NEW whole, NEW codes, NEW coding \in BOOLEAN, NEW P, P = StartOf(sc)
  PROVE  \E S : Gathers(im, sc, g, source, whole, codes, P, coding, S)
<1>1. IsPosition(P) /\ P.r = 0
  <2> DEFINE dc == [i \in DOMAIN sc.comps |-> <<>>]
             togo == sc.restart_interval
  <2>1. P = [r |-> 0, row |-> 0, col |-> 0, dc |-> dc, togo |-> togo] BY DEF StartOf
  <2>. HIDE DEF dc, togo
  <2>. QED BY <2>1 DEF IsPosition
<1>2. Gathers(im, sc, g, source, whole, codes, P, coding, {P}) BY <1>1 DEF Gathers
<1>. QED BY <1>2, Zenon

-----------------------------------------------------------------------------
(* The statistics pass: what it went through is counted.                     *)
LEMMA CodesGrow ==
  ASSUME NEW c1, NEW c2, DOMAIN c1 = DOMAIN c2, \A e \in DOMAIN c1 : c1[e] \subseteq c2[e]
  PROVE  \A n \in Slots : CodesOf(c1)[n] \subseteq CodesOf(c2)[n]
<1>1. ASSUME NEW n \in Slots PROVE CodesOf(c1)[n] \subseteq CodesOf(c2)[n]
  <2>1. /\ CodesOf(c1)[n] = IF <<"dc", n>> \in DOMAIN c1 THEN c1[<<"dc", n>>] ELSE {}
        /\ CodesOf(c2)[n] = IF <<"dc", n>> \in DOMAIN c2 THEN c2[<<"dc", n>>] ELSE {}
    BY DEF CodesOf
  <2>. QED BY <2>1
<1>. QED BY <1>1

LEMMA GatheredStays ==
  ASSUME Calls, Gathered, Within, UNCHANGED <<scan, entropy, coef>>, InPass' => InPass,
         InPass' /\ entropy.gather => ~Coding /\ ~Coding'
  PROVE  Gathered'
<1>1. UNCHANGED <<cinfo, geom>> BY StepWithin
<1>. HIDE DEF InPass, Coding
<1>. SUFFICES ASSUME InPass', entropy'.gather
     PROVE  \E S : Gathers(cinfo', scan', geom', cinfo'.transcode, coef'.whole, CodesOf(entropy'.counts),
                           Position', Coding', S)
  BY DEF Gathered
<1>2. ~Coding /\ ~Coding' BY <1>1
<1> DEFINE P == Position
           codes == CodesOf(entropy.counts)
<1>3. PICK S : Gathers(cinfo, scan, geom, cinfo.transcode, coef.whole, codes, P, Coding, S) BY DEF Gathered
<1>4. Position' = P BY <1>2 DEF Position
<1>5. CodesOf(entropy'.counts) = codes BY DEF CodesOf
<1>. HIDE DEF P, codes
<1>6. /\ StartOf(scan) \in S /\ P \in S
      /\ \A s \in S : /\ IsPosition(s) /\ s.r <= P.r
                      /\ s # P => s.r < P.r /\ Follows(cinfo, scan, geom, cinfo.transcode, coef.whole, codes, S, s)
  BY <1>2, <1>3 DEF Gathers
<1>7. Gathers(cinfo, scan, geom, cinfo.transcode, coef.whole, codes, P, Coding', S) BY <1>6, Zenon DEF Gathers
<1>. QED BY <1>1, <1>4, <1>5, <1>7, Zenon

LEMMA GatheredHandedOver ==
  ASSUME Calls, Begun, Passes, Controller, Gathered, Within, InPass, call.pc \in {"app", "main"}, NEW data,
         coef' = IF coef.mode = "SAVE_AND_PASS" THEN Stored(data) ELSE coef,
         UNCHANGED <<scan, entropy>>, failed' = NoError, call'.pc = "coef",
         call'.row = coef.MCU_vert_offset, call'.col = coef.mcu_ctr
  PROVE  Gathered'
<1>1. Running /\ UNCHANGED <<cinfo, global_state, geom>> BY StepWithin
<1>. SUFFICES ASSUME entropy'.gather
     PROVE  \E S : Gathers(cinfo', scan', geom', cinfo'.transcode, coef'.whole, CodesOf(entropy'.counts),
                           Position', Coding', S)
  BY DEF Gathered
<1>2. ~Coding /\ Coding' BY DEF Coding
<1>3. master.pass_type = "main_pass" /\ SomeScan(cinfo, geom, scan) BY <1>1 DEF Passes, InPass
<1>4. /\ IsCoef(coef) /\ coef.iMCU_row_num \in Nat /\ (coef.mode = "TRANSCODE" <=> cinfo.transcode)
      /\ coef.mcu_ctr = 0 /\ coef.MCU_vert_offset = 0 /\ coef.mode = "SAVE_AND_PASS"
      /\ \A c \in DOMAIN geom.comps :
           IsSeq(coef.whole[c]) /\ Len(coef.whole[c]) = (coef.iMCU_row_num + 0) * geom.comps[c].v
  BY <1>1, <1>3 DEF Controller, IsCoef
<1>5. WellFormed(cinfo) /\ GeometryIs(cinfo, geom) /\ ScanOf(cinfo, scan)
  BY <1>1, <1>3, RunningGeometry, ThisScanOf
<1> DEFINE P == Position
           codes == CodesOf(entropy.counts)
           n == coef.iMCU_row_num
           W == coef.whole
           W2 == coef'.whole
<1>6. PICK S : Gathers(cinfo, scan, geom, cinfo.transcode, W, codes, P, Coding, S) BY DEF Gathered
<1>7. SameBut(coef', coef) /\ Agrees(DOMAIN cinfo.comp_info, geom, W, W2, n)
  <2>1. n + 0 = n /\ n \in Nat BY <1>4
  <2>2. DOMAIN geom.comps = DOMAIN cinfo.comp_info /\ \A c \in DOMAIN geom.comps : geom.comps[c].v \in Nat
    BY <1>5 DEF GeometryIs
  <2>3. HasRows(coef, geom, n) BY <1>4, <2>1, <2>2 DEF HasRows
  <2>4. coef' = Stored(data) BY <1>4
  <2> DEFINE c == coef'
  <2>5. c = Stored(data) BY <2>4
  <2>6. IsCoef(coef) BY <1>4
  <2>. HIDE DEF c
  <2>7. SameBut(c, coef) /\ GrownBehind(c, coef, geom, n) BY <2>1, <2>3, <2>5, <2>6, StoredRows
  <2>8. Agrees(DOMAIN geom.comps, geom, coef.whole, c.whole, n) BY <2>7 DEF GrownBehind
  <2>. QED BY <2>2, <2>7, <2>8 DEF c
<1>8. Position' = P /\ P.r = n BY <1>2, <1>4, <1>7 DEF Position, SameBut
<1>9. CodesOf(entropy'.counts) = codes BY DEF CodesOf
<1>. HIDE DEF P, codes, n, W, W2, Coding
<1>10. ~cinfo.transcode BY <1>4
<1>11. /\ StartOf(scan) \in S /\ P \in S
       /\ \A s \in S : /\ IsPosition(s) /\ s.r <= P.r
                       /\ s # P => s.r < P.r /\ Follows(cinfo, scan, geom, cinfo.transcode, W, codes, S, s)
  BY <1>2, <1>6 DEF Gathers
<1>12. ASSUME NEW s \in S, s # P PROVE Follows(cinfo, scan, geom, cinfo.transcode, W2, codes, S, s)
  <2>1. IsPosition(s) /\ s.r < n /\ Follows(cinfo, scan, geom, cinfo.transcode, W, codes, S, s) BY <1>8, <1>11, <1>12
  <2>2. InRow(scan, geom, s) => StoredMCU(scan, geom, W2, s.r, s.row, s.col) = StoredMCU(scan, geom, W, s.r, s.row, s.col)
    <3>1. n \in Nat BY <1>4 DEF n
    <3>2. ASSUME InRow(scan, geom, s)
          PROVE  StoredMCU(scan, geom, W2, s.r, s.row, s.col) = StoredMCU(scan, geom, W, s.r, s.row, s.col)
      <4>1. GeometryIs(cinfo, geom) /\ ScanOf(cinfo, scan) BY <1>5
      <4>2. SomeScan(cinfo, geom, scan) BY <1>3
      <4>3. Agrees(DOMAIN cinfo.comp_info, geom, W, W2, n) BY <1>7
      <4>4. \A t : IsPosition(t) /\ t.r < n /\ InRow(scan, geom, t) => StoredAlike(scan, geom, W, W2, t)
        BY <3>1, <4>1, <4>2, <4>3, AllStoredKept, Zenon
      <4>. QED BY <2>1, <3>2, <4>4, Zenon DEF StoredAlike
    <3>. QED BY <3>2
  <2>3. InRow(scan, geom, s) => MCUAt(scan, geom, cinfo.transcode, W2, s) = MCUAt(scan, geom, cinfo.transcode, W, s)
    BY <1>10, <2>2 DEF MCUAt
  <2>4. S \subseteq S /\ \A k \in Slots : codes[k] \subseteq codes[k] OBVIOUS
  <2>. QED BY <2>1, <2>3, <2>4, FollowsStill, Zenon
<1>13. Gathers(cinfo, scan, geom, cinfo.transcode, W2, codes, P, Coding', S) BY <1>2, <1>11, <1>12, Zenon DEF Gathers
<1>. QED BY <1>1, <1>8, <1>9, <1>13, Zenon DEF W2

(* The two steps that go on.                                                 *)
LEMMA GatheredOn ==
  ASSUME Calls, Begun, Passes, Coder, Controller, Gathered, EncodeMCU \/ FinishRow,
         failed' = NoError
  PROVE  Gathered'
<1>0. Within BY DEF Within
<1>1. Running /\ UNCHANGED <<cinfo, global_state, geom, scan>> /\ failed = NoError /\ Coding /\ call.pc \in {"coef", "crank"}
  BY <1>0, StepWithin DEF EncodeMCU, FinishRow, Coding, Running
<1>2. InPass BY <1>1 DEF InPass
<1>3. SomeScan(cinfo, geom, scan) BY <1>2 DEF Passes, InPass
<1>4. WellFormed(cinfo) /\ GeometryIs(cinfo, geom) /\ ScanOf(cinfo, scan)
  BY <1>1, <1>3, RunningGeometry, ThisScanOf
<1>5. IsCoder(entropy) /\ DOMAIN entropy.counts = CodingTables(cinfo, scan)
      /\ (entropy.gather => optimized(cinfo))
  BY <1>2 DEF Coder, IsCoder
<1>6. /\ IsCoef(coef) /\ coef.iMCU_row_num \in Nat
      /\ coef.mode = "TRANSCODE" <=> cinfo.transcode
      /\ coef.mode = "PASS_THRU" => ~optimized(cinfo)
      /\ coef.MCU_rows_per_iMCU_row = rows_per_iMCU_row(scan, geom, coef.iMCU_row_num)
  BY <1>1, <1>2 DEF Controller, IsCoef
<1>. SUFFICES ASSUME entropy'.gather
     PROVE  \E S : Gathers(cinfo', scan', geom', cinfo'.transcode, coef'.whole, CodesOf(entropy'.counts),
                           Position', Coding', S)
  BY DEF Gathered
<1>7. entropy.gather
  <2>1. CASE EncodeMCU BY <1>1, <1>5, <2>1, CoderAfterMCU
  <2>2. CASE FinishRow BY <2>2 DEF FinishRow
  <2>. QED BY <2>1, <2>2
<1> DEFINE P == Position
           Q == Position'
           codes == CodesOf(entropy.counts)
           codes2 == CodesOf(entropy'.counts)
           W == coef.whole
           source == cinfo.transcode
           B == Coding'
<1>8. PICK S : Gathers(cinfo, scan, geom, source, W, codes, P, Coding, S) BY <1>2, <1>7 DEF Gathered
<1>9. IsPosition(P)
  <2>. HIDE DEF P, codes, W, source
  <2>. QED BY <1>8 DEF Gathers
<1>10. Gathers(cinfo, scan, geom, source, W, codes, P, TRUE, S)
  <2>. HIDE DEF P, codes, W, source
  <2>. QED BY <1>1, <1>8 DEF Gathers
<1>11. CASE EncodeMCU
  <2>1. /\ Q = After(scan, geom, source, W, P)
        /\ CodedAt(cinfo, scan, geom, source, W, P) = Differences(CurrentMCU, BaseDC)
        /\ coef'.whole = W /\ call'.pc = call.pc
    BY <1>1, <1>2, <1>5, <1>6, <1>7, <1>9, <1>11, MCUMoves
  <2>2. /\ DOMAIN entropy'.counts = DOMAIN entropy.counts
        /\ \A e \in DOMAIN entropy.counts : entropy'.counts[e] =
                        entropy.counts[e] \cup {d \in Differences(CurrentMCU, BaseDC) : e = <<"dc", d[1]>>}
    BY <1>1, <1>5, <1>7, <1>11, CoderAfterMCU
  <2>3. \A k \in Slots : codes[k] \subseteq codes2[k]
    <3>1. \A e \in DOMAIN entropy.counts : entropy.counts[e] \subseteq entropy'.counts[e] BY <2>2
    <3>. QED BY <2>2, <3>1, CodesGrow
  <2>4. ASSUME NEW d \in CodedAt(cinfo, scan, geom, source, W, P) PROVE d[1] \in Slots /\ d \in codes2[d[1]]
    <3> DEFINE mcu == CurrentMCU
               dc == BaseDC
    <3>1. d \in Differences(mcu, dc) /\ Differences(mcu, dc) = DifferencesOf(cinfo, scan, mcu, dc)
      BY <2>1, <2>4, SameDifferences
    <3>2. d \in DifferencesOf(cinfo, scan, mcu, dc) BY <3>1
    <3>. HIDE DEF mcu, dc
    <3>3. d[1] \in Slots /\ <<"dc", d[1]>> \in CodingTables(cinfo, scan) BY <1>3, <1>4, <3>2, CodedWith
    <3> DEFINE e == <<"dc", d[1]>>
    <3>4. e \in DOMAIN entropy.counts /\ e \in DOMAIN entropy'.counts BY <1>5, <2>2, <3>3
    <3>5. d \in entropy'.counts[e] BY <2>2, <3>1, <3>4 DEF mcu, dc
    <3>6. codes2[d[1]] = entropy'.counts[e] BY <3>3, <3>4 DEF CodesOf
    <3>. QED BY <3>3, <3>5, <3>6
  <2>5. B = TRUE BY <1>1, <2>1 DEF Coding
  <2>. HIDE DEF P, Q, codes, codes2, W, source, B
  <2>6. TRUE \in BOOLEAN OBVIOUS
  <2>7. Gathers(cinfo, scan, geom, source, W, codes2, Q, TRUE, S \cup {Q})
    BY <1>10, <2>1, <2>3, <2>4, <2>6, GathersOn, Zenon
  <2>8. Gathers(cinfo, scan, geom, source, W, codes2, Q, B, S \cup {Q}) BY <2>5, <2>7
  <2>. QED BY <1>1, <2>1, <2>8, Zenon DEF Q, codes2, source, B
<1>12. CASE FinishRow
  <2>1. /\ Q = After(scan, geom, source, W, P)
        /\ ~InRow(scan, geom, P)
        /\ CodedAt(cinfo, scan, geom, source, W, P) = {}
        /\ AtRow(coef', coef, scan, geom, coef.iMCU_row_num + 1, coef.mode)
    <3>1. /\ ~InRow(scan, geom, Position)
          /\ \A so, wh : Position' = After(scan, geom, so, wh, Position)
          /\ \A so, wh : CodedAt(cinfo, scan, geom, so, wh, Position) = {}
          /\ AtRow(coef', coef, scan, geom, coef.iMCU_row_num + 1, coef.mode)
      BY <1>6, <1>9, <1>12, RowMoves
    <3>. QED BY <3>1, Zenon
  <2>2. coef'.whole = W BY <2>1 DEF AtRow
  <2>3. codes2 = codes BY <1>12 DEF FinishRow
  <2>4. B \in BOOLEAN BY DEF Coding
  <2>. HIDE DEF P, Q, codes, codes2, W, source, B
  <2>5. P.r < Q.r
    <3>1. Q.r = P.r + 1 BY <1>9, <2>1, AfterIsPosition
    <3>2. P.r \in Nat BY <1>9 DEF IsPosition
    <3>. QED BY <3>1, <3>2
  <2>6. \A k \in Slots : codes[k] \subseteq codes2[k] BY <2>3
  <2>7. \A d \in CodedAt(cinfo, scan, geom, source, W, P) : d[1] \in Slots /\ d \in codes2[d[1]] BY <2>1
  <2>9. Q = After(scan, geom, source, W, P) BY <2>1
  <2>10. FALSE \in BOOLEAN OBVIOUS
  <2>11. Gathers(cinfo, scan, geom, source, W, codes2, Q, FALSE, S \cup {Q})
    BY <1>10, <2>5, <2>6, <2>7, <2>9, <2>10, GathersOn, Zenon
  <2>8. Gathers(cinfo, scan, geom, source, W, codes2, Q, B, S \cup {Q})
    BY <2>11 DEF Gathers
  <2>. QED BY <1>1, <2>2, <2>8, Zenon DEF Q, codes2, source, B
<1>. QED BY <1>11, <1>12

LEMMA GatheredStep ==
  ASSUME Calls, Begun, Passes, Coder, TablesAgree, Controller, Gathered, [Next]_vars PROVE Gathered'
<1>1. CASE Within
  <2>0. Running /\ UNCHANGED <<cinfo, global_state, geom>> BY <1>1, StepWithin
  <2>. SUFFICES ASSUME InPass', entropy'.gather PROVE Gathered' BY DEF Gathered
  <2>1. failed' = NoError BY DEF InPass, Running
  <2>2. ASSUME NEW next, StartOutput(next) PROVE call' = next
    <3>1. failed = NoError BY <2>0 DEF Running
    <3>. QED BY <2>1, <2>2, <3>1, OutputStarted
  <2>3. ASSUME NEW n \in 1 .. 3, jpeg_write_scanlines(n) PROVE Gathered'
    <3> DEFINE next == [NoCall EXCEPT !.pc = "main", !.rows = AtMost(n, cinfo.image_height - next_scanline)]
    <3>1. StartOutput(next) /\ UNCHANGED <<coef, entropy, scan>> /\ global_state = "SCANNING" /\ call.pc = "app"
      BY <2>3 DEF jpeg_write_scanlines, Idle
    <3>2. next.pc = "main" BY DEF NoCall
    <3>3. InPass BY <2>0, <3>1 DEF InPass
    <3>. HIDE DEF next, InPass
    <3>4. call'.pc = "main" BY <2>2, <3>1, <3>2
    <3>5. ~Coding /\ ~Coding' BY <3>1, <3>4 DEF Coding
    <3>. QED BY <1>1, <3>1, <3>3, <3>5, GatheredStays
  <2>4. CASE jpeg_write_raw_data
    <3> DEFINE next == [NoCall EXCEPT !.pc = "coef", !.data = RawRows,
                                      !.row = coef.MCU_vert_offset, !.col = coef.mcu_ctr]
    <3>1. StartOutput(next) /\ UNCHANGED <<entropy, scan>> /\ global_state = "RAW_OK" /\ call.pc = "app"
          /\ coef' = IF coef.mode = "SAVE_AND_PASS" THEN Stored(RawRows) ELSE coef
      BY <2>4 DEF jpeg_write_raw_data, Idle
    <3>2. next.pc = "coef" /\ next.row = coef.MCU_vert_offset /\ next.col = coef.mcu_ctr
      <4> DEFINE a == RawRows
                 b == coef.MCU_vert_offset
                 c == coef.mcu_ctr
      <4>. HIDE DEF a, b, c
      <4>1. next = [NoCall EXCEPT !.pc = "coef", !.data = a, !.row = b, !.col = c] BY DEF a, b, c
      <4>. HIDE DEF next
      <4>2. next.pc = "coef" /\ next.row = b /\ next.col = c BY <4>1 DEF NoCall
      <4>. QED BY <4>2 DEF b, c
    <3>3. InPass BY <2>0, <3>1 DEF InPass
    <3> DEFINE data == RawRows
    <3>4. coef' = IF coef.mode = "SAVE_AND_PASS" THEN Stored(data) ELSE coef BY <3>1
    <3>. HIDE DEF next, InPass, data
    <3>5. call' = next BY <2>2, <3>1
    <3>. QED BY <1>1, <2>1, <3>1, <3>2, <3>3, <3>4, <3>5, GatheredHandedOver
  <2>5. CASE jpeg_write_marker \/ jpeg_finish_compress
    <3>1. UNCHANGED <<entropy, scan, coef>> /\ call.pc = "app"
          /\ (call'.pc = "finish_pass" \/ UNCHANGED call) /\ (jpeg_finish_compress => global_state # "WRCOEFS")
      <4>1. CASE jpeg_write_marker BY <4>1 DEF jpeg_write_marker, control, Idle, jpeg_finish_compress
      <4>2. CASE jpeg_finish_compress
        <5>1. global_state = "WRCOEFS" => call'.pc = "next_pass" BY <4>2, CallShapes DEF jpeg_finish_compress
        <5>2. global_state # "WRCOEFS" BY <5>1 DEF InPass
        <5>. QED BY <2>1, <4>2, <5>2, CallShapes DEF jpeg_finish_compress, Fail, NoError, control, Idle
      <4>. QED BY <2>5, <4>1, <4>2
    <3>2. InPass
      <4>1. CASE jpeg_write_marker
        <5>1. UNCHANGED call BY <4>1 DEF jpeg_write_marker
        <5>. QED BY <2>0, <3>1, <5>1 DEF InPass
      <4>2. CASE jpeg_finish_compress BY <2>0, <3>1, <4>2 DEF InPass
      <4>. QED BY <2>5, <4>1, <4>2
    <3>3. ~Coding /\ ~Coding' BY <3>1 DEF Coding
    <3>. HIDE DEF InPass
    <3>. QED BY <1>1, <3>1, <3>2, <3>3, GatheredStays
  <2>6. CASE PreProcess \/ ReturnRows
    <3>1. UNCHANGED <<entropy, scan, coef, master>> /\ call.pc = "main"
      BY <2>6 DEF PreProcess, ReturnRows, control
    <3>2. call'.pc \in {"app", "main"}
      BY <2>6, CallShapes DEF PreProcess, pre_process_data, pre_process_context, ReturnRows, Returns, Calls
    <3>3. InPass BY <2>0, <3>1 DEF InPass
    <3>4. ~Coding /\ ~Coding' BY <3>1, <3>2 DEF Coding
    <3>. HIDE DEF InPass
    <3>. QED BY <1>1, <3>1, <3>3, <3>4, GatheredStays
  <2>7. CASE PassRow
    <3> DEFINE data == main.buffer
    <3>1. UNCHANGED <<entropy, scan>> /\ call.pc = "main"
          /\ call'.pc = "coef" /\ call'.row = coef.MCU_vert_offset /\ call'.col = coef.mcu_ctr
          /\ coef' = IF coef.mode = "SAVE_AND_PASS" THEN Stored(data) ELSE coef
      BY <2>7 DEF PassRow, Calls
    <3>2. InPass BY <2>0, <3>1 DEF InPass
    <3>. HIDE DEF InPass, data
    <3>. QED BY <1>1, <2>1, <3>1, <3>2, GatheredHandedOver
  <2>8. CASE EncodeMCU \/ FinishRow BY <2>1, <2>8, GatheredOn
  <2>9. CASE RefuseMCU BY <2>9 DEF RefuseMCU
  <2>10. CASE finish_pass_master
    <3>1. call'.pc = "next_pass" BY <2>10 DEF finish_pass_master, Calls
    <3>. QED BY <3>1 DEF InPass
  <2>11. CASE PrepareStatistics
    <3>1. /\ Crank(ThisScan) /\ scan' = ThisScan /\ entropy' = start_pass_entropy(cinfo, ThisScan, tables, TRUE)
          /\ master.pass_type = "huff_opt_pass"
          /\ master' = [master EXCEPT !.is_last_pass = IsLast(master.pass_number)]
      BY <2>1, <2>11 DEF PrepareStatistics, Fail, NoError
    <3>2. master'.pass_type # "main_pass" BY <2>0, <3>1 DEF Passes
    <3> DEFINE sc == ThisScan
    <3>3. Crank(sc) /\ scan' = sc /\ entropy' = start_pass_entropy(cinfo, sc, tables, TRUE) BY <3>1
    <3>. HIDE DEF sc
    <3>4. coef'.iMCU_row_num = 0 /\ call'.pc = "crank" /\ call'.row = 0 /\ call'.col = 0
      BY <1>1, <3>2, <3>3, CrankStarts
    <3>5. entropy'.last_dc = [i \in DOMAIN sc.comps |-> <<>>] /\ entropy'.restarts_to_go = sc.restart_interval
      <4>1. TRUE \in BOOLEAN OBVIOUS
      <4>2. Started(entropy', cinfo, sc, tables, TRUE) BY <3>3, <4>1, StartedCoder, Zenon
      <4>. QED BY <4>2 DEF Started
    <3>6. Position' = StartOf(scan') BY <3>3, <3>4, <3>5 DEF Position, StartOf
    <3>7. Coding' \in BOOLEAN BY DEF Coding
    <3> DEFINE P == Position'
               B == Coding'
               codes == CodesOf(entropy'.counts)
    <3>8. P = StartOf(scan') /\ B \in BOOLEAN BY <3>6, <3>7
    <3>. HIDE DEF P, B, codes
    <3>9. \E S : Gathers(cinfo', scan', geom', cinfo'.transcode, coef'.whole, codes, P, B, S)
      BY <3>8, GatheringStarts, Zenon
    <3>. QED BY <3>9, Zenon DEF Gathered, P, B, codes
  <2>12. CASE PrepareOutput
    <3>1. entropy' = start_pass_entropy(cinfo, scan', tables, FALSE)
      <4>1. IsTables(tables) /\ IsSeq(out) BY DEF TablesAgree
      <4>. QED BY <2>1, <2>12, <4>1, PrepareWritten
    <3>2. entropy'.gather = FALSE
      <4>1. FALSE \in BOOLEAN OBVIOUS
      <4>2. Started(entropy', cinfo, scan', tables, FALSE) BY <3>1, <4>1, StartedCoder, Zenon
      <4>. QED BY <4>2 DEF Started
    <3>. QED BY <3>2
  <2>. QED BY <1>1, <2>3, <2>4, <2>5, <2>6, <2>7, <2>8, <2>9, <2>10, <2>11, <2>12 DEF Within
<1>2. ASSUME NEW im \in Images, SetParameters(im) PROVE Gathered'
  BY <1>2 DEF SetParameters, MayBegin, Gathered, InPass, Running
<1>3. ASSUME NEW all \in BOOLEAN, jpeg_start_compress(all) PROVE Gathered'
  <2> DEFINE g == initial_setup(cinfo)
             sc == per_scan_setup(cinfo, g, select_scan_parameters(cinfo, 0))
             m == master_control(cinfo, FALSE)
             tabs == IF all THEN jpeg_suppress_tables(tables, FALSE) ELSE tables
             rows == [c \in DOMAIN cinfo.comp_info |-> <<>>]
             first == [mode |-> "", iMCU_row_num |-> 0, mcu_ctr |-> 0, MCU_vert_offset |-> 0,
                       MCU_rows_per_iMCU_row |-> 0, whole |-> rows]
             mode == IF m.total_passes > 1 THEN "SAVE_AND_PASS" ELSE "PASS_THRU"
             o == optimized(cinfo)
  <2>1. cinfo' = cinfo /\ global_state = "START" /\ call.pc = "app"
    BY <1>3 DEF jpeg_start_compress, MayBegin, Idle
  <2>2. \/ global_state' = "START"
        \/ /\ scan' = sc /\ call' = call
           /\ entropy' = start_pass_entropy(cinfo, sc, tabs, o)
           /\ coef' = start_pass_coef(first, sc, g, mode)
    BY <1>3, <2>1 DEF jpeg_start_compress
  <2>. SUFFICES ASSUME global_state' # "START" PROVE Gathered' BY DEF Gathered, InPass, Running
  <2>3. IsCoef(first) BY DEF IsCoef
  <2>. HIDE DEF first
  <2>4. AtRow(coef', first, sc, g, 0, mode) BY <2>2, <2>3, PassStarted
  <2>5. o \in BOOLEAN BY DEF optimized
  <2>. HIDE DEF sc, tabs, o, g, mode
  <2>6. entropy'.last_dc = [i \in DOMAIN sc.comps |-> <<>>] /\ entropy'.restarts_to_go = sc.restart_interval
    <3>1. Started(entropy', cinfo, sc, tabs, o) BY <2>2, <2>5, StartedCoder, Zenon
    <3>. QED BY <3>1 DEF Started
  <2>7. coef'.iMCU_row_num = 0 /\ call'.pc = "app" /\ scan' = sc BY <2>1, <2>2, <2>4 DEF AtRow
  <2>8. ~Coding' BY <2>7 DEF Coding
  <2>9. Position' = StartOf(scan') BY <2>6, <2>7, <2>8 DEF Position, StartOf
  <2>10. Coding' \in BOOLEAN BY DEF Coding
  <2> DEFINE P == Position'
             B == Coding'
             codes == CodesOf(entropy'.counts)
  <2>11. P = StartOf(scan') /\ B \in BOOLEAN BY <2>9, <2>10
  <2>. HIDE DEF P, B, codes
  <2>12. \E S : Gathers(cinfo', scan', geom', cinfo'.transcode, coef'.whole, codes, P, B, S)
    BY <2>11, GatheringStarts, Zenon
  <2>. QED BY <2>12, Zenon DEF Gathered, P, B, codes
<1>4. CASE jpeg_write_coefficients
  <2>1. global_state = "START" /\ call.pc = "app" BY <1>4 DEF jpeg_write_coefficients, MayBegin, Idle
  <2>2. global_state' = "START" \/ (global_state' = "WRCOEFS" /\ call' = call)
    BY <1>4, <2>1 DEF jpeg_write_coefficients
  <2>. QED BY <2>1, <2>2 DEF Gathered, InPass, Running
<1>5. CASE jpeg_abort_compress BY <1>5 DEF jpeg_abort_compress, Gathered, InPass, Running
<1>6. CASE jpeg_write_tables BY <1>6 DEF jpeg_write_tables, MayBegin, Gathered, InPass, Running
<1>7. CASE FinishImage BY <1>7 DEF FinishImage, Gathered, InPass, Running
<1>8. CASE UNCHANGED vars
  <2>1. UNCHANGED <<cinfo, global_state, failed, call, coef, entropy, scan, geom>> BY <1>8 DEF vars, control
  <2>2. Position' = Position /\ (Coding' <=> Coding) /\ (InPass' <=> InPass)
    BY <2>1 DEF Position, Coding, InPass, Running
  <2>3. CodesOf(entropy'.counts) = CodesOf(entropy.counts) BY <2>1
  <2> DEFINE P == Position
             codes == CodesOf(entropy.counts)
  <2>. HIDE DEF P, codes, Coding, InPass
  <2>4. \A S : Gathers(cinfo, scan, geom, cinfo.transcode, coef.whole, codes, P, Coding, S)
               => Gathers(cinfo, scan, geom, cinfo.transcode, coef.whole, codes, P, Coding', S)
    BY <2>2, Zenon DEF Gathers
  <2>5. Gathered => (InPass /\ entropy.gather =>
          \E S : Gathers(cinfo, scan, geom, cinfo.transcode, coef.whole, codes, P, Coding, S))
    BY DEF Gathered, P, codes
  <2>6. Position' = P /\ CodesOf(entropy'.counts) = codes BY <2>2, <2>3 DEF P, codes
  <2>7. SUFFICES ASSUME InPass', entropy'.gather
        PROVE  \E S : Gathers(cinfo', scan', geom', cinfo'.transcode, coef'.whole, CodesOf(entropy'.counts),
                              Position', Coding', S)
    BY DEF Gathered
  <2>8. \E S : Gathers(cinfo, scan, geom, cinfo.transcode, coef.whole, codes, P, Coding', S)
    BY <2>1, <2>2, <2>4, <2>5, <2>7, Zenon
  <2>. QED BY <2>1, <2>6, <2>8, Zenon
<1>. QED BY <1>1, <1>2, <1>3, <1>4, <1>5, <1>6, <1>7, <1>8, Steps

-----------------------------------------------------------------------------
(* The output pass: the tables have a code for everything ahead of it.       *)
LEMMA HasAllStill ==
  ASSUME NEW im, NEW sc, NEW g, NEW source, NEW whole, NEW codes, NEW codes2, NEW S,
         HasAll(im, sc, g, source, whole, codes, S), \A n \in Slots : codes[n] \subseteq codes2[n]
  PROVE  HasAll(im, sc, g, source, whole, codes2, S)
<1>1. ASSUME NEW s, Follows(im, sc, g, source, whole, codes, S, s)
      PROVE  Follows(im, sc, g, source, whole, codes2, S, s)
  <2>1. S \subseteq S OBVIOUS
  <2>2. InRow(sc, g, s) => MCUAt(sc, g, source, whole, s) = MCUAt(sc, g, source, whole, s) OBVIOUS
  <2>. QED BY <1>1, <2>1, <2>2, FollowsStill, Zenon
<1>. QED BY <1>1, Zenon DEF HasAll

LEMMA AllGathered ==
  ASSUME NEW im, NEW sc, NEW g, NEW source, NEW whole, NEW codes, NEW P, NEW S,
         Gathers(im, sc, g, source, whole, codes, P, FALSE, S), P.r >= g.total_iMCU_rows
  PROVE  HasAll(im, sc, g, source, whole, codes, S)
<1>1. /\ StartOf(sc) \in S
      /\ \A s \in S : /\ IsPosition(s)
                      /\ s # P => Follows(im, sc, g, source, whole, codes, S, s)
  BY DEF Gathers
<1>2. \A s \in S : IsPosition(s) /\ (s.r >= g.total_iMCU_rows \/ Follows(im, sc, g, source, whole, codes, S, s))
  BY <1>1
<1>. QED BY <1>1, <1>2, Zenon DEF HasAll

(* The tables made out of the counts have codes for what was counted.        *)
LEMMA SymbolsGathered ==
  ASSUME IsTables(tables), tables' = GatheredTables
  PROVE  \A n \in Slots : CodesOf(entropy.counts)[n] \subseteq SymbolsOf(tables')[n]
<1> DEFINE u == GatheredTables
<1>1. \A d \in Classes, m \in Slots :
        IF <<d, m>> \in DOMAIN entropy.counts
        THEN u[d][m].val = OptimalTable(entropy.counts[<<d, m>>]) /\ ~u[d][m].sent
        ELSE u[d][m] = tables[d][m]
  BY GatheredAre
<1>2. tables' = u OBVIOUS
<1>. HIDE DEF u
<1>3. ASSUME NEW n \in Slots PROVE CodesOf(entropy.counts)[n] \subseteq SymbolsOf(tables')[n]
  <2>1. "dc" \in Classes BY DEF Classes
  <2>2. CodesOf(entropy.counts)[n] = IF <<"dc", n>> \in DOMAIN entropy.counts THEN entropy.counts[<<"dc", n>>] ELSE {}
    BY DEF CodesOf
  <2>3. SymbolsOf(tables')[n] = u["dc"][n].val.syms BY <1>2 DEF SymbolsOf
  <2>4. CASE <<"dc", n>> \in DOMAIN entropy.counts
    <3> DEFINE c == entropy.counts[<<"dc", n>>]
    <3>1. u["dc"][n].val = OptimalTable(c) BY <1>1, <2>1, <2>4
    <3>. HIDE DEF c
    <3>2. OptimalTable(c).syms = c BY DEF OptimalTable
    <3>. QED BY <2>2, <2>3, <2>4, <3>1, <3>2 DEF c
  <2>5. CASE <<"dc", n>> \notin DOMAIN entropy.counts BY <2>2, <2>5
  <2>. QED BY <2>4, <2>5
<1>. QED BY <1>3

LEMMA CompleteStep ==
  ASSUME Calls, Begun, Passes, Coder, TablesAgree, Controller, Gathered, Complete, [Next]_vars PROVE Complete'
<1> DEFINE Premise == /\ Running /\ optimized(cinfo) /\ master.pass_type = "output_pass" /\ (call.pc = "crank" \/ ~InPass)
                      /\ (call.pc = "crank" => scan.Ss = 0 /\ scan.Ah = 0)
           Has(S) == /\ HasAll(cinfo, scan, geom, cinfo.transcode, coef.whole, SymbolsOf(tables), S)
                     /\ call.pc = "crank" => Position \in S
<1>0. Complete <=> (Premise => \E S : Has(S)) BY DEF Complete
<1>1. CASE Within
  <2>0. Running /\ UNCHANGED <<cinfo, global_state, geom>> BY <1>1, StepWithin
  <2>. SUFFICES ASSUME Running', optimized(cinfo), master'.pass_type = "output_pass", call'.pc = "crank" \/ ~InPass',
                       call'.pc = "crank" => scan'.Ss = 0 /\ scan'.Ah = 0
       PROVE  \E S : /\ HasAll(cinfo, scan', geom, cinfo.transcode, coef'.whole, SymbolsOf(tables'), S)
                     /\ call'.pc = "crank" => Position' \in S
    <3>1. optimized(cinfo)' = optimized(cinfo) BY <2>0
    <3>. HIDE DEF InPass, Running
    <3>. QED BY <2>0, <3>1, Zenon DEF Complete
  <2>1. failed' = NoError /\ (call'.pc \in {"crank", "next_pass"} \/ (call'.pc = "app" /\ global_state = "WRCOEFS"))
    BY <2>0 DEF Running, InPass
  <2>2. ASSUME NEW next, StartOutput(next) PROVE call' = next
    <3>1. failed = NoError BY <2>0 DEF Running
    <3>. QED BY <2>1, <2>2, <3>1, OutputStarted
  <2>3. ASSUME NEW n \in 1 .. 3, jpeg_write_scanlines(n) PROVE FALSE
    <3> DEFINE next == [NoCall EXCEPT !.pc = "main", !.rows = AtMost(n, cinfo.image_height - next_scanline)]
    <3>1. StartOutput(next) BY <2>3 DEF jpeg_write_scanlines
    <3>2. next.pc = "main" BY DEF NoCall
    <3>. HIDE DEF next
    <3>. QED BY <2>1, <2>2, <3>1, <3>2
  <2>4. ASSUME jpeg_write_raw_data PROVE FALSE
    <3> DEFINE next == [NoCall EXCEPT !.pc = "coef", !.data = RawRows,
                                      !.row = coef.MCU_vert_offset, !.col = coef.mcu_ctr]
    <3>1. StartOutput(next) BY <2>4 DEF jpeg_write_raw_data
    <3>2. next.pc = "coef" BY DEF NoCall
    <3>. HIDE DEF next
    <3>. QED BY <2>1, <2>2, <3>1, <3>2
  <2>5. CASE jpeg_write_marker \/ jpeg_finish_compress
    <3>1. UNCHANGED <<scan, coef, tables, master>> /\ call.pc = "app" /\ global_state = "WRCOEFS" /\ call'.pc # "crank"
      <4>1. CASE jpeg_write_marker BY <2>1, <4>1 DEF jpeg_write_marker, control, Idle
      <4>2. CASE jpeg_finish_compress
        <5>1. global_state # "WRCOEFS" => call'.pc = "finish_pass"
          BY <2>1, <4>2, CallShapes DEF jpeg_finish_compress, Fail, NoError
        <5>2. global_state = "WRCOEFS" => call'.pc = "next_pass" BY <4>2, CallShapes DEF jpeg_finish_compress
        <5>. QED BY <2>1, <4>2, <5>1, <5>2 DEF jpeg_finish_compress, control, Idle
      <4>. QED BY <2>5, <4>1, <4>2
    <3>2. Premise BY <2>0, <3>1 DEF InPass
    <3>. HIDE DEF Premise
    <3>3. PICK S : HasAll(cinfo, scan, geom, cinfo.transcode, coef.whole, SymbolsOf(tables), S) BY <1>0, <3>2
    <3>4. SymbolsOf(tables') = SymbolsOf(tables) BY <3>1
    <3>. QED BY <3>1, <3>3, <3>4
  <2>6. ASSUME PreProcess \/ ReturnRows \/ PassRow PROVE FALSE
    <3>1. call.pc = "main" /\ call'.pc \in {"main", "app", "coef"}
      BY <2>6, CallShapes DEF PreProcess, pre_process_data, pre_process_context, ReturnRows, Returns, PassRow, Calls
    <3>. QED BY <2>1, <3>1 DEF Calls
  <2>7. ASSUME RefuseMCU PROVE FALSE
    <3>1. call.pc = "coef" /\ call'.pc = "app"
      BY <2>1, <2>7, CallShapes DEF RefuseMCU, Coding, Fail, NoError
    <3>. QED BY <2>1, <3>1 DEF Calls
  <2>8. CASE EncodeMCU \/ FinishRow
    <3>1. UNCHANGED <<scan, tables, master>> /\ call.pc \in {"coef", "crank"} BY <2>8 DEF EncodeMCU, FinishRow, Coding
    <3>2. /\ IsCoef(coef)
          /\ coef.mode = "TRANSCODE" <=> cinfo.transcode
          /\ coef.mode = "PASS_THRU" => ~optimized(cinfo)
          /\ call.pc = "crank" => coef.iMCU_row_num < geom.total_iMCU_rows
      BY <2>0 DEF Controller, IsCoef
    <3>3. call.pc = "crank" /\ call'.pc = "crank"
      <4>1. CASE EncodeMCU
        <5>1. call'.pc = call.pc BY <2>1, <4>1 DEF EncodeMCU, NextMCU, Calls
        <5>. QED BY <2>1, <3>1, <5>1
      <4>2. CASE FinishRow
        <5>1. call.pc = "crank" => call'.pc \in {"crank", "finish_pass"}
          BY <4>2, CallShapes DEF FinishRow, Calls
        <5>2. call.pc = "coef" => call'.pc \in {"app", "main"} /\ global_state # "WRCOEFS"
          BY <4>2, CallShapes DEF FinishRow, Calls
        <5>. QED BY <2>1, <3>1, <5>1, <5>2
      <4>. QED BY <2>8, <4>1, <4>2
    <3>4. InPass /\ failed = NoError /\ Coding BY <2>0, <3>3 DEF InPass, Running, Coding
    <3>5. coef.MCU_rows_per_iMCU_row = rows_per_iMCU_row(scan, geom, coef.iMCU_row_num)
      BY <2>0, <3>4 DEF Controller
    <3>6. Premise BY <2>0, <3>1, <3>3
    <3> DEFINE P == Position
               Q == Position'
               W == coef.whole
               source == cinfo.transcode
               codes == SymbolsOf(tables)
    <3>7. PICK S : HasAll(cinfo, scan, geom, source, W, codes, S) /\ P \in S
      <4>. HIDE DEF Premise, P
      <4>. QED BY <1>0, <3>3, <3>6 DEF P
    <3>8. IsPosition(P) /\ (P.r >= geom.total_iMCU_rows \/ Follows(cinfo, scan, geom, source, W, codes, S, P))
      <4>. HIDE DEF P, W, source, codes
      <4>. QED BY <3>7 DEF HasAll
    <3>9. Follows(cinfo, scan, geom, source, W, codes, S, P)
      <4>1. P.r = coef.iMCU_row_num BY DEF Position
      <4>2. coef.iMCU_row_num < geom.total_iMCU_rows BY <3>2, <3>3
      <4>3. geom.total_iMCU_rows \in Nat /\ coef.iMCU_row_num \in Nat
        BY <2>0, RunningGeometry DEF GeometryIs, Controller
      <4>. HIDE DEF P, W, source, codes
      <4>4. ~(P.r >= geom.total_iMCU_rows) BY <4>1, <4>2, <4>3
      <4>. QED BY <3>8, <4>4
    <3>10. Q = After(scan, geom, source, W, P) /\ coef'.whole = W
      <4>1. CASE EncodeMCU
        <5>1. IsCoder(entropy) BY <3>4 DEF Coder, IsCoder
        <5>2. coef.mode # "PASS_THRU" BY <3>2
        <5>. QED BY <2>1, <3>2, <3>4, <3>5, <3>8, <4>1, <5>1, <5>2, MCUMoves
      <4>2. CASE FinishRow
        <5>1. /\ \A so, wh : Position' = After(scan, geom, so, wh, Position)
              /\ AtRow(coef', coef, scan, geom, coef.iMCU_row_num + 1, coef.mode)
          BY <3>2, <3>5, <3>8, <4>2, RowMoves
        <5>2. coef'.whole = W BY <5>1 DEF AtRow
        <5>. QED BY <5>1, <5>2, Zenon
      <4>. QED BY <2>8, <4>1, <4>2
    <3>11. Q \in S
      <4>. HIDE DEF P, Q, W, source, codes
      <4>. QED BY <3>9, <3>10 DEF Follows
    <3>12. SymbolsOf(tables') = codes BY <3>1
    <3>. QED BY <3>1, <3>7, <3>10, <3>11, <3>12
  <2>9. CASE finish_pass_master
    <3> DEFINE number == master.pass_number + 1
               type == IF master.pass_type = "output_pass" /\ optimized(cinfo) THEN "huff_opt_pass" ELSE "output_pass"
               next == IF \/ master.pass_type = "output_pass"
                          \/ master.pass_type = "main_pass" /\ ~optimized(cinfo)
                       THEN master.scan_number + 1 ELSE master.scan_number
    <3>1. call.pc = "finish_pass" /\ call'.pc = "next_pass" /\ UNCHANGED <<scan, coef>>
          /\ tables' = (IF entropy.gather THEN GatheredTables ELSE tables)
          /\ master' = [master EXCEPT !.pass_number = number, !.pass_type = type, !.scan_number = next]
      BY <2>9 DEF finish_pass_master, Calls
    <3>2. master.pass_type # "output_pass"
      <4>1. master'.pass_type = type
        <5>. HIDE DEF number, type, next
        <5>. QED BY <2>0, <3>1 DEF Passes
      <4>. QED BY <4>1
    <3>3. InPass BY <2>0, <3>1 DEF InPass
    <3>4. entropy.gather BY <3>2, <3>3 DEF Coder
    <3>5. coef.iMCU_row_num >= geom.total_iMCU_rows BY <2>0, <3>1, <3>4 DEF Controller
    <3> DEFINE P == Position
               codes == CodesOf(entropy.counts)
    <3>6. P.r = coef.iMCU_row_num BY DEF Position
    <3>7. ~Coding BY <3>1 DEF Coding
    <3>. HIDE DEF InPass
    <3>8. PICK S : Gathers(cinfo, scan, geom, cinfo.transcode, coef.whole, codes, P, Coding, S) BY <3>3, <3>4 DEF Gathered
    <3>. HIDE DEF P, codes, Coding
    <3>9. Gathers(cinfo, scan, geom, cinfo.transcode, coef.whole, codes, P, FALSE, S) BY <3>7, <3>8 DEF Gathers
    <3>10. P.r >= geom.total_iMCU_rows BY <3>5, <3>6
    <3>11. HasAll(cinfo, scan, geom, cinfo.transcode, coef.whole, codes, S) BY <3>9, <3>10, AllGathered, Zenon
    <3> DEFINE codes2 == SymbolsOf(tables')
    <3>12. \A n \in Slots : codes[n] \subseteq codes2[n]
      <4>1. IsTables(tables) /\ tables' = GatheredTables BY <3>1, <3>4 DEF TablesAgree
      <4>. QED BY <4>1, SymbolsGathered DEF codes
    <3>. HIDE DEF codes2
    <3>13. HasAll(cinfo, scan, geom, cinfo.transcode, coef.whole, codes2, S) BY <3>11, <3>12, HasAllStill, Zenon
    <3>. QED BY <3>1, <3>13 DEF codes2
  <2>10. ASSUME PrepareStatistics PROVE FALSE
    <3>1. master.pass_type = "huff_opt_pass" /\ master' = [master EXCEPT !.is_last_pass = IsLast(master.pass_number)]
      BY <2>1, <2>10 DEF PrepareStatistics, Fail, NoError
    <3>. QED BY <2>0, <3>1 DEF Passes
  <2>11. CASE PrepareOutput
    <3>1. Crank(scan')
      <4> DEFINE sc == IF master.pass_type = "huff_opt_pass" \/ ~optimized(cinfo) THEN ThisScan ELSE scan
      <4>1. scan' = sc /\ Crank(sc) BY <2>1, <2>11 DEF PrepareOutput, Fail, NoError
      <4>. HIDE DEF sc
      <4>. QED BY <4>1
    <3> DEFINE sc == scan'
    <3>2. Crank(sc) /\ scan' = sc /\ master'.pass_type # "main_pass" BY <3>1
    <3>. HIDE DEF sc
    <3>3. coef'.iMCU_row_num = 0 /\ coef'.whole = coef.whole /\ call'.pc = "crank" /\ call'.row = 0 /\ call'.col = 0
      BY <1>1, <3>2, CrankStarts
    <3>4. /\ call.pc = "next_pass"
          /\ master.pass_type = "output_pass" \/ (master.pass_type = "huff_opt_pass" /\ ~NeedsStatistics)
          /\ master.pass_type = "huff_opt_pass" => scan' = ThisScan
          /\ master.pass_type = "output_pass" => scan' = scan
      BY <2>1, <2>11 DEF PrepareOutput, Fail, NoError
    <3>5. master.pass_type = "output_pass" /\ scan' = scan
      <4>1. ~(ThisScan.Ss = 0 /\ ThisScan.Ah = 0) \/ NeedsStatistics BY DEF NeedsStatistics
      <4>. QED BY <3>3, <3>4, <4>1
    <3>6. Premise BY <2>0, <3>4, <3>5 DEF InPass
    <3>. HIDE DEF Premise
    <3>7. PICK S : HasAll(cinfo, scan, geom, cinfo.transcode, coef.whole, SymbolsOf(tables), S) BY <1>0, <3>6
    <3>8. IsTables(tables) /\ IsSeq(out) BY DEF TablesAgree
    <3>9. /\ \E t : Emits(tables, t, tables')
          /\ entropy' = start_pass_entropy(cinfo, scan', tables, FALSE)
      BY <2>1, <2>11, <3>8, PrepareWritten
    <3>10. entropy'.last_dc = [i \in DOMAIN scan'.comps |-> <<>>] /\ entropy'.restarts_to_go = scan'.restart_interval
      <4>1. FALSE \in BOOLEAN OBVIOUS
      <4>2. Started(entropy', cinfo, scan', tables, FALSE) BY <3>9, <4>1, StartedCoder, Zenon
      <4>. QED BY <4>2 DEF Started
    <3>11. Position' = StartOf(scan') BY <3>3, <3>10 DEF Position, StartOf
    <3>12. Position' \in S BY <3>5, <3>7, <3>11 DEF HasAll
    <3>13. \A n \in Slots : SymbolsOf(tables)[n] \subseteq SymbolsOf(tables')[n]
      <4>1. \A n \in Slots : tables'["dc"][n].val = tables["dc"][n].val BY <3>9 DEF Emits, Classes
      <4>. QED BY <4>1 DEF SymbolsOf
    <3> DEFINE codes == SymbolsOf(tables)
               codes2 == SymbolsOf(tables')
    <3>. HIDE DEF codes, codes2
    <3>14. HasAll(cinfo, scan, geom, cinfo.transcode, coef.whole, codes2, S)
      <4>1. HasAll(cinfo, scan, geom, cinfo.transcode, coef.whole, codes, S) BY <3>7 DEF codes
      <4>2. \A n \in Slots : codes[n] \subseteq codes2[n] BY <3>13 DEF codes, codes2
      <4>. QED BY <4>1, <4>2, HasAllStill, Zenon
    <3>. QED BY <3>3, <3>5, <3>12, <3>14 DEF codes2
  <2>. QED BY <1>1, <2>3, <2>4, <2>5, <2>6, <2>7, <2>8, <2>9, <2>10, <2>11 DEF Within
<1>2. ASSUME NEW im \in Images, SetParameters(im) PROVE Complete'
  BY <1>2 DEF SetParameters, MayBegin, Complete, Running
<1>3. ASSUME NEW all \in BOOLEAN, jpeg_start_compress(all) PROVE Complete'
  <2>1. global_state = "START" /\ call.pc = "app" BY <1>3 DEF jpeg_start_compress, MayBegin, Idle
  <2>2. global_state' = "START" \/ (global_state' \in {"RAW_OK", "SCANNING"} /\ call' = call)
    BY <1>3, <2>1 DEF jpeg_start_compress
  <2>. QED BY <2>1, <2>2 DEF Complete, InPass, Running
<1>4. CASE jpeg_write_coefficients
  <2> DEFINE m == master_control(cinfo, TRUE)
             k == IF optimized(cinfo) THEN num_scans(cinfo) * 2 ELSE num_scans(cinfo)
             p == IF optimized(cinfo) THEN "huff_opt_pass" ELSE "output_pass"
  <2>1. global_state = "START" /\ call.pc = "app" /\ cinfo' = cinfo
    BY <1>4 DEF jpeg_write_coefficients, MayBegin, Idle
  <2>2. global_state' = "START" \/ (global_state' = "WRCOEFS" /\ call' = call /\ master' = m)
    BY <1>4, <2>1 DEF jpeg_write_coefficients
  <2>3. m = [pass_type |-> p, scan_number |-> 0, pass_number |-> 0, call_pass_startup |-> FALSE,
             is_last_pass |-> FALSE, total_passes |-> k]
    BY DEF master_control
  <2>4. optimized(cinfo) => m.pass_type # "output_pass"
    <3>. HIDE DEF m, k
    <3>. QED BY <2>3
  <2>5. optimized(cinfo)' <=> optimized(cinfo) BY <2>1
  <2>. HIDE DEF m
  <2>. QED BY <2>1, <2>2, <2>4, <2>5 DEF Complete, Running
<1>5. CASE jpeg_abort_compress BY <1>5 DEF jpeg_abort_compress, Complete, Running
<1>6. CASE jpeg_write_tables BY <1>6 DEF jpeg_write_tables, MayBegin, Complete, Running
<1>7. CASE FinishImage BY <1>7 DEF FinishImage, Complete, Running
<1>8. CASE UNCHANGED vars
  <2>1. UNCHANGED <<cinfo, global_state, failed, call, coef, entropy, scan, geom, master, tables>>
    BY <1>8 DEF vars, control
  <2>2. Position' = Position /\ (InPass' <=> InPass) /\ (Running' <=> Running)
    BY <2>1 DEF Position, Coding, InPass, Running
  <2>3. SymbolsOf(tables') = SymbolsOf(tables) /\ optimized(cinfo)' = optimized(cinfo) BY <2>1
  <2>. HIDE DEF InPass, Running
  <2>. QED BY <2>1, <2>2, <2>3, Zenon DEF Complete
<1>. QED BY <1>1, <1>2, <1>3, <1>4, <1>5, <1>6, <1>7, <1>8, Steps

-----------------------------------------------------------------------------
LEMMA WaitsStep == ASSUME Calls, Begun, Waits, [Next]_vars PROVE Waits'
<1>1. CASE Within
  <2>1. CASE PreProcess
    <3>1. call'.pc = "main" BY <2>1 DEF PreProcess, pre_process_data, pre_process_context, Calls
    <3>. QED BY <3>1 DEF Waits
  <2>2. ASSUME NEW n \in 1 .. 3, jpeg_write_scanlines(n) PROVE Waits'
    <3> DEFINE next == [NoCall EXCEPT !.pc = "main", !.rows = AtMost(n, cinfo.image_height - next_scanline)]
    <3>1. StartOutput(next) BY <2>2 DEF jpeg_write_scanlines
    <3>2. failed = NoError BY <1>1, StepWithin DEF Running
    <3>3. next.pc = "main" BY DEF NoCall
    <3>. HIDE DEF next
    <3>. QED BY <3>1, <3>2, <3>3, OutputStarted DEF Waits
  <2>3. CASE jpeg_write_raw_data
    <3> DEFINE a == RawRows
               b == coef.MCU_vert_offset
               c == coef.mcu_ctr
               next == [NoCall EXCEPT !.pc = "coef", !.data = a, !.row = b, !.col = c]
    <3>1. StartOutput(next) BY <2>3 DEF jpeg_write_raw_data
    <3>2. failed = NoError BY <1>1, StepWithin DEF Running
    <3>. HIDE DEF a, b, c
    <3>3. next.pc = "coef" BY DEF NoCall
    <3>. HIDE DEF next
    <3>. QED BY <3>1, <3>2, <3>3, OutputStarted DEF Waits
  <2>4. CASE jpeg_write_marker BY <2>4 DEF jpeg_write_marker, Waits
  <2>5. CASE jpeg_finish_compress BY <2>5, CallShapes DEF jpeg_finish_compress, Fail, Waits
  <2>6. CASE PassRow
    <3>1. call'.pc = "coef" BY <2>6 DEF PassRow, Calls
    <3>. QED BY <3>1 DEF Waits
  <2>7. CASE ReturnRows BY <2>7 DEF ReturnRows, Returns, Waits
  <2>8. CASE FinishRow
    <3>1. \/ call' = NoCall
          \/ call' = [NoCall EXCEPT !.pc = "finish_pass"]
          \/ call.pc = "crank" /\ call' = [call EXCEPT !.row = 0, !.col = 0]
          \/ \E k : call' = [call EXCEPT !.pc = "main", !.data = <<>>, !.ctr = k]
      BY <2>8 DEF FinishRow, Coding
    <3>2. call' = NoCall \/ call'.pc # "app" BY <3>1, CallShapes DEF Calls
    <3>. QED BY <3>2 DEF Waits
  <2>9. CASE RefuseMCU BY <2>9 DEF RefuseMCU, Fail, Waits
  <2>10. CASE finish_pass_master
    <3>1. call'.pc = "next_pass" BY <2>10 DEF finish_pass_master, Calls
    <3>. QED BY <3>1 DEF Waits
  <2>11. CASE PrepareStatistics BY <2>11, CallShapes DEF PrepareStatistics, Crank, Fail, Waits
  <2>12. CASE PrepareOutput
    <3>1. call' = NoCall \/ call' = [NoCall EXCEPT !.pc = "crank"]
      BY <2>12, Zenon DEF PrepareOutput, Crank, Fail
    <3>. QED BY <3>1, CallShapes DEF Waits
  <2>13. CASE EncodeMCU
    <3>1. call' = NoCall \/ (Coding /\ NextMCU)
      <4>1. failed = NoError BY <1>1, StepWithin DEF Running
      <4>. QED BY <2>13, <4>1 DEF EncodeMCU, encode_mcu_gather, encode_mcu_huff, Fail
    <3>2. Coding /\ NextMCU => call'.pc # "app" BY DEF NextMCU, Coding, Calls
    <3>. QED BY <3>1, <3>2 DEF Waits
  <2>. QED BY <1>1, <2>1, <2>2, <2>3, <2>4, <2>5, <2>6, <2>7, <2>8, <2>9, <2>10, <2>11, <2>12, <2>13 DEF Within
<1>2. ASSUME NEW im \in Images, SetParameters(im) PROVE Waits' BY <1>2 DEF SetParameters, Waits
<1>3. ASSUME NEW all \in BOOLEAN, jpeg_start_compress(all) PROVE Waits'
  <2>1. call' = call \/ call' = NoCall BY <1>3 DEF jpeg_start_compress, Fail
  <2>. QED BY <2>1 DEF Waits
<1>4. CASE jpeg_write_coefficients
  <2>1. call' = call \/ call' = NoCall BY <1>4 DEF jpeg_write_coefficients, Fail
  <2>. QED BY <2>1 DEF Waits
<1>5. CASE jpeg_abort_compress BY <1>5 DEF jpeg_abort_compress, Waits
<1>6. CASE jpeg_write_tables BY <1>6 DEF jpeg_write_tables, Waits
<1>7. CASE FinishImage BY <1>7 DEF FinishImage, Waits
<1>8. CASE UNCHANGED vars BY <1>8 DEF vars, Waits
<1>. QED BY <1>1, <1>2, <1>3, <1>4, <1>5, <1>6, <1>7, <1>8, Steps

-----------------------------------------------------------------------------
(* The rows between the application and the coder: none is lost or counted   *)
(* twice, in the call, the buffer of pre-processing, the row groups and the  *)
(* rows of iMCUs passed on.                                                  *)
LEMMA AtMostIs ==
  ASSUME NEW a \in Int, NEW b \in Int
  PROVE  AtMost(a, b) \in Int /\ AtMost(a, b) <= a /\ AtMost(a, b) <= b /\ AtMost(a, b) \in {a, b}
BY DEF AtMost

(* One turn of pre_process_data: t rows to go, b of V in the buffer, q of D   *)
(* groups in the row of iMCUs n, and m rows more.                            *)
LEMMA GroupsCounted ==
  ASSUME NEW V \in Nat, V > 0, NEW D \in Nat, NEW h \in Nat, NEW t \in Nat, NEW b \in Nat, b < V,
         NEW q \in Nat, q < D, NEW n \in Nat, NEW m \in Nat, m <= t, m + b <= V,
         (n * D + q) * V + b = h - t,
         NEW full \in BOOLEAN, full <=> (b + m = V \/ (t - m = 0 /\ b + m < V)),
         NEW groups, groups = (IF full THEN q + 1 ELSE q),
         NEW row, row = (IF full THEN 0 ELSE b + m),
         NEW last, last = (IF t - m = 0 /\ groups < D THEN D ELSE groups)
  PROVE  /\ last \in 0 .. D /\ row \in Nat /\ row < V
         /\ t - m > 0 => (n * D + last) * V + row = h - (t - m)
         /\ t - m = 0 => last = D /\ (n * D + last) * V >= h
<1> DEFINE p == n * D
<1>1. p \in Nat OBVIOUS
<1>2. groups \in Nat /\ groups <= D /\ last \in 0 .. D /\ row \in Nat /\ row < V OBVIOUS
<1>. HIDE DEF p
<1> DEFINE s == (p + q) * V
<1>3. s \in Int /\ (p + q + 1) * V = s + V
  <2>1. (p + q) \in Int BY <1>1
  <2> DEFINE k == p + q
  <2>2. k \in Int /\ p + q + 1 = k + 1 BY <1>1
  <2>. HIDE DEF k
  <2>3. k * V \in Int /\ (k + 1) * V = k * V + 1 * V BY <2>2, Products
  <2>4. s = k * V BY DEF k
  <2>. QED BY <2>2, <2>3, <2>4
<1>4. s + b = h - t BY DEF p
<1>. HIDE DEF s
<1>5. ASSUME t - m > 0 PROVE (p + last) * V + row = h - (t - m)
  <2>1. last = groups BY <1>5
  <2>2. CASE full
    <3>1. b + m = V /\ row = 0 /\ last = q + 1 BY <1>5, <2>1, <2>2
    <3>2. (p + last) * V = s + V BY <1>1, <1>3, <3>1
    <3>. QED BY <1>3, <1>4, <3>1, <3>2
  <2>3. CASE ~full
    <3>1. row = b + m /\ last = q BY <2>1, <2>3
    <3>2. (p + last) * V = s BY <3>1 DEF s
    <3>. QED BY <1>3, <1>4, <3>1, <3>2
  <2>. QED BY <2>2, <2>3
<1>6. ASSUME t - m = 0 PROVE last = D /\ (p + last) * V >= h
  <2>1. full BY <1>6
  <2>2. groups = q + 1 /\ last = D BY <1>2, <1>6, <2>1
  <2>3. (p + (q + 1)) * V <= (p + D) * V
    <3> DEFINE a == p + (q + 1)
               c == p + D
    <3>1. a \in Int /\ c \in Int /\ a <= c BY <1>1
    <3>. HIDE DEF a, c
    <3>2. a * V <= c * V BY <3>1, Products
    <3>. QED BY <3>2 DEF a, c
  <2>4. (p + (q + 1)) * V = s + V BY <1>1, <1>3
  <2>5. (p + D) * V \in Int BY <1>1
  <2>6. s + V >= h BY <1>3, <1>4, <1>6
  <2>. QED BY <1>3, <2>2, <2>3, <2>4, <2>5, <2>6
<1>. QED BY <1>2, <1>5, <1>6 DEF p

Counted == IsMain(main) /\ IsPrep(prep) /\ RowsCounted(cinfo, geom, next_scanline, call.pc, call.ctr, call.rows, prep, main)
LEMMA PreparedData ==
  ASSUME Calls, GeometryIs(cinfo, geom), Counted, call.pc = "main", main.rowgroup_ctr < DCTSIZE,
         main.cur_iMCU_row < geom.total_iMCU_rows,
         UNCHANGED <<cinfo, geom, next_scanline>>, pre_process_data
  PROVE  Counted' /\ call'.pc = "main" /\ main'.cur_iMCU_row = main.cur_iMCU_row
<1> DEFINE V == geom.max_v
           h == cinfo.image_height
           t == prep.rows_to_go
           b == prep.next_buf_row
           q == main.rowgroup_ctr
           n == main.cur_iMCU_row
           ctr == call.ctr
           rows == call.rows
           s == next_scanline
           m == AtMost(V - b, rows - ctr)
           read == color_convert(prep.color_buf, s + ctr, m)
           ended == t - m = 0 /\ b + m < V
           buf == IF ended THEN expand_bottom_edge(read, b + m, V) ELSE read
           full == ended \/ b + m = V
           buffer == IF full THEN AddGroup(main.buffer, downsample(buf, 0)) ELSE main.buffer
           groups == IF full THEN q + 1 ELSE q
           padded == t - m = 0 /\ groups < DCTSIZE
           last == IF padded THEN DCTSIZE ELSE groups
           row == IF full THEN 0 ELSE b + m
           data == IF padded THEN PadGroups(buffer) ELSE buffer
<1>1. /\ ~need_context_rows(cinfo) /\ ctr < rows
      /\ call' = [call EXCEPT !.ctr = @ + m]
      /\ prep' = [prep EXCEPT !.rows_to_go = t - m, !.color_buf = buf, !.next_buf_row = IF full THEN 0 ELSE @ + m]
      /\ main' = [main EXCEPT !.rowgroup_ctr = last, !.buffer = data]
  BY DEF pre_process_data
<1>2. /\ main.suspended = FALSE /\ n \in Nat /\ q \in 0 .. DCTSIZE /\ q < DCTSIZE
      /\ t \in Nat /\ b \in Nat /\ s \in Nat /\ ctr \in Nat /\ rows \in Nat /\ ctr < rows
      /\ s + ctr + t = h /\ s + rows <= h /\ b < V
      /\ t > 0 => (n * DCTSIZE + q) * V + b = h - t
  BY <1>1 DEF Counted, RowsCounted
<1>3. V \in Nat /\ V > 0 /\ h \in Nat /\ DCTSIZE \in Nat BY BlockAssumption DEF GeometryIs
<1>4. full \in BOOLEAN /\ (full <=> (b + m = V \/ (t - m = 0 /\ b + m < V))) OBVIOUS
<1>5. /\ IsPrep(prep') /\ prep'.rows_to_go = t - m /\ prep'.next_buf_row = row
  <2>1. prep' = [rows_to_go |-> t - m, next_buf_row |-> row, this_row_group |-> prep.this_row_group,
                 next_buf_stop |-> prep.next_buf_stop, color_buf |-> buf]
    <3> DEFINE tm == t - m
               bm == b + m
    <3>1. prep' = [prep EXCEPT !.rows_to_go = tm, !.color_buf = buf, !.next_buf_row = IF full THEN 0 ELSE bm]
      BY <1>1
    <3>2. IsPrep(prep) BY DEF Counted
    <3>. HIDE DEF tm, bm, buf, full
    <3>. QED BY <3>1, <3>2 DEF IsPrep, tm, bm
  <2>. HIDE DEF row, buf, m
  <2>. QED BY <2>1 DEF IsPrep
<1>6. IsMain(main') /\ main'.rowgroup_ctr = last /\ main'.cur_iMCU_row = n /\ main'.suspended = FALSE
  <2>1. IsMain(main) BY DEF Counted
  <2>2. main' = [main EXCEPT !.rowgroup_ctr = last, !.buffer = data] BY <1>1
  <2>. HIDE DEF last, data
  <2>3. main' = [cur_iMCU_row |-> n, rowgroup_ctr |-> last, suspended |-> FALSE, buffer |-> data]
    BY <1>2, <2>1, <2>2 DEF IsMain
  <2>. QED BY <2>3 DEF IsMain
<1>7. call'.pc = "main" /\ call'.ctr = ctr + m /\ call'.rows = rows BY <1>1 DEF Calls
<1>. HIDE DEF full, buf, read, data, buffer
<1>8. m \in Nat /\ m + b <= V /\ m <= rows - ctr /\ m <= t
  <2>1. V - b \in Int /\ rows - ctr \in Int /\ V - b > 0 /\ rows - ctr > 0 BY <1>2, <1>3
  <2>2. m \in Int /\ m <= V - b /\ m <= rows - ctr /\ m \in {V - b, rows - ctr} BY <2>1, AtMostIs
  <2>. HIDE DEF m, V, b, rows, ctr, s, h, t
  <2>. QED BY <1>2, <1>3, <2>1, <2>2
<1>9. t > 0 /\ ctr + m \in Nat /\ t - m \in Nat /\ s + (ctr + m) + (t - m) = h /\ ctr + m <= rows
  <2>. HIDE DEF m, V, b, rows, ctr, s, h, t
  <2>. QED BY <1>2, <1>3, <1>8
<1>10. /\ last \in 0 .. DCTSIZE /\ row \in Nat /\ row < V
       /\ t - m > 0 => (n * DCTSIZE + last) * V + row = h - (t - m)
       /\ t - m = 0 => last = DCTSIZE /\ (n * DCTSIZE + last) * V >= h
  <2>1. groups = (IF full THEN q + 1 ELSE q) /\ row = (IF full THEN 0 ELSE b + m)
        /\ last = (IF t - m = 0 /\ groups < DCTSIZE THEN DCTSIZE ELSE groups)
    OBVIOUS
  <2>. HIDE DEF m, V, b, rows, ctr, s, h, t, q, n, groups, row, last
  <2>2. q \in Nat /\ (n * DCTSIZE + q) * V + b = h - t BY <1>2, <1>9, BlockAssumption
  <2>. QED BY <1>2, <1>3, <1>4, <1>8, <1>9, <2>1, <2>2, GroupsCounted
<1>11. cinfo' = cinfo /\ geom' = geom /\ next_scanline' = s /\ ~need_context_rows(cinfo') BY <1>1
<1> DEFINE P == prep'
           M == main'
           im == cinfo'
<1>12. RowsCounted(im, geom, s, "main", ctr + m, rows, P, M)
  <2>1. im.image_height = h /\ ~need_context_rows(im) /\ P.rows_to_go = t - m /\ P.next_buf_row = row
        /\ M.rowgroup_ctr = last /\ M.cur_iMCU_row = n /\ M.suspended = FALSE
    BY <1>5, <1>6, <1>11
  <2>. HIDE DEF P, M, im, m, b, rows, ctr, s, h, t, q, n, row, last
  <2>. QED BY <1>2, <1>3, <1>9, <1>10, <2>1 DEF RowsCounted
<1>. QED BY <1>5, <1>6, <1>7, <1>11, <1>12 DEF Counted

LEMMA PreparedContext ==
  ASSUME Calls, GeometryIs(cinfo, geom), Counted, call.pc = "main", main.rowgroup_ctr < DCTSIZE,
         UNCHANGED <<cinfo, geom, next_scanline>>, pre_process_context
  PROVE  Counted' /\ call'.pc = "main" /\ main'.cur_iMCU_row = main.cur_iMCU_row
<1> DEFINE V == geom.max_v
           h == cinfo.image_height
           t == prep.rows_to_go
           b == prep.next_buf_row
           e == prep.next_buf_stop
           q == main.rowgroup_ctr
           ctr == call.ctr
           rows == call.rows
           s == next_scanline
           m == AtMost(e - b, rows - ctr)
           reads == ctr < rows
           read == color_convert(prep.color_buf, s + ctr, m)
           topped == IF t = h THEN TopEdge(read) ELSE read
           buf == IF reads THEN topped ELSE expand_bottom_edge(prep.color_buf, b, e)
           row == IF reads THEN b + m ELSE e
           full == row = e
           next == IF row >= buf_height THEN 0 ELSE row
           this == prep.this_row_group + V
           u == IF reads THEN t - m ELSE t
           k == IF full THEN next ELSE row
           j == IF full THEN next + V ELSE e
           w == IF ~full THEN prep.this_row_group ELSE IF this >= buf_height THEN 0 ELSE this
           c == IF reads THEN ctr + m ELSE ctr
           data == AddGroup(main.buffer, downsample(buf, prep.this_row_group))
<1>1. /\ need_context_rows(cinfo) /\ (reads \/ t = 0)
      /\ call' = IF reads THEN [call EXCEPT !.ctr = @ + m] ELSE call
      /\ prep' = [prep EXCEPT !.rows_to_go = u, !.color_buf = buf, !.next_buf_row = k,
                              !.next_buf_stop = j, !.this_row_group = w]
      /\ main' = IF ~full THEN main
                 ELSE [main EXCEPT !.rowgroup_ctr = @ + 1,
                                   !.buffer = AddGroup(@, downsample(buf, prep.this_row_group))]
  <2>1. IsPrep(prep) BY DEF Counted
  <2>2. /\ need_context_rows(cinfo) /\ (reads \/ t = 0)
        /\ call' = IF reads THEN [call EXCEPT !.ctr = @ + m] ELSE call
        /\ main' = IF ~full THEN main
                   ELSE [main EXCEPT !.rowgroup_ctr = @ + 1,
                                     !.buffer = AddGroup(@, downsample(buf, prep.this_row_group))]
        /\ prep' = [prep EXCEPT
             !.rows_to_go = IF reads THEN @ - m ELSE @, !.color_buf = buf,
             !.next_buf_row = IF full THEN next ELSE row,
             !.next_buf_stop = IF full THEN next + V ELSE @,
             !.this_row_group = IF ~full THEN @ ELSE IF this >= buf_height THEN 0 ELSE this]
    BY Zenon DEF pre_process_context
  <2>3. prep' = [prep EXCEPT !.rows_to_go = u, !.color_buf = buf, !.next_buf_row = k,
                             !.next_buf_stop = j, !.this_row_group = w]
    <3> DEFINE x1 == next + V
               x2 == IF this >= buf_height THEN 0 ELSE this
               x3 == t - m
    <3>1. prep' = [prep EXCEPT
             !.rows_to_go = IF reads THEN x3 ELSE @, !.color_buf = buf,
             !.next_buf_row = IF full THEN next ELSE row,
             !.next_buf_stop = IF full THEN x1 ELSE @,
             !.this_row_group = IF ~full THEN @ ELSE x2]
      BY <2>2, Zenon
    <3>2. u = (IF reads THEN x3 ELSE t) /\ k = (IF full THEN next ELSE row) /\ j = (IF full THEN x1 ELSE e)
          /\ w = (IF ~full THEN prep.this_row_group ELSE x2)
      OBVIOUS
    <3>3. reads \in BOOLEAN /\ full \in BOOLEAN OBVIOUS
    <3>. HIDE DEF x1, x2, x3, reads, full, buf, next, row, u, k, j, w
    <3>. QED BY <2>1, <3>1, <3>2, <3>3 DEF IsPrep
  <2>. HIDE DEF full, buf, m, u, k, j, w, reads
  <2>. QED BY <2>2, <2>3
<1>2. /\ main.suspended = FALSE /\ main.cur_iMCU_row \in Nat /\ q \in 0 .. DCTSIZE /\ q < DCTSIZE
      /\ t \in Nat /\ b \in Nat /\ e \in Nat /\ b <= e
      /\ s \in Nat /\ ctr \in Nat /\ rows \in Nat /\ ctr <= rows
      /\ s + ctr + t = h /\ s + rows <= h
  BY <1>1 DEF Counted, RowsCounted
<1>3. V \in Nat /\ V > 0 /\ h \in Nat /\ DCTSIZE \in Nat BY BlockAssumption DEF GeometryIs
<1>4. /\ IsPrep(prep') /\ prep'.rows_to_go = u /\ prep'.next_buf_row = k /\ prep'.next_buf_stop = j
  <2>1. IsPrep(prep) BY DEF Counted
  <2>2. prep' = [prep EXCEPT !.rows_to_go = u, !.color_buf = buf, !.next_buf_row = k,
                             !.next_buf_stop = j, !.this_row_group = w]
    BY <1>1
  <2>. HIDE DEF u, buf, k, j, w
  <2>3. prep' = [rows_to_go |-> u, next_buf_row |-> k, this_row_group |-> w,
                 next_buf_stop |-> j, color_buf |-> buf]
    BY <2>1, <2>2 DEF IsPrep
  <2>. QED BY <2>3 DEF IsPrep
<1>5. IsMain(main') /\ main'.rowgroup_ctr \in 0 .. DCTSIZE /\ main'.cur_iMCU_row = main.cur_iMCU_row
      /\ main'.suspended = FALSE
  <2>1. IsMain(main) BY DEF Counted
  <2>2. main' = main \/ main' = [main EXCEPT !.rowgroup_ctr = @ + 1, !.buffer = data] BY <1>1
  <2> DEFINE q1 == q + 1
  <2>3. q1 \in 0 .. DCTSIZE BY <1>2, <1>3
  <2>. HIDE DEF data, q1
  <2>4. main' = main \/ main' = [cur_iMCU_row |-> main.cur_iMCU_row, rowgroup_ctr |-> q1, suspended |-> FALSE, buffer |-> data]
    BY <1>2, <2>1, <2>2 DEF IsMain, q1
  <2>5. CASE main' = main BY <1>2, <2>1, <2>5
  <2>6. CASE main' # main BY <2>3, <2>4, <2>6 DEF IsMain
  <2>. QED BY <2>5, <2>6
<1>6. call'.pc = "main" /\ call'.ctr = c /\ call'.rows = rows BY <1>1 DEF Calls
<1>7. next \in {0, row} /\ (full <=> row = e) OBVIOUS
<1>. HIDE DEF buf, read, topped, data, next, w, full, this
<1>8. CASE reads
  <2>1. e - b \in Int /\ rows - ctr \in Int /\ e - b >= 0 /\ rows - ctr > 0 BY <1>2, <1>8
  <2>2. m \in Int /\ m <= e - b /\ m <= rows - ctr /\ m \in {e - b, rows - ctr} BY <2>1, AtMostIs
  <2>3. row = b + m /\ u = t - m /\ c = ctr + m BY <1>8
  <2>. HIDE DEF m, V, b, rows, ctr, s, h, t, e, u, c, row, reads
  <2>4. m \in Nat /\ u \in Nat /\ c \in Nat /\ c <= rows /\ s + c + u = h /\ row \in Nat /\ row <= e
    BY <1>2, <1>3, <2>1, <2>2, <2>3
  <2>5. k \in Nat /\ j \in Nat /\ k <= j BY <1>2, <1>3, <1>7, <2>4
  <2>6. cinfo' = cinfo /\ geom' = geom /\ next_scanline' = s /\ need_context_rows(cinfo') BY <1>1 DEF s
  <2> DEFINE P == prep'
             M == main'
             im == cinfo'
  <2>7. RowsCounted(im, geom, s, "main", c, rows, P, M)
    <3>1. im.image_height = h /\ need_context_rows(im) /\ P.rows_to_go = u /\ P.next_buf_row = k
          /\ P.next_buf_stop = j /\ M.rowgroup_ctr \in 0 .. DCTSIZE /\ M.cur_iMCU_row \in Nat /\ M.suspended = FALSE
      BY <1>2, <1>4, <1>5, <2>6 DEF h
    <3>. HIDE DEF P, M, im, k, j
    <3>. QED BY <1>2, <2>4, <2>5, <3>1 DEF RowsCounted
  <2>. QED BY <1>4, <1>5, <1>6, <2>6, <2>7 DEF Counted
<1>9. CASE ~reads
  <2>1. row = e /\ u = t /\ c = ctr BY <1>9
  <2>. HIDE DEF m, V, b, rows, ctr, s, h, t, e, u, c, row, reads
  <2>5. k \in Nat /\ j \in Nat /\ k <= j BY <1>2, <1>3, <1>7, <2>1
  <2>6. cinfo' = cinfo /\ geom' = geom /\ next_scanline' = s /\ need_context_rows(cinfo') BY <1>1 DEF s
  <2> DEFINE P == prep'
             M == main'
             im == cinfo'
  <2>7. RowsCounted(im, geom, s, "main", c, rows, P, M)
    <3>1. im.image_height = h /\ need_context_rows(im) /\ P.rows_to_go = u /\ P.next_buf_row = k
          /\ P.next_buf_stop = j /\ M.rowgroup_ctr \in 0 .. DCTSIZE /\ M.cur_iMCU_row \in Nat /\ M.suspended = FALSE
      BY <1>2, <1>4, <1>5, <2>6 DEF h
    <3>. HIDE DEF P, M, im, k, j
    <3>. QED BY <1>2, <2>1, <2>5, <3>1 DEF RowsCounted
  <2>. QED BY <1>4, <1>5, <1>6, <2>6, <2>7 DEF Counted
<1>. QED BY <1>8, <1>9

Advanced(m) ==
  [m EXCEPT !.suspended = FALSE, !.rowgroup_ctr = 0, !.cur_iMCU_row = @ + 1,
            !.buffer = [c \in DOMAIN @ |-> <<>>]]
LEMMA MainAdvanced ==
  ASSUME NEW m, IsMain(m), NEW l, l = Advanced(m)
  PROVE  IsMain(l) /\ l.rowgroup_ctr = 0 /\ l.cur_iMCU_row = m.cur_iMCU_row + 1 /\ l.suspended = FALSE
<1> DEFINE n1 == m.cur_iMCU_row + 1
           data == [c \in DOMAIN m.buffer |-> <<>>]
<1>1. l = [m EXCEPT !.suspended = FALSE, !.rowgroup_ctr = 0, !.cur_iMCU_row = n1, !.buffer = data]
  BY DEF Advanced
<1>. HIDE DEF n1, data
<1>2. l = [cur_iMCU_row |-> n1, rowgroup_ctr |-> 0, suspended |-> FALSE, buffer |-> data] BY <1>1 DEF IsMain
<1>3. l.cur_iMCU_row = n1 /\ l.rowgroup_ctr = 0 /\ l.suspended = FALSE /\ l.buffer = data BY <1>2
<1>4. IsMain(l) BY <1>2, <1>3 DEF IsMain
<1>. QED BY <1>3, <1>4 DEF n1

(* A row of iMCUs was coded; the call goes on.                               *)
LEMMA RowCounted ==
  ASSUME Calls, GeometryIs(cinfo, geom), Counted, call.pc = "coef", UNCHANGED <<cinfo, geom, next_scanline, prep>>,
         main' = Advanced(main),
         call' = [call EXCEPT !.pc = "main", !.data = <<>>, !.ctr = IF main.suspended THEN @ + 1 ELSE @]
  PROVE  Counted' /\ main'.cur_iMCU_row = main.cur_iMCU_row + 1
<1> DEFINE V == geom.max_v
           h == cinfo.image_height
           t == prep.rows_to_go
           b == prep.next_buf_row
           q == main.rowgroup_ctr
           n == main.cur_iMCU_row
           D == DCTSIZE
           n1 == n + 1
           data == [c \in DOMAIN main.buffer |-> <<>>]
<1>1. IsMain(main) /\ main.suspended = FALSE /\ n \in Nat /\ q \in 0 .. D /\ b \in Nat /\ t \in Nat
  BY DEF Counted, RowsCounted, IsPrep
<1>2. V \in Nat /\ V > 0 /\ h \in Nat /\ D \in Nat BY BlockAssumption DEF GeometryIs
<1>3. IsMain(main') /\ main'.rowgroup_ctr = 0 /\ main'.cur_iMCU_row = n1 /\ main'.suspended = FALSE
  BY <1>1, MainAdvanced
<1>4. call'.pc = "main" /\ call'.ctr = call.ctr /\ call'.rows = call.rows BY <1>1 DEF Calls
<1>5. ASSUME ~need_context_rows(cinfo) PROVE (n1 * D + 0) * V = (n * D + q) * V
  <2>1. q = D BY <1>5 DEF Counted, RowsCounted
  <2>2. n1 * D = n * D + 1 * D BY <1>1, <1>2, Products, SMTT(30)
  <2>3. n1 * D + 0 = n * D + q
    <3>. HIDE DEF n1
    <3>. QED BY <1>1, <1>2, <2>1, <2>2
  <2>. QED BY <2>3
<1>6. /\ 0 \in 0 .. D /\ n1 \in Nat /\ 0 \in {0, D} BY <1>1, <1>2
<1> DEFINE im == cinfo'
           P == prep'
           M == main'
           s == next_scanline
           ctr == call.ctr
           rows == call.rows
<1>7. /\ s \in Nat /\ ctr \in Nat /\ rows \in Nat /\ ctr <= rows /\ s + ctr + t = h /\ s + rows <= h
      /\ need_context_rows(cinfo) => prep.next_buf_stop \in Nat /\ prep.next_buf_row <= prep.next_buf_stop
      /\ ~need_context_rows(cinfo) =>
           /\ b < V
           /\ t > 0 => (n * D + q) * V + b = h - t
           /\ t = 0 => (n * D + q) * V >= h
  BY DEF Counted, RowsCounted
<1>8. im = cinfo /\ P = prep /\ M.rowgroup_ctr = 0 /\ M.cur_iMCU_row = n1 /\ M.suspended = FALSE BY <1>3
<1>9. RowsCounted(im, geom, s, "main", ctr, rows, P, M)
  <2> DEFINE x == (n1 * D + 0) * V
             y == (n * D + q) * V
  <2>1. ~need_context_rows(cinfo) =>
           /\ b < V
           /\ t > 0 => x + b = h - t
           /\ t = 0 => x >= h
    <3>1. ~need_context_rows(cinfo) => x = y BY <1>5
    <3>. HIDE DEF x
    <3>. QED BY <1>7, <3>1
  <2>. HIDE DEF P, M, im, s, ctr, rows, n1
  <2>. QED BY <1>1, <1>6, <1>7, <1>8, <2>1 DEF RowsCounted
<1>10. Counted'
  <2>1. IsPrep(prep') BY DEF Counted
  <2>2. RowsCounted(cinfo', geom', next_scanline', "main", ctr, rows, prep', main') BY <1>9
  <2>. HIDE DEF ctr, rows
  <2>. QED BY <1>3, <1>4, <2>1, <2>2 DEF Counted, ctr, rows
<1>. QED BY <1>3, <1>10

LEMMA RowsCountedOn ==
  ASSUME Calls, Begun, Controller, RowsGathered, Within, InPass, call.pc \in {"app", "main", "coef"}, entropy.gather
  PROVE  /\ GeometryIs(cinfo, geom) /\ next_scanline \in Nat
         /\ global_state = "RAW_OK" => next_scanline = coef.iMCU_row_num * (geom.max_v * DCTSIZE)
         /\ global_state = "SCANNING" => Counted /\ main.cur_iMCU_row = coef.iMCU_row_num
<1>1. Running BY StepWithin
<1>. QED BY <1>1, RunningGeometry DEF RowsGathered, Counted

LEMMA StillCounted ==
  ASSUME Within, Calls, next_scanline' \in Nat,
         global_state = "RAW_OK" => next_scanline' = coef'.iMCU_row_num * (geom.max_v * DCTSIZE),
         global_state = "SCANNING" => Counted' /\ main'.cur_iMCU_row = coef'.iMCU_row_num
  PROVE  RowsGathered'
<1>1. global_state' = global_state /\ geom' = geom BY StepWithin
<1>. QED BY <1>1 DEF RowsGathered, Counted

(* A call begins: n rows of the image, or the rows of the application's own.  *)
LEMMA CallCounted ==
  ASSUME Counted, Calls, GeometryIs(cinfo, geom), UNCHANGED <<cinfo, geom, next_scanline, prep, main>>,
         \/ call.pc = "app" /\ call'.pc = "main" /\ call'.ctr = 0 /\ call'.rows \in Nat
            /\ next_scanline + call'.rows <= cinfo.image_height
         \/ call.pc = "main" /\ call'.pc = "coef" /\ call'.ctr = call.ctr /\ call'.rows = call.rows
            /\ main.rowgroup_ctr = DCTSIZE
         \/ call.pc = "coef" /\ call'.pc = "coef" /\ call'.ctr = call.ctr /\ call'.rows = call.rows
         \/ call.pc = "app" /\ call' = call
  PROVE  Counted'
<1> DEFINE s == next_scanline
           M == main
           P == prep
           im == cinfo
           c == call'
           ctr == call.ctr
           rows == call.rows
<1>1. IsMain(M) /\ IsPrep(P) /\ RowsCounted(im, geom, s, call.pc, ctr, rows, P, M) BY DEF Counted
<1>2. DCTSIZE \in Nat BY BlockAssumption
<1>3. RowsCounted(im, geom, s, c.pc, c.ctr, c.rows, P, M)
  <2>1. CASE call.pc = "app" /\ c.pc = "main" /\ c.ctr = 0 /\ c.rows \in Nat /\ s + c.rows <= im.image_height
    <3>1. ctr = 0 BY <1>1, <2>1 DEF RowsCounted
    <3>. HIDE DEF M, P, im, s, c, ctr, rows
    <3>. QED BY <1>1, <2>1, <3>1 DEF RowsCounted
  <2>2. CASE call.pc = "main" /\ c.pc = "coef" /\ c.ctr = ctr /\ c.rows = rows /\ M.rowgroup_ctr = DCTSIZE
    <3>. HIDE DEF M, P, im, s, c, ctr, rows
    <3>. QED BY <1>1, <2>2 DEF RowsCounted
  <2>3. CASE c.pc = call.pc /\ c.ctr = ctr /\ c.rows = rows
    <3>. HIDE DEF M, P, im, s, c, ctr, rows
    <3>. QED BY <1>1, <2>3
  <2>. QED BY <2>1, <2>2, <2>3
<1>. QED BY <1>1, <1>3 DEF Counted

LEMMA RowsGatheredStep ==
  ASSUME Calls, Begun, Passes, Coder, Waits, Controller, RowsGathered, [Next]_vars PROVE RowsGathered'
<1>1. CASE Within
  <2>0. Running /\ UNCHANGED <<cinfo, global_state, geom>> BY <1>1, StepWithin
  <2>. SUFFICES ASSUME InPass', entropy'.gather, call'.pc \in {"app", "main", "coef"} PROVE RowsGathered'
    BY DEF RowsGathered
  <2>1. failed' = NoError BY DEF InPass, Running
  <2>2. ASSUME NEW next, StartOutput(next) PROVE call' = next
    <3>1. failed = NoError BY <2>0 DEF Running
    <3>. QED BY <2>1, <2>2, <3>1, OutputStarted
  <2>3. ASSUME NEW n \in 1 .. 3, jpeg_write_scanlines(n) PROVE RowsGathered'
    <3> DEFINE k == AtMost(n, cinfo.image_height - next_scanline)
               next == [NoCall EXCEPT !.pc = "main", !.rows = k]
    <3>1. StartOutput(next) /\ UNCHANGED <<next_scanline, prep, main, coef, entropy>>
          /\ global_state = "SCANNING" /\ call.pc = "app" /\ next_scanline < cinfo.image_height
      BY <2>3 DEF jpeg_write_scanlines, Idle
    <3>2. next.pc = "main" /\ next.rows = k /\ next.ctr = 0
      <4>. HIDE DEF k
      <4>. QED BY DEF NoCall
    <3>3. InPass BY <2>0, <3>1 DEF InPass
    <3>. HIDE DEF InPass
    <3>4. /\ GeometryIs(cinfo, geom) /\ next_scanline \in Nat /\ Counted /\ main.cur_iMCU_row = coef.iMCU_row_num
      BY <1>1, <3>1, <3>3, RowsCountedOn
    <3>5. call' = next BY <2>2, <3>1
    <3>6. k \in Nat /\ next_scanline + k <= cinfo.image_height
      <4> DEFINE h == cinfo.image_height
                 s == next_scanline
                 l == h - s
      <4>1. h \in Nat /\ s \in Nat /\ s < h /\ l \in Int /\ l > 0 BY <3>1, <3>4 DEF GeometryIs
      <4>2. n \in Int /\ n > 0 OBVIOUS
      <4>. HIDE DEF l
      <4>3. k \in Int /\ k <= l /\ k \in {n, l} BY <4>1, <4>2, AtMostIs DEF l
      <4>. HIDE DEF k, h, s
      <4>4. k \in Nat /\ s + k <= h BY <4>1, <4>2, <4>3 DEF l
      <4>. QED BY <4>4 DEF h, s
    <3>. HIDE DEF next, k
    <3>7. Counted' BY <2>0, <3>1, <3>2, <3>4, <3>5, <3>6, CallCounted
    <3>. QED BY <1>1, <3>1, <3>4, <3>7, StillCounted
  <2>4. CASE jpeg_write_raw_data
    <3>1. UNCHANGED <<entropy, next_scanline>> /\ global_state = "RAW_OK" /\ call.pc = "app"
          /\ coef' = IF coef.mode = "SAVE_AND_PASS" THEN Stored(RawRows) ELSE coef
      BY <2>4 DEF jpeg_write_raw_data, Idle
    <3>2. InPass BY <2>0, <3>1 DEF InPass
    <3> DEFINE data == RawRows
    <3>3. coef' = IF coef.mode = "SAVE_AND_PASS" THEN Stored(data) ELSE coef BY <3>1
    <3>. HIDE DEF InPass, data
    <3>4. next_scanline \in Nat /\ next_scanline = coef.iMCU_row_num * (geom.max_v * DCTSIZE)
      BY <1>1, <3>1, <3>2, RowsCountedOn
    <3>5. coef'.iMCU_row_num = coef.iMCU_row_num
      <4>1. IsCoef(coef) BY <2>0 DEF Controller, IsCoef
      <4>. QED BY <3>3, <4>1, StoredRows DEF SameBut
    <3>. QED BY <1>1, <3>1, <3>4, <3>5, StillCounted
  <2>5. CASE jpeg_write_marker
    <3>1. UNCHANGED <<next_scanline, prep, main, coef, entropy, call>> /\ call.pc = "app"
      BY <2>5 DEF jpeg_write_marker, control, Idle
    <3>2. InPass BY <2>0, <3>1 DEF InPass
    <3>. HIDE DEF InPass
    <3>3. /\ GeometryIs(cinfo, geom) /\ next_scanline \in Nat
          /\ global_state = "RAW_OK" => next_scanline = coef.iMCU_row_num * (geom.max_v * DCTSIZE)
          /\ global_state = "SCANNING" => Counted /\ main.cur_iMCU_row = coef.iMCU_row_num
      BY <1>1, <3>1, <3>2, RowsCountedOn
    <3>4. Counted => Counted' BY <2>0, <3>1, <3>3, CallCounted
    <3>. QED BY <1>1, <3>1, <3>3, <3>4, StillCounted
  <2>6. CASE jpeg_finish_compress
    <3>1. (call' = NoCall /\ failed' # NoError) \/ call'.pc \in {"next_pass", "finish_pass"}
      BY <2>6, CallShapes DEF jpeg_finish_compress, Fail, NoError
    <3>. QED BY <2>1, <3>1
  <2>7. CASE PreProcess
    <3>1. /\ UNCHANGED <<next_scanline, coef, entropy>> /\ call.pc = "main" /\ global_state = "SCANNING"
          /\ main.cur_iMCU_row < geom.total_iMCU_rows /\ main.rowgroup_ctr < DCTSIZE
          /\ pre_process_data \/ pre_process_context
      BY <2>7 DEF PreProcess, Calls
    <3>2. InPass BY <2>0, <3>1 DEF InPass
    <3>. HIDE DEF InPass
    <3>3. /\ GeometryIs(cinfo, geom) /\ next_scanline \in Nat /\ Counted /\ main.cur_iMCU_row = coef.iMCU_row_num
      BY <1>1, <3>1, <3>2, RowsCountedOn
    <3>4. Counted' /\ main'.cur_iMCU_row = main.cur_iMCU_row
      <4>1. CASE pre_process_data
        <5>. HIDE DEF pre_process_data
        <5>. QED BY <2>0, <3>1, <3>3, <4>1, PreparedData
      <4>2. CASE pre_process_context
        <5>. HIDE DEF pre_process_context
        <5>. QED BY <2>0, <3>1, <3>3, <4>2, PreparedContext
      <4>. QED BY <3>1, <4>1, <4>2
    <3>. QED BY <1>1, <3>1, <3>3, <3>4, StillCounted
  <2>8. CASE ReturnRows
    <3>0. /\ call.pc = "main"
          /\ main.cur_iMCU_row = geom.total_iMCU_rows \/ (main.rowgroup_ctr < DCTSIZE /\ ~CanPrepare)
          /\ next_scanline' = next_scanline + call.ctr /\ call' = NoCall
          /\ UNCHANGED <<cinfo, geom, prep, main, coef, entropy>>
      BY <2>8 DEF ReturnRows, Returns, control
    <3>1. /\ UNCHANGED <<cinfo, geom, prep, main, coef, entropy>> /\ call.pc = "main" /\ global_state = "SCANNING"
          /\ next_scanline' = next_scanline + call.ctr /\ call' = NoCall
          /\ \/ main.cur_iMCU_row = geom.total_iMCU_rows
             \/ main.rowgroup_ctr < DCTSIZE /\ ~(need_context_rows(cinfo) /\ prep.rows_to_go = 0)
      <4>1. ~CanPrepare => ~(need_context_rows(cinfo) /\ prep.rows_to_go = 0) BY Zenon DEF CanPrepare
      <4>2. global_state = "SCANNING" BY <3>0 DEF Calls
      <4>. QED BY <3>0, <4>1, <4>2, Zenon
    <3>2. InPass BY <2>0, <3>1 DEF InPass
    <3>. HIDE DEF InPass
    <3>3. /\ GeometryIs(cinfo, geom) /\ next_scanline \in Nat /\ Counted /\ main.cur_iMCU_row = coef.iMCU_row_num
      BY <1>1, <3>1, <3>2, RowsCountedOn
    <3> DEFINE s == next_scanline
               ctr == call.ctr
               P == prep
               M == main
               s1 == s + ctr
    <3>4. IsMain(M) /\ IsPrep(P) /\ RowsCounted(cinfo, geom, s, "main", ctr, call.rows, P, M) BY <3>1, <3>3 DEF Counted
    <3>5. cinfo.image_height \in Nat BY <3>3 DEF GeometryIs
    <3>6. s1 \in Nat /\ RowsCounted(cinfo, geom, s1, "app", 0, 0, P, M)
      <4> DEFINE h == cinfo.image_height
                 t == P.rows_to_go
                 rows == call.rows
      <4>1. s \in Nat /\ ctr \in Nat /\ rows \in Nat /\ ctr <= rows /\ s + ctr + t = h /\ s + rows <= h /\ t \in Nat
        BY <3>4 DEF RowsCounted
      <4>2. s1 \in Nat /\ s1 + 0 + t = h /\ s1 + 0 <= h
        <5>. HIDE DEF s, ctr, t, h, rows
        <5>. QED BY <3>5, <4>1 DEF h
      <4>. HIDE DEF s, s1, ctr, P, M
      <4>. QED BY <3>1, <3>4, <4>2 DEF RowsCounted, P, M
    <3>7. next_scanline' = s1 /\ call'.pc = "app" /\ call'.ctr = 0 /\ call'.rows = 0 BY <3>1, CallShapes
    <3>8. Counted'
      <4>. HIDE DEF s1
      <4>. QED BY <3>1, <3>4, <3>6, <3>7 DEF Counted
    <3>. QED BY <1>1, <3>1, <3>3, <3>6, <3>7, <3>8, StillCounted
  <2>9. CASE PassRow
    <3> DEFINE data == main.buffer
    <3>1. UNCHANGED <<next_scanline, prep, main, entropy>> /\ call.pc = "main" /\ global_state = "SCANNING"
          /\ main.rowgroup_ctr = DCTSIZE
          /\ call'.pc = "coef" /\ call'.ctr = call.ctr /\ call'.rows = call.rows
          /\ coef' = IF coef.mode = "SAVE_AND_PASS" THEN Stored(data) ELSE coef
      BY <2>9 DEF PassRow, Calls
    <3>2. InPass BY <2>0, <3>1 DEF InPass
    <3>. HIDE DEF InPass, data
    <3>3. /\ GeometryIs(cinfo, geom) /\ next_scanline \in Nat /\ Counted /\ main.cur_iMCU_row = coef.iMCU_row_num
      BY <1>1, <3>1, <3>2, RowsCountedOn
    <3>4. Counted' BY <2>0, <3>1, <3>3, CallCounted
    <3>5. coef'.iMCU_row_num = coef.iMCU_row_num
      <4>1. IsCoef(coef) BY <2>0 DEF Controller, IsCoef
      <4>. QED BY <3>1, <4>1, StoredRows DEF SameBut
    <3>. QED BY <1>1, <3>1, <3>3, <3>4, <3>5, StillCounted
  <2>10. CASE EncodeMCU
    <3>1. /\ UNCHANGED <<next_scanline, prep, main>> /\ Coding /\ NextMCU BY <2>1, <2>10 DEF EncodeMCU
    <3>2. call'.pc = call.pc /\ call'.ctr = call.ctr /\ call'.rows = call.rows
          /\ coef'.iMCU_row_num = coef.iMCU_row_num
      BY <2>0, <3>1 DEF NextMCU, Calls, Controller
    <3>3. call.pc = "coef" BY <3>1, <3>2 DEF Coding
    <3>4. InPass /\ entropy.gather
      <4>1. InPass BY <2>0, <3>3 DEF InPass
      <4>2. IsCoder(entropy) /\ failed = NoError BY <2>0, <4>1 DEF Coder, IsCoder, Running
      <4>. QED BY <2>10, <4>1, <4>2, CoderAfterMCU
    <3>. HIDE DEF InPass
    <3>5. /\ GeometryIs(cinfo, geom) /\ next_scanline \in Nat
          /\ global_state = "RAW_OK" => next_scanline = coef.iMCU_row_num * (geom.max_v * DCTSIZE)
          /\ global_state = "SCANNING" => Counted /\ main.cur_iMCU_row = coef.iMCU_row_num
      BY <1>1, <3>3, <3>4, RowsCountedOn
    <3>6. Counted => Counted' BY <2>0, <3>1, <3>2, <3>3, <3>5, CallCounted
    <3>. QED BY <1>1, <3>1, <3>2, <3>5, <3>6, StillCounted
  <2>11. CASE FinishRow
    <3> DEFINE r == coef.iMCU_row_num
    <3>1. /\ UNCHANGED <<entropy, prep>> /\ Coding /\ coef' = start_iMCU_row(coef, scan, geom, r + 1)
          /\ \/ call.pc = "crank" /\ call' = [NoCall EXCEPT !.pc = "finish_pass"]
             \/ call.pc = "crank" /\ call' = [call EXCEPT !.row = 0, !.col = 0]
             \/ call.pc = "coef" /\ cinfo.raw_data_in /\ call' = NoCall
                /\ next_scanline' = next_scanline + lines_per_iMCU_row
             \/ call.pc = "coef" /\ ~cinfo.raw_data_in /\ next_scanline' = next_scanline
                /\ main' = Advanced(main)
                /\ call' = [call EXCEPT !.pc = "main", !.data = <<>>, !.ctr = IF main.suspended THEN @ + 1 ELSE @]
      BY <2>11 DEF FinishRow, Coding, Advanced
    <3>2. call.pc = "coef"
      <4>1. CASE call.pc = "crank" /\ call' = [NoCall EXCEPT !.pc = "finish_pass"] BY <4>1, CallShapes
      <4>2. CASE call.pc = "crank" /\ call' = [call EXCEPT !.row = 0, !.col = 0] BY <4>2 DEF Calls
      <4>. QED BY <3>1, <4>1, <4>2
    <3>3. InPass BY <2>0, <3>2 DEF InPass
    <3>4. r \in Nat /\ IsCoef(coef) BY <2>0 DEF Controller, IsCoef
    <3>5. coef'.iMCU_row_num = r + 1 BY <3>1, <3>4, RowStarted DEF AtRow
    <3>6. (global_state = "RAW_OK" => cinfo.raw_data_in) /\ (global_state = "SCANNING" => ~cinfo.raw_data_in)
      BY <2>0 DEF Begun, Running
    <3>. HIDE DEF InPass
    <3>7. /\ GeometryIs(cinfo, geom) /\ next_scanline \in Nat
          /\ global_state = "RAW_OK" => next_scanline = coef.iMCU_row_num * (geom.max_v * DCTSIZE)
          /\ global_state = "SCANNING" => Counted /\ main.cur_iMCU_row = coef.iMCU_row_num
      BY <1>1, <3>1, <3>2, <3>3, RowsCountedOn
    <3>8. global_state \in {"SCANNING", "RAW_OK"} BY <3>2 DEF Calls
    <3>9. CASE global_state = "RAW_OK"
      <4> DEFINE L == geom.max_v * DCTSIZE
                 s == next_scanline
      <4>1. L \in Nat /\ s = r * L /\ s \in Nat BY <3>7, <3>9 DEF GeometryIs
      <4>2. next_scanline' = s + L BY <3>1, <3>2, <3>6, <3>9 DEF lines_per_iMCU_row
      <4>3. (r + 1) * L = r * L + 1 * L /\ r * L \in Int
        <5>. HIDE DEF L, r
        <5>. QED BY <3>4, <4>1, Products
      <4>4. s + L \in Nat /\ s + L = (r + 1) * L
        <5>. HIDE DEF L, r, s
        <5>. QED BY <4>1, <4>3
      <4>5. next_scanline' = coef'.iMCU_row_num * L /\ next_scanline' \in Nat
        <5>. HIDE DEF L, r, s
        <5>. QED BY <3>5, <4>2, <4>4
      <4>. QED BY <1>1, <3>9, <4>5, StillCounted
    <3>10. CASE global_state = "SCANNING"
      <4>1. /\ next_scanline' = next_scanline /\ main' = Advanced(main)
            /\ call' = [call EXCEPT !.pc = "main", !.data = <<>>, !.ctr = IF main.suspended THEN @ + 1 ELSE @]
        BY <3>1, <3>2, <3>6, <3>10
      <4>2. Counted' /\ main'.cur_iMCU_row = main.cur_iMCU_row + 1
        BY <2>0, <3>1, <3>2, <3>7, <3>10, <4>1, RowCounted
      <4>3. main'.cur_iMCU_row = coef'.iMCU_row_num BY <3>5, <3>7, <3>10, <4>2
      <4>. QED BY <1>1, <3>7, <3>10, <4>1, <4>2, <4>3, StillCounted
    <3>. QED BY <3>8, <3>9, <3>10
  <2>12. CASE RefuseMCU
    <3>1. ~entropy.gather /\ entropy' = entropy BY <2>12 DEF RefuseMCU
    <3>. QED BY <3>1
  <2>13. CASE finish_pass_master
    <3>1. call'.pc = "next_pass" BY <2>13 DEF finish_pass_master, Calls
    <3>. QED BY <3>1
  <2>14. CASE PrepareStatistics
    <3>1. (call' = NoCall /\ failed' # NoError) \/ call'.pc = "crank"
      BY <2>14, CallShapes DEF PrepareStatistics, Crank, Fail
    <3>. QED BY <2>1, <3>1
  <2>15. CASE PrepareOutput
    <3>1. (call' = NoCall /\ failed' # NoError) \/ call' = [NoCall EXCEPT !.pc = "crank"]
      BY <2>15, Zenon DEF PrepareOutput, Crank, Fail
    <3>. QED BY <2>1, <3>1, CallShapes
  <2>. QED BY <1>1, <2>3, <2>4, <2>5, <2>6, <2>7, <2>8, <2>9, <2>10, <2>11, <2>12, <2>13, <2>14, <2>15 DEF Within
<1>2. ASSUME NEW im \in Images, SetParameters(im) PROVE RowsGathered'
  BY <1>2 DEF SetParameters, MayBegin, RowsGathered, InPass, Running
<1>3. ASSUME NEW all \in BOOLEAN, jpeg_start_compress(all) PROVE RowsGathered'
  <2> DEFINE g == initial_setup(cinfo)
             sc == per_scan_setup(cinfo, g, select_scan_parameters(cinfo, 0))
             m == master_control(cinfo, FALSE)
             rows == [c \in DOMAIN cinfo.comp_info |-> <<>>]
             first == [mode |-> "", iMCU_row_num |-> 0, mcu_ctr |-> 0, MCU_vert_offset |-> 0,
                       MCU_rows_per_iMCU_row |-> 0, whole |-> rows]
             mode == IF m.total_passes > 1 THEN "SAVE_AND_PASS" ELSE "PASS_THRU"
             stop == 2 * max_v(cinfo)
  <2>1. cinfo' = cinfo /\ cinfo # NoImage /\ global_state = "START" /\ call.pc = "app"
    BY <1>3 DEF jpeg_start_compress, MayBegin, Idle
  <2>2. \/ global_state' = "START"
        \/ /\ start_error(cinfo, FALSE) = NoError
           /\ geom' = g /\ call' = call /\ next_scanline' = 0
           /\ prep' = start_pass_prep(cinfo) /\ main' = start_pass_main(cinfo)
           /\ coef' = start_pass_coef(first, sc, g, mode)
    BY <1>3, <2>1 DEF jpeg_start_compress
  <2>. SUFFICES ASSUME global_state' # "START" PROVE RowsGathered' BY DEF RowsGathered, InPass, Running
  <2>3. IsCoef(first) BY DEF IsCoef
  <2>. HIDE DEF first
  <2>4. AtRow(coef', first, sc, g, 0, mode) BY <2>2, <2>3, PassStarted
  <2>5. coef'.iMCU_row_num = 0 BY <2>4 DEF AtRow
  <2>6. WellFormed(cinfo) /\ initial_setup_error(cinfo) = NoError
    <3>1. cinfo \in Images BY <2>1 DEF Begun
    <3>2. initial_setup_error(cinfo) = NoError
      <4>1. start_error(cinfo, FALSE) = NoError BY <2>2
      <4>. QED BY <4>1, StartChecked
    <3>. QED BY <3>1, <3>2, ImagesAssumption
  <2>7. GeometryIs(cinfo, g)
    <3>1. g = initial_setup(cinfo) OBVIOUS
    <3>. HIDE DEF g
    <3>. QED BY <2>6, <3>1, Geometry
  <2>8. call' = NoCall BY <2>1, <2>2 DEF Waits
  <2>9. max_v(cinfo) = g.max_v BY DEF initial_setup
  <2> DEFINE h == cinfo.image_height
             V == g.max_v
             buffer == [c \in DOMAIN cinfo.comp_info |-> <<>>]
  <2>10. h \in Nat /\ h > 0 /\ V \in Nat /\ V > 0 /\ V * DCTSIZE \in Nat /\ DCTSIZE > 0 /\ DCTSIZE \in Nat
    BY <2>7, BlockAssumption DEF GeometryIs
  <2>11. stop \in Nat BY <2>9, <2>10
  <2>12. prep' = [rows_to_go |-> h, next_buf_row |-> 0, this_row_group |-> 0, next_buf_stop |-> stop, color_buf |-> <<>>]
    BY <2>2 DEF start_pass_prep
  <2>13. main' = [cur_iMCU_row |-> 0, rowgroup_ctr |-> 0, suspended |-> FALSE, buffer |-> buffer]
    BY <2>2 DEF start_pass_main
  <2> DEFINE P == prep'
             M == main'
  <2>. HIDE DEF stop, buffer
  <2>14. IsPrep(P) /\ P.rows_to_go = h /\ P.next_buf_row = 0 /\ P.next_buf_stop = stop BY <2>12 DEF IsPrep
  <2>15. IsMain(M) /\ M.cur_iMCU_row = 0 /\ M.rowgroup_ctr = 0 /\ M.suspended = FALSE BY <2>13 DEF IsMain
  <2>16. RowsCounted(cinfo, g, 0, "app", 0, 0, P, M)
    <3>1. (0 * DCTSIZE + 0) * V + 0 = 0 BY <2>10
    <3>2. 0 + 0 + h = h /\ 0 + 0 <= h /\ h - h = 0 /\ h # 0 BY <2>10
    <3>. HIDE DEF P, M, g
    <3>. QED BY <2>10, <2>11, <2>14, <2>15, <3>1, <3>2 DEF RowsCounted
  <2>17. 0 * (V * DCTSIZE) = 0 BY <2>10
  <2>18. /\ cinfo' = cinfo /\ geom' = g /\ next_scanline' = 0 /\ call'.pc = "app" /\ call'.ctr = 0 /\ call'.rows = 0
    BY <2>1, <2>2, <2>8, CallShapes
  <2>. HIDE DEF g
  <2>. QED BY <2>5, <2>14, <2>15, <2>16, <2>17, <2>18 DEF RowsGathered
<1>4. CASE jpeg_write_coefficients
  <2>1. global_state = "START" /\ call.pc = "app" BY <1>4 DEF jpeg_write_coefficients, MayBegin, Idle
  <2>2. global_state' = "START" \/ (global_state' = "WRCOEFS" /\ call' = call)
    BY <1>4, <2>1 DEF jpeg_write_coefficients
  <2>. QED BY <2>1, <2>2 DEF RowsGathered, InPass, Running
<1>5. CASE jpeg_abort_compress BY <1>5 DEF jpeg_abort_compress, RowsGathered, InPass, Running
<1>6. CASE jpeg_write_tables BY <1>6 DEF jpeg_write_tables, MayBegin, RowsGathered, InPass, Running
<1>7. CASE FinishImage BY <1>7 DEF FinishImage, RowsGathered, InPass, Running
<1>8. CASE UNCHANGED vars
  <2>1. UNCHANGED <<cinfo, global_state, failed, call, coef, entropy, geom, next_scanline, main, prep>>
    BY <1>8 DEF vars, control
  <2>2. InPass' <=> InPass BY <2>1 DEF InPass, Running
  <2>. HIDE DEF InPass
  <2>. QED BY <2>1, <2>2 DEF RowsGathered
<1>. QED BY <1>1, <1>2, <1>3, <1>4, <1>5, <1>6, <1>7, <1>8, Steps

-----------------------------------------------------------------------------
(* The errors of the library, none of which is that of a missing code.       *)
Missing == "HUFF_MISSING_CODE"
LEMMA CheckErrors ==
  ASSUME NEW im, NEW sc, NEW tabs, NEW flag, NEW gather
  PROVE  /\ initial_setup_error(im) # Missing /\ validate_script_error(im) # Missing
         /\ per_scan_setup_error(im, sc) # Missing /\ entropy_error(im, sc, tabs, gather) # Missing
         /\ start_error(im, flag) # Missing
<1>1. initial_setup_error(im) # Missing BY DEF initial_setup_error, Missing, NoError
<1>2. validate_script_error(im) # Missing
  <2> DEFINE bad == {n \in DOMAIN im.scan_info :
                \/ ~GoodComponents(im.scan_info[n], Len(im.comp_info))
                \/ progressive(im) /\ ~GoodProgressiveScan(im.scan_info, n)
                \/ ~progressive(im) /\ ~GoodSequentialScan(im.scan_info, n)}
             lost == \E c \in 1 .. Len(im.comp_info) : Sent(im.scan_info, Len(im.scan_info) + 1, c, 0) = {}
  <2>1. validate_script_error(im)
          = IF bad # {} THEN "BAD_SCAN_SCRIPT" ELSE IF lost THEN "MISSING_DATA" ELSE NoError
    BY DEF validate_script_error
  <2>2. lost \in BOOLEAN OBVIOUS
  <2>. HIDE DEF bad, lost
  <2>. QED BY <2>1, <2>2 DEF Missing, NoError
<1>3. \A k : per_scan_setup_error(im, k) # Missing
  <2>1. ASSUME NEW k PROVE per_scan_setup_error(im, k) # Missing
    <3> DEFINE big == /\ Len(k.comps) > 1
                      /\ blocks_in_MCU(per_scan_setup(im, initial_setup(im), k)) > C_MAX_BLOCKS_IN_MCU
    <3>1. per_scan_setup_error(im, k)
            = IF Len(k.comps) \notin 1 .. MAX_COMPS_IN_SCAN THEN "COMPONENT_COUNT"
              ELSE IF big THEN "BAD_MCU_SIZE" ELSE NoError
      BY DEF per_scan_setup_error
    <3>2. big \in BOOLEAN OBVIOUS
    <3>. HIDE DEF big
    <3>. QED BY <3>1, <3>2 DEF Missing, NoError
  <2>. QED BY <2>1
<1>4. entropy_error(im, sc, tabs, gather) # Missing BY DEF entropy_error, Missing, NoError
<1>5. start_error(im, flag) # Missing
  <2> DEFINE k == select_scan_parameters(im, 0)
             e1 == initial_setup_error(im)
             e2 == validate_script_error(im)
             e3 == per_scan_setup_error(im, k)
             odd == ~flag /\ ~im.raw_data_in /\ (\E c \in DOMAIN im.comp_info : ~SamplingHandled(im, c))
             b2 == im.scan_info # <<>> /\ e2 # NoError
             b3 == ~flag /\ e3 # NoError
  <2>1. start_error(im, flag) = IF e1 # NoError THEN e1 ELSE IF b2 THEN e2
                                ELSE IF odd THEN "FRACT_SAMPLE_NOTIMPL" ELSE IF b3 THEN e3 ELSE NoError
    BY DEF start_error
  <2>2. e1 # Missing /\ e2 # Missing /\ e3 # Missing BY <1>1, <1>2, <1>3
  <2>3. odd \in BOOLEAN /\ b2 \in BOOLEAN /\ b3 \in BOOLEAN OBVIOUS
  <2>. HIDE DEF e1, e2, e3, odd, b2, b3
  <2>. QED BY <2>1, <2>2, <2>3 DEF Missing, NoError
<1>. QED BY <1>1, <1>2, <1>3, <1>4, <1>5

LEMMA EmitErrors ==
  ASSUME NEW w, IsWriter(w), w.error # Missing, NEW list \in Seq(Named)
  PROVE  IsWriter(emit_tables(w, list)) /\ emit_tables(w, list).error # Missing
<1> DEFINE v == emit_tables(w, list)
           T(e) == w.tables[e[1]][e[2]]
           lost == \E i \in DOMAIN list : T(list[i]).val = NullTable
<1>1. IsWriter(v) BY TablesWritten DEF Wrote
<1>2. CASE lost
  <2>1. v = [w EXCEPT !.error = "NO_TABLE"] BY <1>2 DEF emit_tables
  <2>2. v.error = "NO_TABLE"
    <3>. HIDE DEF v
    <3>. QED BY <2>1 DEF IsWriter
  <2>. QED BY <1>1, <2>2 DEF Missing
<1>3. CASE ~lost
  <2>1. \E a, b : v = [w EXCEPT !.toks = a, !.tables = b]
    <3> DEFINE named == {list[i] : i \in DOMAIN list}
               fresh == {i \in DOMAIN list : ~T(list[i]).sent /\ \A j \in 1 .. i - 1 : list[j] # list[i]}
               tokens == [i \in DOMAIN list |->
                   IF i \notin fresh THEN <<>>
                   ELSE <<[t |-> IF list[i][1] = "q" THEN "DQT" ELSE "DHT",
                           class |-> list[i][1], n |-> list[i][2], val |-> T(list[i]).val]>>]
               a == w.toks \o FlattenSeq(tokens)
               b == [class \in Classes |-> [n \in Slots |->
                       IF <<class, n>> \in named THEN [w.tables[class][n] EXCEPT !.sent = TRUE]
                       ELSE w.tables[class][n]]]
    <3>1. v = [w EXCEPT !.toks = a, !.tables = b] BY <1>3 DEF emit_tables
    <3>. HIDE DEF a, b, v
    <3>. QED BY <3>1
  <2>. HIDE DEF v
  <2>2. PICK a, b : v = [w EXCEPT !.toks = a, !.tables = b] BY <2>1
  <2>3. v.error = w.error BY <2>2 DEF IsWriter
  <2>. QED BY <1>1, <2>3 DEF v
<1>. QED BY <1>2, <1>3

LEMMA HeaderErrors ==
  ASSUME NEW im, WellFormed(im), NEW sc, ScanOf(im, sc), NEW tabs, IsTables(tabs), NEW last,
         NEW frame, frame = Writer(tabs) \/ frame = write_frame_header(Writer(tabs), im)
  PROVE  write_scan_header(frame, im, sc, last).error # Missing
<1>1. ASSUME NEW w, IsWriter(w), w.error # Missing
      PROVE  IsWriter(write_frame_header(w, im)) /\ write_frame_header(w, im).error # Missing
  <2> DEFINE list == [c \in DOMAIN im.comp_info |-> <<"q", im.comp_info[c].quant>>]
             v == emit_tables(w, list)
             tok == [t |-> "SOF", code |-> frame_code(im), height |-> im.image_height, width |-> im.image_width,
                    comps |-> [c \in DOMAIN im.comp_info |->
                      [id |-> im.comp_info[c].id, h |-> im.comp_info[c].h, v |-> im.comp_info[c].v,
                       quant |-> im.comp_info[c].quant]]]
  <2>1. list \in Seq(Named)
    <3>1. \A c \in DOMAIN im.comp_info : <<"q", im.comp_info[c].quant>> \in Named
      BY ComponentTables DEF Named, Classes
    <3>2. Len(im.comp_info) \in Nat /\ DOMAIN im.comp_info = 1 .. Len(im.comp_info) BY ComponentTables
    <3>. QED BY <3>1, <3>2
  <2>2. tok.t \notin {"MCU", "DQT", "DHT"} OBVIOUS
  <2>3. write_frame_header(w, im) = emit_marker(v, tok) BY DEF write_frame_header, emit_sof
  <2>. HIDE DEF tok, list
  <2>4. IsWriter(v) /\ v.error # Missing BY <1>1, <2>1, EmitErrors
  <2>. HIDE DEF v
  <2>5. Wrote(v, emit_marker(v, tok)) /\ emit_marker(v, tok).error = v.error BY <2>2, <2>4, MarkerWritten
  <2>. QED BY <2>3, <2>4, <2>5 DEF Wrote
<1>2. IsWriter(frame) /\ frame.error # Missing
  <2>1. IsWriter(Writer(tabs)) /\ Writer(tabs).error # Missing BY NewWriter DEF Missing, NoError
  <2>. QED BY <1>1, <2>1
<1> DEFINE list == ScanTables(im, sc)
           a == emit_tables(frame, list)
           dri == [t |-> "DRI", interval |-> sc.restart_interval]
           b == IF sc.restart_interval # last THEN emit_marker(a, dri) ELSE a
           tok == [t |-> "SOS", Ss |-> sc.Ss, Se |-> sc.Se, Ah |-> sc.Ah, Al |-> sc.Al,
                  comps |-> [i \in DOMAIN sc.comps |->
                    LET k == im.comp_info[sc.comps[i]]
                    IN [id |-> k.id,
                        dc |-> IF progressive(im) /\ (sc.Ss # 0 \/ sc.Ah # 0) THEN 0 ELSE k.dc,
                        ac |-> IF progressive(im) /\ sc.Ss = 0 THEN 0 ELSE k.ac]]]
<1>3. write_scan_header(frame, im, sc, last) = emit_marker(b, tok) BY DEF write_scan_header, emit_sos, emit_dri
<1>4. list \in Seq(Named) BY TablesOfScan
<1>5. dri.t \notin {"MCU", "DQT", "DHT"} /\ tok.t \notin {"MCU", "DQT", "DHT"} OBVIOUS
<1>. HIDE DEF dri, tok, list
<1>6. IsWriter(a) /\ a.error # Missing BY <1>2, <1>4, EmitErrors
<1>. HIDE DEF a
<1>7. IsWriter(b) /\ b.error # Missing
  <2>1. Wrote(a, emit_marker(a, dri)) /\ emit_marker(a, dri).error = a.error BY <1>5, <1>6, MarkerWritten
  <2>. QED BY <1>6, <2>1 DEF Wrote
<1>. HIDE DEF b
<1>8. emit_marker(b, tok).error = b.error BY <1>5, <1>7, MarkerWritten
<1>. QED BY <1>3, <1>7, <1>8

-----------------------------------------------------------------------------
(* Whatever is coded has a code: in a standard table, or in one that the     *)
(* statistics pass over the same positions made.                             *)
LEMMA Coded ==
  ASSUME Calls, Begun, Passes, Coder, Standard, Controller, Complete, Running, Coding,
         call.row < coef.MCU_rows_per_iMCU_row, ~entropy.gather, NEW d \in Differences(CurrentMCU, BaseDC)
  PROVE  HasCode(d)
<1>1. InPass BY DEF InPass, Coding
<1>2. cinfo \in Images /\ WellFormed(cinfo) /\ GeometryIs(cinfo, geom) /\ SomeScan(cinfo, geom, scan)
      /\ ScanOf(cinfo, scan)
  <2>1. SomeScan(cinfo, geom, scan) BY <1>1 DEF Passes
  <2>. QED BY <2>1, ThisScanOf, RunningGeometry
<1> DEFINE e == <<"dc", d[1]>>
<1>3. d[1] \in Slots /\ e \in CodingTables(cinfo, scan) /\ scan.Ss = 0 /\ scan.Ah = 0
  <2> DEFINE mcu == CurrentMCU
             base == BaseDC
  <2>1. d \in DifferencesOf(cinfo, scan, mcu, base) BY SameDifferences
  <2>. HIDE DEF mcu, base
  <2>. QED BY <1>2, <2>1, CodedWith
<1>4. entropy.derived[e] = tables["dc"][d[1]].val
  <2>1. entropy.derived[e] = tables[e[1]][e[2]].val BY <1>1, <1>3 DEF Coder
  <2>. QED BY <2>1
<1>5. CASE ~optimized(cinfo)
  <2>1. d[1] \in {0, 1}
    <3>1. CodingTable(cinfo, e)
      <4>1. \A x \in ToSet(ScanTables(cinfo, scan)) : CodingTable(cinfo, x) BY <1>2, TablesOfScan, Zenon
      <4>. QED BY <1>3, <4>1 DEF CodingTables
    <3>2. e[2] = d[1] OBVIOUS
    <3>. HIDE DEF e
    <3>. QED BY <1>5, <3>1, <3>2 DEF CodingTable
  <2>2. cinfo # NoImage
    <3>1. NoImage.image_height = 0 BY DEF NoImage
    <3>2. cinfo.image_height # 0 BY <1>2 DEF GeometryIs
    <3>. QED BY <3>1, <3>2
  <2>3. tables["dc"][d[1]].val = StdTable BY <1>5, <2>1, <2>2 DEF Standard
  <2>4. entropy.derived[e].kind = "std" BY <1>4, <2>3 DEF StdTable
  <2>. QED BY <2>4 DEF HasCode
<1>6. CASE optimized(cinfo)
  <2>1. master.pass_type = "output_pass" BY <1>1, <1>6 DEF Coder
  <2>2. call.pc = "crank" BY <2>1 DEF Passes, Coding
  <2>3. PICK S : HasAll(cinfo, scan, geom, cinfo.transcode, coef.whole, SymbolsOf(tables), S) /\ Position \in S
    BY <1>3, <1>6, <2>1, <2>2 DEF Complete
  <2>4. coef.iMCU_row_num < geom.total_iMCU_rows /\ coef.iMCU_row_num \in Nat
        /\ (coef.mode = "TRANSCODE" <=> cinfo.transcode) /\ coef.mode # "PASS_THRU"
        /\ coef.MCU_rows_per_iMCU_row = rows_per_iMCU_row(scan, geom, coef.iMCU_row_num)
    BY <1>1, <1>6, <2>2 DEF Controller
  <2> DEFINE P == Position
             M == MCUAt(scan, geom, cinfo.transcode, coef.whole, P)
             codes == SymbolsOf(tables)
  <2>5. P.r = coef.iMCU_row_num /\ P.row = call.row /\ BaseDC = BaseAt(scan, P) BY AtPosition
  <2>6. CurrentMCU = M BY <2>4, SameMCU
  <2>7. InRow(scan, geom, P)
    <3>. HIDE DEF P
    <3>. QED BY <2>4, <2>5 DEF InRow
  <2>8. d \in DifferencesOf(cinfo, scan, M, BaseAt(scan, P))
    <3>. HIDE DEF P, M
    <3>. QED BY <2>5, <2>6, SameDifferences
  <2>9. d \in CodedAt(cinfo, scan, geom, cinfo.transcode, coef.whole, P)
    <3>. HIDE DEF P
    <3>. QED BY <2>7, <2>8 DEF CodedAt, M
  <2>. HIDE DEF P, codes, M
  <2>10. Follows(cinfo, scan, geom, cinfo.transcode, coef.whole, codes, S, P)
    <3>1. HasAll(cinfo, scan, geom, cinfo.transcode, coef.whole, codes, S) /\ P \in S BY <2>3 DEF P, codes
    <3>2. ~(P.r >= geom.total_iMCU_rows)
      <4>1. geom.total_iMCU_rows \in Nat BY <1>2 DEF GeometryIs
      <4>. QED BY <2>4, <2>5, <4>1
    <3>. QED BY <3>1, <3>2, Zenon DEF HasAll
  <2>11. d \in codes[d[1]] BY <2>9, <2>10, Zenon DEF Follows
  <2>12. codes[d[1]] = tables["dc"][d[1]].val.syms BY <1>3 DEF codes, SymbolsOf
  <2>13. d \in entropy.derived[e].syms BY <1>4, <2>11, <2>12
  <2>. QED BY <2>13 DEF HasCode
<1>. QED BY <1>5, <1>6

LEMMA NoMissingCodeStep ==
  ASSUME Calls, Begun, Passes, Coder, TablesAgree, Standard, Controller, Complete, NoMissingCode, [Next]_vars
  PROVE  NoMissingCode'
<1>0. SUFFICES ASSUME failed' = Missing PROVE FALSE BY DEF NoMissingCode, Missing
<1>1. failed # Missing /\ NoError # Missing BY DEF NoMissingCode, Missing, NoError
<1>2. CASE Within
  <2>0. Running /\ failed = NoError BY <1>2, StepWithin DEF Running
  <2>1. ASSUME NEW next, StartOutput(next), call.pc = "app", global_state \in {"SCANNING", "RAW_OK"} PROVE FALSE
    <3>1. InPass BY <2>0, <2>1 DEF InPass
    <3>2. WellFormed(cinfo) /\ ScanOf(cinfo, scan) BY <2>0, <3>1, ThisScanOf DEF Passes
    <3> DEFINE frame == write_frame_header(Writer(tables), cinfo)
               w == write_scan_header(frame, cinfo, scan, last_restart_interval)
    <3>3. pass_startup(Writer(tables)) = w BY DEF pass_startup
    <3>4. w.error # Missing
      <4>1. IsTables(tables) BY DEF TablesAgree
      <4>2. frame = write_frame_header(Writer(tables), cinfo) OBVIOUS
      <4>. HIDE DEF frame
      <4>. QED BY <3>2, <4>1, <4>2, HeaderErrors
    <3>. HIDE DEF w
    <3>. QED BY <1>0, <1>1, <2>0, <2>1, <3>3, <3>4 DEF StartOutput, Fail
  <2>2. ASSUME NEW n \in 1 .. 3, jpeg_write_scanlines(n) PROVE FALSE
    <3> DEFINE next == [NoCall EXCEPT !.pc = "main", !.rows = AtMost(n, cinfo.image_height - next_scanline)]
    <3>1. StartOutput(next) /\ global_state = "SCANNING" /\ call.pc = "app" BY <2>2 DEF jpeg_write_scanlines, Idle
    <3>. HIDE DEF next
    <3>. QED BY <2>1, <3>1
  <2>3. CASE jpeg_write_raw_data
    <3> DEFINE next == [NoCall EXCEPT !.pc = "coef", !.data = RawRows,
                                      !.row = coef.MCU_vert_offset, !.col = coef.mcu_ctr]
    <3>1. StartOutput(next) /\ global_state = "RAW_OK" /\ call.pc = "app" BY <2>3 DEF jpeg_write_raw_data, Idle
    <3>. HIDE DEF next
    <3>. QED BY <2>1, <3>1
  <2>4. CASE UNCHANGED failed BY <1>0, <1>1, <2>4
  <2>5. CASE jpeg_write_marker \/ PreProcess \/ PassRow \/ ReturnRows \/ FinishRow \/ finish_pass_master
    <3>1. UNCHANGED failed
      BY <2>5 DEF jpeg_write_marker, PreProcess, PassRow, ReturnRows, FinishRow, finish_pass_master
    <3>. QED BY <2>4, <3>1
  <2>6. CASE jpeg_finish_compress
    <3>1. failed' \in {failed, "TOO_LITTLE_DATA"} BY <2>6 DEF jpeg_finish_compress, Fail
    <3>. QED BY <1>0, <1>1, <3>1 DEF Missing
  <2>7. CASE RefuseMCU
    <3>1. failed' \in {NoError, "CANT_SUSPEND"} BY <2>7 DEF RefuseMCU, Fail
    <3>. QED BY <1>0, <1>1, <3>1 DEF Missing
  <2>8. CASE PrepareStatistics
    <3> DEFINE error == ThisError
    <3>1. error # Missing BY CheckErrors DEF ThisError
    <3>2. failed' = error \/ UNCHANGED failed BY <2>8 DEF PrepareStatistics, Fail
    <3>. HIDE DEF error
    <3>. QED BY <1>0, <1>1, <3>1, <3>2
  <2>9. CASE PrepareOutput
    <3> DEFINE skipped == master.pass_type = "huff_opt_pass"
               sc == IF skipped \/ ~optimized(cinfo) THEN ThisScan ELSE scan
               eerror == entropy_error(cinfo, sc, tables, FALSE)
               terror == ThisError
               error == IF terror # NoError THEN terror ELSE eerror
               frame == IF master.scan_number = 0 THEN write_frame_header(Writer(tables), cinfo) ELSE Writer(tables)
               w == write_scan_header(frame, cinfo, sc, last_restart_interval)
    <3>1. /\ call.pc = "next_pass" /\ ~master.is_last_pass /\ master.pass_type \in {"output_pass", "huff_opt_pass"}
          /\ failed' \in {error, w.error, failed}
      BY <2>9 DEF PrepareOutput, Fail
    <3>2. Running /\ ~InPass BY <2>0, <3>1 DEF InPass
    <3>3. SomeScan(cinfo, geom, sc)
      <4>1. CASE skipped \/ ~optimized(cinfo) BY <3>1, <4>1, ThisScanIsOne
      <4>2. CASE ~(skipped \/ ~optimized(cinfo))
        <5>1. master.pass_type = "output_pass" BY <3>1, <4>2
        <5>2. master.pass_number > 0 BY <3>2, <4>2, <5>1 DEF Passes
        <5>. QED BY <3>2, <4>2, <5>2 DEF Passes
      <4>. QED BY <4>1, <4>2
    <3>4. terror # Missing BY CheckErrors DEF ThisError
    <3>. HIDE DEF sc, terror
    <3>5. eerror # Missing BY CheckErrors
    <3>6. WellFormed(cinfo) /\ ScanOf(cinfo, sc) BY <3>2, <3>3, ThisScanOf
    <3>7. frame = Writer(tables) \/ frame = write_frame_header(Writer(tables), cinfo) OBVIOUS
    <3>8. IsTables(tables) BY DEF TablesAgree
    <3>. HIDE DEF frame, eerror
    <3>9. w.error # Missing BY <3>6, <3>7, <3>8, HeaderErrors
    <3>10. error # Missing BY <3>4, <3>5
    <3>. HIDE DEF w, error
    <3>. QED BY <1>0, <1>1, <3>1, <3>9, <3>10
  <2>10. CASE EncodeMCU
    <3>1. Coding /\ call.row < coef.MCU_rows_per_iMCU_row
          /\ (IF entropy.gather THEN encode_mcu_gather(CurrentMCU) ELSE encode_mcu_huff(CurrentMCU))
      BY <2>10 DEF EncodeMCU
    <3> DEFINE mcu == CurrentMCU
    <3>. HIDE DEF mcu
    <3>2. CASE entropy.gather
      <4>1. UNCHANGED failed BY <3>1, <3>2 DEF encode_mcu_gather
      <4>. QED BY <2>4, <4>1
    <3>3. CASE ~entropy.gather
      <4>1. \A d \in Differences(mcu, BaseDC) : HasCode(d) BY <2>0, <3>1, <3>3, Coded DEF mcu
      <4>2. encode_mcu_huff(mcu) BY <3>1, <3>3 DEF mcu
      <4>3. UNCHANGED failed BY <4>1, <4>2 DEF encode_mcu_huff
      <4>. QED BY <2>4, <4>3
    <3>. QED BY <3>2, <3>3
  <2>. QED BY <1>2, <2>2, <2>3, <2>5, <2>6, <2>7, <2>8, <2>9, <2>10 DEF Within
<1>3. ASSUME NEW im \in Images, SetParameters(im) PROVE FALSE BY <1>0, <1>1, <1>3 DEF SetParameters
<1>4. ASSUME NEW all \in BOOLEAN, jpeg_start_compress(all) PROVE FALSE
  <2> DEFINE im == cinfo
             g == initial_setup(im)
             sc == per_scan_setup(im, g, select_scan_parameters(im, 0))
             tabs == IF all THEN jpeg_suppress_tables(tables, FALSE) ELSE tables
             e1 == start_error(im, FALSE)
             e2 == entropy_error(im, sc, tabs, optimized(im))
             e3 == fdct_error(im, tabs)
  <2>1. failed' \in {e1, e2, e3, failed} BY <1>4 DEF jpeg_start_compress, Fail
  <2>2. e1 # Missing BY CheckErrors
  <2> DEFINE o == optimized(im)
  <2>3. e2 # Missing
    <3>. HIDE DEF sc, tabs, o
    <3>1. entropy_error(im, sc, tabs, o) # Missing BY CheckErrors
    <3>. QED BY <3>1 DEF o
  <2>4. e3 # Missing BY DEF fdct_error, Missing, NoError
  <2>. HIDE DEF e1, e2, e3
  <2>. QED BY <1>0, <1>1, <2>1, <2>2, <2>3, <2>4
<1>5. CASE jpeg_write_coefficients
  <2> DEFINE e1 == start_error(cinfo, TRUE)
  <2>1. failed' \in {e1, failed} BY <1>5 DEF jpeg_write_coefficients, Fail
  <2>2. e1 # Missing BY CheckErrors
  <2>. HIDE DEF e1
  <2>. QED BY <1>0, <1>1, <2>1, <2>2
<1>6. CASE jpeg_abort_compress BY <1>0, <1>1, <1>6 DEF jpeg_abort_compress
<1>7. CASE jpeg_write_tables BY <1>0, <1>1, <1>7 DEF jpeg_write_tables
<1>8. CASE FinishImage BY <1>0, <1>1, <1>8 DEF FinishImage
<1>9. CASE UNCHANGED vars BY <1>0, <1>1, <1>9 DEF vars
<1>. QED BY <1>2, <1>3, <1>4, <1>5, <1>6, <1>7, <1>8, <1>9, Steps

-----------------------------------------------------------------------------
LEMMA CodesAtFirst == ASSUME Init PROVE CodesInv
<1>1. TablesInv BY TablesAtFirst
<1>2. global_state = "START" /\ failed = NoError /\ call = NoCall BY DEF Init
<1>3. Controller /\ Gathered /\ Complete /\ RowsGathered
  BY <1>2 DEF Controller, Gathered, Complete, RowsGathered, InPass, Running
<1>4. Waits /\ NoMissingCode BY <1>2 DEF Waits, NoMissingCode, NoError
<1>. QED BY <1>1, <1>3, <1>4 DEF CodesInv

LEMMA CodesKept == ASSUME CodesInv, [Next]_vars PROVE CodesInv'
<1>1. /\ TablesInv /\ Calls /\ Begun /\ Passes /\ Coder /\ TablesAgree /\ Standard
      /\ Waits /\ Controller /\ Gathered /\ Complete /\ RowsGathered /\ NoMissingCode
  BY DEF CodesInv, TablesInv
<1>2. TablesInv' BY <1>1, TablesKept
<1>3. Waits' BY <1>1, WaitsStep
<1>4. Controller' BY <1>1, ControllerStep
<1>5. Gathered' BY <1>1, GatheredStep
<1>6. Complete' BY <1>1, CompleteStep
<1>7. RowsGathered' BY <1>1, RowsGatheredStep
<1>8. NoMissingCode' BY <1>1, NoMissingCodeStep
<1>. QED BY <1>2, <1>3, <1>4, <1>5, <1>6, <1>7, <1>8 DEF CodesInv

(* Every table a stream leaves out its receiver has, and no value of an MCU  *)
(* is without a code: what the output pass of a scan codes is what its       *)
(* statistics pass counted.                                                  *)
THEOREM NoTableMissing == Spec => []TablesSuffice
<1>1. Init => CodesInv BY CodesAtFirst
<1>2. CodesInv /\ [Next]_vars => CodesInv' BY CodesKept
<1>3. CodesInv => TablesSuffice BY DEF CodesInv, TablesInv, TablesSuffice
<1>. QED BY <1>1, <1>2, <1>3, PTL DEF Spec
=============================================================================
