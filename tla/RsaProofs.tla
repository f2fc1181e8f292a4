------------------------------ MODULE RsaProofs ------------------------------
(***************************************************************************)
(* RSA of the crypto library: what RsaPadding.tla promises of the blocks,   *)
(* for every length of the modulus and every set of bytes, and that the    *)
(* whole of Rsa.tla implements it, for all keys; and that bn_mod_exp, which *)
(* is one step there, computes a power.  The provers do not induct          *)
(* over a recursive function; here that is done with the least element of  *)
(* the set of numbers of which something is not true.                      *)
(***************************************************************************)
EXTENDS Rsa, WellFoundedInduction, TLAPS

-----------------------------------------------------------------------------
(* Least numbers, induction and recursion.                                  *)

(* A nonempty set of numbers has a least one.                               *)
LEMMA LeastNumber ==
  ASSUME NEW S \in SUBSET Nat, S # {}
  PROVE  \E l \in S : \A y \in S : l <= y
<1> DEFINE R == {ss \in Nat \X Nat : ss[1] < ss[2]}
<1>1. IsWellFoundedOn(R, Nat)
  BY NatLessThanWellFounded DEF OpToRel
<1>2. PICK l \in S : \A y \in S : <<y, l>> \notin R
  <2>. HIDE DEF R
  <2>. QED BY <1>1, WFMin
<1>3. ASSUME NEW y \in S PROVE l <= y
  <2>1. l \in Nat /\ y \in Nat OBVIOUS
  <2>2. ~(y < l) BY <1>2, <2>1, Zenon
  <2>. QED BY <2>1, <2>2
<1>. QED BY <1>3

(* Induction, with the numbers of which something is true as a set.          *)
LEMMA Induction ==
  ASSUME NEW k \in Nat, NEW P, 0 \in P, \A j \in 1..k : j - 1 \in P => j \in P
  PROVE  \A j \in 0..k : j \in P
<1> DEFINE Others == {j \in 0..k : j \notin P}
<1>1. SUFFICES ASSUME Others # {} PROVE FALSE OBVIOUS
<1>2. PICK l \in Others : \A j \in Others : l <= j
  <2>1. Others \in SUBSET Nat OBVIOUS
  <2>. HIDE DEF Others
  <2>. QED BY <1>1, <2>1, LeastNumber
<1>3. l \in 1..k /\ l - 1 \in 0..k /\ l - 1 \notin Others BY <1>2
<1>. QED BY <1>2, <1>3

(* A function defined by recursion exists.                                  *)
Follows(f, k, first, next) ==
  f[0] = first /\ \A j \in 1..k : f[j] = next[<<j, f[j-1]>>]
LEMMA RecursionExists ==
  ASSUME NEW k \in Nat, NEW S, NEW first \in S, NEW next \in [(1..k) \X S -> S]
  PROVE  \E f \in [0..k -> S] : Follows(f, k, first, next)
<1> USE DEF Follows
<1> DEFINE Works(f, j) == f \in [0..j -> S] /\ Follows(f, j, first, next)
           P == {j \in 0..k : \E f : Works(f, j)}
<1>1. 0 \in P
  <2> DEFINE g == [h \in 0..0 |-> first]
  <2>1. g \in [0..0 -> S] /\ g[0] = first OBVIOUS
  <2>2. \A h \in 1..0 : g[h] = next[<<h, g[h-1]>>] OBVIOUS
  <2>3. Works(g, 0) BY <2>1, <2>2
  <2>4. 0 \in 0..k OBVIOUS
  <2>. HIDE DEF Works, g
  <2>. QED BY <2>3, <2>4
<1>2. ASSUME NEW j \in 1..k, j - 1 \in P PROVE j \in P
  <2>1. PICK f : Works(f, j - 1) BY <1>2
  <2> DEFINE g == [h \in 0..j |-> IF h = j THEN next[<<j, f[j-1]>>] ELSE f[h]]
  <2>2. f[j-1] \in S /\ <<j, f[j-1]>> \in (1..k) \X S BY <2>1
  <2>3. g \in [0..j -> S] BY <2>1, <2>2
  <2>4. g[0] = first BY <2>1
  <2>5. ASSUME NEW h \in 1..j PROVE g[h] = next[<<h, g[h-1]>>]
    <3>1. CASE h = j
      <4>1. g[h-1] = f[j-1] BY <3>1, <2>1
      <4>. QED BY <3>1, <4>1
    <3>2. CASE h # j
      <4>1. h \in 1..j-1 /\ h - 1 \in 0..j-1 /\ h - 1 # j BY <3>2
      <4>2. g[h] = f[h] /\ g[h-1] = f[h-1] BY <3>2, <4>1
      <4>. QED BY <2>1, <4>1, <4>2
    <3>. QED BY <3>1, <3>2
  <2>6. Works(g, j) BY <2>3, <2>4, <2>5
  <2>. HIDE DEF Works, g
  <2>. QED BY <2>6
<1>3. k \in P
  <2>. HIDE DEF P
  <2>. QED BY <1>1, <1>2, Induction
<1>4. PICK f : Works(f, k) BY <1>3
<1>. QED BY <1>4

-----------------------------------------------------------------------------
(* Division.                                                               *)
LEMMA ProductGrows ==
  ASSUME NEW g \in Int, NEW r \in Nat, g >= 1
  PROVE  g * r >= r
<1>1. (g - 1) \in Nat /\ (g - 1) * r \in Nat OBVIOUS
<1>2. g * r = (g - 1) * r + r OBVIOUS
<1>. QED BY <1>1, <1>2

LEMMA Divided ==
  ASSUME NEW y \in Int, NEW r \in Nat, r > 0
  PROVE  /\ y \div r \in Int /\ y % r \in 0..r-1 /\ y = (y \div r) * r + (y % r)
         /\ y >= 0 => y \div r \in Nat
<1>1. y \div r \in Int /\ y % r \in 0..r-1 OBVIOUS
<1>2. y = r * (y \div r) + (y % r) OBVIOUS
<1>3. r * (y \div r) = (y \div r) * r BY <1>1
<1>4. ASSUME y >= 0 PROVE y \div r \in Nat
  <2> DEFINE u == y \div r
  <2>1. u \in Int /\ y = u * r + (y % r) BY <1>1, <1>2, <1>3
  <2>. HIDE DEF u
  <2>2. SUFFICES ASSUME -u >= 1 PROVE FALSE BY <2>1 DEF u
  <2>3. (-u) * r >= r BY <2>1, <2>2, ProductGrows
  <2>4. (-u) * r = -(u * r) /\ u * r \in Int BY <2>1
  <2>. QED BY <1>1, <1>4, <2>1, <2>3, <2>4
<1>. QED BY <1>1, <1>2, <1>3, <1>4

LEMMA DividedUnique ==
  ASSUME NEW r \in Nat, r > 0, NEW g \in Int, NEW h \in 0..r-1, NEW y \in Int, y = g * r + h
  PROVE  y \div r = g /\ y % r = h
<1> DEFINE u == y \div r
           v == y % r
<1>1. u \in Int /\ v \in 0..r-1 /\ y = u * r + v BY Divided
<1>. HIDE DEF u, v
<1>2. (g - u) * r = v - h
  <2>1. (g - u) * r = g * r - u * r BY <1>1
  <2>. QED BY <1>1, <2>1
<1>3. CASE g - u >= 1
  <2>1. (g - u) * r >= r BY <1>1, <1>3, ProductGrows
  <2>. QED BY <1>1, <1>2, <2>1
<1>4. CASE u - g >= 1
  <2>1. (u - g) * r >= r BY <1>1, <1>4, ProductGrows
  <2>2. (u - g) * r = -((g - u) * r) BY <1>1
  <2>3. (g - u) * r \in Int BY <1>1
  <2>. QED BY <1>1, <1>2, <2>1, <2>2, <2>3
<1>5. CASE g = u
  <2>1. (g - u) * r = 0 BY <1>5
  <2>. QED BY <1>1, <1>2, <1>5, <2>1 DEF u, v
<1>. QED BY <1>1, <1>3, <1>4, <1>5

LEMMA SmallRemainder ==
  ASSUME NEW r \in Nat, NEW y \in 0..r-1
  PROVE  y \div r = 0 /\ y % r = y
<1> DEFINE u == y \div r
           v == y % r
<1>1. r > 0 /\ u \in Nat /\ v \in 0..r-1 /\ y = u * r + v BY Divided
<1>. HIDE DEF u, v
<1>2. CASE u >= 1
  <2>1. u * r >= r BY <1>1, <1>2, ProductGrows
  <2>2. u * r \in Int BY <1>1
  <2>. QED BY <1>1, <2>1, <2>2
<1>3. CASE u = 0
  <2>1. u * r = 0 BY <1>1, <1>3
  <2>. QED BY <1>1, <1>3, <2>1 DEF u, v
<1>. QED BY <1>1, <1>2, <1>3

(* Dividing twice is dividing by the product.                               *)
LEMMA DividedTwice ==
  ASSUME NEW y \in Int, NEW r \in Nat, r > 0, NEW s \in Nat, s > 0
  PROVE  y \div (r * s) = (y \div r) \div s
<1> DEFINE u == y \div r
           v == u \div s
           h == (u % s) * r + (y % r)
<1>1. u \in Int /\ y % r \in 0..r-1 /\ y = u * r + (y % r) BY Divided
<1>2. v \in Int /\ u % s \in 0..s-1 /\ u = v * s + (u % s)
  <2>. HIDE DEF u
  <2>. QED BY <1>1, Divided
<1>. HIDE DEF u, v
<1>3. y = v * (r * s) + h
  <2> DEFINE w == u % s
  <2>1. w \in Int /\ u = v * s + w BY <1>2
  <2>. HIDE DEF w
  <2>2. u * r = (v * s) * r + w * r BY <1>1, <1>2, <2>1
  <2>3. (v * s) * r = v * (r * s) BY <1>1, <1>2
  <2>4. v * (r * s) \in Int /\ w * r \in Int BY <1>2, <2>1
  <2>5. y = v * (r * s) + (w * r + (y % r))
    <3> DEFINE z == y % r
    <3>1. z \in Int /\ y = u * r + z BY <1>1
    <3>. HIDE DEF z
    <3>2. y = v * (r * s) + (w * r + z) BY <2>2, <2>3, <2>4, <3>1
    <3>. QED BY <3>2 DEF z
  <2>. QED BY <2>5 DEF w
<1>4. h \in 0 .. r * s - 1 /\ r * s \in Nat /\ r * s > 0
  <2> DEFINE w == u % s
  <2>1. w \in 0..s-1 BY <1>2
  <2>. HIDE DEF w
  <2>2. w * r \in Nat BY <2>1
  <2>3. (s - w) * r >= r BY <2>1, ProductGrows
  <2>4. (s - w) * r = s * r - w * r /\ s * r = r * s BY <2>1
  <2>5. r * s \in Nat OBVIOUS
  <2>. QED BY <1>1, <2>2, <2>3, <2>4, <2>5 DEF w
<1>. HIDE DEF h
<1>5. y \div (r * s) = v
  <2> DEFINE m == r * s
  <2>1. m \in Nat /\ m > 0 /\ h \in 0..m-1 /\ y = v * m + h BY <1>3, <1>4
  <2>. HIDE DEF m
  <2>2. y \div m = v BY <1>2, <2>1, DividedUnique
  <2>. QED BY <2>2 DEF m
<1>. QED BY <1>5 DEF v, u

(* Numbers that differ by a multiple have one remainder.                    *)
LEMMA SameRemainder ==
  ASSUME NEW r \in Nat, r > 0, NEW y \in Int, NEW z \in Int, NEW g \in Int, y = z + g * r
  PROVE  y % r = z % r
<1> DEFINE u == z \div r
<1>1. u \in Int /\ z % r \in 0..r-1 /\ z = u * r + (z % r) BY Divided
<1>. HIDE DEF u
<1> DEFINE h == z % r
           v == u + g
<1>2. h \in 0..r-1 /\ v \in Int /\ y = v * r + h
  <2>. HIDE DEF h
  <2>1. (u + g) * r = u * r + g * r BY <1>1
  <2>2. h \in 0..r-1 /\ z = u * r + h BY <1>1 DEF h
  <2>. QED BY <1>1, <2>1, <2>2
<1>3. y % r = h
  <2>. HIDE DEF h, v
  <2>. QED BY <1>2, DividedUnique
<1>. QED BY <1>3 DEF h

LEMMA RemainderOfProduct ==
  ASSUME NEW r \in Nat, r > 0, NEW y \in Int, NEW z \in Int
  PROVE  (y * z) % r = ((y % r) * (z % r)) % r
<1> DEFINE u == y \div r
           v == z \div r
           a == y % r
           b == z % r
<1>1. u \in Int /\ a \in 0..r-1 /\ y = u * r + a BY Divided
<1>2. v \in Int /\ b \in 0..r-1 /\ z = v * r + b BY Divided
<1>. HIDE DEF u, v, a, b
<1>3. y * z = a * b + (u * z + a * v) * r
  <2>1. y * z = (u * r) * z + a * z BY <1>1, <1>2
  <2>2. a * z = a * (v * r) + a * b BY <1>1, <1>2
  <2>3. (u * r) * z = (u * z) * r BY <1>1, <1>2
  <2>4. a * (v * r) = (a * v) * r BY <1>1, <1>2
  <2>5. (u * z + a * v) * r = (u * z) * r + (a * v) * r BY <1>1, <1>2
  <2>6. (u * z) * r \in Int /\ (a * v) * r \in Int /\ a * b \in Int BY <1>1, <1>2
  <2>. QED BY <2>1, <2>2, <2>3, <2>4, <2>5, <2>6
<1>4. y * z \in Int /\ a * b \in Int /\ u * z + a * v \in Int BY <1>1, <1>2
<1> DEFINE yz == y * z
           ab == a * b
           g == u * z + a * v
<1>5. yz \in Int /\ ab \in Int /\ g \in Int /\ yz = ab + g * r BY <1>3, <1>4
<1>6. yz % r = ab % r
  <2>. HIDE DEF yz, ab, g
  <2>. QED BY <1>5, SameRemainder
<1>. QED BY <1>6 DEF a, b

(* A remainder modulo a multiple of r is as good modulo r.                   *)
LEMMA RemainderTwice ==
  ASSUME NEW r \in Nat, r > 0, NEW s \in Nat, s > 0, NEW m \in Nat, m = s * r, NEW y \in Int
  PROVE  (y % m) % r = y % r
<1>1. m > 0
  <2>1. s * r >= r BY ProductGrows
  <2>. QED BY <2>1
<1> DEFINE u == y \div m
<1>3. u \in Int /\ y % m \in 0..m-1 /\ y = u * m + (y % m) BY <1>1, Divided
<1>. HIDE DEF u
<1>4. y = (y % m) + (u * s) * r
  <2>1. u * m = (u * s) * r BY <1>3
  <2>. QED BY <1>3, <2>1, <1>1
<1> DEFINE w == y % m
           g == u * s
<1>5. w \in Int /\ g \in Int /\ y = w + g * r BY <1>1, <1>3, <1>4
<1>6. y % r = w % r
  <2>. HIDE DEF w, g
  <2>. QED BY <1>5, SameRemainder
<1>. QED BY <1>6

-----------------------------------------------------------------------------
(* What the recursive definitions of the model compute.                      *)
LEMMA PowerFunction ==
  ASSUME NEW y \in Int, NEW e \in Nat
  PROVE  \E f \in [0..e -> Int] :
           f[0] = 1 /\ (\A j \in 1..e : f[j] = f[j-1] * y) /\ Power(y, e) = f[e]
<1> DEFINE next == [t \in (1..e) \X Int |-> t[2] * y]
<1>1. next \in [(1..e) \X Int -> Int] /\ \A j \in 1..e, v \in Int : next[<<j, v>>] = v * y
  OBVIOUS
<1>2. PICK f \in [0..e -> Int] : f[0] = 1 /\ \A j \in 1..e : f[j] = next[<<j, f[j-1]>>]
  <2> DEFINE S == Int
             first == 1
  <2>1. first \in S /\ next \in [(1..e) \X S -> S] BY <1>1
  <2>. HIDE DEF next, S, first
  <2>2. PICK f \in [0..e -> S] : Follows(f, e, first, next) BY <2>1, RecursionExists
  <2>. QED BY <2>2 DEF S, first, Follows
<1>. HIDE DEF next
<1>3. f = [j \in 0..e |-> IF j = 0 THEN 1 ELSE f[j-1] * y]
  <2>1. ASSUME NEW j \in 0..e PROVE f[j] = IF j = 0 THEN 1 ELSE f[j-1] * y
    <3>1. CASE j = 0 BY <1>2, <3>1
    <3>2. CASE j # 0
      <4>1. j \in 1..e /\ f[j-1] \in Int BY <3>2
      <4>2. f[j] = next[<<j, f[j-1]>>] BY <1>2, <4>1
      <4>. QED BY <1>1, <3>2, <4>1, <4>2
    <3>. QED BY <3>1, <3>2
  <2>. QED BY <2>1
<1> DEFINE g == CHOOSE h : h = [j \in 0..e |-> IF j = 0 THEN 1 ELSE h[j-1] * y]
<1>4. g = [j \in 0..e |-> IF j = 0 THEN 1 ELSE g[j-1] * y] BY <1>3
<1>5. Power(y, e) = g[e] BY DEF Power
<1>. HIDE DEF g
<1>6. \A j \in 0..e : j \in {h \in 0..e : g[h] = f[h]}
  <2> DEFINE P == {h \in 0..e : g[h] = f[h]}
  <2>1. 0 \in P BY <1>3, <1>4
  <2>2. ASSUME NEW j \in 1..e, j - 1 \in P PROVE j \in P BY <1>3, <1>4, <2>2
  <2>. HIDE DEF P
  <2>3. \A j \in 0..e : j \in P BY <2>1, <2>2, Induction
  <2>. QED BY <2>3 DEF P
<1>7. f[0] = 1 /\ \A j \in 1..e : f[j] = f[j-1] * y BY <1>3
<1>8. Power(y, e) = f[e] BY <1>5, <1>6
<1>. QED BY <1>7, <1>8, Zenon

LEMMA PowerStep ==
  ASSUME NEW y \in Int, NEW e \in Nat
  PROVE  /\ Power(y, e) \in Int /\ Power(y, 0) = 1
         /\ Power(y, e + 1) = Power(y, e) * y
<1>1. PICK f \in [0..e -> Int] :
        f[0] = 1 /\ (\A j \in 1..e : f[j] = f[j-1] * y) /\ Power(y, e) = f[e]
  BY PowerFunction
<1>2. PICK g \in [0..e+1 -> Int] :
        g[0] = 1 /\ (\A j \in 1..e+1 : g[j] = g[j-1] * y) /\ Power(y, e + 1) = g[e + 1]
  <2>1. e + 1 \in Nat OBVIOUS
  <2>. QED BY <2>1, PowerFunction, Zenon
<1> DEFINE P == {j \in 0..e : f[j] = g[j]}
<1>3. 0 \in P BY <1>1, <1>2
<1>4. ASSUME NEW j \in 1..e, j - 1 \in P PROVE j \in P BY <1>1, <1>2, <1>4
<1>5. e \in P
  <2>1. 0 \in P /\ \A j \in 1..e : j - 1 \in P => j \in P BY <1>3, <1>4
  <2>. HIDE DEF P
  <2>2. \A j \in 0..e : j \in P BY <2>1, Induction
  <2>. QED BY <2>2
<1>6. g[e + 1] = g[e] * y BY <1>2
<1>7. Power(y, 0) = 1
  <2>1. 0 \in Nat OBVIOUS
  <2>. QED BY <2>1, PowerFunction
<1>. QED BY <1>1, <1>2, <1>5, <1>6, <1>7

LEMMA PowerGrows ==
  ASSUME NEW y \in Nat, y > 1, NEW e \in Nat
  PROVE  Power(y, e) \in Nat /\ Power(y, e) > e
<1> DEFINE P == {j \in 0..e : Power(y, j) \in Nat /\ Power(y, j) > j}
<1>1. 0 \in P BY PowerStep
<1>2. ASSUME NEW j \in 1..e, j - 1 \in P PROVE j \in P
  <2> DEFINE w == Power(y, j - 1)
  <2>1. w \in Nat /\ w >= j BY <1>2
  <2>2. Power(y, j) = w * y
    <3>1. j - 1 \in Nat /\ (j - 1) + 1 = j OBVIOUS
    <3>. QED BY <3>1, PowerStep
  <2>. HIDE DEF w
  <2>3. (y - 1) * w >= w BY <2>1, ProductGrows
  <2>4. w * y = (y - 1) * w + w /\ w * y \in Nat BY <2>1
  <2>. QED BY <2>1, <2>2, <2>3, <2>4
<1>3. e \in P
  <2>. HIDE DEF P
  <2>. QED BY <1>1, <1>2, Induction
<1>. QED BY <1>3

LEMMA ModExpFunction ==
  ASSUME NEW y \in Int, NEW e \in Nat, NEW m \in Nat, m > 1
  PROVE  \E f \in [0..e -> 0..m-1] :
           f[0] = 1 /\ (\A j \in 1..e : f[j] = (f[j-1] * y) % m) /\ bn_mod_exp(y, e, m) = f[e]
<1> DEFINE next == [t \in (1..e) \X (0..m-1) |-> (t[2] * y) % m]
<1>0. \A v \in 0..m-1 : (v * y) % m \in 0..m-1
  <2>1. \A v \in 0..m-1 : v * y \in Int OBVIOUS
  <2>. QED BY <2>1, Divided
<1>1. next \in [(1..e) \X (0..m-1) -> 0..m-1] /\ \A j \in 1..e, v \in 0..m-1 : next[<<j, v>>] = (v * y) % m
  BY <1>0
<1>2. PICK f \in [0..e -> 0..m-1] : f[0] = 1 /\ \A j \in 1..e : f[j] = next[<<j, f[j-1]>>]
  <2> DEFINE S == 0..m-1
             first == 1
  <2>1. first \in S /\ next \in [(1..e) \X S -> S] BY <1>1
  <2>. HIDE DEF next, S, first
  <2>2. PICK f \in [0..e -> S] : Follows(f, e, first, next) BY <2>1, RecursionExists
  <2>. QED BY <2>2 DEF S, first, Follows
<1>. HIDE DEF next
<1>3. f = [j \in 0..e |-> IF j = 0 THEN 1 ELSE (f[j-1] * y) % m]
  <2>1. ASSUME NEW j \in 0..e PROVE f[j] = IF j = 0 THEN 1 ELSE (f[j-1] * y) % m
    <3>1. CASE j = 0 BY <1>2, <3>1
    <3>2. CASE j # 0
      <4>1. j \in 1..e /\ f[j-1] \in 0..m-1 BY <3>2
      <4>2. f[j] = next[<<j, f[j-1]>>] BY <1>2, <4>1
      <4>. QED BY <1>1, <3>2, <4>1, <4>2
    <3>. QED BY <3>1, <3>2
  <2>. QED BY <2>1
<1> DEFINE g == CHOOSE h : h = [j \in 0..e |-> IF j = 0 THEN 1 ELSE (h[j-1] * y) % m]
<1>4. g = [j \in 0..e |-> IF j = 0 THEN 1 ELSE (g[j-1] * y) % m] BY <1>3
<1>5. bn_mod_exp(y, e, m) = g[e] BY DEF bn_mod_exp
<1>. HIDE DEF g
<1>6. \A j \in 0..e : j \in {h \in 0..e : g[h] = f[h]}
  <2> DEFINE P == {h \in 0..e : g[h] = f[h]}
  <2>1. 0 \in P BY <1>3, <1>4
  <2>2. ASSUME NEW j \in 1..e, j - 1 \in P PROVE j \in P BY <1>3, <1>4, <2>2
  <2>. HIDE DEF P
  <2>3. \A j \in 0..e : j \in P BY <2>1, <2>2, Induction
  <2>. QED BY <2>3 DEF P
<1>7. f[0] = 1 /\ \A j \in 1..e : f[j] = (f[j-1] * y) % m BY <1>3
<1>8. bn_mod_exp(y, e, m) = f[e] BY <1>5, <1>6
<1>. QED BY <1>7, <1>8, Zenon

(* Powers modulo a multiple of r are, modulo r, powers of the remainder.     *)
LEMMA PowerReduced ==
  ASSUME NEW r \in Nat, r > 1, NEW s \in Nat, s > 0, NEW m \in Nat, m = s * r,
         NEW y \in Int, NEW e \in Nat
  PROVE  /\ bn_mod_exp(y, e, m) \in 0..m-1
         /\ bn_mod_exp(y, e, m) % r = bn_mod_exp(y % r, e, r)
         /\ bn_mod_exp(y % r, e, r) \in 0..r-1
<1>1. m > 1
  <2>1. s * r >= r BY ProductGrows
  <2>. QED BY <2>1
<1>2. \A z \in Int : (z % m) % r = z % r BY RemainderTwice, r > 0
<1> DEFINE w == y % r
<1>3. w \in 0..r-1 BY Divided
<1>4. PICK f \in [0..e -> 0..m-1] :
        f[0] = 1 /\ (\A j \in 1..e : f[j] = (f[j-1] * y) % m) /\ bn_mod_exp(y, e, m) = f[e]
  BY <1>1, ModExpFunction
<1>5. PICK g \in [0..e -> 0..r-1] :
        g[0] = 1 /\ (\A j \in 1..e : g[j] = (g[j-1] * w) % r) /\ bn_mod_exp(w, e, r) = g[e]
  <2>1. w \in Int BY <1>3
  <2>. HIDE DEF w
  <2>. QED BY <2>1, ModExpFunction, ZenonT(30)
<1> DEFINE P == {j \in 0..e : f[j] % r = g[j]}
<1>6. 0 \in P
  <2>3. 1 % r = 1 BY SmallRemainder
  <2>. QED BY <1>4, <1>5, <2>3
<1>7. ASSUME NEW j \in 1..e, j - 1 \in P PROVE j \in P
  <2> DEFINE v == f[j-1]
  <2>1. v \in Int /\ v % r = g[j-1] /\ f[j] = (v * y) % m /\ g[j] = (g[j-1] * w) % r
    <3>1. j - 1 \in 0..e OBVIOUS
    <3>2. f[j-1] \in 0..m-1 BY <3>1
    <3>3. f[j] = (f[j-1] * y) % m BY <1>4
    <3>4. g[j] = (g[j-1] * w) % r BY <1>5
    <3>5. f[j-1] % r = g[j-1] BY <1>7
    <3>. QED BY <3>2, <3>3, <3>4, <3>5
  <2>. HIDE DEF v
  <2>2. v * y \in Int BY <2>1
  <2>3. f[j] % r = (v * y) % r BY <1>2, <2>1, <2>2
  <2>4. (v * y) % r = ((v % r) * w) % r BY <2>1, r > 0, RemainderOfProduct, Zenon
  <2>5. f[j] % r = g[j] BY <2>1, <2>3, <2>4
  <2>. QED BY <2>5
<1>8. e \in P
  <2>1. 0 \in P /\ \A j \in 1..e : j - 1 \in P => j \in P BY <1>6, <1>7
  <2>. HIDE DEF P
  <2>2. \A j \in 0..e : j \in P BY <2>1, Induction
  <2>. QED BY <2>2
<1>9. bn_mod_exp(y, e, m) \in 0..m-1 /\ bn_mod_exp(w, e, r) \in 0..r-1
  <2>1. e \in 0..e OBVIOUS
  <2>. QED BY <1>4, <1>5, <2>1
<1>. QED BY <1>4, <1>5, <1>8, <1>9

LEMMA DecodeFunction ==
  ASSUME NEW s \in Block
  PROVE  \E f \in [0..modulus_len -> Int] :
           /\ f[0] = 0 /\ \A j \in 1..modulus_len : f[j] = f[j-1] * Base + s[j-1]
           /\ bn_decode(s) = f[modulus_len]
<1>. USE LengthAssumption, RadixAssumption
<1> DEFINE next == [t \in (1..modulus_len) \X Int |-> t[2] * Base + s[t[1]-1]]
<1>0. \A j \in 1..modulus_len : s[j-1] \in Int BY DEF Block, Bytes
<1>1. next \in [(1..modulus_len) \X Int -> Int]
      /\ \A j \in 1..modulus_len, v \in Int : next[<<j, v>>] = v * Base + s[j-1]
  BY <1>0, SMTT(30)
<1>2. PICK f \in [0..modulus_len -> Int] :
        f[0] = 0 /\ \A j \in 1..modulus_len : f[j] = next[<<j, f[j-1]>>]
  <2> DEFINE S == Int
             first == 0
  <2>1. first \in S /\ next \in [(1..modulus_len) \X S -> S] BY <1>1
  <2>. HIDE DEF next, S, first
  <2>2. PICK f \in [0..modulus_len -> S] : Follows(f, modulus_len, first, next)
    BY <2>1, RecursionExists
  <2>. QED BY <2>2 DEF S, first, Follows
<1>. HIDE DEF next
<1>3. f = [j \in 0..modulus_len |-> IF j = 0 THEN 0 ELSE f[j-1] * Base + s[j-1]]
  <2>1. ASSUME NEW j \in 0..modulus_len
        PROVE  f[j] = IF j = 0 THEN 0 ELSE f[j-1] * Base + s[j-1]
    <3>1. CASE j = 0 BY <1>2, <3>1
    <3>2. CASE j # 0
      <4>1. j \in 1..modulus_len /\ f[j-1] \in Int BY <3>2
      <4>2. f[j] = next[<<j, f[j-1]>>] BY <1>2, <4>1
      <4>. QED BY <1>1, <3>2, <4>1, <4>2
    <3>. QED BY <3>1, <3>2
  <2>. QED BY <2>1
<1> DEFINE g == CHOOSE h : h = [j \in 0..modulus_len |-> IF j = 0 THEN 0 ELSE h[j-1] * Base + s[j-1]]
<1>4. g = [j \in 0..modulus_len |-> IF j = 0 THEN 0 ELSE g[j-1] * Base + s[j-1]] BY <1>3
<1>5. bn_decode(s) = g[modulus_len] BY DEF bn_decode
<1>. HIDE DEF g
<1>6. \A j \in 0..modulus_len : j \in {h \in 0..modulus_len : g[h] = f[h]}
  <2> DEFINE P == {h \in 0..modulus_len : g[h] = f[h]}
  <2>1. 0 \in P BY <1>3, <1>4
  <2>2. ASSUME NEW j \in 1..modulus_len, j - 1 \in P PROVE j \in P BY <1>3, <1>4, <2>2
  <2>. HIDE DEF P
  <2>3. \A j \in 0..modulus_len : j \in P BY <2>1, <2>2, Induction
  <2>. QED BY <2>3 DEF P
<1>7. f[0] = 0 /\ \A j \in 1..modulus_len : f[j] = f[j-1] * Base + s[j-1] BY <1>3
<1>8. bn_decode(s) = f[modulus_len] BY <1>5, <1>6
<1>. QED BY <1>7, <1>8, Zenon

(* Arrays of bytes and numbers below the power correspond.  With f as above,   *)
(* f[k] is the number without its last modulus_len - k bytes.                  *)
DecodeOf(f, s) == f[0] = 0 /\ \A j \in 1..modulus_len : f[j] = f[j-1] * Base + s[j-1]

LEMMA DecodePrefix ==
  ASSUME NEW s \in Block, NEW f \in [0..modulus_len -> Int], DecodeOf(f, s),
         NEW k \in 0..modulus_len
  PROVE  f[k] \in 0..Power(Base, k)-1
<1>. USE LengthAssumption, RadixAssumption
<1> DEFINE P == {j \in 0..modulus_len : f[j] \in 0..Power(Base, j)-1}
<1>1. 0 \in P
  <2>1. 0 \in Nat /\ Base \in Int OBVIOUS
  <2>2. Power(Base, 0) = 1 BY <2>1, PowerStep
  <2>. QED BY <2>2, SMTT(30) DEF DecodeOf
<1>2. ASSUME NEW j \in 1..modulus_len, j - 1 \in P PROVE j \in P
  <2> DEFINE w == Power(Base, j - 1)
             v == f[j-1]
  <2>1. w \in Int /\ Power(Base, j) = w * Base
    <3>1. j - 1 \in Nat /\ (j - 1) + 1 = j /\ Base \in Int OBVIOUS
    <3>. QED BY <3>1, PowerStep
  <2>2. v \in 0..w-1 BY <1>2
  <2>3. s[j-1] \in 0..Base-1 BY DEF Block, Bytes
  <2>4. f[j] = v * Base + s[j-1] BY DEF DecodeOf
  <2>. HIDE DEF v, w
  <2>5. (w - v) * Base >= Base BY <2>1, <2>2, ProductGrows
  <2>6. (w - v) * Base = w * Base - v * Base BY <2>1, <2>2
  <2>7. v * Base \in Nat /\ w * Base \in Int BY <2>1, <2>2
  <2>. QED BY <2>1, <2>3, <2>4, <2>5, <2>6, <2>7
<1>3. \A j \in 0..modulus_len : j \in P
  <2>. HIDE DEF P
  <2>. QED BY <1>1, <1>2, Induction
<1>. QED BY <1>3

LEMMA BaseAboveZero == Base \in Nat /\ Base > 0 /\ \A e \in Nat : Power(Base, e) \in Nat /\ Power(Base, e) > 0
<1>1. Base \in Nat /\ Base > 1
  <2>1. 0 \in Byte /\ FF \in Byte /\ FF # 0 BY ByteAssumption
  <2>. QED BY <2>1, RadixAssumption
<1>2. ASSUME NEW e \in Nat PROVE Power(Base, e) \in Nat /\ Power(Base, e) > 0
  <2>1. Power(Base, e) \in Nat /\ Power(Base, e) > e BY <1>1, PowerGrows
  <2>. QED BY <2>1
<1>. QED BY <1>1, <1>2

(* One digit of a quotient, and the quotient by one power more.               *)
LEMMA QuotientStep ==
  ASSUME NEW y \in Nat, NEW e \in Nat
  PROVE  /\ y \div Power(Base, e) \in Nat
         /\ y \div Power(Base, e + 1) = (y \div Power(Base, e)) \div Base
<1> DEFINE w == Power(Base, e)
<1>1. w \in Nat /\ w > 0 /\ Base \in Nat /\ Base > 0 BY BaseAboveZero
<1>2. Power(Base, e + 1) = w * Base BY <1>1, PowerStep
<1>. HIDE DEF w
<1>3. y \div (w * Base) = (y \div w) \div Base BY <1>1, DividedTwice
<1>4. y \div w \in Nat BY <1>1, Divided
<1>. QED BY <1>2, <1>3, <1>4 DEF w

LEMMA QuotientByOne ==
  ASSUME NEW y \in Nat
  PROVE  y \div Power(Base, 0) = y
<1>1. Power(Base, 0) = 1
  <2>1. 0 \in Nat /\ Base \in Int BY BaseAboveZero
  <2>. QED BY <2>1, PowerStep
<1>2. y \div 1 = y OBVIOUS
<1>. QED BY <1>1, <1>2

LEMMA PrefixIsQuotient ==
  ASSUME NEW s \in Block, NEW f \in [0..modulus_len -> Int], DecodeOf(f, s),
         NEW k \in 0..modulus_len
  PROVE  f[modulus_len - k] = f[modulus_len] \div Power(Base, k)
<1>. USE LengthAssumption, BaseAboveZero
<1> DEFINE y == f[modulus_len]
           P == {j \in 0..modulus_len : f[modulus_len - j] = y \div Power(Base, j)}
<1>0. y \in Nat
  <2>1. modulus_len \in 0..modulus_len /\ modulus_len \in Nat OBVIOUS
  <2>2. f[modulus_len] \in 0..Power(Base, modulus_len)-1 BY <2>1, DecodePrefix
  <2>. QED BY <2>2
<1>1. 0 \in P
  <2>1. y \div Power(Base, 0) = y BY <1>0, QuotientByOne
  <2>. QED BY <2>1
<1>2. ASSUME NEW j \in 1..modulus_len, j - 1 \in P PROVE j \in P
  <2> DEFINE w == Power(Base, j - 1)
             v == f[modulus_len - j]
  <2>1. y \div Power(Base, j) = (y \div w) \div Base
    <3>1. j - 1 \in Nat /\ (j - 1) + 1 = j OBVIOUS
    <3>. HIDE DEF y
    <3>. QED BY <1>0, <3>1, QuotientStep
  <2>2. v \in Int /\ s[modulus_len - j] \in 0..Base-1
        /\ y \div w = v * Base + s[modulus_len - j]
    <3>1. modulus_len - j \in 0..modulus_len-1 /\ modulus_len - (j - 1) \in 1..modulus_len
          /\ (modulus_len - (j - 1)) - 1 = modulus_len - j OBVIOUS
    <3>2. f[modulus_len - (j - 1)] = f[modulus_len - j] * Base + s[modulus_len - j]
      BY <3>1 DEF DecodeOf
    <3>3. f[modulus_len - (j - 1)] = y \div w BY <1>2
    <3>4. s[modulus_len - j] \in 0..Base-1 BY <3>1, RadixAssumption DEF Block, Bytes
    <3>5. v \in Int BY <3>1
    <3>. QED BY <3>2, <3>3, <3>4, <3>5
  <2> DEFINE z == y \div w
             h == s[modulus_len - j]
  <2>3. v \in Int /\ h \in 0..Base-1 /\ z = v * Base + h /\ z \in Int BY <2>2
  <2>4. z \div Base = v
    <3>. HIDE DEF z, v, h
    <3>. QED BY <2>3, DividedUnique, Zenon
  <2>. QED BY <2>1, <2>4
<1>3. \A j \in 0..modulus_len : j \in P
  <2>. HIDE DEF P
  <2>. QED BY <1>1, <1>2, Induction
<1>. QED BY <1>3

LEMMA DecodeRange ==
  ASSUME NEW s \in Block
  PROVE  /\ bn_decode(s) \in 0..Power(Base, modulus_len)-1
         /\ s[0] = 0 => bn_decode(s) < Power(Base, modulus_len - 1)
<1>. USE LengthAssumption, BaseAboveZero
<1>1. PICK f \in [0..modulus_len -> Int] : DecodeOf(f, s) /\ bn_decode(s) = f[modulus_len]
  BY DecodeFunction DEF DecodeOf
<1> DEFINE y == f[modulus_len]
<1>2. y \in 0..Power(Base, modulus_len)-1
  <2>1. modulus_len \in 0..modulus_len OBVIOUS
  <2>. QED BY <1>1, <2>1, DecodePrefix
<1>3. ASSUME s[0] = 0 PROVE y < Power(Base, modulus_len - 1)
  <2> DEFINE w == Power(Base, modulus_len - 1)
  <2>1. w \in Nat /\ w > 0 OBVIOUS
  <2>2. f[1] = y \div w
    <3>1. modulus_len - 1 \in 0..modulus_len /\ modulus_len - (modulus_len - 1) = 1 OBVIOUS
    <3>2. f[modulus_len - (modulus_len - 1)] = f[modulus_len] \div Power(Base, modulus_len - 1)
      BY <1>1, <3>1, PrefixIsQuotient, Zenon
    <3>. QED BY <3>1, <3>2
  <2>3. f[1] = 0
    <3>1. 1 \in 1..modulus_len /\ 1 - 1 = 0 OBVIOUS
    <3>2. f[1] = f[0] * Base + s[0] BY <1>1, <3>1 DEF DecodeOf
    <3>3. f[0] = 0 BY <1>1 DEF DecodeOf
    <3>. QED BY <1>3, <3>2, <3>3
  <2>4. y \in Int BY <1>2
  <2>. HIDE DEF y, w
  <2>5. y % w \in 0..w-1 /\ y = (y \div w) * w + (y % w) BY <2>1, <2>4, Divided
  <2> DEFINE h == y % w
             u == y \div w
  <2>6. h \in 0..w-1 /\ u = 0 /\ y = u * w + h BY <2>2, <2>3, <2>5
  <2>7. y = h
    <3>. HIDE DEF h, u
    <3>. QED BY <2>1, <2>6
  <2>8. y < w
    <3>. HIDE DEF h
    <3>. QED BY <2>6, <2>7, <2>1
  <2>. QED BY <2>8 DEF w, y
<1>. QED BY <1>1, <1>2, <1>3

LEMMA EncodeType ==
  ASSUME NEW y \in Nat
  PROVE  bn_encode(y) \in Block
<1>. USE LengthAssumption, BaseAboveZero
<1>1. ASSUME NEW k \in 0..modulus_len-1
      PROVE  (y \div Power(Base, modulus_len-1-k)) % Base \in Byte
  <2> DEFINE w == Power(Base, modulus_len-1-k)
             z == y \div w
  <2>1. modulus_len-1-k \in Nat OBVIOUS
  <2>2. w \in Nat /\ w > 0 BY <2>1
  <2>3. z \in Int
    <3>. HIDE DEF w
    <3>. QED BY <2>2, Divided
  <2>. HIDE DEF z
  <2>4. z % Base \in 0..Base-1 BY <2>3, Divided
  <2>. QED BY <2>4, RadixAssumption DEF z
<1>. QED BY <1>1 DEF bn_encode, Block, Bytes

(* What was bytes comes back as these bytes.                                *)
LEMMA EncodeDecode ==
  ASSUME NEW s \in Block
  PROVE  bn_encode(bn_decode(s)) = s
<1>. USE LengthAssumption, BaseAboveZero
<1>1. PICK f \in [0..modulus_len -> Int] : DecodeOf(f, s) /\ bn_decode(s) = f[modulus_len]
  BY DecodeFunction DEF DecodeOf
<1>2. ASSUME NEW k \in 0..modulus_len-1
      PROVE  (f[modulus_len] \div Power(Base, modulus_len-1-k)) % Base = s[k]
  <2> DEFINE y == f[modulus_len] \div Power(Base, modulus_len-1-k)
  <2>1. f[k+1] = y
    <3>1. modulus_len-1-k \in 0..modulus_len /\ modulus_len - (modulus_len-1-k) = k+1 OBVIOUS
    <3>2. f[modulus_len - (modulus_len-1-k)] = y BY <1>1, <3>1, PrefixIsQuotient, Zenon
    <3>. QED BY <3>1, <3>2
  <2> DEFINE v == f[k]
             h == s[k]
  <2>2. v \in Int /\ h \in 0..Base-1 /\ y = v * Base + h
    <3>1. k+1 \in 1..modulus_len /\ (k+1)-1 = k /\ k \in 0..modulus_len OBVIOUS
    <3>2. f[k+1] = f[k] * Base + s[k] BY <1>1, <3>1 DEF DecodeOf
    <3>3. s[k] \in 0..Base-1 BY RadixAssumption DEF Block, Bytes
    <3>. QED BY <2>1, <3>1, <3>2, <3>3
  <2>3. y \in Int BY <2>2
  <2>4. y % Base = h
    <3>. HIDE DEF y, v, h
    <3>. QED BY <2>2, <2>3, DividedUnique, Zenon
  <2>. QED BY <2>4
<1>3. bn_encode(f[modulus_len]) = s
  BY <1>2 DEF bn_encode, Block, Bytes
<1>. QED BY <1>1, <1>3

(* A number that fits in the block comes back.                              *)
LEMMA DecodeEncode ==
  ASSUME NEW y \in 0..Power(Base, modulus_len)-1
  PROVE  bn_decode(bn_encode(y)) = y
<1>. USE LengthAssumption, BaseAboveZero
<1>0. y \in Nat BY modulus_len \in Nat
<1> DEFINE s == bn_encode(y)
<1>1. s \in Block BY <1>0, EncodeType
<1>2. \A k \in 0..modulus_len-1 : s[k] = (y \div Power(Base, modulus_len-1-k)) % Base
  BY DEF bn_encode
<1>. HIDE DEF s
<1>3. PICK f \in [0..modulus_len -> Int] : DecodeOf(f, s) /\ bn_decode(s) = f[modulus_len]
  BY <1>1, DecodeFunction DEF DecodeOf
<1> DEFINE P == {j \in 0..modulus_len : f[j] = y \div Power(Base, modulus_len - j)}
<1>4. 0 \in P
  <2> DEFINE w == Power(Base, modulus_len)
  <2>1. w \in Nat /\ y \in 0..w-1 OBVIOUS
  <2>2. y \div w = 0
    <3>. HIDE DEF w
    <3>. QED BY <2>1, SmallRemainder
  <2>3. modulus_len - 0 = modulus_len /\ 0 \in 0..modulus_len OBVIOUS
  <2>. QED BY <1>3, <2>2, <2>3 DEF DecodeOf
<1>5. ASSUME NEW j \in 1..modulus_len, j - 1 \in P PROVE j \in P
  <2> DEFINE z == y \div Power(Base, modulus_len - j)
             v == z \div Base
  <2>1. z \in Nat /\ y \div Power(Base, modulus_len - (j - 1)) = v
    <3>1. modulus_len - j \in Nat /\ (modulus_len - j) + 1 = modulus_len - (j - 1) OBVIOUS
    <3>2. z \in Nat /\ y \div Power(Base, (modulus_len - j) + 1) = v
      BY <1>0, <3>1, QuotientStep, Zenon
    <3>. QED BY <3>1, <3>2
  <2>2. f[j-1] = v BY <1>5, <2>1
  <2>3. s[j-1] = z % Base
    <3>1. j - 1 \in 0..modulus_len-1 /\ modulus_len - 1 - (j - 1) = modulus_len - j OBVIOUS
    <3>2. s[j-1] = (y \div Power(Base, modulus_len - 1 - (j - 1))) % Base BY <1>2, <3>1
    <3>. QED BY <3>1, <3>2
  <2>4. f[j] = v * Base + (z % Base) BY <1>3, <2>2, <2>3 DEF DecodeOf
  <2>5. z = v * Base + (z % Base)
    <3>. HIDE DEF z
    <3>. QED BY <2>1, Divided DEF v
  <2>6. f[j] = z BY <2>4, <2>5, Zenon
  <2>. QED BY <2>6
<1>6. \A j \in 0..modulus_len : j \in P
  <2>. HIDE DEF P
  <2>. QED BY <1>4, <1>5, Induction
<1>7. f[modulus_len] = y
  <2>1. modulus_len \in 0..modulus_len /\ modulus_len - modulus_len = 0 OBVIOUS
  <2>2. f[modulus_len] = y \div Power(Base, modulus_len - modulus_len) BY <1>6, <2>1
  <2>3. y \div Power(Base, 0) = y BY <1>0, QuotientByOne
  <2>. QED BY <2>1, <2>2, <2>3
<1>. QED BY <1>3, <1>7 DEF s

-----------------------------------------------------------------------------
(* The arrays of the combination are wide enough.                           *)
LEMMA WideEnough ==
  ASSUME NEW y \in Nat
  PROVE  Power(Radix, bn_digits(y)) \in Nat /\ Power(Radix, bn_digits(y)) > y
<1>. USE RadixAssumption
<1>1. \A k \in Nat : Power(Radix, k) \in Nat /\ Power(Radix, k) > k BY PowerGrows
<1> DEFINE S == {k \in 0..y : Power(Radix, k) > y}
<1>2. S \in SUBSET Nat /\ y \in S BY <1>1
<1>3. PICK l \in S : \A k \in S : l <= k
  <2>. HIDE DEF S
  <2>. QED BY <1>2, LeastNumber
<1>4. l > 0 => Power(Radix, l-1) <= y
  <2>1. SUFFICES ASSUME l > 0, ~(Power(Radix, l-1) <= y) PROVE FALSE OBVIOUS
  <2>2. l - 1 \in 0..y /\ l - 1 \in Nat BY <2>1, <1>3
  <2>3. Power(Radix, l-1) \in Nat BY <1>1, <2>2
  <2>4. l - 1 \in S BY <2>1, <2>2, <2>3
  <2>. QED BY <1>3, <2>4
<1>5. bn_digits(y) \in 0..y /\ Power(Radix, bn_digits(y)) > y BY <1>3, <1>4 DEF bn_digits
<1>. QED BY <1>1, <1>5

-----------------------------------------------------------------------------
(* The blocks.                                                             *)

(* The loops stop, at the first byte that is not fill or at the last.      *)
LEMMA EndOfFFFact ==
  ASSUME NEW s \in Block
  PROVE  /\ EndOfFF(s) \in 2..modulus_len-1
         /\ EndOfFF(s) = modulus_len - 1 \/ s[EndOfFF(s)] # FF
         /\ \A j \in 2..EndOfFF(s)-1 : s[j] = FF
<1> DEFINE S == {k \in 2..modulus_len-1 : k = modulus_len - 1 \/ s[k] # FF}
<1>1. S \in SUBSET Nat /\ modulus_len - 1 \in S BY LengthAssumption
<1>2. PICK k \in S : \A y \in S : k <= y
  <2>. HIDE DEF S
  <2>. QED BY <1>1, LeastNumber
<1>3. \A j \in 2..k-1 : s[j] = FF BY <1>2, LengthAssumption
<1>. QED BY <1>2, <1>3 DEF EndOfFF

LEMMA EndOfNonZeroFact ==
  ASSUME NEW s \in Block
  PROVE  /\ EndOfNonZero(s) \in 2..modulus_len-1
         /\ EndOfNonZero(s) = modulus_len - 1 \/ s[EndOfNonZero(s)] = 0
         /\ \A j \in 2..EndOfNonZero(s)-1 : s[j] # 0
<1> DEFINE S == {k \in 2..modulus_len-1 : k = modulus_len - 1 \/ s[k] = 0}
<1>1. S \in SUBSET Nat /\ modulus_len - 1 \in S BY LengthAssumption
<1>2. PICK k \in S : \A y \in S : k <= y
  <2>. HIDE DEF S
  <2>. QED BY <1>1, LeastNumber
<1>3. \A j \in 2..k-1 : s[j] # 0 BY <1>2, LengthAssumption
<1>. QED BY <1>2, <1>3 DEF EndOfNonZero

(***************************************************************************)
(* Of one block: what is padded comes back, and what comes back was padded. *)
(***************************************************************************)

LEMMA LayoutFact ==
  ASSUME NEW type \in {1, 2}, NEW fill \in Block, NEW k \in Nat, k + Overhead <= modulus_len,
         NEW m \in Bytes(k)
  PROVE  /\ Layout(type, fill, k, m) \in Block
         /\ Layout(type, fill, k, m)[0] = 0
         /\ Layout(type, fill, k, m)[1] = type
         /\ \A j \in 2..modulus_len-k-2 : Layout(type, fill, k, m)[j] = fill[j]
         /\ Layout(type, fill, k, m)[modulus_len-k-1] = 0
         /\ \A j \in 0..k-1 : Layout(type, fill, k, m)[modulus_len-k+j] = m[j]
<1>. USE ByteAssumption, LengthAssumption
<1>1. \A j \in 0..modulus_len-1 :
        Layout(type, fill, k, m)[j] =
          IF j = 0 THEN 0
          ELSE IF j = 1 THEN type
          ELSE IF j < modulus_len - k - 1 THEN fill[j]
          ELSE IF j = modulus_len - k - 1 THEN 0
          ELSE m[j - (modulus_len - k)]
  BY DEF Layout
<1>2. Layout(type, fill, k, m) \in Block
  BY DEF Layout, Block, Bytes
<1>. QED BY <1>1, <1>2

LEMMA RestFact ==
  ASSUME NEW k \in Nat, k + Overhead <= modulus_len, NEW m \in Bytes(k), NEW s \in Block,
         \A j \in 0..k-1 : s[modulus_len-k+j] = m[j]
  PROVE  Rest(s, modulus_len - k) = Ok(k, m)
<1>. USE LengthAssumption
<1>1. modulus_len - (modulus_len - k) = k OBVIOUS
<1>2. [j \in 0..k-1 |-> s[modulus_len-k+j]] = m BY DEF Bytes
<1>. QED BY <1>1, <1>2 DEF Rest

LEMMA PublicDecryptPadded ==
  ASSUME NEW k \in Nat, k + Overhead <= modulus_len, NEW m \in Bytes(k)
  PROVE  PublicDecrypt(Layout(1, FillFF, k, m)) = Ok(k, m)
<1>. USE LengthAssumption
<1> DEFINE s == Layout(1, FillFF, k, m)
<1>1. FillFF \in Block /\ \A j \in 0..modulus_len-1 : FillFF[j] = FF
  BY ByteAssumption DEF FillFF, Block, Bytes
<1>2. /\ s \in Block /\ s[0] = 0 /\ s[1] = 1
      /\ \A j \in 2..modulus_len-k-2 : s[j] = FF
      /\ s[modulus_len-k-1] = 0
      /\ \A j \in 0..k-1 : s[modulus_len-k+j] = m[j]
  BY <1>1, LayoutFact
<1>. HIDE DEF s
<1>3. EndOfFF(s) = modulus_len - k - 1
  BY <1>2, EndOfFFFact, ByteAssumption
<1>4. Rest(s, modulus_len - k) = Ok(k, m)
  BY <1>2, RestFact
<1>5. PublicDecrypt(s) = Ok(k, m)
  BY <1>2, <1>3, <1>4 DEF PublicDecrypt
<1>. QED BY <1>5 DEF s

LEMMA PrivateDecryptPadded ==
  ASSUME NEW k \in Nat, k + Overhead <= modulus_len, NEW m \in Bytes(k), NEW fill \in RandomFill
  PROVE  PrivateDecrypt(Layout(2, fill, k, m))
           = IF k = 0 THEN Error("ERR_WRONG_DATA") ELSE Ok(k, m)
<1>. USE LengthAssumption
<1> DEFINE s == Layout(2, fill, k, m)
<1>1. fill \in Block /\ \A j \in 0..modulus_len-1 : fill[j] # 0
  BY DEF RandomFill, Block, Bytes
<1>2. /\ s \in Block /\ s[0] = 0 /\ s[1] = 2
      /\ \A j \in 2..modulus_len-k-2 : s[j] # 0
      /\ s[modulus_len-k-1] = 0
      /\ \A j \in 0..k-1 : s[modulus_len-k+j] = m[j]
  BY <1>1, LayoutFact
<1>. HIDE DEF s
<1>3. EndOfNonZero(s) = modulus_len - k - 1
  BY <1>2, EndOfNonZeroFact
<1>4. Rest(s, modulus_len - k) = Ok(k, m)
  BY <1>2, RestFact
<1>5. PrivateDecrypt(s) = IF k = 0 THEN Error("ERR_WRONG_DATA") ELSE Ok(k, m)
  BY <1>2, <1>3, <1>4 DEF PrivateDecrypt
<1>. QED BY <1>5 DEF s

(* What Rest returns, when it returns a message. *)
LEMMA RestOk ==
  ASSUME NEW s \in Block, NEW i \in 1..modulus_len, Rest(s, i).status = "OK"
  PROVE  /\ Rest(s, i).len = modulus_len - i
         /\ Rest(s, i).len \in Nat
         /\ Rest(s, i).len + Overhead <= modulus_len
         /\ Rest(s, i).out \in Bytes(Rest(s, i).len)
         /\ \A j \in 0..modulus_len-i-1 : Rest(s, i).out[j] = s[i+j]
<1>. USE LengthAssumption
<1>1. modulus_len - i + Overhead <= modulus_len
  BY DEF Rest, Error
<1>2. Rest(s, i) = Ok(modulus_len - i, [k \in 0 .. modulus_len-i-1 |-> s[i+k]])
  BY <1>1 DEF Rest
<1> DEFINE f == [k \in 0 .. modulus_len-i-1 |-> s[i+k]]
<1>3. Rest(s, i).len = modulus_len - i /\ Rest(s, i).out = f
  BY <1>2 DEF Ok
<1>4. f \in Bytes(modulus_len - i)
  <2>1. \A k \in 0 .. modulus_len-i-1 : i + k \in 0..modulus_len-1 OBVIOUS
  <2>. QED BY <2>1 DEF Bytes, Block
<1>5. modulus_len - i \in Nat OBVIOUS
<1>6. \A j \in 0..modulus_len-i-1 : f[j] = s[i+j] OBVIOUS
<1>. HIDE DEF f
<1>. QED BY <1>1, <1>3, <1>4, <1>5, <1>6

LEMMA PublicDecryptOnlyPadded ==
  ASSUME NEW s \in Block, PublicDecrypt(s).status = "OK"
  PROVE  /\ PublicDecrypt(s).len + Overhead <= modulus_len
         /\ s = Layout(1, FillFF, PublicDecrypt(s).len, PublicDecrypt(s).out)
<1>. USE LengthAssumption
<1> DEFINE e == EndOfFF(s)
           r == PublicDecrypt(s)
<1>1. e \in 2..modulus_len-1 /\ \A j \in 2..e-1 : s[j] = FF
  BY EndOfFFFact
<1>2. s[0] = 0 /\ s[1] = 1 /\ s[e] = 0 /\ r = Rest(s, e + 1)
  BY DEF PublicDecrypt, Error
<1>3. /\ r.len = modulus_len - e - 1
      /\ r.len + Overhead <= modulus_len
      /\ \A j \in 0..modulus_len-e-2 : r.out[j] = s[e+1+j]
  <2>1. e + 1 \in 1..modulus_len BY <1>1
  <2>2. Rest(s, e + 1).status = "OK" BY <1>2
  <2>. HIDE DEF e, r
  <2>3. /\ Rest(s, e + 1).len = modulus_len - (e + 1)
        /\ Rest(s, e + 1).len + Overhead <= modulus_len
        /\ \A j \in 0..modulus_len-(e+1)-1 : Rest(s, e + 1).out[j] = s[(e+1)+j]
    BY <2>1, <2>2, RestOk
  <2>. QED BY <1>1, <1>2, <2>3
<1>. HIDE DEF e, r
<1>4. ASSUME NEW j \in 0..modulus_len-1
      PROVE  s[j] = Layout(1, FillFF, r.len, r.out)[j]
  <2>1. CASE j <= e
    BY <1>1, <1>2, <1>3, <2>1 DEF Layout, FillFF
  <2>2. CASE j > e
    <3>1. r.out[j - e - 1] = s[e + 1 + (j - e - 1)] BY <1>1, <1>3, <2>2
    <3>2. e + 1 + (j - e - 1) = j /\ j - (modulus_len - r.len) = j - e - 1
      BY <1>1, <1>3
    <3>3. Layout(1, FillFF, r.len, r.out)[j] = r.out[j - (modulus_len - r.len)]
      BY <1>1, <1>3, <2>2 DEF Layout
    <3>. QED BY <3>1, <3>2, <3>3
  <2>. QED BY <1>1, <2>1, <2>2
<1>5. s = Layout(1, FillFF, r.len, r.out)
  BY <1>4 DEF Layout, Block, Bytes
<1>. QED BY <1>3, <1>5 DEF r

LEMMA PrivateDecryptOnlyPadded ==
  ASSUME NEW s \in Block, PrivateDecrypt(s).status = "OK"
  PROVE  /\ PrivateDecrypt(s).len + Overhead <= modulus_len
         /\ s = Layout(2, s, PrivateDecrypt(s).len, PrivateDecrypt(s).out)
         /\ \A j \in 2 .. modulus_len - PrivateDecrypt(s).len - 2 : s[j] # 0
<1>. USE LengthAssumption
<1> DEFINE e == EndOfNonZero(s)
           r == PrivateDecrypt(s)
<1>1. /\ e \in 2..modulus_len-1 /\ \A j \in 2..e-1 : s[j] # 0
      /\ e = modulus_len - 1 \/ s[e] = 0
  BY EndOfNonZeroFact
<1>2. s[0] = 0 /\ s[1] = 2 /\ e + 1 < modulus_len /\ r = Rest(s, e + 1)
  BY <1>1 DEF PrivateDecrypt, Error
<1>3. /\ r.len = modulus_len - e - 1
      /\ r.len + Overhead <= modulus_len
      /\ \A j \in 0..modulus_len-e-2 : r.out[j] = s[e+1+j]
  <2>1. e + 1 \in 1..modulus_len BY <1>1
  <2>2. Rest(s, e + 1).status = "OK" BY <1>2
  <2>. HIDE DEF e, r
  <2>3. /\ Rest(s, e + 1).len = modulus_len - (e + 1)
        /\ Rest(s, e + 1).len + Overhead <= modulus_len
        /\ \A j \in 0..modulus_len-(e+1)-1 : Rest(s, e + 1).out[j] = s[(e+1)+j]
    BY <2>1, <2>2, RestOk
  <2>. QED BY <1>1, <1>2, <2>3
<1>. HIDE DEF e, r
<1>4. ASSUME NEW j \in 0..modulus_len-1
      PROVE  s[j] = Layout(2, s, r.len, r.out)[j]
  <2>1. CASE j <= e
    BY <1>1, <1>2, <1>3, <2>1 DEF Layout
  <2>2. CASE j > e
    <3>1. r.out[j - e - 1] = s[e + 1 + (j - e - 1)] BY <1>1, <1>3, <2>2
    <3>2. e + 1 + (j - e - 1) = j /\ j - (modulus_len - r.len) = j - e - 1
      BY <1>1, <1>3
    <3>3. Layout(2, s, r.len, r.out)[j] = r.out[j - (modulus_len - r.len)]
      BY <1>1, <1>3, <2>2 DEF Layout
    <3>. QED BY <3>1, <3>2, <3>3
  <2>. QED BY <1>1, <2>1, <2>2
<1>5. s = Layout(2, s, r.len, r.out)
  BY <1>4 DEF Layout, Block, Bytes
<1>6. \A j \in 2 .. modulus_len - r.len - 2 : s[j] # 0
  BY <1>1, <1>3
<1>. QED BY <1>3, <1>5, <1>6 DEF r

(***************************************************************************)
(* The specification.                                                      *)
(***************************************************************************)

LEMMA RestType ==
  ASSUME NEW s \in Block, NEW i \in 1..modulus_len
  PROVE  /\ Rest(s, i).status \in {"OK", "ERR_WRONG_DATA"}
         /\ Rest(s, i).len \in 0..modulus_len
         /\ Rest(s, i).out \in Bytes(Rest(s, i).len)
<1>. USE LengthAssumption
<1>1. CASE modulus_len - i + Overhead > modulus_len
  BY <1>1 DEF Rest, Error, Bytes
<1>2. CASE ~(modulus_len - i + Overhead > modulus_len)
  <2>1. Rest(s, i) = Ok(modulus_len - i, [k \in 0 .. modulus_len-i-1 |-> s[i+k]])
    BY <1>2 DEF Rest
  <2>2. Rest(s, i).status = "OK" BY <2>1 DEF Ok
  <2>. QED BY <2>2, RestOk
<1>. QED BY <1>1, <1>2

LEMMA ErrorType ==
  ASSUME NEW e \in {"ERR_WRONG_LEN", "ERR_WRONG_DATA"}
  PROVE  /\ Error(e).status = e /\ Error(e).len \in 0..modulus_len
         /\ Error(e).out \in Bytes(Error(e).len)
BY LengthAssumption DEF Error, Bytes

(* The types of the variables. *)
THEOREM TypeCorrect == Spec => []TypeOK
<1>. USE LengthAssumption, ByteAssumption
<1>1. Init => TypeOK
  <2>. SUFFICES ASSUME Init PROVE TypeOK OBVIOUS
  <2>1. [k \in 0..modulus_len-1 |-> 0] \in Block BY DEF Block, Bytes
  <2>2. /\ result.status = "ERR_WRONG_LEN" /\ result.len \in 0..modulus_len
        /\ result.out \in Bytes(result.len)
    BY ErrorType DEF Init
  <2>3. n \in Nat /\ msg \in Bytes(n) BY DEF Init
  <2>4. intact \in BOOLEAN /\ sender \in {"private", "public"} /\ block \in Block
    BY <2>1 DEF Init
  <2>. QED BY <2>2, <2>3, <2>4 DEF Init, TypeOK
<1>2. TypeOK /\ [Next]_vars => TypeOK'
  <2>. SUFFICES ASSUME TypeOK, [Next]_vars PROVE TypeOK' OBVIOUS
  <2>1. CASE TooLong
    <3>1. /\ result'.status = "ERR_WRONG_LEN" /\ result'.len \in 0..modulus_len
          /\ result'.out \in Bytes(result'.len)
      BY <2>1, ErrorType DEF TooLong
    <3>. QED BY <2>1, <3>1 DEF TooLong, TypeOK
  <2>2. ASSUME NEW s \in Block, Send(s) PROVE TypeOK'
    BY <2>2 DEF Send, TypeOK
  <2>3. CASE PrivateEncrypt
    <3>1. n + Overhead <= modulus_len BY <2>3 DEF PrivateEncrypt, Send
    <3>2. FillFF \in Block BY DEF FillFF, Block, Bytes
    <3>3. Layout(1, FillFF, n, msg) \in Block BY <3>1, <3>2, LayoutFact DEF TypeOK
    <3>. QED BY <2>2, <2>3, <3>3 DEF PrivateEncrypt
  <2>4. CASE PublicEncrypt
    <3>1. PICK fill \in RandomFill : Send(Layout(2, fill, n, msg))
      BY <2>4 DEF PublicEncrypt
    <3>2. n + Overhead <= modulus_len BY <3>1 DEF Send
    <3>3. fill \in Block BY DEF RandomFill, Block, Bytes
    <3>4. Layout(2, fill, n, msg) \in Block BY <3>2, <3>3, LayoutFact DEF TypeOK
    <3>. QED BY <2>2, <3>1, <3>4
  <2>5. CASE OtherBlock
    BY <2>5, Zenon DEF OtherBlock, TypeOK
  <2>8. CASE Refused
    <3>1. /\ result'.status = "ERR_WRONG_DATA" /\ result'.len \in 0..modulus_len
          /\ result'.out \in Bytes(result'.len)
      BY <2>8, ErrorType DEF Refused
    <3>. QED BY <2>8, <3>1 DEF Refused, TypeOK
  <2>6. CASE Decrypt
    <3>1. block \in Block BY DEF TypeOK
    <3>2. EndOfFF(block) + 1 \in 1..modulus_len /\ EndOfNonZero(block) + 1 \in 1..modulus_len
      BY <3>1, EndOfFFFact, EndOfNonZeroFact
    <3>3. \/ result' = Error("ERR_WRONG_DATA")
          \/ result' = Rest(block, EndOfFF(block) + 1)
          \/ result' = Rest(block, EndOfNonZero(block) + 1)
      BY <2>6 DEF Decrypt, PublicDecrypt, PrivateDecrypt
    <3>4. /\ result'.status \in {"OK", "ERR_WRONG_LEN", "ERR_WRONG_DATA"}
          /\ result'.len \in 0..modulus_len /\ result'.out \in Bytes(result'.len)
      BY <3>1, <3>2, <3>3, RestType, ErrorType
    <3>. QED BY <2>6, <3>4 DEF Decrypt, TypeOK
  <2>7. CASE UNCHANGED vars
    BY <2>7 DEF vars, TypeOK
  <2>. QED BY <2>1, <2>3, <2>4, <2>5, <2>6, <2>7, <2>8 DEF Next
<1>. QED BY <1>1, <1>2, PTL DEF Spec

(* What a block that arrives intact is, and what the other side makes of   *)
(* the block it got: with the types this is inductive.                     *)
Sent ==
  /\ pc = "encrypt" => ~intact
  /\ intact =>
       /\ n + Overhead <= modulus_len
       /\ \/ sender = "private" /\ block = Layout(1, FillFF, n, msg)
          \/ sender = "public" /\ \E fill \in RandomFill : block = Layout(2, fill, n, msg)
  /\ pc = "done" =>
       \/ ~intact /\ result \in {Error("ERR_WRONG_LEN"), Error("ERR_WRONG_DATA")}
       \/ sender = "private" /\ result = PublicDecrypt(block)
       \/ sender = "public" /\ result = PrivateDecrypt(block)

THEOREM SentHolds == Spec => []Sent
<1>1. Init => Sent BY DEF Init, Sent
<1>2. TypeOK /\ Sent /\ [Next]_vars => Sent'
  <2>. SUFFICES ASSUME TypeOK, Sent, [Next]_vars PROVE Sent' OBVIOUS
  <2>1. CASE TooLong BY <2>1, Zenon DEF TooLong, Sent
  <2>2. CASE PrivateEncrypt BY <2>2, Zenon DEF PrivateEncrypt, Send, Sent
  <2>3. CASE PublicEncrypt
    <3>1. PICK fill \in RandomFill : Send(Layout(2, fill, n, msg)) BY <2>3 DEF PublicEncrypt
    <3>2. sender = "public" BY <2>3 DEF PublicEncrypt
    <3>. QED BY <3>1, <3>2, Zenon DEF Send, Sent
  <2>4. CASE OtherBlock BY <2>4, Zenon DEF OtherBlock, Sent
  <2>7. CASE Refused BY <2>7, Zenon DEF Refused, Sent
  <2>5. CASE Decrypt
    <3>1. sender = "private" \/ sender = "public" BY DEF TypeOK
    <3>. QED BY <2>5, <3>1 DEF Decrypt, Sent
  <2>6. CASE UNCHANGED vars BY <2>6, Zenon DEF vars, Sent
  <2>. QED BY <2>1, <2>2, <2>3, <2>4, <2>5, <2>6, <2>7 DEF Next
<1>. QED BY <1>1, <1>2, TypeCorrect, PTL DEF Spec

(* A message comes back as it was sent. *)
THEOREM RoundTripHolds == Spec => []RoundTrip
<1>1. TypeOK /\ Sent => RoundTrip
  <2>. SUFFICES ASSUME TypeOK, Sent, pc = "done", intact
                PROVE  IF sender = "public" /\ n = 0
                         THEN result = Error("ERR_WRONG_DATA")
                         ELSE result = Ok(n, msg)
    BY DEF RoundTrip
  <2>1. n \in Nat /\ msg \in Bytes(n) /\ n + Overhead <= modulus_len
    BY DEF TypeOK, Sent
  <2>2. CASE sender = "private"
    <3>1. result = PublicDecrypt(Layout(1, FillFF, n, msg))
      BY <2>2 DEF Sent
    <3>. QED BY <2>1, <2>2, <3>1, PublicDecryptPadded
  <2>3. CASE sender = "public"
    <3>1. PICK fill \in RandomFill : block = Layout(2, fill, n, msg)
      BY <2>3 DEF Sent
    <3>2. result = PrivateDecrypt(Layout(2, fill, n, msg))
      BY <2>3, <3>1 DEF Sent
    <3>. QED BY <2>1, <2>3, <3>2, PrivateDecryptPadded
  <2>. QED BY <2>2, <2>3 DEF TypeOK
<1>. QED BY <1>1, TypeCorrect, SentHolds, PTL

(* Only a padded message is accepted. *)
THEOREM OnlyPaddedHolds == Spec => []OnlyPadded
<1>1. TypeOK /\ Sent => OnlyPadded
  <2>. SUFFICES ASSUME TypeOK, Sent, pc = "done", ~intact, result.status = "OK"
                PROVE  /\ result.len + Overhead <= modulus_len
                       /\ IF sender = "private"
                            THEN block = Layout(1, FillFF, result.len, result.out)
                            ELSE /\ block = Layout(2, block, result.len, result.out)
                                 /\ \A k \in 2 .. modulus_len - result.len - 2 : block[k] # 0
    BY DEF OnlyPadded
  <2>1. block \in Block BY DEF TypeOK
  <2>2. \/ sender = "private" /\ result = PublicDecrypt(block)
        \/ sender = "public" /\ result = PrivateDecrypt(block)
    BY DEF Sent, Error
  <2>3. CASE sender = "private"
    BY <2>1, <2>2, <2>3, PublicDecryptOnlyPadded
  <2>4. CASE sender = "public"
    BY <2>1, <2>2, <2>4, PrivateDecryptOnlyPadded
  <2>. QED BY <2>3, <2>4 DEF TypeOK
<1>. QED BY <1>1, TypeCorrect, SentHolds, PTL

-----------------------------------------------------------------------------
(* The two primes.                                                          *)
LEMMA NoMultipleBetween ==
  ASSUME NEW r \in Nat, NEW g \in Int, NEW h \in Int, g = h * r, -r < g, g < r
  PROVE  g = 0
<1>1. CASE h >= 1
  <2>1. h * r >= r BY <1>1, ProductGrows
  <2>. QED BY <2>1
<1>2. CASE -h >= 1
  <2>1. (-h) * r >= r BY <1>2, ProductGrows
  <2>2. (-h) * r = -(h * r) /\ h * r \in Int OBVIOUS
  <2>. QED BY <2>1, <2>2
<1>3. CASE h = 0 BY <1>3
<1>. QED BY <1>1, <1>2, <1>3

(* Numbers below the product are known by their remainders.                  *)
LEMMA KnownByRemainders ==
  ASSUME NEW P \in Nat, NEW Q \in Nat, P > 1, Q > 0, NEW inv \in Nat, (inv * Q) % P = 1,
         NEW y \in 0 .. P * Q - 1, NEW z \in 0 .. P * Q - 1, y % P = z % P, y % Q = z % Q
  PROVE  y = z
<1>0. P * Q \in Nat /\ inv * Q \in Nat OBVIOUS
<1>1. ASSUME NEW w \in 0 .. P * Q - 1
      PROVE  w \div Q \in 0..P-1 /\ w = (w \div Q) * Q + (w % Q) /\ w % Q \in 0..Q-1
  <2> DEFINE u == w \div Q
  <2>1. w \in Nat BY <1>0
  <2>2. u \in Nat /\ w = u * Q + (w % Q) /\ w % Q \in 0..Q-1 BY <2>1, Divided
  <2>. HIDE DEF u
  <2>3. ASSUME u >= P PROVE FALSE
    <3>1. u * Q >= P * Q
      <4>1. CASE u = P BY <4>1
      <4>2. CASE u - P >= 1
        <5>1. (u - P) * Q >= Q BY <2>2, <4>2, ProductGrows
        <5>2. (u - P) * Q = u * Q - P * Q /\ u * Q \in Int BY <2>2
        <5>. QED BY <1>0, <5>1, <5>2
      <4>. QED BY <2>2, <2>3, <4>1, <4>2
    <3>2. u * Q \in Int BY <2>2
    <3> DEFINE h == w % Q
               uq == u * Q
               pq == P * Q
    <3>3. h \in 0..Q-1 /\ uq \in Int /\ w = uq + h /\ uq >= pq /\ pq \in Nat /\ w < pq
      BY <1>0, <2>2, <3>1, <3>2
    <3>. HIDE DEF h, uq, pq
    <3>. QED BY <3>3, <2>1
  <2>. QED BY <2>2, <2>3 DEF u
<1> DEFINE a == y \div Q
           b == z \div Q
           c == (inv * Q) \div P
           h == y \div P - z \div P
           rest == y % Q
<1>2. a \in 0..P-1 /\ b \in 0..P-1 /\ y = a * Q + rest /\ z = b * Q + rest /\ rest \in Int
  BY <1>1
<1>3. c \in Int /\ inv * Q = c * P + 1
  BY <1>0, Divided
<1>4. h \in Int /\ y - z = h * P
  <2> DEFINE u == y \div P
             v == z \div P
             w == y % P
  <2>0. P > 0 /\ y \in Int /\ z \in Int BY <1>0
  <2>1. u \in Int /\ v \in Int /\ w \in Int /\ y = u * P + w
    BY <2>0, Divided
  <2>2. z = v * P + w BY <2>0, Divided
  <2>. HIDE DEF u, v, w
  <2>3. (u - v) * P = u * P - v * P /\ u * P \in Int /\ v * P \in Int BY <2>1
  <2>4. y - z = (u - v) * P BY <2>1, <2>2, <2>3
  <2>. QED BY <2>1, <2>4 DEF u, v
<1>. HIDE DEF a, b, c, h, rest
<1> DEFINE g == a - b
<1>5. g \in Int /\ -P < g /\ g < P BY <1>2
<1>6. g * Q = h * P
  <2>1. g * Q = a * Q - b * Q /\ a * Q \in Int /\ b * Q \in Int BY <1>2
  <2>. QED BY <1>2, <1>4, <2>1
<1>. HIDE DEF g
<1>7. g = (inv * h - c * g) * P
  <2>1. inv * (g * Q) = inv * (h * P) BY <1>6
  <2>2. inv * (g * Q) = (inv * Q) * g /\ inv * (h * P) = (inv * h) * P BY <1>4, <1>5
  <2>3. (inv * Q) * g = (c * P) * g + g
    <3>1. (c * P + 1) * g = (c * P) * g + g BY <1>3, <1>5
    <3>. QED BY <1>3, <3>1
  <2>4. (c * P) * g = (c * g) * P /\ (c * g) * P \in Int /\ (inv * h) * P \in Int
    BY <1>3, <1>4, <1>5
  <2>5. (inv * h - c * g) * P = (inv * h) * P - (c * g) * P BY <1>3, <1>4, <1>5
  <2>. QED BY <1>5, <2>1, <2>2, <2>3, <2>4, <2>5
<1>8. g = 0
  <2> DEFINE f == inv * h - c * g
  <2>1. f \in Int /\ g = f * P BY <1>3, <1>4, <1>5, <1>7
  <2>. HIDE DEF f
  <2>. QED BY <1>5, <2>1, NoMultipleBetween
<1>9. a = b BY <1>2, <1>8 DEF g
<1>. QED BY <1>2, <1>9

(* The combination has the remainders it is made of.                        *)
IsCombination(P, Q, inv, y, z, d, c) ==
  /\ P \in Nat /\ Q \in Nat /\ P > Q /\ Q > 1 /\ inv \in Nat /\ (inv * Q) % P = 1
  /\ y \in 0..P-1 /\ z \in 0..Q-1
  /\ d \in 0..P-1 /\ (d = y - z \/ d = P + y - z)
  /\ c = ((d * inv) % P) * Q + z
LEMMA CombinationFact ==
  ASSUME NEW P, NEW Q, NEW inv, NEW y, NEW z, NEW d, NEW c, IsCombination(P, Q, inv, y, z, d, c)
  PROVE  c \in 0 .. P * Q - 1 /\ c % P = y /\ c % Q = z
<1>a. /\ P \in Nat /\ Q \in Nat /\ P > Q /\ Q > 1 /\ inv \in Nat /\ (inv * Q) % P = 1
      /\ y \in 0..P-1 /\ z \in 0..Q-1 /\ d \in 0..P-1 /\ (d = y - z \/ d = P + y - z)
      /\ c = ((d * inv) % P) * Q + z
  BY DEF IsCombination
<1>. USE <1>a
<1>0. P * Q \in Nat /\ inv * Q \in Nat /\ d * inv \in Nat /\ P > 0 /\ Q > 0 OBVIOUS
<1> DEFINE t == (d * inv) % P
           u == (d * inv) \div P
           f == t * Q + z
           v == (inv * Q) \div P
<1>1. t \in 0..P-1 /\ u \in Int /\ d * inv = u * P + t BY <1>0, Divided
<1>2. v \in Int /\ inv * Q = v * P + 1 BY <1>0, Divided
<1>. HIDE DEF t, u, v
<1>3. t * Q \in Nat /\ f \in Nat BY <1>1
<1>4. f < P * Q
  <2>1. (P - t) * Q >= Q BY <1>1, ProductGrows
  <2>2. (P - t) * Q = P * Q - t * Q BY <1>1
  <2>. QED BY <1>0, <1>3, <2>1, <2>2
<1>5. f % Q = z
  <2>1. t \in Int /\ z \in 0..Q-1 /\ f \in Int /\ f = t * Q + z /\ Q \in Nat /\ Q > 0
    BY <1>1, <1>3
  <2>. HIDE DEF f
  <2>2. f \div Q = t /\ f % Q = z BY <2>1, DividedUnique, Zenon
  <2>. QED BY <2>2
<1>6. t * Q = d + (d * v - u * Q) * P
  <2>1. (d * inv) * Q = (u * P) * Q + t * Q
    <3>1. (u * P + t) * Q = (u * P) * Q + t * Q BY <1>1
    <3>. QED BY <1>1, <3>1
  <2>2. (d * inv) * Q = d * (inv * Q) OBVIOUS
  <2>3. d * (inv * Q) = d * (v * P) + d
    <3>1. d * (v * P + 1) = d * (v * P) + d BY <1>2
    <3>. QED BY <1>2, <3>1
  <2>4. d * (v * P) = (d * v) * P /\ (u * P) * Q = (u * Q) * P BY <1>1, <1>2
  <2>5. (d * v - u * Q) * P = (d * v) * P - (u * Q) * P BY <1>1, <1>2
  <2>6. (d * v) * P \in Int /\ (u * Q) * P \in Int BY <1>1, <1>2
  <2>7. d * (inv * Q) \in Int /\ t * Q \in Int BY <1>3
  <2>. QED BY <2>1, <2>2, <2>3, <2>4, <2>5, <2>6, <2>7
<1> DEFINE g == d * v - u * Q
<1>7. g \in Int BY <1>1, <1>2
<1>8. t * Q = d + g * P BY <1>6
<1>. HIDE DEF g
<1>9. \E h \in Int : f = y + h * P
  <2>1. CASE d = y - z
    <3>1. g * P \in Int BY <1>7
    <3>2. f = y + g * P BY <1>8, <2>1, <3>1
    <3>. QED BY <1>7, <3>2
  <2>2. CASE d = P + y - z
    <3>1. g * P \in Int /\ (g + 1) * P = g * P + P BY <1>7
    <3>2. f = y + (g + 1) * P BY <1>8, <2>2, <3>1
    <3>3. g + 1 \in Int BY <1>7
    <3>. QED BY <3>2, <3>3, Zenon
  <2>. QED BY <2>1, <2>2
<1>10. f % P = y
  <2>1. PICK h \in Int : f = y + h * P BY <1>9
  <2>2. f \in Int /\ y \in Int /\ y % P = y BY <1>3, SmallRemainder
  <2>. HIDE DEF f
  <2>3. f % P = y % P BY <1>0, <2>1, <2>2, SameRemainder, Zenon
  <2>. QED BY <2>2, <2>3
<1>. QED BY <1>0, <1>3, <1>4, <1>5, <1>10 DEF t

(* modulus, dp, dq and q_inv of a key.                                      *)
Modulus(k) == k.p * k.q
Dp(k) == k.d % (k.p - 1)
Dq(k) == k.d % (k.q - 1)
InverseOf(k) == CHOOSE y \in 1..k.p-1 : (y * k.q) % k.p = 1

LEMMA KeyFact ==
  ASSUME NEW k \in Keys
  PROVE  /\ k.p \in Nat /\ k.q \in Nat /\ k.e \in Nat /\ k.q > 1 /\ k.p > k.q
         /\ Dp(k) \in Nat /\ Dq(k) \in Nat
         /\ Modulus(k) \in Nat /\ Modulus(k) = k.q * k.p /\ Modulus(k) >= k.p
         /\ Power(Base, modulus_len - 1) <= Modulus(k) /\ Modulus(k) < Power(Base, modulus_len)
         /\ InverseOf(k) \in Nat /\ (InverseOf(k) * k.q) % k.p = 1
         /\ \A y \in 0..k.p-1 :
              /\ bn_mod_exp(bn_mod_exp(y, k.e, k.p), Dp(k), k.p) = y
              /\ bn_mod_exp(bn_mod_exp(y, Dp(k), k.p), k.e, k.p) = y
         /\ \A y \in 0..k.q-1 :
              /\ bn_mod_exp(bn_mod_exp(y, k.e, k.q), Dq(k), k.q) = y
              /\ bn_mod_exp(bn_mod_exp(y, Dq(k), k.q), k.e, k.q) = y
<1> DEFINE p == k.p
           q == k.q
           dd == k.d
<1>1. /\ p \in Nat /\ q \in Nat /\ k.e \in Nat /\ dd \in Nat /\ q > 1 /\ p > q
      /\ Power(Base, modulus_len - 1) <= p * q /\ p * q < Power(Base, modulus_len)
  BY KeyAssumption, Zenon
<1>2. /\ \E y \in 1..p-1 : (y * q) % p = 1
      /\ \A r \in {p, q} : \A y \in 0..r-1 :
           /\ bn_mod_exp(bn_mod_exp(y, k.e, r), dd % (r - 1), r) = y
           /\ bn_mod_exp(bn_mod_exp(y, dd % (r - 1), r), k.e, r) = y
  BY PrimeAssumption, Zenon
<1>3. Dp(k) = dd % (p - 1) /\ Dq(k) = dd % (q - 1) /\ Modulus(k) = p * q
      /\ InverseOf(k) = CHOOSE y \in 1..p-1 : (y * q) % p = 1
  BY DEF Dp, Dq, Modulus, InverseOf
<1>4. /\ \A y \in 0..p-1 :
           /\ bn_mod_exp(bn_mod_exp(y, k.e, p), Dp(k), p) = y
           /\ bn_mod_exp(bn_mod_exp(y, Dp(k), p), k.e, p) = y
      /\ \A y \in 0..q-1 :
           /\ bn_mod_exp(bn_mod_exp(y, k.e, q), Dq(k), q) = y
           /\ bn_mod_exp(bn_mod_exp(y, Dq(k), q), k.e, q) = y
  BY <1>2, <1>3, Zenon
<1>. HIDE DEF p, q, dd
<1>5. InverseOf(k) \in 1..p-1 /\ (InverseOf(k) * q) % p = 1
  <2> DEFINE v == InverseOf(k)
  <2>1. v \in 1..p-1 /\ (v * q) % p = 1 BY <1>2, <1>3, Zenon
  <2>. QED BY <2>1
<1>6. Dp(k) \in Nat /\ Dq(k) \in Nat
  <2>1. p - 1 \in Nat /\ p - 1 > 0 /\ q - 1 \in Nat /\ q - 1 > 0 /\ dd \in Int BY <1>1
  <2>2. dd % (p - 1) \in 0..(p-1)-1 /\ dd % (q - 1) \in 0..(q-1)-1 BY <2>1, Divided
  <2>. QED BY <1>3, <2>2
<1>7. p * q \in Nat /\ p * q = q * p /\ q * p >= p
  <2>1. q * p >= p BY <1>1, ProductGrows
  <2>. QED BY <1>1, <2>1
<1>8. InverseOf(k) \in Nat BY <1>5, <1>1
<1>. QED BY <1>1, <1>3, <1>4, <1>5, <1>6, <1>7, <1>8 DEF p, q

(* What private_block_operation makes of a number, by its remainders.         *)
Private(k, y, z) ==
  /\ z \in 0..Modulus(k)-1
  /\ z % k.p = bn_mod_exp(y % k.p, Dp(k), k.p)
  /\ z % k.q = bn_mod_exp(y % k.q, Dq(k), k.q)
Public(k, y, z) == z = bn_mod_exp(y, k.e, Modulus(k))

LEMMA PublicFact ==
  ASSUME NEW k \in Keys, NEW y \in Int, NEW z, Public(k, y, z)
  PROVE  /\ z \in 0..Modulus(k)-1
         /\ z % k.p = bn_mod_exp(y % k.p, k.e, k.p)
         /\ z % k.q = bn_mod_exp(y % k.q, k.e, k.q)
<1> DEFINE p == k.p
           q == k.q
           e == k.e
           m == Modulus(k)
<1>1. /\ p \in Nat /\ q \in Nat /\ e \in Nat /\ q > 1 /\ p > q /\ m \in Nat /\ m = q * p
      /\ z = bn_mod_exp(y, e, m)
  BY KeyFact DEF Public
<1>. HIDE DEF p, q, e, m
<1>2. p > 1 /\ q > 0 /\ p > 0 /\ m = p * q BY <1>1
<1>3. bn_mod_exp(y, e, m) \in 0..m-1 /\ bn_mod_exp(y, e, m) % p = bn_mod_exp(y % p, e, p)
  BY <1>1, <1>2, PowerReduced
<1>4. bn_mod_exp(y, e, m) % q = bn_mod_exp(y % q, e, q)
  <2>1. q \in Nat /\ q > 1 /\ p \in Nat /\ p > 0 /\ m \in Nat /\ m = p * q /\ e \in Nat BY <1>1, <1>2
  <2>. QED BY <2>1, PowerReduced
<1>. QED BY <1>1, <1>3, <1>4 DEF p, q, e, m

LEMMA SameNumber ==
  ASSUME NEW k \in Keys, NEW y \in 0..Modulus(k)-1, NEW z \in 0..Modulus(k)-1,
         y % k.p = z % k.p, y % k.q = z % k.q
  PROVE  y = z
<1> DEFINE p == k.p
           q == k.q
<1>1. /\ p \in Nat /\ q \in Nat /\ p > 1 /\ q > 0 /\ Modulus(k) = p * q
      /\ InverseOf(k) \in Nat /\ (InverseOf(k) * q) % p = 1 /\ y % p = z % p /\ y % q = z % q
  BY KeyFact DEF Modulus
<1>2. y \in 0 .. p * q - 1 /\ z \in 0 .. p * q - 1 BY <1>1
<1>. HIDE DEF p, q
<1>. QED BY <1>1, <1>2, KnownByRemainders

(* The operations undo each other, in both orders.                          *)
LEMMA PublicAfterPrivate ==
  ASSUME NEW k \in Keys, NEW y \in 0..Modulus(k)-1, NEW z, Private(k, y, z), NEW w, Public(k, z, w)
  PROVE  w = y
<1> DEFINE p == k.p
           q == k.q
           yp == y % p
           yq == y % q
<1>1. p \in Nat /\ q \in Nat /\ p > 0 /\ q > 0 /\ y \in Int /\ Modulus(k) \in Nat BY KeyFact
<1>2. z \in Int /\ z % p = bn_mod_exp(yp, Dp(k), p) /\ z % q = bn_mod_exp(yq, Dq(k), q)
  BY <1>1 DEF Private
<1>3. /\ w \in 0..Modulus(k)-1 /\ w % p = bn_mod_exp(z % p, k.e, p)
      /\ w % q = bn_mod_exp(z % q, k.e, q)
  BY <1>2, PublicFact
<1>4. yp \in 0..p-1 /\ yq \in 0..q-1
  <2>. HIDE DEF p, q
  <2>. QED BY <1>1, Divided
<1>5. bn_mod_exp(bn_mod_exp(yp, Dp(k), p), k.e, p) = yp
      /\ bn_mod_exp(bn_mod_exp(yq, Dq(k), q), k.e, q) = yq
  <2>. HIDE DEF yp, yq
  <2>. QED BY <1>4, KeyFact
<1>6. w % p = y % p /\ w % q = y % q BY <1>2, <1>3, <1>5, Zenon
<1>. QED BY <1>3, <1>6, SameNumber

LEMMA PrivateAfterPublic ==
  ASSUME NEW k \in Keys, NEW y \in 0..Modulus(k)-1, NEW z, Public(k, y, z), NEW w, Private(k, z, w)
  PROVE  w = y
<1> DEFINE p == k.p
           q == k.q
           yp == y % p
           yq == y % q
<1>1. p \in Nat /\ q \in Nat /\ p > 0 /\ q > 0 /\ y \in Int BY KeyFact
<1>2. z % p = bn_mod_exp(yp, k.e, p) /\ z % q = bn_mod_exp(yq, k.e, q)
  BY <1>1, PublicFact
<1>3. /\ w \in 0..Modulus(k)-1 /\ w % p = bn_mod_exp(z % p, Dp(k), p)
      /\ w % q = bn_mod_exp(z % q, Dq(k), q)
  BY DEF Private
<1>4. yp \in 0..p-1 /\ yq \in 0..q-1
  <2>. HIDE DEF p, q
  <2>. QED BY <1>1, Divided
<1>5. bn_mod_exp(bn_mod_exp(yp, k.e, p), Dp(k), p) = yp
      /\ bn_mod_exp(bn_mod_exp(yq, k.e, q), Dq(k), q) = yq
  <2>. HIDE DEF yp, yq
  <2>. QED BY <1>4, KeyFact
<1>6. w % p = y % p /\ w % q = y % q BY <1>2, <1>3, <1>5, Zenon
<1>. QED BY <1>3, <1>6, SameNumber

(* The combination is what the operation has to return: neither the          *)
(* difference nor the sum leaves its array.                                 *)
LEMMA CombinedFact ==
  ASSUME key \in Keys, NEW y \in Int,
         mp = bn_mod_exp(y % key.p, dp, key.p), mq = bn_mod_exp(y % key.q, dq, key.q)
  PROVE  Private(key, y, Combined)
<1> DEFINE p == key.p
           q == key.q
           c == ((Difference * q_inv) % p) * q + mq
<1>1. /\ p \in Nat /\ q \in Nat /\ q > 1 /\ p > q /\ dp \in Nat /\ dq \in Nat
      /\ modulus = p * q /\ q_inv \in Nat /\ (q_inv * q) % p = 1 /\ modulus \in Nat
      /\ dp = Dp(key) /\ dq = Dq(key) /\ modulus = Modulus(key)
  <2>1. q_inv = InverseOf(key) /\ dp = Dp(key) /\ dq = Dq(key) /\ modulus = Modulus(key)
    BY DEF q_inv, InverseOf, dp, Dp, dq, Dq, modulus, Modulus
  <2>. QED BY <2>1, KeyFact DEF Modulus
<1>2. mp \in 0..p-1 /\ mq \in 0..q-1
  <2>1. bn_mod_exp(y % p, dp, p) \in 0..p-1
    <3> DEFINE one == 1
               m == one * p
    <3>1. p > 1 /\ one \in Nat /\ one > 0 /\ m \in Nat /\ m = one * p BY <1>1
    <3>. HIDE DEF one, m, p
    <3>. QED BY <1>1, <3>1, PowerReduced, Zenon
  <2>2. bn_mod_exp(y % q, dq, q) \in 0..q-1
    <3> DEFINE one == 1
               m == one * q
    <3>1. one \in Nat /\ one > 0 /\ m \in Nat /\ m = one * q BY <1>1
    <3>. HIDE DEF one, m, q
    <3>. QED BY <1>1, <3>1, PowerReduced, Zenon
  <2>. QED BY <2>1, <2>2
<1>3. Difference \in 0..p-1 /\ (Difference = mp - mq \/ Difference = p + mp - mq)
  <2> DEFINE h == p - (mq - mp)
             r == Width(pdigits)
  <2>1. CASE mp >= mq BY <1>1, <1>2, <2>1 DEF Difference
  <2>2. CASE ~(mp >= mq)
    <3>1. r \in Nat /\ r > p
      <4>1. key.p \in Nat BY <1>1
      <4>. QED BY <4>1, WideEnough DEF Width, pdigits
    <3>2. h \in 0..p-1 /\ h = p + mp - mq BY <1>1, <1>2, <2>2
    <3>3. Difference = h % r BY <2>2 DEF Difference
    <3>. HIDE DEF h, r, p
    <3>4. h \in 0..r-1 BY <1>1, <3>1, <3>2
    <3>5. h % r = h BY <3>1, <3>4, SmallRemainder
    <3>. QED BY <3>2, <3>3, <3>5
  <2>. QED BY <2>1, <2>2
<1>4. c \in 0..p * q - 1 /\ c % p = mp /\ c % q = mq
  <2> DEFINE d == Difference
             inv == q_inv
  <2>1. d \in 0..p-1 /\ (d = mp - mq \/ d = p + mp - mq) /\ inv \in Nat /\ (inv * q) % p = 1
        /\ c = ((d * inv) % p) * q + mq
    BY <1>1, <1>3
  <2>. HIDE DEF d, inv, p, q, c
  <2>2. /\ p \in Nat /\ q \in Nat /\ p > q /\ q > 1 /\ inv \in Nat /\ (inv * q) % p = 1
        /\ mp \in 0..p-1 /\ mq \in 0..q-1 /\ d \in 0..p-1
        /\ d = mp - mq \/ d = p + mp - mq
        /\ c = ((d * inv) % p) * q + mq
    BY <1>1, <1>2, <2>1, Zenon
  <2>3. IsCombination(p, q, inv, mp, mq, d, c) BY <2>2, Zenon DEF IsCombination
  <2>4. c \in 0 .. p * q - 1 BY <2>3, CombinationFact, Zenon
  <2>5. c % p = mp BY <2>3, CombinationFact
  <2>6. c % q = mq BY <2>3, CombinationFact
  <2>. QED BY <2>4, <2>5, <2>6
<1>5. Combined = c
  <2> DEFINE r == Width(ndigits)
  <2>1. Combined = c % r BY DEF Combined
  <2>2. r \in Nat /\ r > modulus BY <1>1, WideEnough DEF Width, ndigits
  <2>. HIDE DEF c, r, p, q
  <2>3. c \in 0..r-1 BY <1>1, <1>4, <2>2
  <2>. QED BY <2>1, <2>2, <2>3, SmallRemainder
<1>. QED BY <1>1, <1>4, <1>5 DEF Private

-----------------------------------------------------------------------------
(* The specification.                                                      *)

(* The block the sender makes of a message m of l bytes.                     *)
PaddedBlock(side, l, m, s) ==
  IF side = "private" THEN s = Layout(1, FillFF, l, m)
  ELSE \E fill \in RandomFill : s = Layout(2, fill, l, m)

LEMMA PaddedFact ==
  ASSUME NEW k \in Keys, NEW side \in {"private", "public"}, NEW l \in Nat, l + Overhead <= modulus_len,
         NEW m \in Bytes(l), NEW s, PaddedBlock(side, l, m, s)
  PROVE  /\ s \in Block /\ bn_decode(s) \in 0..Modulus(k)-1 /\ bn_decode(s) \in Nat
         /\ bn_encode(bn_decode(s)) = s
<1>. USE LengthAssumption, ByteAssumption
<1>1. s \in Block /\ s[0] = 0
  <2>1. CASE side = "private"
    <3>1. FillFF \in Block BY DEF FillFF, Block, Bytes
    <3>2. s = Layout(1, FillFF, l, m) BY <2>1 DEF PaddedBlock
    <3>. QED BY <3>1, <3>2, LayoutFact
  <2>2. CASE side = "public"
    <3>1. PICK fill \in RandomFill : s = Layout(2, fill, l, m) BY <2>2 DEF PaddedBlock
    <3>2. fill \in Block BY DEF RandomFill, Block, Bytes
    <3>. QED BY <3>1, <3>2, LayoutFact
  <2>. QED BY <2>1, <2>2
<1>2. bn_decode(s) \in 0..Power(Base, modulus_len)-1 /\ bn_decode(s) < Power(Base, modulus_len - 1)
  BY <1>1, DecodeRange
<1>3. Power(Base, modulus_len - 1) <= Modulus(k) /\ Modulus(k) \in Nat BY KeyFact
<1>4. Power(Base, modulus_len - 1) \in Nat /\ Power(Base, modulus_len) \in Nat
  <2>1. modulus_len \in Nat /\ modulus_len - 1 \in Nat OBVIOUS
  <2>. QED BY <2>1, BaseAboveZero
<1>5. bn_decode(s) \in 0..Modulus(k)-1 /\ bn_decode(s) \in Nat BY <1>2, <1>3, <1>4
<1>. QED BY <1>1, <1>5, EncodeDecode

(* What the first of the two operations makes of a number.                  *)
First(k, side, y, z) == IF side = "private" THEN Private(k, y, z) ELSE Public(k, y, z)

LEMMA FirstFact ==
  ASSUME NEW k \in Keys, NEW side, NEW y \in 0..Modulus(k)-1, NEW z, First(k, side, y, z)
  PROVE  z \in 0..Modulus(k)-1 /\ z \in Nat /\ z < Power(Base, modulus_len)
<1>1. Modulus(k) \in Nat /\ Modulus(k) < Power(Base, modulus_len) BY KeyFact
<1>2. y \in Int BY <1>1
<1>3. z \in 0..Modulus(k)-1
  <2>1. CASE side = "private" BY <2>1 DEF First, Private
  <2>2. CASE side # "private" BY <2>2, <1>2, PublicFact DEF First
  <2>. QED BY <2>1, <2>2
<1>4. Power(Base, modulus_len) \in Nat BY BaseAboveZero, LengthAssumption
<1>. QED BY <1>1, <1>3, <1>4

(* The second undoes it.                                                    *)
LEMMA SecondFact ==
  ASSUME NEW k \in Keys, NEW y \in 0..Modulus(k)-1, NEW z, NEW w
  PROVE  /\ Private(k, y, z) /\ Public(k, z, w) => w = y
         /\ Public(k, y, z) /\ Private(k, z, w) => w = y
BY PublicAfterPrivate, PrivateAfterPublic

(* Where the number is between the two: as it was given or after the first   *)
(* operation.                                                               *)
Stage(y) == IF second <=> step = "over" THEN x = y ELSE First(key, sender, y, x)

Inside == {"private", "exponentiate", "combine"}

WorkType ==
  /\ sender \in {"private", "public"} /\ n \in Nat /\ msg \in Bytes(n)
  /\ key \in Keys /\ x \in Nat /\ second \in BOOLEAN /\ padded \in BOOLEAN
  /\ step \in {"none", "public", "over"} \cup Inside

WorkOrder ==
  /\ step = "none" => ~second
  /\ step # "none" => n + Overhead <= modulus_len /\ (~padded => n = 0)
  /\ step \notin {"none", "over"} => pc = "encrypt"
  /\ step = "public" => (sender = "private" <=> second)
  /\ step \in Inside => (sender = "private" <=> ~second)

WorkNumbers ==
  /\ step \in {"exponentiate", "combine"} => x < modulus
  /\ step = "exponentiate" => cp = x % key.p /\ cq = x % key.q
  /\ step = "combine" =>
       /\ mp = bn_mod_exp(x % key.p, dp, key.p)
       /\ mq = bn_mod_exp(x % key.q, dq, key.q)

Follow ==
  padded /\ step # "none" /\ pc = "encrypt" =>
    \E s : PaddedBlock(sender, n, msg, s) /\ Stage(bn_decode(s))

RsaInv == WorkType /\ WorkOrder /\ WorkNumbers /\ Follow

(* While the key stays, so do the numbers made of it.                        *)
LEMMA KeyKept ==
  ASSUME UNCHANGED key
  PROVE  UNCHANGED <<modulus, dp, dq, q_inv>>
BY DEF modulus, dp, dq, q_inv

LEMMA InitInv == RsaInit => RsaInv
<1>. SUFFICES ASSUME RsaInit PROVE RsaInv OBVIOUS
<1>1. n \in Nat BY LengthAssumption DEF RsaInit, Init
<1>. QED BY <1>1, Zenon DEF RsaInit, Init, RsaInv, WorkType, WorkOrder, WorkNumbers, Follow, Inside

LEMMA RefuseStep == RsaInv /\ Refuse => RsaInv' /\ [Next]_vars
<1>. SUFFICES ASSUME RsaInv, Refuse PROVE RsaInv' /\ [Next]_vars OBVIOUS
<1>1. TooLong /\ UNCHANGED <<key, step, second, padded, x, cp, cq, mp, mq>>
  BY DEF Refuse, work
<1>2. step = "none"
  <2>1. n \in Nat /\ n + Overhead > modulus_len BY <1>1 DEF TooLong, RsaInv, WorkType
  <2>2. step # "none" => n + Overhead <= modulus_len BY DEF RsaInv, WorkOrder
  <2>. QED BY <2>1, <2>2, LengthAssumption
<1>3. WorkType' BY <1>1 DEF TooLong, RsaInv, WorkType
<1>4. WorkOrder' BY <1>1, <1>2 DEF TooLong, RsaInv, WorkOrder, Inside
<1>5. WorkNumbers' BY <1>1, <1>2 DEF WorkNumbers
<1>6. Follow' BY <1>1, <1>2 DEF Follow
<1>7. Next BY <1>1 DEF Next
<1>. QED BY <1>3, <1>4, <1>5, <1>6, <1>7 DEF RsaInv

LEMMA CallStep ==
  ASSUME RsaInv, NEW y \in Nat, NEW whole \in BOOLEAN, Call(y, whole), whole \/ n = 0,
         whole => \E s : PaddedBlock(sender, n, msg, s) /\ y = bn_decode(s)
  PROVE  RsaInv' /\ [Next]_vars
<1>1. /\ pc = "encrypt" /\ step = "none" /\ n + Overhead <= modulus_len /\ x' = y
      /\ step' = Operation(FALSE) /\ padded' = whole
      /\ UNCHANGED <<sender, n, msg, block, intact, result, pc, key, second, cp, cq, mp, mq>>
  BY DEF Call, vars
<1>2. second = FALSE /\ sender \in {"private", "public"}
  BY <1>1 DEF RsaInv, WorkType, WorkOrder
<1>3. \/ sender = "private" /\ step' = "private"
      \/ sender = "public" /\ step' = "public"
  BY <1>1, <1>2 DEF Operation
<1>4. WorkType' BY <1>1, <1>3, Zenon DEF RsaInv, WorkType, Inside
<1>5. WorkOrder' BY <1>1, <1>2, <1>3, Zenon DEF WorkOrder, Inside
<1>6. WorkNumbers' BY <1>3 DEF WorkNumbers
<1>7. Follow'
  <2>. SUFFICES ASSUME whole PROVE \E s : PaddedBlock(sender', n', msg', s) /\ Stage(bn_decode(s))'
    BY <1>1 DEF Follow
  <2>1. PICK s : PaddedBlock(sender, n, msg, s) /\ y = bn_decode(s) OBVIOUS
  <2>2. second' = FALSE /\ step' # "over" BY <1>1, <1>2, <1>3
  <2>3. x' = bn_decode(s) BY <1>1, <2>1
  <2>4. Stage(bn_decode(s))' BY <2>2, <2>3 DEF Stage
  <2>5. PaddedBlock(sender', n', msg', s) BY <1>1, <2>1
  <2>. QED BY <2>4, <2>5
<1>8. UNCHANGED vars BY <1>1 DEF vars
<1>. QED BY <1>4, <1>5, <1>6, <1>7, <1>8 DEF RsaInv

LEMMA CallPaddedStep == RsaInv /\ CallPadded => RsaInv' /\ [Next]_vars
<1>. SUFFICES ASSUME RsaInv, CallPadded PROVE RsaInv' /\ [Next]_vars OBVIOUS
<1>1. key \in Keys /\ n \in Nat /\ msg \in Bytes(n) BY DEF RsaInv, WorkType
<1>2. PICK s : PaddedBlock(sender, n, msg, s) /\ Call(bn_decode(s), TRUE) /\ sender \in {"private", "public"}
  BY Zenon DEF CallPadded, PaddedBlock
<1>3. n + Overhead <= modulus_len BY <1>2 DEF Call
<1>4. bn_decode(s) \in Nat BY <1>1, <1>2, <1>3, PaddedFact
<1>. QED BY <1>2, <1>4, CallStep

LEMMA CallOtherStep == RsaInv /\ CallOther => RsaInv' /\ [Next]_vars
<1>. SUFFICES ASSUME RsaInv, CallOther PROVE RsaInv' /\ [Next]_vars OBVIOUS
<1>1. PICK y \in 0..Power(Base, modulus_len)-1 : Call(y, FALSE) BY DEF CallOther
<1>2. n = 0 BY DEF CallOther
<1>3. y \in Nat
  <2>1. Power(Base, modulus_len) \in Nat BY BaseAboveZero, LengthAssumption
  <2>. QED BY <2>1
<1>. QED BY <1>1, <1>2, <1>3, CallStep

(* Of a padded message, the number is always below the modulus.               *)
LEMMA StageFact ==
  ASSUME RsaInv, padded, step # "none", pc = "encrypt"
  PROVE  \E s : LET y == bn_decode(s)
                IN  /\ PaddedBlock(sender, n, msg, s) /\ s \in Block /\ bn_encode(y) = s
                    /\ y \in 0..Modulus(key)-1 /\ Stage(y)
                    /\ x \in 0..Modulus(key)-1 /\ x < Power(Base, modulus_len)
<1>1. PICK s : PaddedBlock(sender, n, msg, s) /\ Stage(bn_decode(s)) BY DEF RsaInv, Follow
<1>2. /\ key \in Keys /\ sender \in {"private", "public"} /\ n \in Nat /\ msg \in Bytes(n)
      /\ n + Overhead <= modulus_len
  BY DEF RsaInv, WorkType, WorkOrder
<1> DEFINE y == bn_decode(s)
<1>3. s \in Block /\ y \in 0..Modulus(key)-1 /\ bn_encode(y) = s BY <1>1, <1>2, PaddedFact
<1>4. x \in 0..Modulus(key)-1 /\ x < Power(Base, modulus_len)
  <2>. HIDE DEF y
  <2>1. CASE x = y
    <3>1. Modulus(key) \in Nat /\ Modulus(key) < Power(Base, modulus_len) BY <1>2, KeyFact
    <3>2. Power(Base, modulus_len) \in Nat BY BaseAboveZero, LengthAssumption
    <3>. QED BY <1>3, <2>1, <3>1, <3>2
  <2>2. CASE First(key, sender, y, x) BY <1>2, <1>3, <2>2, FirstFact
  <2>. QED BY <1>1, <2>1, <2>2 DEF Stage, y
<1>. QED BY <1>1, <1>3, <1>4

LEMMA TooLargeStep == RsaInv /\ TooLarge => RsaInv' /\ [Next]_vars
<1>. SUFFICES ASSUME RsaInv, TooLarge PROVE RsaInv' /\ [Next]_vars OBVIOUS
<1>1. /\ step \in {"public", "private"} /\ x >= modulus /\ step' = "over"
      /\ result' = Error("ERR_WRONG_DATA") /\ pc' = "done"
      /\ UNCHANGED <<sender, n, msg, block, intact, key, second, padded, x, cp, cq, mp, mq>>
  BY DEF TooLarge, work
<1>2. pc = "encrypt" /\ key \in Keys BY <1>1 DEF RsaInv, WorkType, WorkOrder
<1>3. ~padded
  <2>1. SUFFICES ASSUME padded PROVE FALSE OBVIOUS
  <2>2. x \in 0..Modulus(key)-1 BY <1>1, <1>2, <2>1, StageFact
  <2>3. modulus = Modulus(key) /\ Modulus(key) \in Nat BY <1>2, KeyFact DEF modulus, Modulus
  <2>. QED BY <1>1, <2>2, <2>3
<1>4. n = 0 BY <1>1, <1>3 DEF RsaInv, WorkOrder
<1>5. WorkType' BY <1>1 DEF RsaInv, WorkType
<1>6. WorkOrder' BY <1>1, Zenon DEF RsaInv, WorkOrder, Inside
<1>7. WorkNumbers' BY <1>1 DEF WorkNumbers
<1>8. Follow' BY <1>1 DEF Follow
<1>9. Refused BY <1>1, <1>2, <1>4 DEF Refused
<1>. QED BY <1>5, <1>6, <1>7, <1>8, <1>9 DEF RsaInv, Next

(* Both block operations end like this: the number of the other side, after   *)
(* the second, is the one that was given.                                   *)
LEMMA OverStep ==
  ASSUME RsaInv, step # "over", step # "none", NEW z \in Nat, x' = z, step' = "over",
         UNCHANGED <<vars, key, second, padded>>,
         \/ (sender = "private" <=> second) /\ Public(key, x, z)
         \/ (sender = "private" <=> ~second) /\ Private(key, x, z)
  PROVE  RsaInv' /\ [Next]_vars
<1>1. UNCHANGED <<sender, n, msg, block, intact, result, pc, key, second, padded>> BY DEF vars
<1>2. sender \in {"private", "public"} /\ second \in BOOLEAN /\ key \in Keys
  BY DEF RsaInv, WorkType
<1>3. WorkType' BY <1>1, Zenon DEF RsaInv, WorkType
<1>4. WorkOrder' BY <1>1 DEF RsaInv, WorkOrder, Inside
<1>5. WorkNumbers' BY DEF WorkNumbers
<1>6. Follow'
  <2>. SUFFICES ASSUME padded, pc = "encrypt"
                PROVE \E s : PaddedBlock(sender', n', msg', s) /\ Stage(bn_decode(s))'
    BY <1>1 DEF Follow
  <2>1. PICK s : PaddedBlock(sender, n, msg, s) /\ bn_decode(s) \in 0..Modulus(key)-1 /\ Stage(bn_decode(s))
    BY StageFact
  <2> DEFINE y == bn_decode(s)
  <2>2. y \in 0..Modulus(key)-1 /\ (IF second THEN First(key, sender, y, x) ELSE x = y)
    BY <1>2, <2>1 DEF Stage
  <2>3. IF second THEN z = y ELSE First(key, sender, y, z)
    <3>. HIDE DEF y
    <3>1. CASE second /\ sender = "private"
      <4>1. Private(key, y, x) /\ Public(key, x, z) BY <2>2, <3>1, Zenon DEF First
      <4>. QED BY <1>2, <2>2, <3>1, <4>1, SecondFact
    <3>2. CASE second /\ sender = "public"
      <4>1. Public(key, y, x) /\ Private(key, x, z) BY <2>2, <3>2, Zenon DEF First
      <4>. QED BY <1>2, <2>2, <3>2, <4>1, SecondFact
    <3>3. CASE ~second BY <1>2, <2>2, <3>3 DEF First
    <3>. QED BY <1>2, <3>1, <3>2, <3>3
  <2>4. Stage(y)' BY <1>1, <1>2, <2>3 DEF Stage
  <2>5. PaddedBlock(sender', n', msg', s) BY <1>1, <2>1
  <2>. QED BY <2>4, <2>5
<1>. QED BY <1>3, <1>4, <1>5, <1>6 DEF RsaInv

LEMMA PublicStep == RsaInv /\ public_block_operation => RsaInv' /\ [Next]_vars
<1>. SUFFICES ASSUME RsaInv, public_block_operation PROVE RsaInv' /\ [Next]_vars OBVIOUS
<1> DEFINE z == bn_mod_exp(x, key.e, modulus)
<1>1. step = "public" /\ x' = z /\ step' = "over" /\ UNCHANGED <<vars, key, second, padded>>
  BY DEF public_block_operation
<1>2. key \in Keys /\ x \in Nat /\ (sender = "private" <=> second)
  BY <1>1 DEF RsaInv, WorkType, WorkOrder
<1>3. Public(key, x, z) BY DEF Public, Modulus, modulus
<1>4. z \in Nat
  <2>1. z \in 0..Modulus(key)-1
    <3>. HIDE DEF z
    <3>. QED BY <1>2, <1>3, PublicFact
  <2>2. Modulus(key) \in Nat BY <1>2, KeyFact
  <2>. HIDE DEF z
  <2>. QED BY <2>1, <2>2
<1>. HIDE DEF z
<1>. QED BY <1>1, <1>2, <1>3, <1>4, OverStep

LEMMA CombineStep == RsaInv /\ Combine => RsaInv' /\ [Next]_vars
<1>. SUFFICES ASSUME RsaInv, Combine PROVE RsaInv' /\ [Next]_vars OBVIOUS
<1> DEFINE z == Combined
<1>1. step = "combine" /\ x' = z /\ step' = "over" /\ UNCHANGED <<vars, key, second, padded>>
  BY DEF Combine
<1>2. key \in Keys /\ x \in Nat /\ (sender = "private" <=> ~second)
  BY <1>1 DEF RsaInv, WorkType, WorkOrder, Inside
<1>3. mp = bn_mod_exp(x % key.p, dp, key.p) /\ mq = bn_mod_exp(x % key.q, dq, key.q)
  BY <1>1 DEF RsaInv, WorkNumbers
<1>4. Private(key, x, z)
  <2>1. x \in Int BY <1>2
  <2>. QED BY <1>2, <1>3, <2>1, CombinedFact, Zenon
<1>5. z \in Nat
  <2>1. Modulus(key) \in Nat BY <1>2, KeyFact
  <2>. HIDE DEF z
  <2>. QED BY <1>4, <2>1 DEF Private
<1>. HIDE DEF z
<1>. QED BY <1>1, <1>2, <1>4, <1>5, OverStep

(* The steps inside private_block_operation.                                *)
LEMMA InsideStep == RsaInv /\ (Reduce \/ Exponentiate) => RsaInv' /\ [Next]_vars
<1>. SUFFICES ASSUME RsaInv, Reduce \/ Exponentiate PROVE RsaInv' /\ [Next]_vars OBVIOUS
<1>1. /\ UNCHANGED <<sender, n, msg, block, intact, result, pc, key, second, padded, x>>
      /\ step \in {"private", "exponentiate"} /\ step' \in {"exponentiate", "combine"}
  BY DEF Reduce, Exponentiate, vars
<1>2. UNCHANGED <<modulus, dp, dq>> BY <1>1, KeyKept
<1>3. WorkType' BY <1>1 DEF RsaInv, WorkType, Inside
<1>4. WorkOrder' BY <1>1, Zenon DEF RsaInv, WorkOrder, Inside
<1>5. WorkNumbers'
  <2>1. CASE Reduce
    <3>1. step' = "exponentiate" /\ x < modulus /\ cp' = x % key.p /\ cq' = x % key.q
      BY <2>1 DEF Reduce
    <3>. QED BY <1>1, <1>2, <3>1 DEF WorkNumbers
  <2>2. CASE Exponentiate
    <3>1. /\ step = "exponentiate" /\ step' = "combine"
          /\ mp' = bn_mod_exp(cp, dp, key.p) /\ mq' = bn_mod_exp(cq, dq, key.q)
      BY <2>2 DEF Exponentiate, Powers
    <3>2. x < modulus /\ cp = x % key.p /\ cq = x % key.q BY <3>1 DEF RsaInv, WorkNumbers
    <3>3. mp' = bn_mod_exp(x % key.p, dp, key.p) /\ mq' = bn_mod_exp(x % key.q, dq, key.q)
      BY <3>1, <3>2, Zenon
    <3>. QED BY <1>1, <1>2, <3>1, <3>2, <3>3 DEF WorkNumbers
  <2>. QED BY <2>1, <2>2
<1>6. Follow'
  <2>. SUFFICES ASSUME padded, pc = "encrypt"
                PROVE \E s : PaddedBlock(sender', n', msg', s) /\ Stage(bn_decode(s))'
    BY <1>1 DEF Follow
  <2>1. PICK s : PaddedBlock(sender, n, msg, s) /\ Stage(bn_decode(s))
    BY <1>1 DEF RsaInv, Follow
  <2>2. Stage(bn_decode(s))' BY <1>1, <2>1 DEF Stage
  <2>3. PaddedBlock(sender', n', msg', s) BY <1>1, <2>1
  <2>. QED BY <2>2, <2>3
<1>7. UNCHANGED vars BY <1>1 DEF vars
<1>. QED BY <1>3, <1>4, <1>5, <1>6, <1>7 DEF RsaInv

LEMMA TransferStep == RsaInv /\ Transfer => RsaInv' /\ [Next]_vars
<1>. SUFFICES ASSUME RsaInv, Transfer PROVE RsaInv' /\ [Next]_vars OBVIOUS
<1>1. /\ pc = "encrypt" /\ step = "over" /\ ~second /\ second' = TRUE /\ step' = Operation(TRUE)
      /\ x' = bn_decode(bn_encode(x))
      /\ UNCHANGED <<sender, n, msg, block, intact, result, pc, key, padded>>
  BY DEF Transfer, vars
<1>2. key \in Keys /\ x \in Nat /\ sender \in {"private", "public"} BY DEF RsaInv, WorkType
<1>3. \/ sender = "private" /\ step' = "public"
      \/ sender = "public" /\ step' = "private"
  BY <1>1, <1>2 DEF Operation
<1>4. x' \in Nat
  <2>1. bn_encode(x) \in Block BY <1>2, EncodeType
  <2>2. x' \in 0..Power(Base, modulus_len)-1 BY <1>1, <2>1, DecodeRange
  <2>3. Power(Base, modulus_len) \in Nat BY BaseAboveZero, LengthAssumption
  <2>. QED BY <2>2, <2>3
<1>5. WorkType' BY <1>1, <1>3, <1>4, Zenon DEF RsaInv, WorkType, Inside
<1>6. WorkOrder' BY <1>1, <1>3, Zenon DEF RsaInv, WorkOrder, Inside
<1>7. WorkNumbers' BY <1>3 DEF WorkNumbers
<1>8. Follow'
  <2>. SUFFICES ASSUME padded
                PROVE \E s : PaddedBlock(sender', n', msg', s) /\ Stage(bn_decode(s))'
    BY <1>1 DEF Follow
  <2>1. PICK s : PaddedBlock(sender, n, msg, s) /\ Stage(bn_decode(s)) /\ x < Power(Base, modulus_len)
    BY <1>1, StageFact
  <2>2. x' = x
    <3>1. Power(Base, modulus_len) \in Nat BY BaseAboveZero, LengthAssumption
    <3>2. x \in 0..Power(Base, modulus_len)-1 BY <1>2, <2>1, <3>1
    <3>. QED BY <1>1, <3>2, DecodeEncode
  <2>3. First(key, sender, bn_decode(s), x) BY <1>1, <2>1 DEF Stage
  <2>4. Stage(bn_decode(s))'
    <3>1. second' = TRUE /\ step' # "over" BY <1>1, <1>3
    <3>. QED BY <1>1, <2>2, <2>3, <3>1 DEF Stage
  <2>5. PaddedBlock(sender', n', msg', s) BY <1>1, <2>1
  <2>. QED BY <2>4, <2>5
<1>9. UNCHANGED vars BY <1>1 DEF vars
<1>. QED BY <1>5, <1>6, <1>7, <1>8, <1>9 DEF RsaInv

LEMMA DeliverStep == RsaInv /\ Deliver => RsaInv' /\ [Next]_vars
<1>. SUFFICES ASSUME RsaInv, Deliver PROVE RsaInv' /\ [Next]_vars OBVIOUS
<1>1. /\ pc = "encrypt" /\ step = "over" /\ second
      /\ block' = bn_encode(x) /\ intact' = padded /\ pc' = "decrypt"
      /\ UNCHANGED <<sender, n, msg, result, key, step, second, padded, x, cp, cq, mp, mq>>
  BY DEF Deliver, work
<1>2. /\ x \in Nat /\ sender \in {"private", "public"} /\ padded \in BOOLEAN /\ n + Overhead <= modulus_len
  BY <1>1 DEF RsaInv, WorkType, WorkOrder
<1>3. WorkType' BY <1>1 DEF RsaInv, WorkType
<1>4. WorkOrder' BY <1>1, Zenon DEF RsaInv, WorkOrder, Inside
<1>5. WorkNumbers' BY <1>1 DEF WorkNumbers
<1>6. Follow' BY <1>1 DEF Follow
<1>7. Next
  <2>1. CASE padded
    <3>1. PICK s : PaddedBlock(sender, n, msg, s) /\ bn_encode(bn_decode(s)) = s /\ Stage(bn_decode(s))
      BY <1>1, <2>1, StageFact
    <3>2. x = bn_decode(s) BY <1>1, <3>1 DEF Stage
    <3>3. block' = s BY <1>1, <3>1, <3>2
    <3>4. Send(s) BY <1>1, <1>2, <2>1, <3>3 DEF Send
    <3>5. PrivateEncrypt \/ PublicEncrypt
      BY <1>2, <3>1, <3>4 DEF PaddedBlock, PrivateEncrypt, PublicEncrypt
    <3>. QED BY <3>5 DEF Next
  <2>2. CASE ~padded
    <3>1. n = 0 BY <1>1, <2>2 DEF RsaInv, WorkOrder
    <3>2. bn_encode(x) \in Block BY <1>2, EncodeType
    <3>3. OtherBlock BY <1>1, <1>2, <2>2, <3>1, <3>2 DEF OtherBlock
    <3>. QED BY <3>3 DEF Next
  <2>. QED BY <2>1, <2>2
<1>. QED BY <1>3, <1>4, <1>5, <1>6, <1>7 DEF RsaInv

LEMMA CheckStep == RsaInv /\ Check => RsaInv' /\ [Next]_vars
<1>. SUFFICES ASSUME RsaInv, Check PROVE RsaInv' /\ [Next]_vars OBVIOUS
<1>1. Decrypt /\ UNCHANGED <<key, step, second, padded, x, cp, cq, mp, mq>> BY DEF Check, work
<1>2. pc = "decrypt" /\ pc' = "done" /\ UNCHANGED <<sender, n, msg>> BY <1>1 DEF Decrypt
<1>3. step \in {"none", "over"} BY <1>2 DEF RsaInv, WorkOrder
<1>4. WorkType' BY <1>1, <1>2 DEF RsaInv, WorkType
<1>5. WorkOrder' BY <1>1, <1>2, <1>3, Zenon DEF RsaInv, WorkOrder, Inside
<1>6. WorkNumbers' BY <1>1, <1>3 DEF WorkNumbers
<1>7. Follow' BY <1>2 DEF Follow
<1>. QED BY <1>1, <1>4, <1>5, <1>6, <1>7 DEF RsaInv, Next

LEMMA StutterStep == RsaInv /\ UNCHANGED allvars => RsaInv' /\ [Next]_vars
<1>. SUFFICES ASSUME RsaInv, UNCHANGED allvars PROVE RsaInv' /\ [Next]_vars OBVIOUS
<1>1. UNCHANGED <<sender, n, msg, block, intact, result, pc, key, step, second, padded, x, cp, cq, mp, mq>>
  BY DEF allvars, vars, work
<1>2. UNCHANGED <<modulus, dp, dq>> BY <1>1, KeyKept
<1>3. WorkType' /\ WorkOrder' BY <1>1 DEF RsaInv, WorkType, WorkOrder
<1>4. WorkNumbers' BY <1>1, <1>2 DEF RsaInv, WorkNumbers
<1>5. Follow'
  <2>. SUFFICES ASSUME padded, step # "none", pc = "encrypt"
                PROVE \E s : PaddedBlock(sender', n', msg', s) /\ Stage(bn_decode(s))'
    BY <1>1 DEF Follow
  <2>1. PICK s : PaddedBlock(sender, n, msg, s) /\ Stage(bn_decode(s)) BY DEF RsaInv, Follow
  <2>2. Stage(bn_decode(s))' BY <1>1, <2>1 DEF Stage
  <2>3. PaddedBlock(sender', n', msg', s) BY <1>1, <2>1
  <2>. QED BY <2>2, <2>3
<1>. QED BY <1>1, <1>3, <1>4, <1>5 DEF RsaInv, vars

(* Whatever the key, what goes through the block operations of the two sides  *)
(* comes out as if there were none: rsa.c implements the exchange of padded  *)
(* blocks.                                                                  *)
THEOREM ImplementsPaddingHolds == RsaSpec => ImplementsPadding
<1>1. RsaInit => Init BY DEF RsaInit
<1>2. RsaInv /\ [RsaNext]_allvars => RsaInv' /\ [Next]_vars
  BY RefuseStep, CallPaddedStep, CallOtherStep, TooLargeStep, PublicStep, InsideStep, CombineStep,
     TransferStep, DeliverStep, CheckStep, StutterStep DEF RsaNext
<1>. QED BY <1>1, <1>2, InitInv, PTL DEF RsaSpec, ImplementsPadding, Spec

(* So a message that goes through the exponentiations comes back as it was   *)
(* sent, and of the numbers of other programs only those are taken for a     *)
(* message that are padded ones.                                            *)
THEOREM MessagesComeBack == RsaSpec => [](RoundTrip /\ OnlyPadded)
BY ImplementsPaddingHolds, RoundTripHolds, OnlyPaddedHolds, PTL DEF ImplementsPadding

-----------------------------------------------------------------------------
(* bn_mod_exp, which Rsa.tla takes as one step, two bits at a time.           *)
CONSTANTS Windows,          \* pairs of bits in a digit
          MaxC, MaxD        \* bounds of ModExp
VARIABLES b, c, cdigits, d, bpower, t, i, ci, ci_bits, j, at
Exp == INSTANCE ModExp WITH B <- Radix, BN_DIGIT_BITS <- 2 * Windows, pc <- at

LEMMA PowerSum ==
  ASSUME NEW y \in Int, NEW e \in Nat, NEW f \in Nat
  PROVE  Power(y, e + f) = Power(y, e) * Power(y, f)
<1> DEFINE P == {h \in 0..f : Power(y, e + h) = Power(y, e) * Power(y, h)}
<1>1. 0 \in P
  <2>1. Power(y, e) \in Int /\ Power(y, 0) = 1 /\ e + 0 = e BY PowerStep
  <2>. QED BY <2>1
<1>2. ASSUME NEW h \in 1..f, h - 1 \in P PROVE h \in P
  <2> DEFINE k == h - 1
             u == Power(y, e)
             v == Power(y, k)
  <2>1. k \in Nat /\ k + 1 = h /\ e + k \in Nat /\ (e + k) + 1 = e + h OBVIOUS
  <2>2. Power(y, e + k) = u * v BY <1>2
  <2>. HIDE DEF k
  <2>3. u \in Int /\ v \in Int /\ Power(y, h) = v * y /\ Power(y, e + h) = Power(y, e + k) * y
    <3>1. u \in Int /\ v \in Int BY <2>1, PowerStep
    <3>2. Power(y, k + 1) = v * y BY <2>1, PowerStep
    <3>3. Power(y, (e + k) + 1) = Power(y, e + k) * y BY <2>1, PowerStep, Zenon
    <3>. QED BY <2>1, <3>1, <3>2, <3>3
  <2>. HIDE DEF u, v
  <2>4. (u * v) * y = u * (v * y) BY <2>3
  <2>5. Power(y, e + h) = u * Power(y, h) BY <2>2, <2>3, <2>4
  <2>. QED BY <2>5 DEF u
<1>3. f \in P
  <2>. HIDE DEF P
  <2>. QED BY <1>1, <1>2, Induction
<1>. QED BY <1>3

(* Remainders of products: a remainder modulo m, and that of v.               *)
RemainderOf(p, m, v) == p \in 0..m-1 /\ p % m = v % m
LEMMA ProductModulo ==
  ASSUME NEW m \in Nat, m > 0
  PROVE  \A y, z, v, w \in Int : y % m = v % m /\ z % m = w % m => RemainderOf((y * z) % m, m, v * w)
<1>. SUFFICES ASSUME NEW y \in Int, NEW z \in Int, NEW v \in Int, NEW w \in Int, y % m = v % m, z % m = w % m
     PROVE  RemainderOf((y * z) % m, m, v * w)
  OBVIOUS
<1>1. (y * z) % m = ((y % m) * (z % m)) % m BY RemainderOfProduct
<1>2. (v * w) % m = ((v % m) * (w % m)) % m BY RemainderOfProduct
<1> DEFINE p == (y * z) % m
<1>3. p \in 0..m-1
  <2>1. y * z \in Int OBVIOUS
  <2>. QED BY <2>1, Divided
<1>4. p = (v * w) % m BY <1>1, <1>2
<1>. HIDE DEF p
<1>5. p % m = p BY <1>3, SmallRemainder
<1>6. p \in 0..m-1 /\ p % m = (v * w) % m BY <1>3, <1>4, <1>5
<1>. QED BY <1>6 DEF p, RemainderOf

(* The reference of the model is a power modulo d.                            *)
LEMMA PowerModulo ==
  ASSUME b \in Int, d \in Nat, d > 0, NEW e \in Nat
  PROVE  Exp!Power(e) = Power(b, e) % d
<1> DEFINE f == [k \in 0..e |-> Power(b, k) % d]
<1>1. f = [k \in 0..e |-> IF k = 0 THEN 1 % d ELSE (f[k-1] * b) % d]
  <2>1. ASSUME NEW k \in 0..e PROVE f[k] = IF k = 0 THEN 1 % d ELSE (f[k-1] * b) % d
    <3>1. CASE k = 0
      <4>1. Power(b, 0) = 1 BY PowerStep
      <4>. QED BY <3>1, <4>1
    <3>2. CASE k # 0
      <4> DEFINE h == k - 1
                 u == Power(b, h)
                 v == u % d
      <4>1. h \in Nat /\ h \in 0..e /\ k = h + 1 /\ u \in Int BY <3>2, PowerStep
      <4>2. f[k] = Power(b, k) % d /\ f[k-1] = v BY <4>1
      <4>3. Power(b, k) = u * b
        <5>. HIDE DEF h
        <5>1. Power(b, h + 1) = Power(b, h) * b BY <4>1, PowerStep
        <5>. QED BY <4>1, <5>1
      <4>. HIDE DEF u, h
      <4>4. v \in 0..d-1 BY <4>1, Divided
      <4>. HIDE DEF v
      <4>5. v % d = u % d
        <5>1. v % d = v BY <4>4, SmallRemainder
        <5>. QED BY <5>1 DEF v
      <4>6. (u * b) % d = ((u % d) * (b % d)) % d BY <4>1, RemainderOfProduct
      <4>7. (v * b) % d = ((v % d) * (b % d)) % d
        <5>1. v \in Int BY <4>4
        <5>. QED BY <5>1, RemainderOfProduct
      <4>8. f[k] = (f[k-1] * b) % d BY <4>2, <4>3, <4>5, <4>6, <4>7
      <4>. HIDE DEF f
      <4>. QED BY <3>2, <4>8
    <3>. QED BY <3>1, <3>2
  <2>. QED BY <2>1
<1> DEFINE g == CHOOSE h : h = [k \in 0..e |-> IF k = 0 THEN 1 % d ELSE (h[k-1] * b) % d]
<1>2. g = [k \in 0..e |-> IF k = 0 THEN 1 % d ELSE (g[k-1] * b) % d]
  <2>. HIDE DEF f
  <2>. QED BY <1>1
<1>3. Exp!Power(e) = g[e] BY DEF Exp!Power
<1>4. f[e] = Power(b, e) % d OBVIOUS
<1>. HIDE DEF g, f
<1> DEFINE P == {h \in 0..e : g[h] = f[h]}
<1>5. 0 \in P BY <1>1, <1>2
<1>6. ASSUME NEW k \in 1..e, k - 1 \in P PROVE k \in P BY <1>1, <1>2, <1>6
<1>7. e \in P
  <2>. HIDE DEF P
  <2>. QED BY <1>5, <1>6, Induction
<1>. QED BY <1>3, <1>4, <1>7

(* An array's number, by its k most significant digits.                       *)
TopDigits(f, y, n1) ==
  f \in [0..n1 -> Nat] /\ f[0] = 0 /\ \A k \in 1..n1 : f[k] = f[k-1] * Radix + y[n1-k]
LEMMA ValueFunction ==
  ASSUME NEW n1 \in Nat, NEW y, \A k \in 0..n1-1 : y[k] \in Nat
  PROVE  \E f : TopDigits(f, y, n1) /\ Exp!Value(y, n1) = f[n1]
<1>. USE RadixAssumption
<1> DEFINE next == [u \in (1..n1) \X Nat |-> u[2] * Radix + y[n1-u[1]]]
<1>1. next \in [(1..n1) \X Nat -> Nat]
      /\ \A k \in 1..n1, v \in Nat : next[<<k, v>>] = v * Radix + y[n1-k]
  <2>1. \A k \in 1..n1 : n1 - k \in 0..n1-1 /\ y[n1-k] \in Nat OBVIOUS
  <2>2. \A v \in Nat : v * Radix \in Nat OBVIOUS
  <2>3. \A k \in 1..n1, v \in Nat : v * Radix + y[n1-k] \in Nat BY <2>1, <2>2, SMTT(30)
  <2>. QED BY <2>3
<1>2. PICK f \in [0..n1 -> Nat] : f[0] = 0 /\ \A k \in 1..n1 : f[k] = next[<<k, f[k-1]>>]
  <2> DEFINE S == Nat
             first == 0
  <2>1. first \in S /\ next \in [(1..n1) \X S -> S] BY <1>1
  <2>. HIDE DEF next, S, first
  <2>2. PICK f \in [0..n1 -> S] : Follows(f, n1, first, next) BY <2>1, RecursionExists
  <2>. QED BY <2>2 DEF S, first, Follows
<1>. HIDE DEF next
<1>3. \A k \in 1..n1 : f[k] = f[k-1] * Radix + y[n1-k]
  <2>1. ASSUME NEW k \in 1..n1 PROVE f[k] = f[k-1] * Radix + y[n1-k]
    <3>1. f[k-1] \in Nat /\ f[k] = next[<<k, f[k-1]>>] BY <1>2
    <3>. QED BY <1>1, <3>1
  <2>. QED BY <2>1
<1>4. f = [k \in 0..n1 |-> IF k = 0 THEN 0 ELSE f[k-1] * Radix + y[n1-k]]
  <2>1. ASSUME NEW k \in 0..n1 PROVE f[k] = IF k = 0 THEN 0 ELSE f[k-1] * Radix + y[n1-k]
    <3>1. CASE k = 0 BY <1>2, <3>1
    <3>2. CASE k # 0 BY <1>3, <3>2
    <3>. QED BY <3>1, <3>2
  <2>. QED BY <2>1
<1> DEFINE g == CHOOSE h : h = [k \in 0..n1 |-> IF k = 0 THEN 0 ELSE h[k-1] * Radix + y[n1-k]]
<1>5. g = [k \in 0..n1 |-> IF k = 0 THEN 0 ELSE g[k-1] * Radix + y[n1-k]] BY <1>4
<1>6. Exp!Value(y, n1) = g[n1] BY DEF Exp!Value
<1>. HIDE DEF g
<1> DEFINE P == {h \in 0..n1 : g[h] = f[h]}
<1>7. 0 \in P BY <1>4, <1>5
<1>8. ASSUME NEW k \in 1..n1, k - 1 \in P PROVE k \in P BY <1>4, <1>5, <1>8
<1>9. n1 \in P
  <2>1. 0 \in P /\ \A k \in 1..n1 : k - 1 \in P => k \in P BY <1>7, <1>8
  <2>. HIDE DEF P
  <2>2. \A k \in 0..n1 : k \in P BY <2>1, Induction
  <2>. QED BY <2>2
<1>10. TopDigits(f, y, n1) BY <1>2, <1>3 DEF TopDigits
<1>11. Exp!Value(y, n1) = f[n1] BY <1>6, <1>9
<1>. QED BY <1>10, <1>11

(* The number of digits without leading zeros.                                *)
LEMMA DigitsFact ==
  ASSUME NEW n1 \in Nat, NEW y
  PROVE  /\ Exp!bn_digits(y, n1) \in 0..n1
         /\ Exp!bn_digits(y, n1) > 0 => y[Exp!bn_digits(y, n1) - 1] # 0
<1> DEFINE S == {k \in 0..n1 : \A h \in k..n1-1 : y[h] = 0}
<1>1. n1 \in S /\ S \in SUBSET Nat OBVIOUS
<1>2. PICK l \in S : \A k \in S : l <= k
  <2>. HIDE DEF S
  <2>. QED BY <1>1, LeastNumber
<1>3. l > 0 => y[l-1] # 0
  <2>. SUFFICES ASSUME l > 0, y[l-1] = 0 PROVE FALSE OBVIOUS
  <2>1. l - 1 \in 0..n1 /\ \A h \in l-1..n1-1 : h = l - 1 \/ h \in l..n1-1 OBVIOUS
  <2>2. l - 1 \in S BY <2>1
  <2>. QED BY <1>2, <2>2
<1>4. l \in 0..n1 /\ (l > 0 => y[l-1] # 0) /\ \A h \in l..n1-1 : y[h] = 0 BY <1>3
<1> DEFINE u == CHOOSE k \in 0..n1 : (k > 0 => y[k-1] # 0) /\ \A h \in k..n1-1 : y[h] = 0
<1>5. u \in 0..n1 /\ (u > 0 => y[u-1] # 0) BY <1>4
<1>6. Exp!bn_digits(y, n1) = u BY DEF Exp!bn_digits
<1>. HIDE DEF u
<1>. QED BY <1>5, <1>6

(* One window: four times the exponent and two bits more.                     *)
LEMMA FourTimes ==
  ASSUME NEW y \in Int, NEW e \in Nat
  PROVE  /\ Power(y, 4 * e) = ((Power(y, e) * Power(y, e)) * (Power(y, e) * Power(y, e)))
         /\ \A s \in 0..3 : Power(y, 4 * e + s) = Power(y, 4 * e) * Power(y, s)
<1> DEFINE e2 == e + e
<1>1. e2 \in Nat /\ 4 * e = e2 + e2 /\ 4 * e \in Nat OBVIOUS
<1>2. Power(y, e2) = Power(y, e) * Power(y, e) BY PowerSum
<1>. HIDE DEF e2
<1>3. Power(y, e2 + e2) = Power(y, e2) * Power(y, e2) BY <1>1, PowerSum
<1>4. ASSUME NEW s \in 0..3 PROVE Power(y, 4 * e + s) = Power(y, 4 * e) * Power(y, s)
  BY <1>1, PowerSum, s \in Nat, Zenon
<1>. QED BY <1>1, <1>2, <1>3, <1>4

(* The three powers of the base, and the powers they stand for.                *)
Bases == bpower = [k \in 0..2 |-> bpower[k]] /\ \A k \in 0..2 : bpower[k] \in Int /\ bpower[k] % d = Power(b, k + 1) % d
LEMMA SmallPowers ==
  ASSUME NEW y \in Int
  PROVE  Power(y, 1) = y /\ Power(y, 2) = y * y /\ Power(y, 3) = (y * y) * y
<1>1. Power(y, 0) = 1 /\ Power(y, 0 + 1) = Power(y, 0) * y BY PowerStep
<1>2. Power(y, 1 + 1) = Power(y, 1) * y BY 1 \in Nat, PowerStep
<1>3. Power(y, 2 + 1) = Power(y, 2) * y BY 2 \in Nat, PowerStep
<1>4. 0 + 1 = 1 /\ 1 + 1 = 2 /\ 2 + 1 = 3 OBVIOUS
<1>5. Power(y, 1) = Power(y, 0) * y /\ Power(y, 2) = Power(y, 1) * y /\ Power(y, 3) = Power(y, 2) * y
  BY <1>1, <1>2, <1>3, <1>4
<1>6. Power(y, 1) = y BY <1>1, <1>5
<1>. QED BY <1>5, <1>6

LEMMA BasesFact ==
  ASSUME b \in Nat, d \in Nat, d > 0, Exp!Start
  PROVE  Bases'
<1> DEFINE b2 == (b * b) % d
           b3 == (b2 * b) % d
<1>1. bpower' = [k \in 0..2 |-> IF k = 0 THEN b ELSE IF k = 1 THEN b2 ELSE b3] /\ b' = b /\ d' = d
  BY DEF Exp!Start, Exp!bn_mod_mul
<1>2. b2 \in 0..d-1 /\ b2 % d = (b * b) % d
  <2>1. RemainderOf((b * b) % d, d, b * b) BY b \in Int, ProductModulo
  <2>. QED BY <2>1 DEF RemainderOf
<1>. HIDE DEF b2
<1>3. b3 \in 0..d-1 /\ b3 % d = ((b * b) * b) % d
  <2> DEFINE bb == b * b
  <2>1. bb \in Int /\ b2 \in Int /\ b2 % d = bb % d /\ b \in Int BY <1>2
  <2>. HIDE DEF bb
  <2>2. RemainderOf((b2 * b) % d, d, bb * b) BY <2>1, ProductModulo, Zenon
  <2>3. b3 \in 0..d-1 /\ b3 % d = (bb * b) % d BY <2>2 DEF RemainderOf
  <2>. QED BY <2>3 DEF bb
<1>. HIDE DEF b3
<1>4. Power(b, 0 + 1) = b /\ Power(b, 1 + 1) = b * b /\ Power(b, 2 + 1) = (b * b) * b
  <2>1. Power(b, 1) = b /\ Power(b, 2) = b * b /\ Power(b, 3) = (b * b) * b BY b \in Int, SmallPowers
  <2>2. 0 + 1 = 1 /\ 1 + 1 = 2 /\ 2 + 1 = 3 OBVIOUS
  <2>. QED BY <2>1, <2>2
<1>5. bpower'[0] = b /\ bpower'[1] = b2 /\ bpower'[2] = b3 /\ bpower' = [k \in 0..2 |-> bpower'[k]] BY <1>1
<1>6. \A k \in 0..2 : k = 0 \/ k = 1 \/ k = 2 OBVIOUS
<1>7. \A k \in 0..2 : bpower'[k] \in Int /\ bpower'[k] % d = Power(b, k + 1) % d
  <2>1. bpower'[0] \in Int /\ bpower'[0] % d = Power(b, 0 + 1) % d BY <1>4, <1>5
  <2>2. bpower'[1] \in Int /\ bpower'[1] % d = Power(b, 1 + 1) % d BY <1>2, <1>4, <1>5
  <2>3. bpower'[2] \in Int /\ bpower'[2] % d = Power(b, 2 + 1) % d BY <1>3, <1>4, <1>5
  <2>. QED BY <1>6, <2>1, <2>2, <2>3
<1>. QED BY <1>1, <1>5, <1>7 DEF Bases

-----------------------------------------------------------------------------
(* The inductive invariant.  E is the part of the exponent that is done: the  *)
(* digits before this one and m pairs of bits of it; ci has the rest of the  *)
(* digit, shifted to its top.  A power of nothing is 1 and not reduced.      *)
Setting == Windows \in Nat /\ Windows > 0 /\ Radix = Power(4, Windows) /\ MaxC \in Nat /\ MaxD \in Nat
Powered(E) == t \in Nat /\ t % d = Power(b, E) % d /\ (t < d \/ (E = 0 /\ t = 1))
Shifted(E, m, N) ==
  /\ ci \in 0..Radix-1 /\ E * Radix + ci = N * Power(4, m)
  /\ ci_bits \in Nat /\ j \in Nat /\ ci_bits - j = 2 * (Windows - m)
  /\ at = "skip" => E = 0 /\ j = 0
WithinDigit(N) == \E E \in Nat, m \in 0..Windows : Powered(E) /\ Shifted(E, m, N)
Reached(f) ==
  /\ at \in {"digit", "done"} => Powered(f[cdigits - 1 - i])
  /\ at \in {"skip", "bits"} => WithinDigit(f[cdigits - i])
Arguments ==
  /\ b \in Nat /\ d \in Nat /\ d > 0 /\ cdigits \in Nat /\ \A k \in 0..cdigits-1 : c[k] \in 0..Radix-1
  /\ at \in {"start", "digit", "skip", "bits", "done"}
Places ==
  /\ cdigits > 0 => c[cdigits-1] # 0
  /\ i \in -1..cdigits-1
  /\ at \in {"skip", "bits"} => i >= 0
  /\ at = "skip" => i = cdigits - 1
  /\ at = "done" => i = -1
ExpInv ==
  /\ Setting /\ Arguments
  /\ at # "start" => Bases /\ Places /\ \E f : TopDigits(f, c, cdigits) /\ Reached(f)

LEMMA Quarter ==
  ASSUME Setting
  PROVE  \E q \in Nat : q > 0 /\ Radix = 4 * q /\ Radix \div 4 = q
<1> DEFINE k == Windows - 1
<1>1. k \in Nat /\ k + 1 = Windows BY DEF Setting
<1>. HIDE DEF k
<1> DEFINE q == Power(4, k)
<1>2. q \in Nat /\ q > k BY <1>1, 4 \in Nat, PowerGrows
<1>3. Radix = q * 4
  <2>1. Power(4, k + 1) = Power(4, k) * 4 BY <1>1, 4 \in Int, PowerStep
  <2>. QED BY <1>1, <2>1 DEF Setting
<1>. HIDE DEF q
<1>4. q > 0 /\ Radix = 4 * q BY <1>1, <1>2, <1>3
<1>5. Radix \div 4 = q BY <1>2, <1>3, DividedUnique, 4 \in Nat, 0 \in 0..4-1, Radix = q * 4 + 0
<1>. QED BY <1>2, <1>4, <1>5

(* The next two bits leave the top of the digit.                              *)
LEMMA ShiftFact ==
  ASSUME Setting, NEW y \in 0..Radix-1, NEW E \in Nat, NEW p \in Nat, E * Radix + y = p
  PROVE  /\ Exp!DIGIT_2MSB(y) \in 0..3 /\ Exp!Shift2(y) \in 0..Radix-1
         /\ (4 * E + Exp!DIGIT_2MSB(y)) * Radix + Exp!Shift2(y) = 4 * p
<1>1. PICK q \in Nat : q > 0 /\ Radix = 4 * q /\ Radix \div 4 = q BY Quarter
<1> DEFINE s == y \div q
           r == y % q
<1>2. s \in Nat /\ r \in 0..q-1 /\ y = s * q + r BY <1>1, y \in Int, Divided
<1>3. Exp!DIGIT_2MSB(y) = s BY <1>1 DEF Exp!DIGIT_2MSB
<1>. HIDE DEF s, r
<1>4. s \in 0..3
  <2>. SUFFICES ASSUME s - 3 >= 1 PROVE FALSE BY <1>2
  <2>1. (s - 3) * q >= q BY <1>1, <1>2, ProductGrows
  <2>2. (s - 3) * q = s * q - 3 * q /\ s * q \in Nat BY <1>1, <1>2
  <2>3. y < 4 * q BY <1>1
  <2>. QED BY <1>1, <1>2, <2>1, <2>2, <2>3
<1>5. y * 4 = s * Radix + 4 * r
  <2>1. y * 4 = 4 * (s * q) + 4 * r
    <3> DEFINE w == s * q
    <3>1. w \in Nat /\ y = w + r BY <1>1, <1>2
    <3>. HIDE DEF w
    <3>2. y * 4 = 4 * w + 4 * r BY <1>2, <3>1
    <3>. QED BY <3>2 DEF w
  <2>2. 4 * (s * q) = s * (4 * q) BY <1>1, <1>2
  <2>. QED BY <1>1, <2>1, <2>2
<1>6. 4 * r \in 0..Radix-1 BY <1>1, <1>2
<1>7. Exp!Shift2(y) = 4 * r
  <2> DEFINE w == 4 * r
             z == y * 4
  <2>1. Radix \in Nat /\ Radix > 0 /\ w \in 0..Radix-1 /\ z \in Int /\ z = s * Radix + w /\ s \in Int
    BY <1>1, <1>2, <1>5, <1>6
  <2>. HIDE DEF w, z
  <2>2. z % Radix = w BY <2>1, DividedUnique
  <2>. QED BY <2>2 DEF w, z, Exp!Shift2
<1>8. (4 * E + s) * Radix + 4 * r = 4 * p
  <2> DEFINE u == E * Radix
             w == s * Radix
  <2>1. Radix \in Nat BY <1>1
  <2>2. u \in Nat /\ w \in Nat /\ (4 * E + s) * Radix = 4 * u + w
    <3>1. (4 * E + s) * Radix = (4 * E) * Radix + s * Radix BY <1>2, <2>1
    <3>2. (4 * E) * Radix = 4 * (E * Radix) BY <2>1
    <3>. QED BY <1>2, <2>1, <3>1, <3>2
  <2>3. u + y = p /\ y * 4 = w + 4 * r BY <1>5
  <2>. HIDE DEF u, w
  <2>. QED BY <1>2, <2>2, <2>3
<1>. QED BY <1>3, <1>4, <1>6, <1>7, <1>8

(* Two squarings and a product make a power of the longer exponent.           *)
LEMMA WindowPower ==
  ASSUME Arguments, Bases, NEW E \in Nat, Powered(E), NEW s \in 0..3
  PROVE  Exp!Window(t, s) \in 0..d-1 /\ Exp!Window(t, s) % d = Power(b, 4 * E + s) % d
<1> DEFINE p == Power(b, E)
           p2 == p * p
           p4 == p2 * p2
           t2 == (t * t) % d
           t4 == (t2 * t2) % d
<1>1. d \in Nat /\ d > 0 /\ b \in Int BY DEF Arguments
<1>2. p \in Int /\ t \in Int /\ t % d = p % d BY <1>1, PowerStep DEF Powered
<1>3. Power(b, 4 * E) = p4 /\ Power(b, 4 * E + s) = Power(b, 4 * E) * Power(b, s) BY <1>1, FourTimes
<1>4. Exp!Window(t, s) = IF s = 0 THEN t4 ELSE (t4 * bpower[s-1]) % d BY DEF Exp!Window, Exp!bn_mod_mul
<1>. HIDE DEF p
<1>5. p2 \in Int BY <1>2
<1>6. t2 \in 0..d-1 /\ t2 % d = p2 % d
  <2>1. RemainderOf((t * t) % d, d, p * p) BY <1>1, <1>2, ProductModulo
  <2>. QED BY <2>1 DEF RemainderOf
<1>. HIDE DEF p2, t2
<1>7. p4 \in Int BY <1>5
<1>8. t4 \in 0..d-1 /\ t4 % d = p4 % d
  <2>1. t2 \in Int BY <1>6
  <2>2. RemainderOf((t2 * t2) % d, d, p2 * p2) BY <1>1, <1>5, <1>6, <2>1, ProductModulo
  <2>. QED BY <2>2 DEF RemainderOf
<1>. HIDE DEF p4, t4
<1>9. CASE s = 0
  <2>1. Power(b, 4 * E + s) = p4
    <3>1. 4 * E + s = 4 * E BY <1>9
    <3>. QED BY <1>3, <3>1
  <2>. QED BY <1>4, <1>8, <1>9, <2>1
<1>10. CASE s # 0
  <2> DEFINE k == s - 1
             v == bpower[k]
             w == Power(b, s)
  <2>1. k \in 0..2 /\ k + 1 = s BY <1>10
  <2>2. v \in Int /\ v % d = w % d BY <2>1 DEF Bases
  <2>3. w \in Int BY <1>1, s \in Nat, PowerStep
  <2>4. Exp!Window(t, s) = (t4 * v) % d /\ Power(b, 4 * E + s) = p4 * w BY <1>3, <1>4, <1>10
  <2>5. t4 \in Int BY <1>8
  <2>. HIDE DEF v, w, k
  <2>6. RemainderOf((t4 * v) % d, d, p4 * w) BY <1>1, <1>7, <1>8, <2>2, <2>3, <2>5, ProductModulo
  <2>. QED BY <2>4, <2>6 DEF RemainderOf
<1>. QED BY <1>9, <1>10

LEMMA ExpInitial == Setting /\ Exp!Init => ExpInv
<1>. SUFFICES ASSUME Setting, Exp!Init PROVE ExpInv OBVIOUS
<1>1. at = "start" /\ b \in Nat /\ d \in Nat /\ d > 0 /\ cdigits \in Nat /\ c \in [0..cdigits-1 -> 0..Radix-1]
  BY DEF Exp!Init, Setting
<1>2. \A k \in 0..cdigits-1 : c[k] \in 0..Radix-1 BY <1>1
<1>3. Arguments BY <1>1, <1>2 DEF Arguments
<1>. QED BY <1>1, <1>3 DEF ExpInv

LEMMA StartStep ==
  ASSUME ExpInv, Exp!Start
  PROVE  ExpInv'
<1>1. Setting /\ Arguments /\ Setting' BY DEF ExpInv, Setting
<1>2. Bases' BY <1>1, BasesFact DEF Arguments
<1>3. /\ UNCHANGED <<b, c, d>> /\ at' = "digit" /\ t' = 1
      /\ cdigits' = Exp!bn_digits(c, cdigits) /\ i' = cdigits' - 1
  BY DEF Exp!Start
<1>4. PICK n1 : n1 = cdigits' /\ n1 \in 0..cdigits /\ (n1 > 0 => c[n1-1] # 0)
  <2>1. cdigits \in Nat BY <1>1 DEF Arguments
  <2>. QED BY <1>3, <2>1, DigitsFact
<1>5. n1 \in Nat /\ \A k \in 0..n1-1 : c[k] \in 0..Radix-1
  <2>1. cdigits \in Nat /\ \A k \in 0..cdigits-1 : c[k] \in 0..Radix-1 BY <1>1 DEF Arguments
  <2>2. n1 \in Nat /\ n1 <= cdigits BY <1>4, <2>1
  <2>3. \A k \in 0..n1-1 : k \in 0..cdigits-1 BY <2>1, <2>2
  <2>. QED BY <2>1, <2>2, <2>3, Zenon
<1>6. Arguments' BY <1>1, <1>3, <1>4, <1>5 DEF Arguments
<1>7. Places' BY <1>3, <1>4, <1>5 DEF Places
<1>8. PICK f : TopDigits(f, c, n1)
  <2>1. \A k \in 0..n1-1 : c[k] \in Nat
    <3>1. Radix \in Nat BY RadixAssumption
    <3>. QED BY <1>5, <3>1
  <2>. QED BY <1>5, <2>1, ValueFunction
<1>9. f[0] = 0 /\ n1 - 1 - (n1 - 1) = 0 BY <1>5, <1>8 DEF TopDigits
<1>10. Powered(0)'
  <2>1. Power(b, 0) = 1 /\ 0 \in Nat BY <1>1, b \in Int, PowerStep DEF Arguments
  <2>2. t' \in Nat /\ t' % d = Power(b, 0) % d /\ (0 = 0 /\ t' = 1) BY <1>3, <2>1
  <2>. QED BY <1>3, <2>2 DEF Powered
<1>11. Reached(f)'
  <2>1. cdigits' - 1 - i' = 0 BY <1>3, <1>4, <1>9
  <2>2. Powered(f[cdigits - 1 - i])' BY <1>9, <1>10, <2>1
  <2>3. at' \notin {"skip", "bits"} BY <1>3
  <2>. QED BY <2>2, <2>3 DEF Reached
<1>12. TopDigits(f, c, cdigits)' BY <1>3, <1>4, <1>8
<1>. QED BY <1>1, <1>2, <1>6, <1>7, <1>11, <1>12 DEF ExpInv

(* Steps that leave the arguments and the powers as they are.                 *)
LEMMA Kept ==
  ASSUME ExpInv, at # "start", UNCHANGED <<b, c, cdigits, d, bpower>>,
         at' \in {"digit", "skip", "bits", "done"}, Places',
         \A f : TopDigits(f, c, cdigits) /\ Reached(f) => Reached(f)'
  PROVE  ExpInv'
<1>1. Setting /\ Arguments /\ Bases /\ Setting' BY DEF ExpInv, Setting
<1>2. Arguments' BY <1>1 DEF Arguments
<1>3. Bases' BY <1>1 DEF Bases
<1>4. PICK f : TopDigits(f, c, cdigits) /\ Reached(f) BY DEF ExpInv
<1>5. TopDigits(f, c, cdigits)' BY <1>4
<1>6. Reached(f)' BY <1>4
<1>. QED BY <1>1, <1>2, <1>3, <1>5, <1>6 DEF ExpInv

LEMMA NextDigitStep ==
  ASSUME ExpInv, Exp!NextDigit
  PROVE  ExpInv'
<1>1. /\ at = "digit" /\ i >= 0 /\ ci' = c[i] /\ ci_bits' = 2 * Windows /\ j' = 0
      /\ at' = (IF i = cdigits - 1 THEN "skip" ELSE "bits")
      /\ UNCHANGED <<b, c, cdigits, d, bpower, t, i>>
  BY DEF Exp!NextDigit
<1>2. Setting /\ Arguments /\ Places BY <1>1 DEF ExpInv
<1>3. Places' BY <1>1, <1>2 DEF Places
<1>4. ASSUME NEW f, TopDigits(f, c, cdigits), Reached(f) PROVE Reached(f)'
  <2>1. cdigits \in Nat /\ i \in 0..cdigits-1 /\ Radix \in Nat BY <1>1, <1>2, RadixAssumption DEF Places, Arguments
  <2>2. PICK k : k = cdigits - i /\ k \in 1..cdigits /\ k - 1 = cdigits - 1 - i /\ cdigits - k = i /\ k - 1 \in 0..cdigits
    BY <2>1
  <2>3. PICK E : E = f[k-1] /\ E \in Nat /\ f[k] = E * Radix + c[i] BY <1>4, <2>2 DEF TopDigits
  <2>4. Powered(E) BY <2>3, <1>1, <1>4, <2>2 DEF Reached
  <2>5. c[i] \in 0..Radix-1 BY <1>2, <2>1 DEF Arguments
  <2>6. Power(4, 0) = 1 /\ f[k] \in Int
    <3>1. E * Radix \in Nat BY <2>1, <2>3
    <3>2. f[k] \in Int BY <2>1, <2>3, <2>5, <3>1
    <3>3. Power(4, 0) = 1 BY PowerStep, 4 \in Int, 0 \in Nat
    <3>. QED BY <3>2, <3>3
  <2>7. at' = "skip" => E = 0
    <3>1. at' = "skip" => k - 1 = 0 BY <1>1, <2>1, <2>2
    <3>. QED BY <1>4, <2>3, <3>1 DEF TopDigits
  <2>8. Powered(E)' BY <1>1, <2>4 DEF Powered
  <2>9. Shifted(E, 0, f[k])'
    <3>1. E * Radix + c[i] = f[k] * Power(4, 0) BY <2>3, <2>6
    <3>2. Windows \in Nat BY <1>2 DEF Setting
    <3>3. ci_bits' \in Nat /\ ci_bits' - j' = 2 * (Windows - 0) BY <1>1, <3>2
    <3>4. ci' \in 0..Radix-1 /\ E * Radix + ci' = f[k] * Power(4, 0) BY <1>1, <2>5, <3>1
    <3>. QED BY <1>1, <2>7, <3>3, <3>4 DEF Shifted
  <2>10. WithinDigit(f[k])' BY <1>2, <2>3, <2>8, <2>9, 0 \in 0..Windows DEF WithinDigit, Setting
  <2>11. at' \in {"skip", "bits"} /\ cdigits' - i' = k BY <1>1, <2>2
  <2>. QED BY <2>10, <2>11 DEF Reached
<1>. QED BY <1>1, <1>3, <1>4, Kept

LEMMA SkipStep ==
  ASSUME ExpInv, Exp!Skip
  PROVE  ExpInv'
<1>1. /\ at = "skip" /\ at' = "skip" /\ Exp!DIGIT_2MSB(ci) = 0 /\ ci' = Exp!Shift2(ci) /\ ci_bits' = ci_bits - 2
      /\ UNCHANGED <<b, c, cdigits, d, bpower, t, i, j>>
  BY DEF Exp!Skip
<1>2. Setting /\ Arguments /\ Places BY <1>1 DEF ExpInv
<1>3. Places' BY <1>1, <1>2 DEF Places
<1>4. ASSUME NEW f, TopDigits(f, c, cdigits), Reached(f) PROVE Reached(f)'
  <2>1. cdigits \in Nat /\ cdigits > 0 /\ i = cdigits - 1 /\ c[cdigits-1] \in 0..Radix-1 /\ c[cdigits-1] # 0 /\ Radix \in Nat
    BY <1>1, <1>2, RadixAssumption DEF Places, Arguments
  <2>2. cdigits - i = 1 /\ 1 \in 1..cdigits /\ cdigits - 1 \in 0..cdigits BY <2>1
  <2>3. PICK N : N = f[1] /\ N \in Nat /\ N > 0
    <3>1. f[1] = f[1-1] * Radix + c[cdigits-1] /\ f[0] = 0 BY <1>4, <2>2 DEF TopDigits
    <3>2. f[1] = c[cdigits-1] BY <2>1, <3>1
    <3>. QED BY <2>1, <3>2
  <2>4. WithinDigit(N) BY <1>1, <1>4, <2>2, <2>3 DEF Reached
  <2>5. PICK E \in Nat, m \in 0..Windows : Powered(E) /\ Shifted(E, m, N) BY <2>4 DEF WithinDigit
  <2>6. /\ E = 0 /\ j = 0 /\ ci \in 0..Radix-1 /\ E * Radix + ci = N * Power(4, m)
        /\ ci_bits \in Nat /\ ci_bits - j = 2 * (Windows - m)
    BY <1>1, <2>5 DEF Shifted
  <2>7. Windows \in Nat /\ m \in Nat /\ Power(4, m) \in Nat /\ Radix = Power(4, Windows)
    <3>1. Windows \in Nat /\ Radix = Power(4, Windows) BY <1>2 DEF Setting
    <3>2. m \in Nat BY <3>1
    <3>. QED BY <3>1, <3>2, 4 \in Nat, PowerGrows
  <2>8. m # Windows
    <3>. SUFFICES ASSUME m = Windows PROVE FALSE OBVIOUS
    <3>1. N * Radix >= Radix BY <2>1, <2>3, ProductGrows
    <3>2. ci = N * Radix BY <2>1, <2>6, <2>7
    <3>. QED BY <2>1, <2>6, <3>1, <3>2
  <2>9. m + 1 \in 0..Windows /\ Power(4, m + 1) = Power(4, m) * 4 BY <2>7, <2>8, 4 \in Int, PowerStep
  <2>10. (4 * E + 0) * Radix + ci' = 4 * (N * Power(4, m)) /\ ci' \in 0..Radix-1
    <3>1. N * Power(4, m) \in Nat BY <2>3, <2>7
    <3>. QED BY <1>1, <1>2, <2>6, <3>1, ShiftFact
  <2>11. 4 * (N * Power(4, m)) = N * Power(4, m + 1)
    <3> DEFINE w == Power(4, m)
    <3>1. w \in Nat /\ Power(4, m + 1) = w * 4 BY <2>7, <2>9
    <3>. HIDE DEF w
    <3>2. 4 * (N * w) = N * (w * 4) BY <2>3, <3>1
    <3>. QED BY <3>1, <3>2 DEF w
  <2>12. 0 * Radix + ci' = N * Power(4, m + 1)
    <3>1. 4 * E + 0 = 0 BY <2>6
    <3>. QED BY <2>10, <2>11, <3>1
  <2>13. ci_bits' \in Nat /\ ci_bits' - j' = 2 * (Windows - (m + 1)) BY <1>1, <2>6, <2>7, <2>9
  <2>14. Shifted(0, m + 1, N)' BY <1>1, <2>6, <2>10, <2>12, <2>13 DEF Shifted
  <2>15. Powered(0)' BY <1>1, <2>5, <2>6 DEF Powered
  <2>16. WithinDigit(N)' BY <1>2, <2>9, <2>14, <2>15, 0 \in Nat DEF WithinDigit, Setting
  <2>17. cdigits' - i' = 1 BY <1>1, <2>2
  <2>. QED BY <1>1, <2>3, <2>16, <2>17 DEF Reached
<1>. QED BY <1>1, <1>3, <1>4, Kept

LEMMA EndSkipStep ==
  ASSUME ExpInv, Exp!EndSkip
  PROVE  ExpInv'
<1>1. at = "skip" /\ at' = "bits" /\ UNCHANGED <<b, c, cdigits, d, bpower, t, i, ci, ci_bits, j>> BY DEF Exp!EndSkip
<1>2. Setting /\ Arguments /\ Places BY <1>1 DEF ExpInv
<1>3. Places' BY <1>1, <1>2 DEF Places
<1>4. ASSUME NEW f, TopDigits(f, c, cdigits), Reached(f) PROVE Reached(f)'
  <2>1. PICK N : N = f[cdigits - i] OBVIOUS
  <2>2. WithinDigit(N) BY <1>1, <1>4, <2>1 DEF Reached
  <2>3. PICK E \in Nat, m \in 0..Windows : Powered(E) /\ Shifted(E, m, N) BY <2>2 DEF WithinDigit
  <2>4. Powered(E)' BY <1>1, <2>3 DEF Powered
  <2>5. Shifted(E, m, N)' BY <1>1, <2>3 DEF Shifted
  <2>6. WithinDigit(N)' BY <2>4, <2>5 DEF WithinDigit
  <2>7. f[cdigits' - i'] = N BY <1>1, <2>1
  <2>. QED BY <1>1, <2>6, <2>7 DEF Reached
<1>. QED BY <1>1, <1>3, <1>4, Kept

LEMMA TwoBitsStep ==
  ASSUME ExpInv, Exp!TwoBits
  PROVE  ExpInv'
<1>1. /\ at = "bits" /\ at' = "bits" /\ j < ci_bits /\ t' = Exp!Window(t, Exp!DIGIT_2MSB(ci))
      /\ ci' = Exp!Shift2(ci) /\ j' = j + 2 /\ UNCHANGED <<b, c, cdigits, d, bpower, i, ci_bits>>
  BY DEF Exp!TwoBits
<1>2. Setting /\ Arguments /\ Places /\ Bases BY <1>1 DEF ExpInv
<1>3. Places' BY <1>1, <1>2 DEF Places
<1>4. ASSUME NEW f, TopDigits(f, c, cdigits), Reached(f) PROVE Reached(f)'
  <2>1. PICK N : N = f[cdigits - i] /\ N \in Nat
    <3>1. cdigits \in Nat /\ i \in 0..cdigits-1 BY <1>1, <1>2 DEF Places, Arguments
    <3>2. cdigits - i \in 0..cdigits BY <3>1
    <3>. QED BY <1>4, <3>2 DEF TopDigits
  <2>2. WithinDigit(N) BY <1>1, <1>4, <2>1 DEF Reached
  <2>3. PICK E \in Nat, m \in 0..Windows : Powered(E) /\ Shifted(E, m, N) BY <2>2 DEF WithinDigit
  <2>4. /\ ci \in 0..Radix-1 /\ E * Radix + ci = N * Power(4, m)
        /\ ci_bits \in Nat /\ j \in Nat /\ ci_bits - j = 2 * (Windows - m)
    BY <2>3 DEF Shifted
  <2>5. Windows \in Nat /\ m \in Nat /\ Power(4, m) \in Nat
    <3>1. Windows \in Nat BY <1>2 DEF Setting
    <3>2. m \in Nat BY <3>1
    <3>. QED BY <3>1, <3>2, 4 \in Nat, PowerGrows
  <2>6. m + 1 \in 0..Windows /\ Power(4, m + 1) = Power(4, m) * 4
    BY <1>1, <2>4, <2>5, 4 \in Int, PowerStep
  <2>7. PICK s : s = Exp!DIGIT_2MSB(ci) /\ s \in 0..3 /\ ci' \in 0..Radix-1
                 /\ (4 * E + s) * Radix + ci' = 4 * (N * Power(4, m))
    <3>1. N * Power(4, m) \in Nat BY <2>1, <2>5
    <3>. QED BY <1>1, <1>2, <2>4, <3>1, ShiftFact
  <2>8. 4 * (N * Power(4, m)) = N * Power(4, m + 1)
    <3> DEFINE w == Power(4, m)
    <3>1. w \in Nat /\ Power(4, m + 1) = w * 4 BY <2>5, <2>6
    <3>. HIDE DEF w
    <3>2. 4 * (N * w) = N * (w * 4) BY <2>1, <3>1
    <3>. QED BY <3>1, <3>2 DEF w
  <2>9. (4 * E + s) * Radix + ci' = N * Power(4, m + 1) BY <2>7, <2>8
  <2>10. ci_bits' \in Nat /\ j' \in Nat /\ ci_bits' - j' = 2 * (Windows - (m + 1)) BY <1>1, <2>4, <2>5
  <2>11. PICK E2 : E2 = 4 * E + s /\ E2 \in Nat BY <2>7
  <2>12. Shifted(E2, m + 1, N)' BY <1>1, <2>7, <2>9, <2>10, <2>11 DEF Shifted
  <2>13. t' \in 0..d-1 /\ t' % d = Power(b, E2) % d BY <1>1, <1>2, <2>3, <2>7, <2>11, WindowPower
  <2>14. Powered(E2)'
    <3>1. d \in Nat /\ d > 0 BY <1>2 DEF Arguments
    <3>2. t' \in Nat /\ t' < d BY <2>13, <3>1
    <3>. QED BY <1>1, <2>13, <3>2 DEF Powered
  <2>15. WithinDigit(N)'
    <3>1. \E E1 \in Nat, m1 \in 0..Windows : (Powered(E1) /\ Shifted(E1, m1, N))' BY <2>6, <2>11, <2>12, <2>14
    <3>. QED BY <3>1 DEF WithinDigit
  <2>16. f[cdigits' - i'] = N BY <1>1, <2>1
  <2>. QED BY <1>1, <2>15, <2>16 DEF Reached
<1>. QED BY <1>1, <1>3, <1>4, Kept

LEMMA EndDigitStep ==
  ASSUME ExpInv, Exp!EndDigit
  PROVE  ExpInv'
<1>1. /\ at = "bits" /\ at' = "digit" /\ j >= ci_bits /\ i' = i - 1
      /\ UNCHANGED <<b, c, cdigits, d, bpower, t, ci, ci_bits, j>>
  BY DEF Exp!EndDigit
<1>2. Setting /\ Arguments /\ Places BY <1>1 DEF ExpInv
<1>3. cdigits \in Nat /\ i \in 0..cdigits-1 BY <1>1, <1>2 DEF Places, Arguments
<1>4. Places' BY <1>1, <1>2, <1>3 DEF Places
<1>5. ASSUME NEW f, TopDigits(f, c, cdigits), Reached(f) PROVE Reached(f)'
  <2>1. PICK N : N = f[cdigits - i] /\ N \in Nat
    <3>1. cdigits - i \in 0..cdigits BY <1>3
    <3>. QED BY <1>5, <3>1 DEF TopDigits
  <2>2. WithinDigit(N) BY <1>1, <1>5, <2>1 DEF Reached
  <2>3. PICK E \in Nat, m \in 0..Windows : Powered(E) /\ Shifted(E, m, N) BY <2>2 DEF WithinDigit
  <2>4. /\ ci \in 0..Radix-1 /\ E * Radix + ci = N * Power(4, m)
        /\ ci_bits \in Nat /\ j \in Nat /\ ci_bits - j = 2 * (Windows - m)
    BY <2>3 DEF Shifted
  <2>5. Windows \in Nat /\ Radix = Power(4, Windows) /\ Radix \in Nat /\ Radix > 0
    BY <1>2, RadixAssumption DEF Setting
  <2>6. m = Windows BY <1>1, <2>4, <2>5
  <2>7. E * Radix + ci = N * Radix BY <2>4, <2>5, <2>6
  <2>8. E = N
    <3>1. (E * Radix + ci) \div Radix = E
      <4> DEFINE y == E * Radix + ci
      <4>1. y \in Int /\ y = E * Radix + ci /\ E \in Int BY <2>4, <2>5
      <4>. HIDE DEF y
      <4>2. y \div Radix = E BY <2>4, <2>5, <4>1, DividedUnique
      <4>. QED BY <4>2 DEF y
    <3>2. (N * Radix) \div Radix = N
      <4> DEFINE y == N * Radix
      <4>1. y \in Int /\ y = N * Radix + 0 /\ N \in Int /\ 0 \in 0..Radix-1 BY <2>1, <2>5
      <4>. HIDE DEF y
      <4>2. y \div Radix = N BY <2>5, <4>1, DividedUnique
      <4>. QED BY <4>2 DEF y
    <3>. QED BY <2>7, <3>1, <3>2
  <2>9. Powered(N)' BY <1>1, <2>3, <2>8 DEF Powered
  <2>10. cdigits' - 1 - i' = cdigits - i BY <1>1, <1>3
  <2>11. f[cdigits' - 1 - i'] = N BY <2>1, <2>10
  <2>. QED BY <1>1, <2>9, <2>11 DEF Reached
<1>. QED BY <1>1, <1>4, <1>5, Kept

LEMMA ReturnStep ==
  ASSUME ExpInv, Exp!Return
  PROVE  ExpInv'
<1>1. at = "digit" /\ at' = "done" /\ i < 0 /\ UNCHANGED <<b, c, cdigits, d, bpower, t, i, ci, ci_bits, j>>
  BY DEF Exp!Return
<1>2. Setting /\ Arguments /\ Places BY <1>1 DEF ExpInv
<1>3. Places' BY <1>1, <1>2 DEF Places, Arguments
<1>4. ASSUME NEW f, TopDigits(f, c, cdigits), Reached(f) PROVE Reached(f)'
  <2>1. PICK N : N = f[cdigits - 1 - i] OBVIOUS
  <2>2. Powered(N)' BY <1>1, <1>4, <2>1 DEF Reached, Powered
  <2>3. f[cdigits' - 1 - i'] = N BY <1>1, <2>1
  <2>. QED BY <1>1, <2>2, <2>3 DEF Reached
<1>. QED BY <1>1, <1>3, <1>4, Kept

LEMMA ExpKept == ExpInv /\ [Exp!Next]_(Exp!vars) => ExpInv'
<1>. SUFFICES ASSUME ExpInv, [Exp!Next]_(Exp!vars) PROVE ExpInv' OBVIOUS
<1>1. CASE Exp!Start BY <1>1, StartStep
<1>2. CASE Exp!NextDigit BY <1>2, NextDigitStep
<1>3. CASE Exp!Skip BY <1>3, SkipStep
<1>4. CASE Exp!EndSkip BY <1>4, EndSkipStep
<1>5. CASE Exp!TwoBits BY <1>5, TwoBitsStep
<1>6. CASE Exp!EndDigit BY <1>6, EndDigitStep
<1>7. CASE Exp!Return BY <1>7, ReturnStep
<1>8. CASE UNCHANGED Exp!vars
  <2>1. UNCHANGED <<b, c, cdigits, d, bpower, t, i, ci, ci_bits, j, at>> BY <1>8 DEF Exp!vars
  <2>. QED BY <2>1, ZenonT(30) DEF ExpInv, Setting, Arguments, Bases, Places, Reached, WithinDigit, Powered, Shifted, TopDigits
<1>. QED BY <1>1, <1>2, <1>3, <1>4, <1>5, <1>6, <1>7, <1>8 DEF Exp!Next

(* A number whose most significant digit is not 0 is not 0.                   *)
LEMMA TopPositive ==
  ASSUME NEW n1 \in Nat, n1 > 0, NEW y, \A k \in 0..n1-1 : y[k] \in Nat, y[n1-1] # 0, NEW f, TopDigits(f, y, n1)
  PROVE  f[n1] > 0
<1> DEFINE k == n1 - 1
           P == {h \in 0..k : f[h + 1] > 0}
<1>1. k \in Nat /\ Radix \in Nat /\ Radix > 0 BY RadixAssumption
<1>2. 0 \in P
  <2>1. 1 \in 1..n1 /\ y[n1-1] \in Nat BY <1>1
  <2>2. f[1] = f[1-1] * Radix + y[n1-1] /\ f[0] = 0 BY <2>1 DEF TopDigits
  <2>3. f[1] = y[n1-1] BY <1>1, <2>1, <2>2
  <2>4. f[0 + 1] > 0 BY <2>1, <2>3
  <2>. QED BY <1>1, <2>4
<1>3. ASSUME NEW h \in 1..k, h - 1 \in P PROVE h \in P
  <2>1. h + 1 \in 1..n1 /\ n1 - (h + 1) \in 0..n1-1 /\ (h - 1) + 1 = h /\ (h + 1) - 1 = h BY <1>1
  <2>2. PICK v : v = f[h] /\ v \in Nat /\ v > 0 BY <1>3, <2>1 DEF TopDigits
  <2>3. PICK w : w = y[n1 - (h + 1)] /\ w \in Nat BY <2>1
  <2>4. f[h + 1] = v * Radix + w BY <2>1, <2>2, <2>3 DEF TopDigits
  <2>5. v * Radix >= Radix /\ v * Radix \in Nat BY <1>1, <2>2, ProductGrows
  <2>6. f[h + 1] > 0 BY <1>1, <2>3, <2>4, <2>5
  <2>. QED BY <2>6
<1>4. k \in P
  <2>. HIDE DEF P, k
  <2>1. \A h \in 0..k : h \in P BY <1>1, <1>2, <1>3, Induction
  <2>. QED BY <1>1, <2>1
<1>. QED BY <1>1, <1>4

LEMMA ExpResult == ExpInv => Exp!ComputesPower
<1>. SUFFICES ASSUME ExpInv, at = "done", cdigits > 0 \/ d > 1
     PROVE  t = Exp!Power(Exp!Value(c, cdigits))
  BY DEF Exp!ComputesPower
<1>1. Arguments /\ Places BY DEF ExpInv
<1>2. cdigits \in Nat /\ b \in Nat /\ d \in Nat /\ d > 0 /\ i = -1 /\ \A k \in 0..cdigits-1 : c[k] \in Nat
  <2>1. Radix \in Nat BY RadixAssumption
  <2>. QED BY <1>1, <2>1 DEF Arguments, Places
<1>3. PICK f : TopDigits(f, c, cdigits) /\ Reached(f) BY DEF ExpInv
<1>4. PICK g : TopDigits(g, c, cdigits) /\ Exp!Value(c, cdigits) = g[cdigits] BY <1>2, ValueFunction
<1>5. f[cdigits] = g[cdigits]
  <2> DEFINE P == {h \in 0..cdigits : f[h] = g[h]}
  <2>1. 0 \in P BY <1>2, <1>3, <1>4 DEF TopDigits
  <2>2. ASSUME NEW h \in 1..cdigits, h - 1 \in P PROVE h \in P BY <1>3, <1>4, <2>2 DEF TopDigits
  <2>3. cdigits \in P
    <3>. HIDE DEF P
    <3>1. \A h \in 0..cdigits : h \in P BY <1>2, <2>1, <2>2, Induction
    <3>. QED BY <1>2, <3>1
  <2>. QED BY <2>3
<1> DEFINE N == f[cdigits]
<1>6. Powered(N)
  <2>1. cdigits - 1 - i = cdigits BY <1>2
  <2>. QED BY <1>3, <2>1 DEF Reached
<1>7. N \in Nat BY <1>2, <1>3 DEF TopDigits
<1>8. cdigits > 0 => N > 0 BY <1>1, <1>2, <1>3, TopPositive DEF Places
<1>9. Exp!Power(Exp!Value(c, cdigits)) = Power(b, N) % d
  <2>1. Exp!Value(c, cdigits) = N BY <1>4, <1>5
  <2>. HIDE DEF N
  <2>2. Exp!Power(N) = Power(b, N) % d BY <1>2, <1>7, b \in Int, PowerModulo
  <2>. QED BY <2>1, <2>2
<1>. HIDE DEF N
<1>10. t < d BY <1>2, <1>6, <1>7, <1>8 DEF Powered
<1>11. t % d = t
  <2>1. t \in 0..d-1 BY <1>2, <1>6, <1>10 DEF Powered
  <2>. QED BY <1>2, <2>1, SmallRemainder
<1>. QED BY <1>6, <1>9, <1>11 DEF Powered

(* The step that Rsa.tla takes is the same power.                             *)
LEMMA SamePower ==
  ASSUME NEW y \in Int, NEW e \in Nat, NEW m \in Nat, m > 1
  PROVE  bn_mod_exp(y, e, m) = Power(y, e) % m
<1>0. m \in Nat /\ m > 0 OBVIOUS
<1>1. PICK f \in [0..e -> 0..m-1] :
        f[0] = 1 /\ (\A k \in 1..e : f[k] = (f[k-1] * y) % m) /\ bn_mod_exp(y, e, m) = f[e]
  BY ModExpFunction
<1> DEFINE P == {h \in 0..e : f[h] = Power(y, h) % m}
<1>2. 0 \in P
  <2>1. 1 % m = 1 BY 1 \in 0..m-1, SmallRemainder
  <2>2. Power(y, 0) = 1 BY PowerStep, 0 \in Nat
  <2>. QED BY <1>1, <2>1, <2>2
<1>3. ASSUME NEW h \in 1..e, h - 1 \in P PROVE h \in P
  <2>1. PICK k : k = h - 1 /\ k \in Nat /\ k + 1 = h OBVIOUS
  <2>2. PICK p : p = Power(y, k) /\ p \in Int /\ Power(y, h) = p * y
    <3>1. Power(y, k) \in Int /\ Power(y, k + 1) = Power(y, k) * y BY <2>1, PowerStep
    <3>. QED BY <2>1, <3>1
  <2>3. PICK v : v = f[k] /\ v \in 0..m-1 /\ v = p % m /\ f[h] = (v * y) % m BY <1>1, <1>3, <2>1, <2>2
  <2>4. v % m = p % m /\ v \in Int
    <3>1. v \in 0..m-1 /\ v \in Int BY <1>0, <2>3
    <3>2. v % m = v BY <1>0, <3>1, SmallRemainder
    <3>. QED BY <2>3, <3>1, <3>2
  <2>5. (v * y) % m = ((v % m) * (y % m)) % m BY <1>0, <2>4, RemainderOfProduct
  <2>6. (p * y) % m = ((p % m) * (y % m)) % m BY <1>0, <2>2, RemainderOfProduct
  <2>7. f[h] = Power(y, h) % m BY <2>2, <2>3, <2>4, <2>5, <2>6
  <2>. QED BY <2>7
<1>4. e \in P
  <2>. HIDE DEF P
  <2>1. \A h \in 0..e : h \in P BY <1>2, <1>3, Induction
  <2>. QED BY <2>1
<1>. QED BY <1>1, <1>4

(* bn_mod_exp computes the power of the numbers, for every size of a digit,   *)
(* length of the exponent and modulus.                                       *)
THEOREM WindowsComputePower == Setting /\ Exp!Spec => []Exp!ComputesPower
<1>1. Setting /\ Exp!Init => ExpInv BY ExpInitial
<1>2. ExpInv /\ [Exp!Next]_(Exp!vars) => ExpInv' BY ExpKept
<1>3. ExpInv => Exp!ComputesPower BY ExpResult
<1>. QED BY <1>1, <1>2, <1>3, PTL DEF Exp!Spec

(* So it is the step that Rsa.tla makes of it.                                *)
THEOREM WindowsAreOneStep ==
  Setting /\ Exp!Spec => [](at = "done" /\ d > 1 => t = bn_mod_exp(b, Exp!Value(c, cdigits), d))
<1>1. Setting /\ Exp!Init => ExpInv BY ExpInitial
<1>2. ExpInv /\ [Exp!Next]_(Exp!vars) => ExpInv' BY ExpKept
<1>3. ASSUME ExpInv, at = "done", d > 1 PROVE t = bn_mod_exp(b, Exp!Value(c, cdigits), d)
  <2>1. t = Exp!Power(Exp!Value(c, cdigits)) BY <1>3, ExpResult DEF Exp!ComputesPower
  <2>2. b \in Nat /\ d \in Nat /\ cdigits \in Nat /\ \A k \in 0..cdigits-1 : c[k] \in Nat
    <3>1. Radix \in Nat BY RadixAssumption
    <3>. QED BY <1>3, <3>1 DEF ExpInv, Arguments
  <2>3. PICK e : e = Exp!Value(c, cdigits) /\ e \in Nat BY <2>2, ValueFunction DEF TopDigits
  <2>4. Exp!Power(e) = Power(b, e) % d BY <1>3, <2>2, <2>3, b \in Int, PowerModulo
  <2>5. bn_mod_exp(b, e, d) = Power(b, e) % d BY <1>3, <2>2, <2>3, b \in Int, SamePower
  <2>. QED BY <2>1, <2>3, <2>4, <2>5
<1>. QED BY <1>1, <1>2, <1>3, PTL DEF Exp!Spec
=============================================================================
